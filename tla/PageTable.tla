------------------------------ MODULE PageTable ------------------------------
(* The page table of a compute node (page_table.h) and the way the buffer     *)
(* manager uses it (leanstore_cache.h, hash_table.h).  One head bucket and    *)
(* its overflow chain are modelled: buckets share nothing, each has its own   *)
(* lock, and every operation except the optimistic get runs under that lock,  *)
(* so an operation is one step.  check_and_remove is two: it looks before it  *)
(* takes the lock.  Definitions named Bad_... are faulty variants of the code *)
(* that the properties must tell from it.                                     *)
EXTENDS Integers, Sequences, FiniteSets

CONSTANTS
  Threads,
  Pages,      \* frames of the buffer pool
  Inners,     \* remote addresses of inner pages of this node's own range
  Shared,     \* remote addresses of inner pages other nodes may change
  Leaves,     \* remote addresses of leaves
  above,      \* the inner page a leaf hangs from
  Width,      \* bits of count_
  Builds,     \* what a node may be compiled and started with: the slots of a
              \* bucket (num_entry_in_page_bucket), whether operations are pushed
              \* down (rpc), the addresses whose hash is this bucket (keys)
  Null, IO_FLAG, NoKey

(* What count_ counts modulo. *)
CountRange == 2^Width

ASSUME PageTableAssumption ==
  /\ Width \in Nat \ {0} /\ CountRange \in Nat /\ \A b \in Builds : b.slots < CountRange
  /\ Builds \subseteq [slots : Nat \ {0}, rpc : BOOLEAN,
                    keys : SUBSET (Inners \cup Shared \cup Leaves)]
  /\ above \in [Leaves -> Inners]
  /\ Null \notin Pages /\ IO_FLAG \notin Pages /\ Null # IO_FLAG
  /\ NoKey \notin Inners \cup Shared \cup Leaves

VARIABLES
  chain,      \* the head bucket and its overflow buckets
  pos_state,  \* where each frame is: "free", "hot" or "cooling"
  address,    \* remote_address of the page in each frame
  pc, node,   \* what each thread is doing, and for which address
  leaf,       \* the leaf an RPC of the thread has changed
  build       \* the configuration this node runs with

vars == <<chain, pos_state, address, pc, node, leaf, build>>

Slots == build.slots
Rpc == build.rpc

Keys == Inners \cup Shared \cup Leaves

Values == Pages \cup {Null, IO_FLAG}
Frame == [page_id : Keys \cup {NoKey}, buffer_page : Values]
EmptyFrame == [page_id |-> NoKey, buffer_page |-> Null]
EmptyBucket == [count |-> 0, frame |-> [i \in 1..Slots |-> EmptyFrame]]

-----------------------------------------------------------------------------
(* The operations on a chain.  A position is a bucket and a slot in it; the   *)
(* code visits positions bucket by bucket.                                    *)

At(c, p) == c[p[1]].frame[p[2]]
Positions(c) == (1..Len(c)) \X (1..Slots)
Before(p, q) == p[1] < q[1] \/ (p[1] = q[1] /\ p[2] <= q[2])
First(S) == CHOOSE p \in S : \A q \in S : Before(p, q)

Live(c, k) == {p \in Positions(c) : At(c, p).page_id = k /\ At(c, p).buffer_page # Null}
Holding(c, k, v) == {p \in Positions(c) : At(c, p) = [page_id |-> k, buffer_page |-> v]}
Free(c) == {p \in Positions(c) : At(c, p).buffer_page = Null}
Named(c, k) == {p \in Positions(c) : At(c, p).page_id = k}

get(c, k) == IF Live(c, k) = {} THEN Null ELSE At(c, First(Live(c, k))).buffer_page

Put(c, p, k, v) == [c EXCEPT ![p[1]].frame[p[2]] = [page_id |-> k, buffer_page |-> v]]

CountUp(c, b) == [c EXCEPT ![b].count = (@ + 1) % CountRange]

Bad_insertLast(c, k, v) ==
  IF Free(c) = {}
  THEN CountUp(Append(c, [EmptyBucket EXCEPT
                            !.frame[1] = [page_id |-> k, buffer_page |-> v]]),
               Len(c) + 1)
  ELSE LET p == CHOOSE p \in Free(c) : \A q \in Free(c) : Before(q, p)
       IN  CountUp(Put(c, p, k, v), p[1])

(* insert of an address that is not in the chain; the caller has looked. *)
insert(c, k, v) ==
  IF Free(c) = {}
  THEN CountUp(Append(c, [EmptyBucket EXCEPT
                            !.frame[1] = [page_id |-> k, buffer_page |-> v]]),
               Len(c) + 1)
  ELSE LET p == First(Free(c)) IN CountUp(Put(c, p, k, v), p[1])

Bad_Unlink(c, b) ==
  IF c[b].count <= 1 /\ b > 1
  THEN SubSeq(c, 1, b - 1) \o SubSeq(c, b + 1, Len(c))
  ELSE c

(* An overflow bucket whose count reaches zero leaves the chain. *)
Unlink(c, b) ==
  IF c[b].count = 0 /\ b > 1
  THEN SubSeq(c, 1, b - 1) \o SubSeq(c, b + 1, Len(c))
  ELSE c

Clear(c, p) ==
  Unlink([c EXCEPT ![p[1]].frame[p[2]].buffer_page = Null,
                   ![p[1]].count = (@ - 1) % CountRange], p[1])

(* remove(key, value): only the frame that still caches the address. *)
removeValue(c, k, v) == IF Holding(c, k, v) = {} THEN c ELSE Clear(c, First(Holding(c, k, v)))

(* remove(key): whatever frame names the address, free ones included. *)
removeKey(c, k) == IF Named(c, k) = {} THEN c ELSE Clear(c, First(Named(c, k)))

update(c, k, v) == IF Live(c, k) = {} THEN c ELSE Put(c, First(Live(c, k)), k, v)

(* upsert puts the page where the address is, or in the first free frame. *)
upsert(c, k, v) == IF Live(c, k) # {} THEN update(c, k, v) ELSE insert(c, k, v)

-----------------------------------------------------------------------------
(* The buffer manager. *)

Init ==
  /\ build \in Builds
  /\ chain = <<EmptyBucket>>
  /\ pos_state = [p \in Pages |-> "free"]
  /\ address = [p \in Pages |-> NoKey]
  /\ pc = [t \in Threads |-> "idle"]
  /\ node = [t \in Threads |-> NoKey]
  /\ leaf = [t \in Threads |-> NoKey]

Hot(k) == \E p \in Pages : address[p] = k /\ pos_state[p] = "hot"

(* A thread comes to a leaf from its parent, which it finds hot and keeps     *)
(* IO-locked while it loads the leaf.                                         *)
Reachable(k) == k \in Leaves => Hot(above[k])

(* bitmap # 0, or the lock of the page is taken by a thread loading a child. *)
HasHotChild(p) ==
  \E l \in Leaves :
    /\ above[l] = address[p]
    /\ Hot(l) \/ \E t \in Threads : node[t] = l

Finish(t) ==
  /\ pc' = [pc EXCEPT ![t] = "idle"]
  /\ node' = [node EXCEPT ![t] = NoKey]
  /\ leaf' = [leaf EXCEPT ![t] = NoKey]

(* cache_get on an address the table does not know: the thread leaves its     *)
(* mark and goes on to load the page.                                         *)
cache_get(t, k) ==
  /\ pc[t] = "idle"
  /\ Reachable(k)
  /\ get(chain, k) = Null
  /\ chain' = insert(chain, k, IO_FLAG)
  /\ pc' = [pc EXCEPT ![t] = "io"]
  /\ node' = [node EXCEPT ![t] = k]
  /\ UNCHANGED <<pos_state, address, leaf>>

(* cache_get on a page in the cooling table: get_exclusive_node takes it back.*)
promote(t, k) ==
  /\ pc[t] = "idle"
  /\ Reachable(k)
  /\ get(chain, k) \in Pages
  /\ pos_state[get(chain, k)] = "cooling"
  /\ pos_state' = [pos_state EXCEPT ![get(chain, k)] = "hot"]
  /\ UNCHANGED <<chain, address, pc, node, leaf>>

(* cache_get on a shared page whose remote version has moved on: the entry    *)
(* goes, the frame stays hot until it is sampled.                             *)
dropOutdated(t, k) ==
  /\ pc[t] = "idle"
  /\ k \in Shared
  /\ get(chain, k) \in Pages
  /\ chain' = removeValue(chain, k, get(chain, k))
  /\ pos_state' = [pos_state EXCEPT ![get(chain, k)] = "hot"]
  /\ UNCHANGED <<address, pc, node, leaf>>

(* cold_to_hot: the page has been read into an empty frame. *)
cold_to_hot(t, p) ==
  /\ pc[t] = "io"
  /\ pos_state[p] = "free"
  /\ chain' = update(chain, node[t], p)
  /\ pos_state' = [pos_state EXCEPT ![p] = "hot"]
  /\ address' = [address EXCEPT ![p] = node[t]]
  /\ Finish(t)

(* No empty frame, a failed read or a range that does not fit the parent;     *)
(* also the end of an operation done remotely (admission, RPC): the mark goes.*)
dropFlag(t) ==
  /\ pc[t] \in {"io", "flag"}
  /\ chain' = removeValue(chain, node[t], IO_FLAG)
  /\ Finish(t)
  /\ UNCHANGED <<pos_state, address>>

(* cold_to_hot_with_rpc: the memory node has changed leaf l below the page    *)
(* the thread missed.                                                         *)
rpc(t, l) ==
  /\ Rpc
  /\ pc[t] = "io"
  /\ node[t] = above[l]
  /\ pc' = [pc EXCEPT ![t] = "rpc"]
  /\ leaf' = [leaf EXCEPT ![t] = l]
  /\ UNCHANGED <<chain, pos_state, address, node>>

(* check_and_remove, before it takes the lock. *)
check(t) ==
  /\ pc[t] = "rpc"
  /\ pc' = [pc EXCEPT ![t] = IF get(chain, leaf[t]) = Null THEN "flag" ELSE "remove"]
  /\ UNCHANGED <<chain, pos_state, address, node, leaf>>

(* check_and_remove, under the lock. *)
checkedRemove(t) ==
  /\ pc[t] = "remove"
  /\ chain' = removeKey(chain, leaf[t])
  /\ pc' = [pc EXCEPT ![t] = "flag"]
  /\ UNCHANGED <<pos_state, address, node, leaf>>

(* sample_page: a hot page without hot children goes to the cooling table. *)
sample_page(p) ==
  /\ pos_state[p] = "hot"
  /\ ~HasHotChild(p)
  /\ pos_state' = [pos_state EXCEPT ![p] = "cooling"]
  /\ UNCHANGED <<chain, address, pc, node, leaf>>

(* hash_table::insert into a full bucket, or random_evict_to_remote. *)
evict(p) ==
  /\ pos_state[p] = "cooling"
  /\ pos_state' = [pos_state EXCEPT ![p] = "free"]
  /\ address' = [address EXCEPT ![p] = NoKey]
  /\ chain' = removeValue(chain, address[p], p)
  /\ UNCHANGED <<pc, node, leaf>>

(* updatest_replace: a newer copy of a shared page, in frame q, takes the     *)
(* place of the hot frame p; the entry may be gone already.                   *)
updatest_replace(p, q) ==
  /\ pos_state[p] = "hot"
  /\ address[p] \in Shared
  /\ pos_state[q] = "free"
  /\ get(chain, address[p]) \in {Null, p}
  /\ chain' = upsert(chain, address[p], q)
  /\ pos_state' = [pos_state EXCEPT ![q] = "hot"]
  /\ address' = [address EXCEPT ![q] = address[p]]
  /\ UNCHANGED <<pc, node, leaf>>

Step ==
  \/ \E t \in Threads, k \in build.keys : cache_get(t, k) \/ promote(t, k) \/ dropOutdated(t, k)
  \/ \E t \in Threads, p \in Pages : cold_to_hot(t, p)
  \/ \E t \in Threads, l \in Leaves : rpc(t, l)
  \/ \E t \in Threads : dropFlag(t) \/ check(t) \/ checkedRemove(t)
  \/ \E p \in Pages : sample_page(p) \/ evict(p)
  \/ \E p, q \in Pages : updatest_replace(p, q)

Next == Step /\ UNCHANGED build

Spec == Init /\ [][Next]_vars

-----------------------------------------------------------------------------
(* Properties. *)

(* Every variable has its type, count_ included: it stays in its Width bits. *)
TypeOK ==
  /\ build \in Builds
  /\ chain \in Seq([count : 0..(CountRange - 1), frame : [1..Slots -> Frame]])
  /\ pos_state \in [Pages -> {"free", "hot", "cooling"}]
  /\ address \in [Pages -> Keys \cup {NoKey}]
  /\ pc \in [Threads -> {"idle", "io", "rpc", "remove", "flag"}]
  /\ node \in [Threads -> Keys \cup {NoKey}]
  /\ leaf \in [Threads -> Leaves \cup {NoKey}]

(* count_ is the number of frames in use of its bucket: it decides when an    *)
(* overflow bucket is freed (page_table.h:218, 249).                          *)
CountIsExact ==
  \A b \in 1..Len(chain) :
    chain[b].count = Cardinality({i \in 1..Slots : chain[b].frame[i].buffer_page # Null})

(* No address has two live frames, and a live frame comes before every stale  *)
(* one of its address: so remove(key), which does not look at buffer_page_,   *)
(* hits the live frame when there is one.                                     *)
LiveComesFirst ==
  \A k \in Keys : Live(chain, k) # {} =>
    /\ Cardinality(Live(chain, k)) = 1
    /\ First(Named(chain, k)) \in Live(chain, k)

(* The table never leads to a frame that was given away: an entry names a     *)
(* frame that is in use and caches that very address.                         *)
EntryIsResident ==
  \A k \in Keys : get(chain, k) \in Pages =>
    address[get(chain, k)] = k /\ pos_state[get(chain, k)] # "free"

(* The mark of a loading thread stays until that thread takes it away: the    *)
(* asserts on the results of update_with_lock and remove_with_lock in         *)
(* cold_to_hot and its variants (leanstore_cache.h:573, 694, 785, 786, 790).  *)
IoFlagIsKept ==
  \A t \in Threads : pc[t] # "idle" =>
    /\ get(chain, node[t]) = IO_FLAG
    /\ \A u \in Threads : u # t => node[u] # node[t]

(* The chain of buckets is sound: an entry leads to the frame that caches its *)
(* address, no stale frame hides it, the mark of a load is kept, and without  *)
(* pushdown count_, by which remove frees overflow buckets, is exact; with    *)
(* pushdown, where it drifts, it at least never leaves its range              *)
(* (page_table.h:208-261).                                                    *)
TableIsSound ==
  /\ TypeOK
  /\ LiveComesFirst
  /\ EntryIsResident
  /\ IoFlagIsKept
  /\ ~Rpc => CountIsExact

Map == INSTANCE PageMap WITH dir <- [k \in Keys |-> get(chain, k)]

(* The chain of buckets behaves as a map that changes one address at a time:  *)
(* freeing a bucket, or counting a frame out twice, never takes the entry of  *)
(* another address along (page_table.h:217-221).                              *)
ImplementsPageMap == Map!Spec
=============================================================================
