----------------------------- MODULE BufferPool -----------------------------
(* The buffer manager of one compute node (leanstore_cache.h, hash_table.h,   *)
(* cache_allocator.h) under lookups and updates (leanstore_tree.h).           *)
(*                                                                            *)
(* The tree below a hot page Root of this node's own range is fixed: Root,    *)
(* one level of inner pages, leaves.  Root stands for the hot path above and  *)
(* is never sampled.  A leaf carries one value.  Page latches are those of    *)
(* OptLock; here a version is kept as whether it is still good: a write latch *)
(* spoils the versions others have read.  Sections under the lock of a        *)
(* cooling bucket or of a page-table bucket are one step each; a failed       *)
(* try-lock on such a bucket is a restart, which the model may always take.   *)
(* Definitions named Bad_... are faulty variants of the code that the         *)
(* properties must tell from it.                                              *)
EXTENDS Integers, FiniteSets, Sequences, Functions

CONSTANTS
  Threads, Frames, Inners, Leaves, Values, InitValue,
  Updated,   \* the leaves that clients update
  above,     \* the inner page a leaf hangs from
  Buckets,   \* of the cooling table
  hash,      \* the bucket of a page
  CoolSize,  \* entries of a bucket
  NumSample, \* num_pages_to_sample
  Rpc,       \* pushdown to the memory node
  Admission, \* operations on leaves that are not admitted to the cache
  Root, Null, IO_FLAG, Torn

ASSUME BufferPoolAssumption ==
  /\ above \in [Leaves -> Inners] /\ Updated \subseteq Leaves
  /\ hash \in [Inners \cup Leaves -> Buckets]
  /\ InitValue \in Values /\ Torn \notin Values
  /\ CoolSize \in Nat \ {0} /\ NumSample \in Nat \ {0}
  /\ Rpc \in BOOLEAN /\ Admission \in BOOLEAN
  /\ Inners \cap Leaves = {} /\ Null \notin Inners \cup Leaves
  /\ Root \notin Frames /\ Null \notin Frames \cup {Root} /\ IO_FLAG \notin Frames
  /\ Null # IO_FLAG

VARIABLES
  lock,       \* latch of each frame: "free", "IO", "write"
  page,       \* the tree page in each frame
  pos_state,  \* "raw" (never used), "remote" (0), "cool" (1), "hot" (2), "local" (3)
  dirty, content,
  children,   \* swizzled children of each frame
  parent_ptr,
  table,      \* page table
  cooling,    \* cooling buckets, newest page first
  local,      \* local_page_set of each thread
  remote,     \* leaves in remote memory
  current,    \* the value the last finished write gave each leaf
  \* of each thread: where it is, what follows the sampling and how many pages
  \* are left to sample, the operation, its leaf and value, the page it is at,
  \* its parent, the versions it has read, a frame being filled, a page being cooled
  pc, ret, todo, op, goal, val, cur, par, seen, frame, victim

frameVars == <<lock, page, pos_state, dirty, content, children, parent_ptr>>
poolVars == <<table, cooling, local>>
threadVars == <<pc, ret, todo, op, goal, val, cur, par, seen, frame, victim>>
vars == <<frameVars, poolVars, remote, current, threadVars>>

Pages == Inners \cup Leaves
AllFrames == Frames \cup {Root}
Versions == {"none", "io", "plain"}

PosStates == {"raw", "remote", "cool", "hot", "local"}
PCs == {"idle", "descend", "sample", "sample_parent", "sample_write", "sample_insert",
        "lock", "cache_get", "empty", "retry_empty", "read", "swizzle",
        "remote_read", "remote_write", "rpc", "invalidate", "drop_flag", "fail", "exited"}

(* The child of frame f on the way to leaf l. *)
Next_page(f, l) == IF f = Root THEN above[l] ELSE l

Init ==
  /\ lock = [f \in AllFrames |-> "free"]
  /\ page = [f \in Frames |-> Null]
  /\ pos_state = [f \in Frames |-> "raw"]
  /\ dirty = [f \in Frames |-> FALSE]
  /\ content = [f \in Frames |-> Null]
  /\ children = [f \in AllFrames |-> [c \in Pages |-> Null]]
  /\ parent_ptr = [f \in Frames |-> Null]
  /\ table = [c \in Pages |-> Null]
  /\ cooling = [b \in Buckets |-> <<>>]
  /\ local = [t \in Threads |-> {}]
  /\ ret = [t \in Threads |-> "lock"]
  /\ todo = [t \in Threads |-> 0]
  /\ op = [t \in Threads |-> "lookup"]
  /\ goal = [t \in Threads |-> Null]
  /\ val = [t \in Threads |-> InitValue]
  /\ cur = [t \in Threads |-> Root]
  /\ par = [t \in Threads |-> Null]
  /\ seen = [t \in Threads |-> [f \in AllFrames |-> "none"]]
  /\ frame = [t \in Threads |-> Null]
  /\ victim = [t \in Threads |-> Null]
  /\ pc = [t \in Threads |-> "idle"]
  /\ remote = [l \in Leaves |-> InitValue]
  /\ current = [l \in Leaves |-> InitValue]

-----------------------------------------------------------------------------
(* Latches, and the versions the threads have read. *)

(* State 1 of the pool: the allocator has given out its last page. *)
Dynamic == \A f \in Frames : pos_state[f] # "raw"

Swizzled(f) == {c \in Pages : children[f][c] # Null}

Go(t, where) == pc' = [pc EXCEPT ![t] = where]

(* Write-latching the frames F makes every version of them worthless. *)
Spoil(F) ==
  [u \in Threads |-> [f \in AllFrames |-> IF f \in F THEN "none" ELSE seen[u][f]]]

Good(t, f) == f \in AllFrames => seen[t][f] # "none"

(* readLockOrRestart *)
Read(f) == CASE lock[f] = "write" -> "none" [] lock[f] = "IO" -> "io" [] lock[f] = "free" -> "plain"

OnlyRoot(v) == [f \in AllFrames |-> IF f = Root THEN v ELSE "none"]

(* goto restart: the operation starts again from the root. *)
Again(t, s) ==
  /\ Go(t, "descend")
  /\ cur' = [cur EXCEPT ![t] = Root]
  /\ par' = [par EXCEPT ![t] = Null]
  /\ seen' = [s EXCEPT ![t] = OnlyRoot(Read(Root))]

(* The operation returns. *)
Return(t, s) ==
  /\ Go(t, "idle")
  /\ op' = [op EXCEPT ![t] = "lookup"]
  /\ val' = [val EXCEPT ![t] = InitValue]
  /\ goal' = [goal EXCEPT ![t] = Null]
  /\ cur' = [cur EXCEPT ![t] = Root]
  /\ par' = [par EXCEPT ![t] = Null]
  /\ seen' = [s EXCEPT ![t] = OnlyRoot("none")]

(* On to the child g of f, its version read. *)
Into(t, f, g, version) ==
  /\ Go(t, "descend")
  /\ par' = [par EXCEPT ![t] = f]
  /\ cur' = [cur EXCEPT ![t] = g]
  /\ seen' = [seen EXCEPT ![t] = [h \in AllFrames |->
       IF h = g THEN version ELSE IF h = f THEN seen[t][f] ELSE "none"]]

-----------------------------------------------------------------------------
(* The tree operations. *)

AtInner(t) == \A f \in Frames : cur[t] = f => page[f] \in Inners

(* The child of the page a thread is at, on the way to its leaf. *)
Missing(t) == Next_page(cur[t], goal[t])

begin(t, o, l, v) ==
  /\ pc[t] = "idle"
  /\ op' = [op EXCEPT ![t] = o]
  /\ goal' = [goal EXCEPT ![t] = l]
  /\ val' = [val EXCEPT ![t] = v]
  /\ Again(t, seen)
  /\ UNCHANGED <<frameVars, poolVars, remote, current, ret, todo, frame, victim>>

(* A failed validation or latch while nothing is held. *)
restart(t) ==
  LET f == cur[t] IN
  /\ \/ /\ pc[t] = "descend"
        /\ \/ ~Good(t, f) \/ ~Good(t, par[t])
           \/ AtInner(t) /\ \E g \in Frames : children[f][Missing(t)] = g /\ lock[g] = "write"
           \/ ~AtInner(t) /\ op[t] = "update" /\ (seen[t][f] = "io" \/ lock[f] # "free")
     \/ pc[t] = "lock" /\ (seen[t][f] # "plain" \/ lock[f] # "free")
  /\ lock[Root] # "write"
  /\ Again(t, seen)
  /\ UNCHANGED <<frameVars, poolVars, remote, current, ret, todo, op, goal, val, frame, victim>>

(* A swizzled child: its version is read, then its parent is validated. *)
descend(t) ==
  LET f == cur[t]
      g == children[f][Missing(t)]
  IN  /\ pc[t] = "descend" /\ AtInner(t)
      /\ Good(t, par[t]) /\ Good(t, f)
      /\ g # Null
      /\ lock[g] # "write"
      /\ Into(t, f, g, Read(g))
      /\ UNCHANGED <<frameVars, poolVars, remote, current, ret, todo, op, goal, val, frame, victim>>

(* A child that is not swizzled: opportunistic_sample, then the parent's latch. *)
new_get_mem_node(t) ==
  /\ pc[t] = "descend" /\ AtInner(t)
  /\ Good(t, par[t]) /\ Good(t, cur[t])
  /\ children[cur[t]][Missing(t)] = Null
  /\ IF Dynamic /\ local[t] = {}
     THEN /\ Go(t, "sample")
          /\ ret' = [ret EXCEPT ![t] = "lock"]
          /\ todo' = [todo EXCEPT ![t] = NumSample]
     ELSE Go(t, "lock") /\ UNCHANGED <<ret, todo>>
  /\ UNCHANGED <<frameVars, poolVars, remote, current, op, goal, val, cur, par, seen, frame, victim>>

(* upgradeToIOLockOrRestart, then a second look at the child's pointer. *)
upgradeToIOLock(t) ==
  LET f == cur[t]
      g == children[f][Missing(t)]
  IN  /\ pc[t] = "lock"
      /\ seen[t][f] = "plain" /\ lock[f] = "free"
      /\ \/ /\ g = Null
            /\ Go(t, "cache_get")
            /\ lock' = [lock EXCEPT ![f] = "IO"]
            /\ UNCHANGED <<par, cur, seen>>
         \/ /\ g # Null
            /\ Into(t, f, g, Read(g))
            /\ UNCHANGED lock
      /\ UNCHANGED <<page, pos_state, dirty, content, children, parent_ptr, poolVars, remote, current,
                     ret, todo, op, goal, val, frame, victim>>

(* A lookup reads the leaf, then validates the parent and the leaf. *)
lookup(t) ==
  LET g == cur[t] IN
  /\ pc[t] = "descend" /\ op[t] = "lookup" /\ ~AtInner(t)
  /\ Good(t, g) /\ Good(t, par[t])
  /\ Return(t, seen)
  /\ UNCHANGED <<frameVars, poolVars, remote, current, ret, todo, frame, victim>>

(* An update upgrades the leaf, validates the parent, writes and unlatches. *)
update(t) ==
  LET g == cur[t] IN
  /\ pc[t] = "descend" /\ op[t] = "update" /\ ~AtInner(t)
  /\ seen[t][g] = "plain" /\ lock[g] = "free" /\ Good(t, par[t])
  /\ content' = [content EXCEPT ![g] = val[t]]
  /\ dirty' = [dirty EXCEPT ![g] = TRUE]
  /\ current' = [current EXCEPT ![goal[t]] = val[t]]
  /\ Return(t, Spoil({g}))
  /\ UNCHANGED <<lock, page, pos_state, children, parent_ptr, poolVars, remote,
                 ret, todo, frame, victim>>

-----------------------------------------------------------------------------
(* sample_page: HOT => COOLING.  A page without a parent and a parent that    *)
(* changes under the latch come from splits and do not occur here.            *)

(* recursive_iterate: latches a hot page that has no swizzled child. *)
sample_page(t, v) ==
  /\ pc[t] = "sample"
  /\ pos_state[v] = "hot" /\ lock[v] = "free" /\ Swizzled(v) = {}
  /\ lock' = [lock EXCEPT ![v] = "write"]
  /\ seen' = Spoil({v})
  /\ victim' = [victim EXCEPT ![t] = v]
  /\ Go(t, "sample_parent")
  /\ UNCHANGED <<page, pos_state, dirty, content, children, parent_ptr, poolVars, remote, current,
                 ret, todo, op, goal, val, cur, par, frame>>

(* The parent cannot be latched: the page is let go and another one is tried. *)
sample_next(t) ==
  LET v == victim[t] IN
  /\ pc[t] = "sample_parent"
  /\ lock[parent_ptr[v]] # "free"
  /\ lock' = [lock EXCEPT ![v] = "free"]
  /\ victim' = [victim EXCEPT ![t] = Null]
  /\ Go(t, "sample")
  /\ UNCHANGED <<page, pos_state, dirty, content, children, parent_ptr, poolVars, remote, current,
                 ret, todo, op, goal, val, cur, par, seen, frame>>

(* A sampler that cools a dirty page without writing it. *)
Bad_unswizzle(t) ==
  LET v == victim[t]
      p == parent_ptr[v]
  IN  /\ pc[t] = "sample_parent"
      /\ lock[p] = "free"
      /\ lock' = [lock EXCEPT ![p] = "write"]
      /\ seen' = Spoil({p})
      /\ par' = [par EXCEPT ![t] = p]
      /\ children' = [children EXCEPT ![p][page[v]] = Null]
      /\ parent_ptr' = [parent_ptr EXCEPT ![v] = Null]
      /\ Go(t, "sample_insert")
      /\ UNCHANGED <<page, pos_state, dirty, content, poolVars, remote, current, ret, todo, op, goal, val,
                     cur, frame, victim>>

(* The parent is latched and the page is unswizzled; a dirty page is written  *)
(* to remote memory, where it is torn until the write ends.                   *)
unswizzle(t) ==
  LET v == victim[t]
      p == parent_ptr[v]
  IN  /\ pc[t] = "sample_parent"
      /\ lock[p] = "free"
      /\ lock' = [lock EXCEPT ![p] = "write"]
      /\ seen' = Spoil({p})
      /\ par' = [par EXCEPT ![t] = p]
      /\ children' = [children EXCEPT ![p][page[v]] = Null]
      /\ parent_ptr' = [parent_ptr EXCEPT ![v] = Null]
      /\ dirty' = [dirty EXCEPT ![v] = FALSE]
      /\ IF dirty[v]
         THEN Go(t, "sample_write") /\ remote' = [remote EXCEPT ![page[v]] = Torn]
         ELSE Go(t, "sample_insert") /\ remote' = remote
      /\ UNCHANGED <<page, pos_state, content, poolVars, current, ret, todo, op, goal, val, cur, frame, victim>>

sample_write(t) ==
  LET v == victim[t] IN
  /\ pc[t] = "sample_write"
  /\ remote' = [remote EXCEPT ![page[v]] = content[v]]
  /\ Go(t, "sample_insert")
  /\ UNCHANGED <<frameVars, poolVars, current, ret, todo, op, goal, val, cur, par, seen, frame, victim>>

(* remove_with_lock(address, page): only the entry of this very frame goes. *)
Uncache(f) == [c \in Pages |-> IF table[c] = f THEN Null ELSE table[c]]

(* A frame out of the page table is overwritten before it is read again: its *)
(* old page is forgotten.                                                     *)
Forget(F) ==
  /\ page' = [f \in Frames |-> IF f \in F THEN Null ELSE page[f]]
  /\ content' = [f \in Frames |-> IF f \in F THEN Null ELSE content[f]]

(* bucket::remove: the entries behind slot i move up. *)
remove(s, i) == SubSeq(s, 1, i - 1) \o SubSeq(s, i + 1, Len(s))

(* bucket::evict_last takes the last, oldest entry. *)
evict_last(b) == cooling[b][Len(cooling[b])]

(* hash_table::insert: the oldest page of a full bucket leaves the page table *)
(* for the local set; then the parent's latch is dropped.                     *)
hash_insert(t) ==
  LET v == victim[t]
      b == hash[page[v]]
      full == Len(cooling[b]) = CoolSize
      last == evict_last(b)
  IN  /\ pc[t] = "sample_insert"
      /\ cooling' = [cooling EXCEPT ![b] = <<v>> \o (IF full THEN remove(@, CoolSize) ELSE @)]
      /\ table' = IF full THEN Uncache(last) ELSE table
      /\ local' = IF full THEN [local EXCEPT ![t] = @ \cup {last}] ELSE local
      /\ pos_state' = [f \in Frames |-> IF f = v THEN "cool"
                                        ELSE IF full /\ f = last THEN "local" ELSE pos_state[f]]
      /\ Forget(IF full THEN {last} ELSE {})
      /\ lock' = [lock EXCEPT ![par[t]] = "free"]
      /\ par' = [par EXCEPT ![t] = Null]
      /\ victim' = [victim EXCEPT ![t] = Null]
      /\ todo' = [todo EXCEPT ![t] = @ - 1]
      /\ Go(t, IF todo[t] = 1 THEN ret[t] ELSE "sample")
      /\ ret' = IF todo[t] = 1 THEN [ret EXCEPT ![t] = "lock"] ELSE ret
      /\ UNCHANGED <<dirty, children, parent_ptr, remote, current, op, goal, val, cur, seen, frame>>

-----------------------------------------------------------------------------
(* cache_get and the ways to serve a page that is not cached.  From here on   *)
(* the thread holds the IO latch of cur.                                      *)

Unlatch(t) == [lock EXCEPT ![cur[t]] = "free"]

(* The page table has nothing: the thread owns the load of the page.  A level *)
(* above the leaves may be pushed down, a leaf may be kept out of the cache.  *)
insert_io_flag(t) ==
  /\ pc[t] = "cache_get"
  /\ table[Missing(t)] = Null
  /\ table' = [table EXCEPT ![Missing(t)] = IO_FLAG]
  /\ \/ Go(t, "empty")
     \/ Dynamic /\ Rpc /\ cur[t] = Root /\ Go(t, "rpc")
     \/ Dynamic /\ Admission /\ cur[t] # Root /\ Go(t, "remote_read")
  /\ UNCHANGED <<frameVars, cooling, local, remote, current, ret, todo, op, goal, val, cur, par, seen, frame, victim>>

(* Another thread loads the page, or a bucket is locked. *)
cache_get_restart(t) ==
  /\ pc[t] = "cache_get"
  /\ lock' = Unlatch(t)
  /\ Again(t, seen)
  /\ UNCHANGED <<page, pos_state, dirty, content, children, parent_ptr, poolVars, remote, current,
                 ret, todo, op, goal, val, frame, victim>>

(* Hangs frame g under cur and unlatches both. *)
Swizzle(t, g) ==
  /\ children' = [children EXCEPT ![cur[t]][Missing(t)] = g]
  /\ parent_ptr' = [parent_ptr EXCEPT ![g] = cur[t]]
  /\ pos_state' = [pos_state EXCEPT ![g] = "hot"]
  /\ lock' = [lock EXCEPT ![g] = "free", ![cur[t]] = "free"]
  /\ Into(t, cur[t], g, "plain")

(* Cool => hot: try_promote_using_value (match_value, then remove), and the   *)
(* swizzling.                                                                 *)
promote(t) ==
  LET g == table[Missing(t)]
      b == hash[Missing(t)]
  IN
  /\ pc[t] = "cache_get"
  /\ g \in Frames
  /\ pos_state[g] = "cool"
  /\ \E i \in 1..Len(cooling[b]) :
       cooling[b][i] = g /\ cooling' = [cooling EXCEPT ![b] = remove(@, i)]
  /\ Swizzle(t, g)
  /\ UNCHANGED <<page, dirty, content, table, local, remote, current, ret, todo, op, goal, val, frame, victim>>

Hold(t, f, where) ==
  /\ frame' = [frame EXCEPT ![t] = f]
  /\ lock' = [lock EXCEPT ![f] = "write"]
  /\ Go(t, where)

(* try_get_empty_page: a new page, or one of the local set. *)
allocate(t, f) ==
  /\ pc[t] = "empty" /\ pos_state[f] = "raw"
  /\ Hold(t, f, "read")
  /\ pos_state' = [pos_state EXCEPT ![f] = "remote"]
  /\ UNCHANGED <<page, dirty, content, children, parent_ptr, poolVars, remote, current,
                 ret, todo, op, goal, val, cur, par, seen, victim>>

get_local_page_set(t, f) ==
  /\ pc[t] \in {"empty", "retry_empty"} /\ Dynamic
  /\ f \in local[t]
  /\ local' = [local EXCEPT ![t] = @ \ {f}]
  /\ Hold(t, f, "read")
  /\ UNCHANGED <<page, pos_state, dirty, content, children, parent_ptr, table, cooling, remote, current,
                 ret, todo, op, goal, val, cur, par, seen, victim>>

(* random_evict_to_remote finds a page in the buckets it probes. *)
evict(t, b) ==
  /\ pc[t] = "empty" /\ Dynamic /\ local[t] = {}
  /\ cooling[b] # <<>>
  /\ cooling' = [cooling EXCEPT ![b] = remove(@, Len(@))]
  /\ table' = Uncache(evict_last(b))
  /\ Hold(t, evict_last(b), "read")
  /\ Forget({evict_last(b)})
  /\ UNCHANGED <<pos_state, dirty, children, parent_ptr, local, remote, current,
                 ret, todo, op, goal, val, cur, par, seen, victim>>

(* ... or none, all empty or locked: pages are sampled. *)
evict_nothing(t) ==
  /\ pc[t] = "empty" /\ Dynamic /\ local[t] = {}
  /\ ret' = [ret EXCEPT ![t] = "retry_empty"]
  /\ todo' = [todo EXCEPT ![t] = NumSample]
  /\ Go(t, "sample")
  /\ UNCHANGED <<frameVars, poolVars, remote, current, op, goal, val, cur, par, seen, frame, victim>>

(* Still no page: the load is given up. *)
no_page(t) ==
  /\ pc[t] = "retry_empty" /\ local[t] = {}
  /\ Go(t, "fail")
  /\ UNCHANGED <<frameVars, poolVars, remote, current, ret, todo, op, goal, val, cur, par, seen, frame, victim>>

(* A failed load that keeps the parent's latch. *)
Bad_cold_to_hot_fail(t) ==
  /\ pc[t] = "fail"
  /\ table' = [table EXCEPT ![Missing(t)] = Null]
  /\ Again(t, seen)
  /\ UNCHANGED <<frameVars, cooling, local, remote, current, ret, todo, op, goal, val, frame, victim>>

cold_to_hot_fail(t) ==
  /\ pc[t] = "fail"
  /\ table' = [table EXCEPT ![Missing(t)] = Null]
  /\ lock' = Unlatch(t)
  /\ Again(t, seen)
  /\ UNCHANGED <<page, pos_state, dirty, content, children, parent_ptr, cooling, local, remote, current,
                 ret, todo, op, goal, val, frame, victim>>

(* remote_to_cache *)
remote_to_cache(t) ==
  LET f == frame[t]
      c == Missing(t)
  IN  /\ pc[t] = "read"
      /\ page' = [page EXCEPT ![f] = c]
      /\ content' = [content EXCEPT ![f] = IF c \in Leaves THEN remote[c] ELSE Null]
      /\ dirty' = [dirty EXCEPT ![f] = FALSE]
      /\ children' = [children EXCEPT ![f] = [d \in Pages |-> Null]]
      /\ parent_ptr' = [parent_ptr EXCEPT ![f] = Null]
      /\ pos_state' = [pos_state EXCEPT ![f] = "remote"]
      /\ Go(t, "swizzle")
      /\ UNCHANGED <<lock, poolVars, remote, current, ret, todo, op, goal, val, cur, par, seen, frame, victim>>

(* The end of cold_to_hot, new_swizzling and the two unlatchings. *)
cold_to_hot(t) ==
  /\ pc[t] = "swizzle"
  /\ table' = [table EXCEPT ![Missing(t)] = frame[t]]
  /\ Swizzle(t, frame[t])
  /\ frame' = [frame EXCEPT ![t] = Null]
  /\ UNCHANGED <<page, dirty, content, cooling, local, remote, current, ret, todo, op, goal, val, victim>>

-----------------------------------------------------------------------------
(* Leaves that are not admitted, and pushdown. *)

(* cold_to_hot_with_admission: the leaf is read; an update writes it back. *)
admission_read(t) ==
  /\ pc[t] = "remote_read"
  /\ IF op[t] = "lookup"
     THEN val' = [val EXCEPT ![t] = remote[goal[t]]] /\ Go(t, "drop_flag") /\ remote' = remote
     ELSE val' = val /\ Go(t, "remote_write") /\ remote' = [remote EXCEPT ![goal[t]] = Torn]
  /\ UNCHANGED <<frameVars, poolVars, current, ret, todo, op, goal, cur, par, seen, frame, victim>>

admission_write(t) ==
  /\ pc[t] = "remote_write"
  /\ remote' = [remote EXCEPT ![goal[t]] = val[t]]
  /\ current' = [current EXCEPT ![goal[t]] = val[t]]
  /\ Go(t, "drop_flag")
  /\ UNCHANGED <<frameVars, poolVars, ret, todo, op, goal, val, cur, par, seen, frame, victim>>

(* cold_to_hot_with_rpc: the memory node works on its copy of the leaf. *)
rpc(t) ==
  /\ pc[t] = "rpc"
  /\ IF op[t] = "lookup"
     THEN val' = [val EXCEPT ![t] = remote[goal[t]]] /\ Go(t, "drop_flag") /\ UNCHANGED <<remote, current>>
     ELSE /\ remote' = [remote EXCEPT ![goal[t]] = val[t]]
          /\ current' = [current EXCEPT ![goal[t]] = val[t]]
          /\ Go(t, "invalidate") /\ val' = val
  /\ UNCHANGED <<frameVars, poolVars, ret, todo, op, goal, cur, par, seen, frame, victim>>

Bad_check_and_remove(t) ==
  /\ pc[t] = "invalidate"
  /\ Go(t, "drop_flag")
  /\ UNCHANGED <<frameVars, poolVars, remote, current, ret, todo, op, goal, val, cur, par, seen, frame, victim>>

(* check_and_remove: the leaf that was written leaves the page table. *)
check_and_remove(t) ==
  /\ pc[t] = "invalidate"
  /\ table' = [table EXCEPT ![goal[t]] = Null]
  /\ Go(t, "drop_flag")
  /\ UNCHANGED <<frameVars, cooling, local, remote, current, ret, todo, op, goal, val, cur, par, seen, frame, victim>>

(* The IO flag is removed, the parent unlatched and the operation returns. *)
drop_flag(t) ==
  /\ pc[t] = "drop_flag"
  /\ table' = [table EXCEPT ![Missing(t)] = Null]
  /\ lock' = Unlatch(t)
  /\ Return(t, seen)
  /\ UNCHANGED <<page, pos_state, dirty, content, children, parent_ptr, cooling, local, remote, current,
                 ret, todo, frame, victim>>

-----------------------------------------------------------------------------
(* Between two runs of the workload, when the threads have ended and their    *)
(* thread-local sets with them, the pool is flushed and emptied.              *)

(* The dirty pages are written to remote memory. *)
flush_all ==
  remote' = [l \in Leaves |->
    LET fs == {f \in Frames : page[f] = l /\ dirty[f]}
    IN  IF fs = {} THEN remote[l] ELSE content[CHOOSE f \in fs : TRUE]]

(* cache_allocator::reset: the frames are those of a new pool. *)
allocator_reset ==
  /\ lock' = [f \in AllFrames |-> "free"]
  /\ page' = [f \in Frames |-> Null]
  /\ pos_state' = [f \in Frames |-> "raw"]
  /\ dirty' = [f \in Frames |-> FALSE]
  /\ content' = [f \in Frames |-> Null]
  /\ children' = [f \in AllFrames |-> [c \in Pages |-> Null]]
  /\ parent_ptr' = [f \in Frames |-> Null]

hash_table_reset == cooling' = [b \in Buckets |-> <<>>]

page_table_reset == table' = [c \in Pages |-> Null]

EmptyPool ==
  /\ allocator_reset /\ hash_table_reset /\ page_table_reset
  /\ local' = [t \in Threads |-> {}]

reset ==
  /\ \A t \in Threads : pc[t] = "idle"
  /\ flush_all /\ EmptyPool
  /\ UNCHANGED <<current, threadVars>>

(* After 1000 tries a sampling thread exits the process: its memory is gone, *)
(* dirty pages included.                                                      *)
exit(t) ==
  /\ pc[t] = "sample"
  /\ pc' = [u \in Threads |-> "exited"]
  /\ EmptyPool
  /\ UNCHANGED <<remote, current, ret, todo, op, goal, val, cur, par, seen, frame, victim>>

(* The process has exited. *)
Exited == (\A t \in Threads : pc[t] = "exited") /\ UNCHANGED vars

Next ==
  \/ \E t \in Threads :
       \/ \E l \in Updated, v \in Values : begin(t, "update", l, v)
       \/ \E l \in Leaves : begin(t, "lookup", l, InitValue)
       \/ restart(t) \/ descend(t) \/ new_get_mem_node(t) \/ upgradeToIOLock(t)
       \/ lookup(t) \/ update(t)
       \/ \E f \in Frames : sample_page(t, f) \/ allocate(t, f) \/ get_local_page_set(t, f)
       \/ sample_next(t) \/ unswizzle(t) \/ sample_write(t) \/ hash_insert(t) \/ exit(t)
       \/ insert_io_flag(t) \/ cache_get_restart(t) \/ promote(t)
       \/ (\E b \in Buckets : evict(t, b)) \/ evict_nothing(t) \/ no_page(t) \/ cold_to_hot_fail(t)
       \/ remote_to_cache(t) \/ cold_to_hot(t)
       \/ admission_read(t) \/ admission_write(t)
       \/ rpc(t) \/ check_and_remove(t) \/ drop_flag(t)
  \/ reset
  \/ Exited

Spec == Init /\ [][Next]_vars

-----------------------------------------------------------------------------
(* Properties. *)

FrameTypes ==
  /\ lock \in [AllFrames -> {"free", "IO", "write"}]
  /\ page \in [Frames -> Pages \cup {Null}]
  /\ pos_state \in [Frames -> PosStates]
  /\ dirty \in [Frames -> BOOLEAN]
  /\ content \in [Frames -> Values \cup {Null, Torn}]
  /\ children \in [AllFrames -> [Pages -> Frames \cup {Null}]]
  /\ parent_ptr \in [Frames -> AllFrames \cup {Null}]

PoolTypes ==
  /\ table \in [Pages -> Frames \cup {Null, IO_FLAG}]
  /\ cooling \in [Buckets -> Seq(Frames)]
  /\ \A b \in Buckets : Len(cooling[b]) <= CoolSize
  /\ local \in [Threads -> SUBSET Frames]
  /\ remote \in [Leaves -> Values \cup {Torn}]
  /\ current \in [Leaves -> Values]

ThreadTypes ==
  /\ pc \in [Threads -> PCs]
  /\ ret \in [Threads -> {"lock", "retry_empty"}]
  /\ todo \in [Threads -> 0..NumSample]
  /\ op \in [Threads -> {"lookup", "update"}]
  /\ goal \in [Threads -> Leaves \cup {Null}]
  /\ val \in [Threads -> Values \cup {Torn}]
  /\ cur \in [Threads -> AllFrames]
  /\ par \in [Threads -> AllFrames \cup {Null}]
  /\ seen \in [Threads -> [AllFrames -> Versions]]
  /\ frame \in [Threads -> Frames \cup {Null}]
  /\ victim \in [Threads -> Frames \cup {Null}]

(* Every variable has its type, and a cooling bucket never exceeds its        *)
(* num_entries slots (bucket::insert writes frame_[i + 1] without a check).   *)
TypeOK == FrameTypes /\ PoolTypes /\ ThreadTypes

Running == \E t \in Threads : pc[t] # "exited"

Cool == UNION {Range(cooling[b]) : b \in Buckets}

Sampling == {"sample", "sample_parent", "sample_write", "sample_insert"}

(* The threads between the IO flag of a page and its removal. *)
Serving(c) ==
  {t \in Threads :
     /\ \/ pc[t] \in {"empty", "retry_empty", "read", "swizzle", "fail", "remote_read",
                       "remote_write", "rpc", "invalidate", "drop_flag"}
        \/ pc[t] \in Sampling /\ ret[t] = "retry_empty"
     /\ Missing(t) = c}

(* The threads that hold the IO latch of a frame. *)
IoHolders(f) ==
  {t \in Threads : cur[t] = f /\ (pc[t] = "cache_get" \/ \E c \in Pages : t \in Serving(c))}

(* A page waiting for eviction can be dropped at any time without a write:    *)
(* it is latched, clean, hangs nowhere, and if the page table still knows it, *)
(* remote memory has its contents (evict_last asserts dirty == false).        *)
CoolingIsClean ==
  Running =>
    \A f \in Cool :
      /\ lock[f] = "write" /\ ~dirty[f] /\ parent_ptr[f] = Null /\ Swizzled(f) = {}
      /\ \A l \in Leaves : table[l] = f =>
           \/ remote[l] = content[f]
           \/ \E t \in Threads : pc[t] = "invalidate" /\ goal[t] = l

(* Nobody is ever given an old value of a leaf.  The next thread to ask for it *)
(* finds what the last write left: the frame of the page table holds it, or   *)
(* remote memory does when the table has none; a write by pushdown is in      *)
(* between until its invalidation (cold_to_hot_with_rpc).  And evict_last may *)
(* drop any cooling page, as its assert(dirty == false) says.                 *)
Coherent ==
  /\ CoolingIsClean
  /\ Running => \A l \in Leaves :
       /\ table[l] \in Frames =>
            \/ content[table[l]] = current[l]
            \/ \E t \in Threads : pc[t] = "invalidate" /\ goal[t] = l
       /\ table[l] = Null => remote[l] = current[l]

(* Every frame has one place: under the tree, in a cooling bucket, in one     *)
(* local set, or in the hands of one thread; a latch is held exactly by those *)
(* who will release it, so none leaks on an error path.                       *)
FramesHaveOneOwner ==
  Running =>
    \A f \in AllFrames :
      LET writers == {t \in Threads : f \in {frame[t], victim[t]} \cup local[t]}
                       \cup {t \in Threads : pc[t] \in {"sample_write", "sample_insert"} /\ par[t] = f}
      IN  /\ Cardinality(writers) + (IF f \in Cool THEN 1 ELSE 0) + Cardinality(IoHolders(f)) <= 1
          /\ lock[f] = "write" <=> writers # {} \/ f \in Cool
          /\ lock[f] = "IO" <=> IoHolders(f) # {}

(* Swizzled pointers and parent_ptr agree, hang hot pages of the page table   *)
(* below hot pages, and a page is cooled only after its children              *)
(* (check_parent_child_info).                                                 *)
SwizzlingIsMutual ==
  \A f \in AllFrames, c \in Pages, g \in Frames :
    /\ children[f][c] = g => /\ parent_ptr[g] = f /\ page[g] = c
                             /\ pos_state[g] = "hot" /\ table[c] = g
                             /\ f = Root \/ pos_state[f] = "hot"
    /\ parent_ptr[g] = f => children[f][page[g]] = g

(* A page is loaded by one thread at a time, and an IO flag in the page table *)
(* always has the thread that will remove it (the asserts of cold_to_hot).    *)
IoFlagHasOneOwner ==
  Running => \A c \in Pages :
    /\ Cardinality(Serving(c)) <= 1
    /\ table[c] = IO_FLAG <=> Serving(c) # {}

(* Whatever path a load, a sampling or an eviction takes, errors included, it  *)
(* leaves the pool whole: frames, latches and IO flags have the one owner who  *)
(* will release them, and parents and children point at each other.           *)
PoolIsWhole == TypeOK /\ FramesHaveOneOwner /\ SwizzlingIsMutual /\ IoFlagHasOneOwner

(* The result of a lookup: read from the cached leaf, or brought back from the memory node. *)
Result(t) == IF pc[t] = "drop_flag" THEN val[t] ELSE content[cur[t]]

(* A lookup that returns, through whichever path, returns the value of the    *)
(* last finished write to its leaf.                                           *)
LookupReturnsCurrent ==
  [][\A t \in Threads :
       pc[t] # "idle" /\ pc'[t] = "idle" /\ op[t] = "lookup" => Result(t) = current[goal[t]]]_vars
=============================================================================
