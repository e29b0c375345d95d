------------------------------- MODULE DexOps -------------------------------
(* The tree operations of one compute node of DEX (leanstore_tree.h):         *)
(* lookup, insert, update, remove and range_scan by several threads, with     *)
(* leaf splits, pages that leave the cache and come back, leaves that are not *)
(* admitted to it and operations that are pushed down to the memory node      *)
(* (leanstore_cache.h, btree_rpc.h).  All pages are private to this node and  *)
(* no inner page fills up: SharedInner has the shared pages and their splits. *)
(* The steps of an eviction are those of BufferPool and are one step here.    *)
(* A version that a thread holds is "plain", "io" (read under an IO latch) or *)
(* "none" (spoilt by a write latch).                                          *)
EXTENDS Integers, FiniteSets, FiniteSetsExt, Functions, SequencesExt

CONSTANTS
  Threads, Values, Null,
  MaxKey,    \* right_bound_ - 1, the upper limit of the last leaf
  LeafCard,  \* maxEntries of a leaf
  MaxEvict,  \* bound on the evictions of a behaviour
  Root,      \* the root, always hot
  Setups     \* what to begin with: the remote pages, and the work of each thread,
             \* operations to perform in order

ASSUME DexOpsAssumption ==
  /\ LeafCard \in Nat \ {0, 1} /\ MaxKey \in Nat /\ MaxEvict \in Nat
  /\ \A s \in Setups : Root \in DOMAIN s.pages

VARIABLES
  mem,       \* the pages in remote memory
  buf,       \* the cached pages
  dirty,     \* the cached pages that remote memory does not have
  latch,     \* the latches of the pages: "free", "IO", "write"
  flag,      \* the pages with an IO flag in the page table
  evictions, todo,
  th         \* the threads
vars == <<mem, buf, dirty, latch, flag, evictions, todo, th>>

Keys == 0..MaxKey

\* A leaf holds the keys in (min, max] of its data; an inner page leads the keys
\* up to each bound in ents to a child.
Leaf(min, max, data) == [level |-> 0, min |-> min, max |-> max, data |-> data]

Inner(level, ents) == [level |-> level, ents |-> ents]

count(leaf) == Cardinality(DOMAIN leaf.data)

\* The least key of all belongs to the leaf whose lower limit it is.
rangeValid(leaf, k) == (k = 0 /\ leaf.min = 0) \/ (leaf.min < k /\ k <= leaf.max)

lowerBound(inner, k) == Min({u \in DOMAIN inner.ents : u >= k})

find(leaf, k) == IF k \in DOMAIN leaf.data THEN leaf.data[k] ELSE Null

\* BTreeLeaf::insert (an upsert), update (only of what is there) and remove.
leaf_apply(leaf, c) ==
  CASE c.op = "insert" ->
         [leaf EXCEPT !.data = [x \in DOMAIN @ \cup {c.key} |-> IF x = c.key THEN c.val ELSE @[x]]]
    [] c.op = "update" ->
         [leaf EXCEPT !.data = [x \in DOMAIN @ |-> IF x = c.key THEN c.val ELSE @[x]]]
    [] c.op = "del" -> [leaf EXCEPT !.data = Restrict(@, DOMAIN @ \ {c.key})]

\* The entries from k on, at most num; none unless k itself is there.
leaf_range_scan(leaf, k, num) ==
  IF k \notin DOMAIN leaf.data THEN << >>
  ELSE LET s == SetToSortSeq({x \in DOMAIN leaf.data : x >= k}, <)
       IN  SubSeq(s, 1, Min({num, Len(s)}))

\* The lower half keeps count \div 2 keys; sep is its greatest.
split_sep(leaf) == SetToSortSeq(DOMAIN leaf.data, <)[count(leaf) \div 2]

left_half(leaf) ==
  LET sep == split_sep(leaf)
  IN  Leaf(leaf.min, sep, Restrict(leaf.data, {x \in DOMAIN leaf.data : x <= sep}))

right_half(leaf) ==
  LET sep == split_sep(leaf)
  IN  Leaf(sep, leaf.max, Restrict(leaf.data, {x \in DOMAIN leaf.data : x > sep}))

\* BTreeInner::insert: the child that was split keeps the keys up to sep.
inner_insert(inner, sep, new) ==
  LET u == lowerBound(inner, sep)
  IN  [inner EXCEPT !.ents = [x \in DOMAIN @ \cup {sep} |->
         IF x = sep THEN @[u] ELSE IF x = u THEN new ELSE @[x]]]

allocate_node == Max(DOMAIN mem) + 1

-----------------------------------------------------------------------------
NoCall == [st |-> "idle", op |-> "none", key |-> Null, val |-> Null]

\* pc, the call, the page the thread is at and its parent with the versions read, the
\* child it goes to, IO_enable; of a lookup what it read; of a scan the next key, the keys still
\* wanted, the number scanned and the caller's buffer.
IdleThread ==
  [pc |-> "idle", call |-> NoCall, cur |-> Root, vn |-> "none", par |-> Root, vp |-> "none", next |-> Root,
   IO |-> FALSE, got |-> Null, k |-> 0, num |-> 0, n |-> 0, out |-> << >>]

Init ==
  /\ \E s \in Setups :
       /\ mem = s.pages
       /\ buf = Restrict(s.pages, {Root})
       /\ latch = [p \in DOMAIN s.pages |-> "free"]
       /\ todo = s.work
  /\ dirty = {} /\ flag = {} /\ evictions = 0
  /\ th = [t \in Threads |-> IdleThread]

\* readLockOrRestart
Read(p) == CASE latch[p] = "write" -> "none" [] latch[p] = "IO" -> "io" [] latch[p] = "free" -> "plain"

\* The threads after one of them has changed and the pages S were write-latched.
Spoil(S, threads) ==
  [u \in Threads |-> [threads[u] EXCEPT !.vn = IF threads[u].cur \in S THEN "none" ELSE @,
                                        !.vp = IF threads[u].par \in S THEN "none" ELSE @]]

Now(t, rec) == [th EXCEPT ![t] = [f \in DOMAIN @ |-> IF f \in DOMAIN rec THEN rec[f] ELSE @[f]]]

FromRoot == [pc |-> "descend", cur |-> Root, vn |-> Read(Root), par |-> Root, vp |-> "plain"]

Done(t, v) == [pc |-> "done", call |-> [th[t].call EXCEPT !.st = "applied", !.val = v]]

Written(t) == [pc |-> "done", call |-> [th[t].call EXCEPT !.st = "applied"]]

At(t) == buf[th[t].cur]

Child(t) == At(t).ents[lowerBound(At(t), th[t].k)]

Reads == {"search", "scan"}

Op(t) == IF th[t].num > 0 THEN "scan" ELSE th[t].call.op

begin(t) ==
  /\ th[t].pc = "idle" /\ todo[t] # << >>
  /\ LET w == Head(todo[t])
         call == IF w.op = "scan" THEN NoCall
                 ELSE [st |-> "called", op |-> w.op, key |-> w.key, val |-> w.val]
     IN  th' = [th EXCEPT ![t] = [IdleThread EXCEPT
                  !.pc = "descend", !.call = call, !.vn = Read(Root), !.vp = "plain",
                  !.k = w.key, !.num = IF w.op = "scan" THEN w.val ELSE 0]]
  /\ todo' = [todo EXCEPT ![t] = Tail(@)]
  /\ UNCHANGED <<mem, buf, dirty, latch, flag, evictions>>

\* A version that was read is spoilt, a child is write-latched, or a latch cannot
\* be upgraded: the operation starts again from the root.
restart(t) ==
  /\ \/ /\ th[t].pc \in {"descend", "leaf", "validate"}
        /\ th[t].vn = "none" \/ th[t].vp = "none"
     \/ /\ th[t].pc = "descend" /\ th[t].vn # "none" /\ Child(t) \notin DOMAIN buf
        /\ th[t].vn = "io" \/ latch[th[t].cur] # "free" \/ Child(t) \in flag
     \/ /\ th[t].pc = "enter"
        /\ th[t].next \in DOMAIN buf => latch[th[t].next] = "write"
     \/ th[t].pc = "leaf" /\ Op(t) \notin Reads /\ (th[t].vn = "io" \/ latch[th[t].cur] # "free")
  /\ latch[Root] # "write"
  /\ th' = Now(t, FromRoot)
  /\ UNCHANGED <<mem, buf, dirty, latch, flag, evictions, todo>>

\* The parent is validated and a swizzled child found.
descend(t) ==
  /\ th[t].pc = "descend" /\ th[t].vp # "none" /\ th[t].vn # "none"
  /\ Child(t) \in DOMAIN buf
  /\ th' = Now(t, [pc |-> "enter", next |-> Child(t)])
  /\ UNCHANGED <<mem, buf, dirty, latch, flag, evictions, todo>>

\* The child's version is read.  The parent may have changed since.
enter(t) ==
  /\ th[t].pc = "enter"
  /\ LET c == th[t].next
     IN  /\ c \in DOMAIN buf /\ latch[c] # "write"
         /\ th' = Now(t, [pc |-> IF buf[c].level = 0 THEN "leaf" ELSE "descend",
                          cur |-> c, vn |-> Read(c), par |-> th[t].cur, vp |-> th[t].vn])
  /\ UNCHANGED <<mem, buf, dirty, latch, flag, evictions, todo>>

\* The child is not cached: the IO latch and the IO flag make its load this thread's.
new_get_mem_node(t) ==
  /\ th[t].pc = "descend" /\ th[t].vp # "none" /\ th[t].vn = "plain"
  /\ latch[th[t].cur] = "free"
  /\ Child(t) \notin DOMAIN buf \cup flag
  /\ latch' = [latch EXCEPT ![th[t].cur] = "IO"]
  /\ flag' = flag \cup {Child(t)}
  /\ th' = Now(t, [pc |-> "miss"])
  /\ UNCHANGED <<mem, buf, dirty, evictions, todo>>

\* The flag and the IO latch are given up.
Serve(t) ==
  /\ latch' = [latch EXCEPT ![th[t].cur] = "free"]
  /\ flag' = flag \ {Child(t)}

\* cold_to_hot: the page is loaded and swizzled.
cold_to_hot(t) ==
  /\ th[t].pc = "miss"
  /\ LET c == Child(t)
     IN  /\ buf' = (c :> mem[c]) @@ buf
         /\ th' = Now(t, [pc |-> IF mem[c].level = 0 THEN "leaf" ELSE "descend",
                          cur |-> c, vn |-> "plain", par |-> th[t].cur, vp |-> "plain"])
  /\ Serve(t)
  /\ UNCHANGED <<mem, dirty, evictions, todo>>

\* The next step of a scan that has read what leaf holds from k on.
Scanned(t, leaf) ==
  LET s == leaf_range_scan(leaf, th[t].k, th[t].num - th[t].n)
      n == th[t].n + Len(s)
      out == s \o SubSeq(th[t].out, Len(s) + 1, Len(th[t].out))
  IN  IF leaf.max = MaxKey \/ n = th[t].num
      THEN [pc |-> "done", n |-> n, out |-> out]
      ELSE [n |-> n, out |-> out, k |-> leaf.max + 1] @@ FromRoot

\* Mutant: the insertion is tried again in the same way.
Bad_OnRemote(t, l) ==
  LET leaf == mem[l]
      c == th[t].call
  IN  IF ~rangeValid(leaf, th[t].k) \/ (Op(t) = "insert" /\ count(leaf) = LeafCard)
      THEN th' = Now(t, FromRoot) /\ UNCHANGED mem
      ELSE IF Op(t) \in Reads
      THEN /\ th' = Now(t, IF Op(t) = "scan" THEN Scanned(t, leaf) ELSE Done(t, find(leaf, c.key)))
           /\ UNCHANGED mem
      ELSE /\ th' = Now(t, Written(t))
           /\ mem' = [mem EXCEPT ![l] = leaf_apply(leaf, c)]

\* An operation on the remote copy of leaf l, for the thread of the miss.  An
\* insertion into a full leaf fails and is tried again with IO_enable.
OnRemote(t, l) ==
  LET leaf == mem[l]
      c == th[t].call
  IN  IF ~rangeValid(leaf, th[t].k) \/ (Op(t) = "insert" /\ count(leaf) = LeafCard)
      THEN /\ th' = Now(t, [IO |-> Op(t) = "insert"] @@ FromRoot)
           /\ UNCHANGED mem
      ELSE IF Op(t) \in Reads
      THEN /\ th' = Now(t, IF Op(t) = "scan" THEN Scanned(t, leaf) ELSE Done(t, find(leaf, c.key)))
           /\ UNCHANGED mem
      ELSE /\ th' = Now(t, Written(t))
           /\ mem' = [mem EXCEPT ![l] = leaf_apply(leaf, c)]

\* The leaf is not admitted to the cache.
cold_to_hot_with_admission(t) ==
  /\ th[t].pc = "miss" /\ ~th[t].IO /\ At(t).level = 1
  /\ OnRemote(t, Child(t))
  /\ Serve(t)
  /\ UNCHANGED <<buf, dirty, evictions, todo>>

\* The leaf the memory node comes to below page p, in its own copies.
descend_remote[p \in DOMAIN mem, k \in Keys] ==
  IF mem[p].level = 0 THEN p ELSE descend_remote[mem[p].ents[lowerBound(mem[p], k)], k]

\* The directory of the memory node runs the operation that a message names.
process_message(t) == OnRemote(t, descend_remote[Child(t), th[t].k])

\* rpc_lookup, rpc_update, rpc_insert, rpc_remove: the thread waits for the answer.
rpc(t) == Op(t) # "scan" /\ process_message(t)

\* The operation is pushed down to the memory node.
cold_to_hot_with_rpc(t) ==
  /\ th[t].pc = "miss" /\ ~th[t].IO /\ At(t).level > 1
  /\ rpc(t)
  /\ Serve(t)
  /\ UNCHANGED <<buf, dirty, evictions, todo>>

-----------------------------------------------------------------------------
\* A lookup or a scan reads the leaf, which a writer may be changing.
lookup(t) ==
  /\ th[t].pc = "leaf" /\ Op(t) \in Reads /\ th[t].vn # "none"
  /\ IF ~rangeValid(At(t), th[t].k) THEN th' = Now(t, FromRoot)
     ELSE \E v \in Values \cup {Null} :
            /\ latch[th[t].cur] # "write" => v = find(At(t), th[t].k)
            /\ th' = Now(t, [pc |-> "validate", got |-> v])
  /\ UNCHANGED <<mem, buf, dirty, latch, flag, evictions, todo>>

\* Mutant: the leaf is not validated after it was read.
Bad_validate(t) ==
  /\ th[t].pc = "validate" /\ th[t].vp # "none"
  /\ th' = Now(t, IF Op(t) = "scan" THEN Scanned(t, At(t)) ELSE Done(t, th[t].got))
  /\ UNCHANGED <<mem, buf, dirty, latch, flag, evictions, todo>>

\* It returns, or goes on to the next leaf, if the parent and the leaf are unchanged.
validate(t) ==
  /\ th[t].pc = "validate" /\ th[t].vp # "none" /\ th[t].vn # "none"
  /\ th' = Now(t, IF Op(t) = "scan" THEN Scanned(t, At(t)) ELSE Done(t, th[t].got))
  /\ UNCHANGED <<mem, buf, dirty, latch, flag, evictions, todo>>

\* insert, update and remove write-latch the leaf.
upgradeToWriteLock(t) ==
  /\ th[t].pc = "leaf" /\ Op(t) \notin Reads
  /\ th[t].vn = "plain" /\ latch[th[t].cur] = "free"
  /\ latch' = [latch EXCEPT ![th[t].cur] = "write"]
  /\ th' = [Spoil({th[t].cur}, th) EXCEPT ![t].pc = "locked"]
  /\ UNCHANGED <<mem, buf, dirty, flag, evictions, todo>>

Unlatch(t) == latch' = [latch EXCEPT ![th[t].cur] = "free"]

Full(t) == Op(t) = "insert" /\ count(At(t)) = LeafCard

\* The leaf is not the key's, or its parent has changed or cannot be latched.
unlatch_restart(t) ==
  /\ th[t].pc = "locked"
  /\ \/ ~rangeValid(At(t), th[t].k)
     \/ th[t].vp = "none"
     \/ Full(t) /\ (th[t].vp = "io" \/ latch[th[t].par] # "free")
  /\ Unlatch(t)
  /\ th' = Now(t, FromRoot)
  /\ UNCHANGED <<mem, buf, dirty, flag, evictions, todo>>

\* The leaf is changed and unlatched.
write_leaf(t) ==
  /\ th[t].pc = "locked" /\ rangeValid(At(t), th[t].k)
  /\ th[t].vp # "none" /\ ~Full(t)
  /\ buf' = [buf EXCEPT ![th[t].cur] = leaf_apply(@, th[t].call)]
  /\ dirty' = IF leaf_apply(At(t), th[t].call) = At(t) /\ Op(t) # "insert" THEN dirty
              ELSE dirty \cup {th[t].cur}
  /\ Unlatch(t)
  /\ th' = Now(t, Written(t))
  /\ UNCHANGED <<mem, flag, evictions, todo>>

\* A full leaf: with the parent latched too, the upper half is written to a new
\* remote page, the parent learns of it, and the insertion starts again.
split_leaf(t) ==
  /\ th[t].pc = "locked" /\ rangeValid(At(t), th[t].k) /\ Full(t)
  /\ th[t].vp = "plain" /\ latch[th[t].par] = "free"
  /\ LET p == th[t].par
         new == allocate_node
     IN  /\ mem' = (new :> right_half(At(t))) @@ mem
         /\ buf' = [buf EXCEPT ![th[t].cur] = left_half(@), ![p] = inner_insert(@, split_sep(At(t)), new)]
         /\ dirty' = dirty \cup {p, th[t].cur}
         /\ latch' = (new :> "free") @@ [latch EXCEPT ![th[t].cur] = "free"]
         /\ th' = Spoil({p}, Now(t, FromRoot))
  /\ UNCHANGED <<flag, evictions, todo>>

return(t) ==
  /\ th[t].pc = "done"
  /\ th' = [th EXCEPT ![t] = IdleThread]
  /\ UNCHANGED <<mem, buf, dirty, latch, flag, evictions, todo>>

Children(p) == IF buf[p].level = 0 THEN {} ELSE Range(buf[p].ents)

\* Mutant: a page is evicted while its children are cached.
Bad_evict(p, q) ==
  /\ evictions < MaxEvict /\ p \in Children(q) \cap DOMAIN buf
  /\ latch[p] = "free" /\ latch[q] = "free"
  /\ mem' = [mem EXCEPT ![p] = buf[p]]
  /\ buf' = Restrict(buf, DOMAIN buf \ {p})
  /\ dirty' = dirty \ {p}
  /\ evictions' = evictions + 1
  /\ th' = Spoil({p, q}, th)
  /\ UNCHANGED <<latch, flag, todo>>

\* The buffer manager takes page p from under q: it write-latches both, unswizzles
\* p, which has no cached children, and writes it back if it is dirty.
evict(p, q) ==
  /\ evictions < MaxEvict /\ p \in Children(q) \cap DOMAIN buf
  /\ Children(p) \cap DOMAIN buf = {}
  /\ latch[p] = "free" /\ latch[q] = "free"
  /\ mem' = IF p \in dirty THEN [mem EXCEPT ![p] = buf[p]] ELSE mem
  /\ buf' = Restrict(buf, DOMAIN buf \ {p})
  /\ dirty' = dirty \ {p}
  /\ evictions' = evictions + 1
  /\ th' = Spoil({p, q}, th)
  /\ UNCHANGED <<latch, flag, todo>>

Step(t) ==
  \/ begin(t) \/ restart(t) \/ descend(t) \/ enter(t) \/ new_get_mem_node(t) \/ cold_to_hot(t)
  \/ cold_to_hot_with_admission(t) \/ cold_to_hot_with_rpc(t) \/ lookup(t) \/ validate(t)
  \/ upgradeToWriteLock(t) \/ unlatch_restart(t) \/ write_leaf(t) \/ split_leaf(t) \/ return(t)

Finished == (\A t \in Threads : th[t].pc = "idle" /\ todo[t] = << >>) /\ UNCHANGED vars

Next ==
  \/ \E t \in Threads : Step(t)
  \/ \E p, q \in DOMAIN buf : evict(p, q)
  \/ Finished

Spec == Init /\ [][Next]_vars

\* The threads run; evictions come only with the misses of other threads.
FairSpec == Spec /\ \A t \in Threads : WF_vars(Step(t))

-----------------------------------------------------------------------------
(* Properties. *)

\* Every variable has its type; no leaf ever holds more than maxEntries keys.
TypeOK ==
  /\ DOMAIN buf \subseteq DOMAIN mem /\ Root \in DOMAIN buf
  /\ dirty \subseteq DOMAIN buf /\ flag \subseteq DOMAIN mem \ DOMAIN buf
  /\ latch \in [DOMAIN mem -> {"free", "IO", "write"}]
  /\ evictions \in 0..MaxEvict
  /\ \A p \in DOMAIN mem, f \in {mem, buf} :
       p \in DOMAIN f /\ f[p].level = 0 => Cardinality(DOMAIN f[p].data) <= LeafCard
  /\ \A t \in Threads :
       /\ th[t].pc \in {"idle", "descend", "enter", "miss", "leaf", "validate", "locked", "done"}
       /\ th[t].vn \in {"none", "io", "plain"} /\ th[t].vp \in {"none", "io", "plain"}
       /\ th[t].k \in Keys /\ th[t].n <= th[t].num

\* The page that counts: the cached one if there is one.
page(p) == IF p \in DOMAIN buf THEN buf[p] ELSE mem[p]

Leaves == {p \in DOMAIN mem : mem[p].level = 0}

LeafOf[p \in DOMAIN mem, k \in Keys] ==
  IF page(p).level = 0 THEN p ELSE LeafOf[page(p).ents[lowerBound(page(p), k)], k]

\* Every key has its leaf: the way from the root ends at a leaf whose limits admit
\* the key, and no other leaf holds it.  A split leaves no moment at which a key is
\* in a leaf that its parent does not lead to.
KeysAreWhereTheyAreLookedFor ==
  \A k \in Keys :
    /\ rangeValid(page(LeafOf[Root, k]), k)
    /\ \A p \in Leaves : k \in DOMAIN page(p).data => p = LeafOf[Root, k]

\* A page that is not in the cache can be served from remote memory by itself:
\* nothing below it is cached, and the pages below it there have no change that
\* the memory node does not know (assert(rpc_type == RPC_type::INSERT)): the leaf
\* that the memory node comes to is the one that holds the key.
PushdownIsSafe ==
  \A p \in DOMAIN mem \ DOMAIN buf :
    mem[p].level > 0 =>
      /\ Range(mem[p].ents) \cap DOMAIN buf = {}
      /\ \A k \in Keys :
           (\E q \in DOMAIN buf : buf[q].level = mem[p].level + 1 /\ buf[q].ents[lowerBound(buf[q], k)] = p)
             => rangeValid(mem[descend_remote[p, k]], k)

\* A latch is held by the one thread that will release it.
LatchHolders(p) ==
  {t \in Threads : th[t].cur = p /\ th[t].pc = (IF latch[p] = "IO" THEN "miss" ELSE "locked")}

LatchesHaveOneHolder == \A p \in DOMAIN mem :
  Cardinality(LatchHolders(p)) = IF latch[p] = "free" THEN 0 ELSE 1

\* The pages fit together at every moment: a key is only in the leaf its way from
\* the root leads to, a page outside the cache may be worked on by the memory node,
\* and no latch is left behind by a restart or an error path (insert, update,
\* remove, cold_to_hot_with_rpc).
TreeIsSound == TypeOK /\ KeysAreWhereTheyAreLookedFor /\ PushdownIsSafe /\ LatchesHaveOneHolder

Map == [k \in Keys |-> find(page(LeafOf[Root, k]), k)]

KV == INSTANCE KVStore WITH
        Clients <- Threads, NoValue <- Null, kv <- Map, call <- [t \in Threads |-> th[t].call]

\* The tree is an atomic map: insert, update and remove take effect when the leaf
\* is written, in the cache, by one-sided writes or on the memory node; a lookup
\* returns the value of the moment it is validated; splits, evictions, loads and
\* scans change nothing.
IsAtomicMap == KV!Spec

\* Every operation returns, whatever restarts it meets on the way, once pages are
\* no longer taken away from it.
EveryOperationReturns == <>(\A t \in Threads : th[t].pc = "idle" /\ todo[t] = << >>)
=============================================================================
