----------------------------- MODULE ChimeTree -----------------------------
(***************************************************************************)
(* CHIME's B-link tree.  Its internal nodes have key ranges; a leaf has    *)
(* none.  Instead, the parent's record for a leaf also names the leaf's    *)
(* right sibling, and a reader compares the name with the leaf's own       *)
(* sibling pointer: they differ when the leaf has been split since the     *)
(* parent was read (sibling-based validation).  A writer that meets such a *)
(* leaf compares its key with the largest key in the leaf.                 *)
(*                                                                         *)
(* Compute nodes cache internal nodes of all levels.  The change of a node *)
(* under its lock is one step, and so is the read of a node; ChimeLeaf is  *)
(* about what happens inside a leaf and LocalLockTable about the threads   *)
(* of a compute node that work on the same key.                            *)
(***************************************************************************)
EXTENDS Integers, FiniteSets, Sequences, FiniteSetsExt, Functions, TLC

CONSTANTS
    Threads, Nodes,
    node,        \* the compute node of each thread
    MaxKey,      \* kKeyMax; keys are 1..MaxKey-1, and 0 is the lowest fence
    Values,
    Null,        \* the null pointer, kValueNull
    Widest,      \* the sibling pointer of a leaf that is the root
    LeafSpan,    \* leafSpanSize
    IntSpan,     \* internalSpanSize
    CacheNodes,  \* nodes in a compute node's tree cache
    Setups       \* what to begin with: the pages of a tree, its root entry, and
                 \* the work of each thread, operations to perform in any order

Keys == 1..(MaxKey - 1)

ASSUME ChimeTreeAssumption ==
    /\ LeafSpan >= 2 /\ IntSpan >= 3 /\ CacheNodes >= 1
    /\ \A t \in Threads : node[t] \in Nodes
    /\ \A s \in Setups : s.root \in [level : Nat \ {0}, addr : DOMAIN s.pages]

VARIABLES
    pages,   \* remote memory
    rootPtr, \* the root entry: the address of the root and its level, plus one
    cache,   \* the tree cache of each compute node
    todo,    \* operations that the threads have still to perform
    th,      \* the threads
    abort    \* an assertion has failed and the program has stopped

vars == <<pages, rootPtr, cache, todo, th, abort>>

-----------------------------------------------------------------------------
(* Nodes.  In an internal node ents maps lower bounds to children, lowest  *)
(* to leftmost_ptr, and next is sibling_leftmost_ptr.                      *)

Leaf(sib, ents) == [level |-> 0, sib |-> sib, ents |-> ents]

Inner(level, lowest, highest, sib, ents, next) ==
    [level |-> level, lowest |-> lowest, highest |-> highest, sib |-> sib,
     ents |-> ents, next |-> next]

\* sibling_ptr of a leaf without the root tag.
sibling_ptr(q) == IF q.sib = Widest THEN Null ELSE q.sib

is_root(q) ==
    IF q.level = 0 THEN q.sib = Widest ELSE q.lowest = 0 /\ q.highest = MaxKey

LowerBound(q, k) == Max({x \in DOMAIN q.ents : x <= k})

\* Mutant: the key below a separator goes to the child right of it.
child_of_next(q, k) == q.ents[LowerBound(q, k + 1)]

child(q, k) == q.ents[LowerBound(q, k)]

\* The right sibling that the parent names for the child.
child_sibling(q, k) ==
    LET right == {x \in DOMAIN q.ents : x > k}
    IN  IF right = {} THEN q.next ELSE q.ents[Min(right)]

\* dsm->alloc.
NewAddr == Cardinality(DOMAIN pages) + 1

Below(f, s) == Restrict(f, {x \in DOMAIN f : x < s})

\* Mutant: the entry of the split key itself is not moved.
DropSplitKey(f, s) == Restrict(f, {x \in DOMAIN f : x > s})

From(f, s) == Restrict(f, {x \in DOMAIN f : x >= s})

\* Mutant: the separator is the largest key of the left part.
ShortSeparator(left) == Max(DOMAIN left)

\* The separator between the parts of a split leaf.
separator(left) == Max(DOMAIN left) + 1

\* Mutant: a leaf has room for one entry more.
LateFull(q) == Cardinality(DOMAIN q.ents) > LeafSpan

full(q) == Cardinality(DOMAIN q.ents) >= LeafSpan

\* The keys at which hopscotch_get_split_key may split the leaf to store k.
SplitKeys(q, k) == LET ks == DOMAIN q.ents \cup {k} IN ks \ {Min(ks)}

-----------------------------------------------------------------------------
(* The tree cache: entries [from, to] with a copy of a node, or without    *)
(* when the copy has been invalidated.                                     *)

Before(e, f) == e.to < f.to \/ (e.to = f.to /\ e.from > f.from)

First(es) == {e \in es : \A f \in es : f = e \/ Before(e, f)}

\* Iterator::Seek: the entries not before [k, k].
Seek(c, k) == {e \in c : e.to > k \/ (e.to = k /\ e.from <= k)}

\* The first entry with a copy, provided that it holds k.
search_from_cache(c, k) ==
    {e \in First({f \in Seek(c, k) : f.copy # Null}) : e.from <= k}

\* The first entry with a copy of the given level; entries that do not hold k
\* end the search.
search_ptr_from_cache(c, k, level) ==
    LET es == Seek(c, k)
    IN  {e \in First({f \in es : f.copy # Null /\ f.copy.level = level + 1}) :
           \A f \in es : (f = e \/ Before(f, e)) => f.from <= k}

\* The cached nodes of level 1 from the one of from on, up to the first node of
\* any level that lies right of to.
search_range_from_cache(c, from, to) ==
    LET on == {e \in Seek(c, from) : e.copy # Null}
    IN  {e \in on : /\ e.copy.level = 1 /\ e.from <= to
                    /\ \A f \in on : Before(f, e) => f.from <= to}

\* Mutant: the outdated entry stays.
KeepEntry(c, range) == c

invalidate(c, range) ==
    {IF <<e.from, e.to>> = range THEN [e EXCEPT !.copy = Null] ELSE e : e \in c}

\* The new copy replaces an old one.  Beyond the limit some copy is evicted.
add_to_cache(n, q) ==
    LET e == [from |-> q.lowest, to |-> q.highest - 1, copy |-> q]
        c == {f \in cache[n] : <<f.from, f.to>> # <<e.from, e.to>>} \cup {e}
        used == {f \in c : f.copy # Null}
    IN  IF Cardinality(used) <= CacheNodes THEN cache' = [cache EXCEPT ![n] = c]
        ELSE \E f \in used : cache' = [cache EXCEPT ![n] = invalidate(c, <<f.from, f.to>>)]

-----------------------------------------------------------------------------
MaxLevel == 4

\* key, val and lv are what is being stored now, and at which level.  level is
\* that of p plus one; sib is the sibling that p's parent named; range is the
\* cache entry that p comes from, if any; path is path_stack.  A range query reads
\* leaves, reads again after a stale speculation, and searches the rest one by one.
IdleThread ==
    [pc |-> "idle", call |-> [st |-> "idle", op |-> "none", key |-> Null, val |-> Null],
     key |-> Null, val |-> Null, lv |-> 0, level |-> 0, p |-> Null, sib |-> Null,
     range |-> Null, path |-> [l \in 0..MaxLevel |-> Null],
     leaves |-> {}, again |-> {}, rest |-> {}]

Set(t, r) == th' = [th EXCEPT ![t] = r @@ @]

Fail == abort' = TRUE

Init ==
    /\ \E s \in Setups : pages = s.pages /\ rootPtr = s.root /\ todo = s.work
    /\ cache = [n \in Nodes |-> {}]
    /\ th = [t \in Threads |-> IdleThread]
    /\ abort = FALSE

\* The place to begin for key k: what the cache c says, or the root.
Start(c, k) ==
    LET hit == search_from_cache(c, k)
        e == CHOOSE x \in hit : TRUE
    IN  IF hit = {} THEN [pc |-> "root", range |-> Null]
        ELSE [pc |-> "node", range |-> <<e.from, e.to>>, level |-> e.copy.level,
              p |-> child(e.copy, k), sib |-> child_sibling(e.copy, k)]

\* insert, update and search begin with the cache.
Begin(t, w) ==
    [call |-> [st |-> "called", op |-> w.op, key |-> w.key, val |-> w.val],
     key |-> w.key, val |-> w.val]
    @@ Start(cache[node[t]], w.key)

\* The children of a cached node whose ranges [x, next(x)) meet [from, to).
Children(q, from, to) ==
    LET next(x) == Min({y \in DOMAIN q.ents : y > x} \cup {q.highest})
    IN  {q.ents[x] : x \in {y \in DOMAIN q.ents : from < next(y) /\ y < to}}

\* range_query begins with the leaves below the cached nodes.
BeginRange(t, w) ==
    LET es == search_range_from_cache(cache[node[t]], w.key, w.val)
    IN  [pc |-> "range", key |-> w.key, val |-> w.val, rest |-> w.key..(w.val - 1),
         leaves |-> UNION {Children(e.copy, w.key, w.val) : e \in es}]

begin(t) ==
    /\ th[t].pc = "idle" /\ ~abort
    /\ \E w \in todo[t] :
         /\ todo' = [todo EXCEPT ![t] = @ \ {w}]
         /\ Set(t, IF w.op = "range" THEN BeginRange(t, w) ELSE Begin(t, w))
    /\ UNCHANGED <<pages, rootPtr, cache, abort>>

get_root_ptr(t) ==
    /\ th[t].pc = "root" /\ ~abort
    /\ Set(t, [pc |-> "node", p |-> rootPtr.addr, level |-> rootPtr.level, sib |-> Null])
    /\ UNCHANGED <<pages, rootPtr, cache, todo, abort>>

\* The entry that led to p is outdated: begin again without it.
Restart(t) ==
    LET c == invalidate(cache[node[t]], th[t].range)
    IN  /\ cache' = [cache EXCEPT ![node[t]] = c]
        /\ Set(t, Start(c, th[t].key))

\* path_stack[level - 1] = p.
Recorded(t, p) == [th[t].path EXCEPT ![th[t].level - 1] = p]

\* internal_node_search on the way to a leaf, or to the level of insert_internal.
internal_node_search(t) ==
    /\ th[t].pc = "node" /\ th[t].level > 1 /\ th[t].level - 1 # th[t].lv /\ ~abort
    /\ LET s == th[t]
           q == pages[s.p]
       IN  IF s.range # Null /\ ~(q.lowest <= s.key /\ s.key < q.highest)
           THEN Restart(t) /\ UNCHANGED abort
           ELSE IF s.key >= q.highest
           THEN /\ Set(t, [p |-> q.sib, path |-> Recorded(t, q.sib), range |-> Null])
                /\ UNCHANGED <<cache, abort>>
           ELSE IF s.key < q.lowest THEN Fail /\ UNCHANGED <<cache, th>>
           ELSE /\ add_to_cache(node[t], q)
                /\ Set(t, [p |-> child(q, s.key), sib |-> child_sibling(q, s.key),
                           level |-> q.level, path |-> Recorded(t, s.p), range |-> Null])
                /\ UNCHANGED abort
    /\ UNCHANGED <<pages, rootPtr, todo>>

\* The leaf has been split since its parent was cached.
outdated(t, q) == th[t].range # Null /\ th[t].sib # sibling_ptr(q)

Applied(t, v) == [pc |-> "done", call |-> [th[t].call EXCEPT !.st = "applied", !.val = v]]

AtLeaf(t, ops) ==
    th[t].pc = "node" /\ th[t].level = 1 /\ th[t].lv = 0 /\ th[t].call.op \in ops /\ ~abort

\* The key is beyond the largest one of a leaf that has been split.
turn_right(t, q) ==
    th[t].sib # sibling_ptr(q) /\ \A x \in DOMAIN q.ents : x < th[t].key

right_leaf(q, ents) == Leaf(sibling_ptr(q), ents)

\* The leaf is split at sk; with are its records and the new one.
hopscotch_split_and_unlock(t, q, with, sk) ==
    /\ pages' = (NewAddr :> right_leaf(q, From(with, sk))) @@
                [pages EXCEPT ![th[t].p] = Leaf(NewAddr, Below(with, sk))]
    /\ Set(t, [pc |-> IF is_root(q) THEN "newroot" ELSE "parent",
               key |-> separator(Below(with, sk)), val |-> NewAddr,
               call |-> [th[t].call EXCEPT !.st = "applied"], lv |-> 1])

hopscotch_insert_and_unlock(t, with) ==
    /\ pages' = [pages EXCEPT ![th[t].p].ents = with]
    /\ Set(t, [pc |-> "done", call |-> [th[t].call EXCEPT !.st = "applied"]])

leaf_node_insert(t) ==
    /\ AtLeaf(t, {"insert"})
    /\ LET s == th[t]
           q == pages[s.p]
           with == (s.key :> s.val) @@ q.ents
       IN  IF outdated(t, q) THEN Restart(t) /\ UNCHANGED pages
           ELSE /\ UNCHANGED cache
                /\ IF turn_right(t, q)
                   THEN Set(t, [p |-> q.sib, sib |-> Null, range |-> Null]) /\ UNCHANGED pages
                   ELSE IF s.key \in DOMAIN q.ents \/ ~full(q)
                   THEN hopscotch_insert_and_unlock(t, with)
                   ELSE \E sk \in SplitKeys(q, s.key) : hopscotch_split_and_unlock(t, q, with, sk)
    /\ UNCHANGED <<rootPtr, todo, abort>>

entry_write_and_unlock(t) ==
    /\ pages' = [pages EXCEPT ![th[t].p].ents[th[t].key] = th[t].val]
    /\ Set(t, Applied(t, th[t].val))

\* The entry that the index cache points to holds the key.  What it points to is not
\* kept: a read by speculation may succeed whenever the key is in the leaf.
speculative_read(t, q) == th[t].key \in DOMAIN q.ents

\* leaf_node_update.  The speculation may find the key in an outdated leaf.
leaf_node_update(t) ==
    /\ AtLeaf(t, {"update"})
    /\ LET s == th[t]
           q == pages[s.p]
       IN  \/ /\ speculative_read(t, q)
              /\ entry_write_and_unlock(t)
              /\ UNCHANGED <<cache, abort>>
           \/ outdated(t, q) /\ Restart(t) /\ UNCHANGED <<pages, abort>>
           \/ /\ s.key \notin DOMAIN q.ents /\ ~outdated(t, q)
              /\ IF s.sib # sibling_ptr(q) /\ sibling_ptr(q) # Null
                 THEN Set(t, [p |-> q.sib, range |-> Null]) /\ UNCHANGED abort
                 ELSE Fail /\ UNCHANGED th
              /\ UNCHANGED <<pages, cache>>
    /\ UNCHANGED <<rootPtr, todo>>

Leaves == {a \in DOMAIN pages : pages[a].level = 0}

Inners == DOMAIN pages \ Leaves

\* The leaf left of a leaf.
LeftOf(a) == {b \in Leaves : pages[b].sib = a}

\* The first key of a leaf's range: one more than the largest key to its left.
lowest(a) ==
    IF LeftOf(a) = {} THEN 0 ELSE Max(DOMAIN pages[CHOOSE b \in LeftOf(a) : TRUE].ents) + 1

\* A search that does not find its key takes effect when it reads the leaf in
\* whose range the key lies, though it does not know and goes on to the right.
Missed(t, a) ==
    IF lowest(a) <= th[t].key
       /\ (sibling_ptr(pages[a]) # Null => th[t].key <= Max(DOMAIN pages[a].ents))
    THEN [th[t].call EXCEPT !.st = "applied"] ELSE th[t].call

\* Mutant: an absent key is looked for in this leaf only.
OneLeafSearch(t) ==
    /\ AtLeaf(t, {"search"})
    /\ LET s == th[t]
           q == pages[s.p]
       IN  \/ /\ speculative_read(t, q)
              /\ Set(t, Applied(t, q.ents[s.key]))
              /\ UNCHANGED <<cache, abort>>
           \/ outdated(t, q) /\ Restart(t) /\ UNCHANGED abort
           \/ /\ s.key \notin DOMAIN q.ents /\ ~outdated(t, q)
              /\ Set(t, Applied(t, Null)) /\ UNCHANGED <<cache, abort>>
    /\ UNCHANGED <<pages, rootPtr, todo>>

\* leaf_node_search: an absent key is looked for in all the leaves up to the
\* one before the sibling that the parent named.
leaf_node_search(t) ==
    /\ AtLeaf(t, {"search"})
    /\ LET s == th[t]
           q == pages[s.p]
       IN  \/ /\ speculative_read(t, q)
              /\ Set(t, Applied(t, q.ents[s.key]))
              /\ UNCHANGED <<cache, abort>>
           \/ outdated(t, q) /\ Restart(t) /\ UNCHANGED abort
           \/ /\ s.key \notin DOMAIN q.ents /\ ~outdated(t, q)
              /\ IF s.sib = sibling_ptr(q) THEN Set(t, Applied(t, Null)) /\ UNCHANGED abort
                 ELSE IF sibling_ptr(q) = Null THEN Fail /\ UNCHANGED th
                 ELSE /\ Set(t, [p |-> q.sib, range |-> Null, call |-> Missed(t, s.p)])
                      /\ UNCHANGED abort
              /\ UNCHANGED cache
    /\ UNCHANGED <<pages, rootPtr, todo>>

-----------------------------------------------------------------------------
(* The separator of a split node goes one level up.                        *)

\* The root has been split: a new root is installed with a compare and swap, or
\* the separator is inserted from the root that is there instead.
new_root(t) ==
    /\ th[t].pc = "newroot" /\ ~abort
    /\ LET s == th[t]
           q == Inner(s.lv, 0, MaxKey, Null, (0 :> s.p) @@ (s.key :> s.val), Null)
       IN  /\ pages' = (NewAddr :> q) @@ pages
           /\ IF rootPtr = [level |-> s.lv, addr |-> s.p]
              THEN /\ rootPtr' = [level |-> s.lv + 1, addr |-> NewAddr]
                   /\ Set(t, [pc |-> "done"])
              ELSE /\ Set(t, [pc |-> "node", p |-> rootPtr.addr, level |-> rootPtr.level,
                              range |-> Null])
                   /\ UNCHANGED rootPtr
    /\ UNCHANGED <<cache, todo, abort>>

\* Mutant: without a path the separator stays out of the tree.
LostParent(t) ==
    /\ th[t].pc = "parent" /\ ~abort
    /\ LET s == th[t]
       IN  Set(t, IF s.path[s.lv] # Null THEN [pc |-> "up", p |-> s.path[s.lv], range |-> Null]
                  ELSE [pc |-> "done"])
    /\ UNCHANGED <<pages, rootPtr, cache, todo, abort>>

\* The parent is on the path that was taken, or is found in the cache, or from
\* the root.
find_parent(t) ==
    /\ th[t].pc = "parent" /\ ~abort
    /\ LET s == th[t]
           hit == search_ptr_from_cache(cache[node[t]], s.key, s.lv)
           e == CHOOSE x \in hit : TRUE
       IN  Set(t, IF s.path[s.lv] # Null THEN [pc |-> "up", p |-> s.path[s.lv], range |-> Null]
                  ELSE IF hit # {} THEN [pc |-> "up", p |-> child(e.copy, s.key),
                                         range |-> <<e.from, e.to>>]
                  ELSE [pc |-> "root", range |-> Null])
    /\ UNCHANGED <<pages, rootPtr, cache, todo, abort>>

\* records[cnt / 2].key of a full node.
middle(q) ==
    LET recs == DOMAIN q.ents \ {q.lowest}
    IN  CHOOSE s \in recs : Cardinality({x \in recs : x < s}) = Cardinality(recs) \div 2

left_node(q, ents, sk) ==
    Inner(q.level, q.lowest, sk, NewAddr, Below(ents, sk), ents[sk])

right_node(q, ents, sk) ==
    Inner(q.level, sk, q.highest, q.sib, From(ents, sk), q.next)

\* A full node is split in the middle; with are its records and the new one.
node_split_and_unlock(t, q, with) ==
    LET sk == middle(q)
    IN  /\ pages' = (NewAddr :> right_node(q, with, sk)) @@
                    [pages EXCEPT ![th[t].p] = left_node(q, with, sk)]
        /\ Set(t, [pc |-> IF is_root(q) THEN "newroot" ELSE "parent",
                   key |-> sk, val |-> NewAddr, lv |-> th[t].lv + 1])

node_write_and_unlock(t, with) ==
    /\ pages' = [pages EXCEPT ![th[t].p].ents = with]
    /\ Set(t, [pc |-> "done"])

internal_node_insert(t) ==
    /\ th[t].pc = "up" \/ (th[t].pc = "node" /\ th[t].lv > 0 /\ th[t].level - 1 = th[t].lv)
    /\ ~abort
    /\ LET s == th[t]
           q == pages[s.p]
           with == (s.key :> s.val) @@ q.ents
       IN  IF s.range # Null /\ ~(q.lowest <= s.key /\ s.key < q.highest)
           THEN /\ cache' = [cache EXCEPT ![node[t]] = invalidate(@, s.range)]
                /\ Set(t, [pc |-> "root", range |-> Null])
                /\ UNCHANGED <<pages, abort>>
           ELSE IF s.key >= q.highest /\ q.sib # Null
           THEN Set(t, [p |-> q.sib, range |-> Null]) /\ UNCHANGED <<pages, cache, abort>>
           ELSE IF s.key >= q.highest \/ s.key < q.lowest \/ s.key \in DOMAIN q.ents
           THEN Fail /\ UNCHANGED <<pages, cache, th>>
           ELSE /\ UNCHANGED <<cache, abort>>
                /\ IF Cardinality(DOMAIN q.ents) <= IntSpan
                   THEN node_write_and_unlock(t, with)
                   ELSE node_split_and_unlock(t, q, with)
    /\ UNCHANGED <<rootPtr, todo>>

\* insert_internal has come down to a leaf: assert(level > 1).
below_target(t) ==
    /\ th[t].pc = "node" /\ th[t].lv > 0 /\ th[t].level = 1 /\ ~abort
    /\ Fail
    /\ UNCHANGED <<pages, rootPtr, cache, todo, th>>

-----------------------------------------------------------------------------
(* range_query for the keys of [from, to).                                 *)

\* The leaves are read together, in any order.  An entry read where the index cache
\* says that a key is may hold another key by now: the key is looked up again.
read_leaves(t) ==
    /\ th[t].pc = "range" /\ th[t].leaves # {} /\ ~abort
    /\ \E a \in th[t].leaves, missed \in SUBSET th[t].rest :
         LET there == th[t].rest \cap DOMAIN pages[a].ents
         IN  /\ missed \subseteq there
             /\ Set(t, [leaves |-> th[t].leaves \ {a}, again |-> th[t].again \cup missed,
                        rest |-> th[t].rest \ (there \ missed)])
    /\ UNCHANGED <<pages, rootPtr, cache, todo, abort>>

\* A key that was missed so is looked for in the leaf that the cache names now.
read_again(t) ==
    /\ th[t].pc = "range" /\ th[t].leaves = {} /\ th[t].again # {} /\ ~abort
    /\ LET k == Min(th[t].again)
           hit == {e \in search_from_cache(cache[node[t]], k) : e.copy.level = 1}
           there == \E e \in hit : k \in DOMAIN pages[child(e.copy, k)].ents
       IN  Set(t, [again |-> th[t].again \ {k},
                   rest |-> IF there THEN th[t].rest \ {k} ELSE th[t].rest])
    /\ UNCHANGED <<pages, rootPtr, cache, todo, abort>>

\* The keys that have not been found are searched one after the other.
search_rest(t) ==
    /\ th[t].pc = "range" /\ th[t].leaves = {} /\ th[t].again = {} /\ ~abort
    /\ IF th[t].rest = {} THEN Set(t, [pc |-> "done"])
       ELSE LET k == Min(th[t].rest)
            IN  Set(t, Begin(t, [op |-> "search", key |-> k, val |-> Null])
                       @@ [rest |-> th[t].rest \ {k}])
    /\ UNCHANGED <<pages, rootPtr, cache, todo, abort>>

-----------------------------------------------------------------------------
return(t) ==
    /\ th[t].pc = "done" /\ ~abort
    /\ th' = [th EXCEPT ![t] = [IdleThread EXCEPT !.pc = IF th[t].rest = {} THEN "idle" ELSE "range",
                                                  !.rest = th[t].rest]]
    /\ UNCHANGED <<pages, rootPtr, cache, todo, abort>>

Step(t) ==
    \/ begin(t) \/ get_root_ptr(t) \/ internal_node_search(t) \/ leaf_node_insert(t)
    \/ leaf_node_update(t) \/ leaf_node_search(t) \/ new_root(t) \/ find_parent(t)
    \/ internal_node_insert(t) \/ below_target(t) \/ return(t)
    \/ read_leaves(t) \/ read_again(t) \/ search_rest(t)

Over == abort \/ \A t \in Threads : th[t].pc = "idle" /\ todo[t] = {}

Next == (\E t \in Threads : Step(t)) \/ (Over /\ UNCHANGED vars)

Spec == Init /\ [][Next]_vars

FairSpec == Spec /\ \A t \in Threads : WF_vars(Step(t))

-----------------------------------------------------------------------------
(* Properties                                                              *)

\* Nodes and threads are well formed, the nodes hold no more than they have room
\* for and the cache no more than its limit.
TypeOK ==
    /\ \A a \in Leaves : Cardinality(DOMAIN pages[a].ents) \in 1..LeafSpan
    /\ \A a \in Inners : Cardinality(DOMAIN pages[a].ents) \in 2..(IntSpan + 1)
    /\ rootPtr.addr \in DOMAIN pages /\ rootPtr.level = pages[rootPtr.addr].level + 1
    /\ \A t \in Threads : th[t].pc = "node" => pages[th[t].p].level = th[t].level - 1
    /\ \A n \in Nodes : Cardinality({e \in cache[n] : e.copy # Null}) <= CacheNodes

\* A leaf keeps the largest key of its range: the separators that the parents
\* hold, now or ever, are one more than the largest key in the leaf to the left.
\* So the comparison with the largest key (leaf_node_insert) decides as the range
\* that a leaf does not have would.
LeavesEndAtSeparators ==
    /\ \A a \in Leaves : pages[a].sib \in Leaves =>
         Max(DOMAIN pages[a].ents) < Min(DOMAIN pages[pages[a].sib].ents)
    /\ \A a \in Inners : pages[a].level = 1 =>
         \A k \in DOMAIN pages[a].ents : lowest(pages[a].ents[k]) = k

\* Internal nodes of a level follow each other without gap or overlap, and
\* sibling_leftmost_ptr is the leftmost child of the right sibling: the sibling
\* that a parent names for its last child is right after any series of splits.
InnersAreLinked ==
    \A a \in {b \in Inners : pages[b].sib \in Inners} :
      LET q == pages[a]
          r == pages[q.sib]
      IN  q.highest = r.lowest /\ q.level = r.level /\ q.next = r.ents[r.lowest]

\* However old the path or the cached node that led a thread to a node, the node
\* does not lie right of the thread's key (assert(k >= fence_keys.lowest)), but
\* for searches that have missed their key already.
NeverTooFarRight ==
    \A t \in Threads : th[t].pc \in {"node", "up"} /\ (th[t].lv = 0 => th[t].call.st = "called") =>
      LET q == pages[th[t].p]
      IN  (IF q.level = 0 THEN lowest(th[t].p) ELSE q.lowest) <= th[t].key

\* Between operations each node is known one level up.
SplitsReachTheParent ==
    (\A t \in Threads : th[t].pc = "idle") /\ ~abort =>
      DOMAIN pages = {rootPtr.addr} \cup UNION {Range(pages[a].ents) : a \in Inners}

\* What the tree does without: ranges in the leaves.  Separators and largest keys,
\* sibling names and leftmost pointers agree after any series of splits, no old
\* path or cached node leads a thread too far right, and every split arrives one
\* level up (hopscotch_split_and_unlock, insert_internal).
TreeIsSound ==
    TypeOK /\ LeavesEndAtSeparators /\ InnersAreLinked /\ NeverTooFarRight /\ SplitsReachTheParent

\* The map that the leaves hold.
Map ==
    [k \in Keys |->
       IF \E a \in Leaves : k \in DOMAIN pages[a].ents
       THEN pages[CHOOSE a \in Leaves : k \in DOMAIN pages[a].ents].ents[k] ELSE Null]

KV == INSTANCE KVStore WITH
        Clients <- Threads, NoValue <- Null, kv <- Map, call <- [t \in Threads |-> th[t].call]

\* The tree is an atomic map, whatever the caches hold: a store takes effect when
\* its leaf is written, a search returns what is there when it reads the last
\* leaf, and splits and caches change nothing.
IsAtomicMap == KV!Spec

\* Every operation returns: no thread restarts from outdated entries, or walks to
\* the right, for ever.
EveryOperationReturns == <>Over
=============================================================================
