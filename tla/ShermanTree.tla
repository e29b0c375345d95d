---------------------------- MODULE ShermanTree ----------------------------
(***************************************************************************)
(* Sherman's B-link tree in disaggregated memory (the baseline in dex).    *)
(*                                                                         *)
(* A page has a key range [lowest, highest) and a pointer to its right     *)
(* sibling.  A search reads pages without locks and turns right when its   *)
(* key is beyond a page; a store locks one page at a time, splits it if it *)
(* gets full and then inserts the separator one level up.  Each compute    *)
(* node remembers the root it was told of and caches pages of level 1.     *)
(*                                                                         *)
(* The change of one page under its lock is one step (ShermanLock is about *)
(* the locks), and so is a page read.  Between the steps anything happens. *)
(***************************************************************************)
EXTENDS Integers, FiniteSets, Sequences, FiniteSetsExt, Functions, TLC

CONSTANTS
    Threads, Nodes,
    node,        \* the compute node of each thread
    MaxKey,      \* the keys are 0..MaxKey-1; kKeyMax is MaxKey
    Values,
    Null,        \* the null pointer, kValueNull
    LeafCard,    \* kLeafCardinality
    IntCard,     \* kInternalCardinality
    CacheLevel,  \* enable_cache is set when the root reaches this level
    CachePages,  \* pages in a compute node's index cache
    Setups       \* what to begin with: the pages of a tree, its root, and the
                 \* work of each thread, operations to perform in any order

Keys == 0..(MaxKey - 1)

ASSUME ShermanTreeAssumption ==
    /\ LeafCard >= 2 /\ IntCard >= 3 /\ CacheLevel >= 2 /\ CachePages >= 1
    /\ \A t \in Threads : node[t] \in Nodes
    /\ \A s \in Setups : s.root \in DOMAIN s.pages

VARIABLES
    pages,   \* remote memory
    rootPtr, \* the root pointer in remote memory
    groot,   \* g_root_ptr and g_root_level of each compute node
    msgs,    \* NEW_ROOT messages under way
    cache,   \* the index cache of each compute node
    todo,    \* operations that the threads have still to perform
    th,      \* the threads
    abort    \* an assertion has failed and the program has stopped

vars == <<pages, rootPtr, groot, msgs, cache, todo, th, abort>>

-----------------------------------------------------------------------------
(* Pages: ents maps keys to values in a leaf; in an internal page it maps  *)
(* lower bounds to children, lowest to leftmost_ptr.                       *)

Page(level, lowest, highest, sib, ents) ==
    [level |-> level, lowest |-> lowest, highest |-> highest, sib |-> sib, ents |-> ents]

\* last_index + 1, or the number of used records of a leaf.
cnt(q) == Cardinality(DOMAIN q.ents) - (IF q.level = 0 THEN 0 ELSE 1)

isFull(q) == cnt(q) = IF q.level = 0 THEN LeafCard ELSE IntCard

internal_page_search(q, k) == q.ents[Max({x \in DOMAIN q.ents : x <= k})]

leaf_page_search(q, k) == IF k \in DOMAIN q.ents THEN q.ents[k] ELSE Null

\* records[cnt / 2].key of a full page.
split_key(q) ==
    LET recs == IF q.level = 0 THEN DOMAIN q.ents ELSE DOMAIN q.ents \ {q.lowest}
    IN  CHOOSE s \in recs : Cardinality({x \in recs : x < s}) = Cardinality(recs) \div 2

\* dsm->alloc.
NewAddr == Cardinality(DOMAIN pages) + 1

\* Mutant: sibling_ptr of the page is overwritten before it is copied.
Bad_right_page(q) ==
    Page(q.level, split_key(q), q.highest, NewAddr,
         Restrict(q.ents, {x \in DOMAIN q.ents : x >= split_key(q)}))

right_page(q) ==
    Page(q.level, split_key(q), q.highest, q.sib,
         Restrict(q.ents, {x \in DOMAIN q.ents : x >= split_key(q)}))

left_page(q, sib) ==
    Page(q.level, q.lowest, split_key(q), sib,
         Restrict(q.ents, {x \in DOMAIN q.ents : x < split_key(q)}))

-----------------------------------------------------------------------------
(* The index cache: entries [from, to] with a page, or without when the    *)
(* page has been invalidated.                                              *)

enable_cache(n) == groot[n].level >= CacheLevel

\* The skip list orders entries by to, and by from backwards.
Before(e, f) == e.to < f.to \/ (e.to = f.to /\ e.from > f.from)

find_entry(n, k) ==
    LET from == {e \in cache[n] : e.to > k \/ (e.to = k /\ e.from <= k)}
    IN  {e \in from : \A f \in from : f = e \/ Before(e, f)}

\* A hit has a page whose range holds k.
search_from_cache(n, k) == {e \in find_entry(n, k) : e.page # Null /\ e.from <= k}

\* The cached pages from the one of from on, up to the first that lies right of to.
search_range_from_cache(n, from, to) ==
    LET on == {e \in cache[n] : e.page # Null /\ (e.to > from \/ (e.to = from /\ e.from <= from))}
    IN  {e \in on : e.from <= to /\ \A f \in on : Before(f, e) => f.from <= to}

invalidate(n, es) == [cache EXCEPT ![n] = (@ \ es) \cup {[e EXCEPT !.page = Null] : e \in es}]

\* A page that is there stays.  Without a free page one is evicted: pages wait
\* to be freed for a while, so this happens before the limit is reached, too.
add_to_cache(n, q) ==
    LET e == [from |-> q.lowest, to |-> q.highest - 1, page |-> q.ents]
        same == {f \in cache[n] : f.from = e.from /\ f.to = e.to}
        used(es) == {f \in es : f.page # Null}
        more == (cache[n] \ same) \cup {e}
    IN  IF used(same) # {} THEN UNCHANGED cache
        ELSE \/ /\ Cardinality(used(more)) <= CachePages
                /\ cache' = [cache EXCEPT ![n] = more]
             \/ \E f \in used(more) :
                  cache' = [cache EXCEPT ![n] = (more \ {f}) \cup {[f EXCEPT !.page = Null]}]

-----------------------------------------------------------------------------
get_root_ptr(n) == IF groot[n].addr = Null THEN rootPtr ELSE groot[n].addr

MaxLevel == 4

NoPath == [l \in 0..MaxLevel |-> Null]

\* key, val and lv are what is being stored now, at which level; call is the
\* operation itself.
IdleThread ==
    [pc |-> "idle", call |-> [st |-> "idle", op |-> "none", key |-> Null, val |-> Null],
     key |-> Null, val |-> Null, lv |-> 0, root |-> Null, p |-> Null, entry |-> {},
     path |-> NoPath, leaves |-> {}, found |-> {}, seen |-> {}]

Set(t, r) == th' = [th EXCEPT ![t] = r @@ @]

Init ==
    /\ \E s \in Setups :
         /\ pages = s.pages
         /\ rootPtr = s.root
         /\ groot = LET l == s.pages[s.root].level
                    IN  [n \in Nodes |-> IF l = 0 THEN [addr |-> Null, level |-> -1]
                                         ELSE [addr |-> s.root, level |-> l]]
         /\ todo = s.work
    /\ msgs = {}
    /\ cache = [n \in Nodes |-> {}]
    /\ th = [t \in Threads |-> IdleThread]
    /\ abort = FALSE

\* An operation begins with the leaf that the cache leads to, or else with the root.
Begin(t, w, hit, pc) ==
    LET e == CHOOSE x \in hit : TRUE
        root == get_root_ptr(node[t])
        r == [IdleThread EXCEPT
                !.call = [st |-> "called", op |-> w.op, key |-> w.key, val |-> w.val],
                !.key = w.key, !.val = w.val, !.root = root]
    IN  th' = [th EXCEPT ![t] =
          IF hit = {} THEN [r EXCEPT !.pc = "page", !.p = root]
          ELSE [r EXCEPT !.pc = pc, !.p = e.page[Max({x \in DOMAIN e.page : x <= w.key})],
                         !.entry = hit]]

Hit(n, k) == IF enable_cache(n) THEN search_from_cache(n, k) ELSE {}

\* insert and del go on to change the leaf that they find in the cache.
insert(t, w) == w.op = "insert" /\ Begin(t, w, Hit(node[t], w.key), "store")

del(t, w) == w.op = "del" /\ Begin(t, w, Hit(node[t], w.key), "store")

search(t, w) == w.op = "search" /\ Begin(t, w, Hit(node[t], w.key), "page")

\* The children of a cached page that may hold keys of [from, to].
\* Both ends of a child's range count as part of it.
Children(e, from, to) ==
    LET next(x) == Min({y \in DOMAIN e.page : y > x} \cup {e.to + 1})
    IN  {e.page[x] : x \in {y \in DOMAIN e.page : from <= next(y) /\ y <= to}}

\* range_query looks up the cached pages only, and not the tree.  seen remembers
\* the records that the leaves below these pages hold when it begins.
BeginRange(t, w) ==
    w.op = "range" /\
    LET es == search_range_from_cache(node[t], w.key, w.val)
        below == UNION {Range(e.page) : e \in es}
    IN  Set(t, [pc |-> IF es = {} THEN "done" ELSE "range", key |-> w.key, val |-> w.val,
                leaves |-> UNION {Children(e, w.key, w.val) : e \in es},
                seen |-> UNION {{a} \X (DOMAIN pages[a].ents \cap w.key..w.val) : a \in below}])

begin(t) ==
    /\ th[t].pc = "idle" /\ ~abort
    /\ \E w \in todo[t] :
         /\ insert(t, w) \/ del(t, w) \/ search(t, w) \/ BeginRange(t, w)
         /\ todo' = [todo EXCEPT ![t] = @ \ {w}]
    /\ UNCHANGED <<pages, rootPtr, groot, msgs, cache, abort>>

\* The operation has taken effect and is over.
Applied(t, v) == [pc |-> "done", call |-> [th[t].call EXCEPT !.st = "applied", !.val = v]]

Fail == abort' = TRUE

\* The cached page has led to a leaf that does not hold the key (any more).
stale(t, q) == th[t].entry # {} /\ ~(q.lowest <= th[t].key /\ th[t].key < q.highest)

\* Leave the stale entry and start from the root.
FromRoot(t) ==
    /\ cache' = invalidate(node[t], th[t].entry \cap cache[node[t]])
    /\ LET r == IF th[t].call.op = "search" THEN th[t].root ELSE get_root_ptr(node[t])
       IN  Set(t, [pc |-> "page", entry |-> {}, root |-> r, p |-> r])

\* page_search, and what insert, insert_internal, search and del do with the
\* result.  A search ends at the leaf, a store goes on to the page it changes.
page_search(t) ==
    /\ th[t].pc = "page" /\ ~abort
    /\ LET s == th[t]
           q == pages[s.p]
           path == [s.path EXCEPT ![q.level] = s.p]
           reads == s.call.op = "search"
       IN  IF q.level = 0
           THEN IF stale(t, q) THEN FromRoot(t) /\ UNCHANGED abort
                ELSE /\ IF s.lv # 0 \/ s.key < q.lowest THEN Fail /\ UNCHANGED th
                        ELSE /\ IF ~reads THEN Set(t, [pc |-> "store", path |-> path])
                                ELSE IF s.key >= q.highest THEN Set(t, [p |-> q.sib])
                                ELSE Set(t, Applied(t, leaf_page_search(q, s.key)))
                             /\ UNCHANGED abort
                     /\ UNCHANGED cache
           ELSE /\ IF q.level = 1 /\ enable_cache(node[t])
                   THEN add_to_cache(node[t], q) ELSE UNCHANGED cache
                /\ IF s.key < q.lowest \/ s.entry # {} THEN Fail /\ UNCHANGED th
                   ELSE /\ IF s.key >= q.highest THEN Set(t, [p |-> q.sib, path |-> path])
                           ELSE Set(t, [p |-> internal_page_search(q, s.key), path |-> path,
                                        pc |-> IF ~reads /\ q.level = s.lv + 1
                                               THEN "store" ELSE "page"])
                        /\ UNCHANGED abort
    /\ UNCHANGED <<pages, rootPtr, groot, msgs, todo>>

\* Mutant: the separator of a leaf that the cache led to is dropped.
Bad_Up(t, sep, sib) ==
    LET s == th[t]
        up == s.path[s.lv + 1]
        r == [key |-> sep, val |-> sib, lv |-> s.lv + 1]
    IN  IF up # Null THEN Set(t, [pc |-> "store", p |-> up] @@ r) /\ UNCHANGED abort
        ELSE IF s.entry = {} THEN Fail /\ UNCHANGED th
        ELSE Set(t, [pc |-> "done"]) /\ UNCHANGED abort

\* Where the separator goes after a split: up the path that was taken, or, for
\* a leaf that the cache led to, to the page found from the root.
Up(t, sep, sib) ==
    LET s == th[t]
        up == s.path[s.lv + 1]
        r == [key |-> sep, val |-> sib, lv |-> s.lv + 1]
    IN  IF up # Null THEN Set(t, [pc |-> "store", p |-> up] @@ r) /\ UNCHANGED abort
        ELSE IF s.entry = {} THEN Fail /\ UNCHANGED th
        ELSE LET root == get_root_ptr(node[t])
             IN  Set(t, [pc |-> "page", p |-> root, root |-> root, entry |-> {}] @@ r) /\ UNCHANGED abort

\* Mutant: the page is split without the key that filled it.
Bad_Stored(q, k, v) ==
    IF k \in DOMAIN q.ents \/ cnt(q) + 1 < IF q.level = 0 THEN LeafCard ELSE IntCard
    THEN [q EXCEPT !.ents = (k :> v) @@ @]
    ELSE [q EXCEPT !.ents = (k :> CHOOSE x \in Range(q.ents) : TRUE) @@ @]

\* The page with the new record, or with the new value of an old one.
Stored(q, k, v) == [q EXCEPT !.ents = (k :> v) @@ @]

\* The linearization point of an insertion is the store into the leaf.
Effect(t) == IF th[t].lv = 0 THEN [th[t].call EXCEPT !.st = "applied"] ELSE th[t].call

\* What leaf_page_store and internal_page_store do with one page under its lock.
page_store(t) ==
    /\ th[t].pc = "store" /\ th[t].call.op = "insert" /\ ~abort
    /\ LET s == th[t]
           q == pages[s.p]
           r == Stored(q, s.key, s.val)
       IN  IF q.level # s.lv \/ (s.entry = {} /\ s.key < q.lowest)
           THEN Fail /\ UNCHANGED <<pages, cache, th>>
           ELSE /\ UNCHANGED abort
                /\ IF stale(t, q) THEN FromRoot(t) /\ UNCHANGED pages
                   ELSE /\ UNCHANGED cache
                        /\ IF s.key >= q.highest
                           THEN Set(t, [p |-> q.sib]) /\ UNCHANGED pages
                           ELSE IF ~isFull(r)
                           THEN /\ pages' = [pages EXCEPT ![s.p] = r]
                                /\ Set(t, [pc |-> "done", call |-> Effect(t)])
                           ELSE /\ pages' = (NewAddr :> right_page(r)) @@
                                            [pages EXCEPT ![s.p] = left_page(r, NewAddr)]
                                /\ Set(t, [pc |-> "split", call |-> Effect(t),
                                           key |-> split_key(r), val |-> NewAddr])
    /\ UNCHANGED <<rootPtr, groot, msgs, todo>>

\* The record goes into a leaf, which the cache may have led to.
leaf_page_store(t) == th[t].lv = 0 /\ page_store(t)

\* The separator of a split goes into a page above.
internal_page_store(t) == th[t].lv > 0 /\ page_store(t)

\* After a split: if the page was the root the new root is installed with a
\* compare and swap and announced; otherwise the separator goes up.
update_new_root(t) ==
    /\ th[t].pc = "split" /\ ~abort
    /\ LET s == th[t]
           lv == s.lv + 1
           new == Page(lv, 0, MaxKey, Null, (0 :> s.p) @@ (s.key :> s.val))
       IN  IF s.root = s.p /\ rootPtr = s.root
           THEN /\ pages' = (NewAddr :> new) @@ pages
                /\ rootPtr' = NewAddr
                /\ msgs' = msgs \cup {[to |-> n, addr |-> NewAddr, level |-> lv] : n \in Nodes}
                /\ Set(t, [pc |-> "done"])
                /\ UNCHANGED abort
           ELSE Up(t, s.key, s.val) /\ UNCHANGED <<pages, rootPtr, msgs>>
    /\ UNCHANGED <<groot, cache, todo>>

leaf_page_del(t) ==
    /\ th[t].pc = "store" /\ th[t].call.op = "del" /\ ~abort
    /\ LET s == th[t]
           q == pages[s.p]
       IN  IF q.level # 0 \/ (s.entry = {} /\ s.key < q.lowest)
           THEN Fail /\ UNCHANGED <<pages, cache, th>>
           ELSE /\ UNCHANGED abort
                /\ IF stale(t, q) THEN FromRoot(t) /\ UNCHANGED pages
                   ELSE /\ UNCHANGED cache
                        /\ IF s.key >= q.highest
                           THEN Set(t, [p |-> q.sib]) /\ UNCHANGED pages
                           ELSE /\ pages' = [pages EXCEPT ![s.p].ents =
                                               Restrict(@, DOMAIN @ \ {s.key})]
                                /\ Set(t, Applied(t, Null))
    /\ UNCHANGED <<rootPtr, groot, msgs, todo>>

\* range_query has read one of the leaves, whose reads are under way together,
\* and keeps the records in [from, to]; after the last one it returns.
range_query(t) ==
    /\ th[t].pc = "range" /\ ~abort
    /\ IF th[t].leaves = {} THEN Set(t, [pc |-> "done"])
       ELSE \E a \in th[t].leaves :
              Set(t, [leaves |-> th[t].leaves \ {a},
                      found |-> th[t].found \cup (DOMAIN pages[a].ents \cap th[t].key..th[t].val)])
    /\ UNCHANGED <<pages, rootPtr, groot, msgs, cache, todo, abort>>

\* The operation returns to its caller.
return(t) ==
    /\ th[t].pc = "done" /\ ~abort
    /\ th' = [th EXCEPT ![t] = IdleThread]
    /\ UNCHANGED <<pages, rootPtr, groot, msgs, cache, todo, abort>>

\* The directory thread learns of a root and keeps the highest one.
process_message(m) ==
    /\ msgs' = msgs \ {m} /\ ~abort
    /\ groot' = IF groot[m.to].level < m.level
                THEN [groot EXCEPT ![m.to] = [addr |-> m.addr, level |-> m.level]] ELSE groot
    /\ UNCHANGED <<pages, rootPtr, cache, todo, th, abort>>

Step(t) ==
    \/ begin(t) \/ page_search(t) \/ leaf_page_store(t) \/ internal_page_store(t) \/ update_new_root(t)
    \/ leaf_page_del(t) \/ range_query(t) \/ return(t)

\* All operations are done, or the program has stopped.
Finished ==
    /\ abort \/ \A t \in Threads : th[t].pc = "idle" /\ todo[t] = {}
    /\ UNCHANGED vars

Next == (\E t \in Threads : Step(t)) \/ (\E m \in msgs : process_message(m)) \/ Finished

Spec == Init /\ [][Next]_vars

FairSpec == Spec /\ \A t \in Threads : WF_vars(Step(t))

-----------------------------------------------------------------------------
(* Properties                                                              *)

\* Pages, threads and caches are well formed; no page stays full once its lock
\* is released (the stores assert it when they take the lock).
TypeOK ==
    /\ \A a \in DOMAIN pages :
         /\ pages[a].level \in 0..MaxLevel
         /\ cnt(pages[a]) < IF pages[a].level = 0 THEN LeafCard ELSE IntCard
         /\ pages[a].lowest < pages[a].highest /\ pages[a].sib \in DOMAIN pages \cup {Null}
         /\ \A k \in DOMAIN pages[a].ents :
              pages[a].lowest <= k /\ k < pages[a].highest
    /\ rootPtr \in DOMAIN pages
    /\ \A t \in Threads : th[t].pc \in {"page", "store", "split"} => th[t].p \in DOMAIN pages
    /\ \A n \in Nodes : Cardinality({e \in cache[n] : e.page # Null}) <= CachePages

\* The pages of a level are linked from left to right without gap or overlap,
\* and each child's range starts at its separator: through all splits, in any
\* order, a search that turns right finds its key.
BLink ==
    \A a \in DOMAIN pages :
      LET q == pages[a]
      IN  /\ IF q.sib = Null THEN q.highest = MaxKey
             ELSE pages[q.sib].lowest = q.highest /\ pages[q.sib].level = q.level
          /\ q.level > 0 => \A k \in DOMAIN q.ents :
               pages[q.ents[k]].lowest = k /\ pages[q.ents[k]].level = q.level - 1

\* However old the root, the path, or the cached page that led a thread to a
\* page, the page is of the right level and does not lie right of its key
\* (assert(k >= page->hdr.lowest), assert(page->hdr.level == level)).
NeverTooFarRight ==
    \A t \in Threads :
      /\ th[t].pc \in {"page", "store"} => pages[th[t].p].lowest <= th[t].key
      /\ th[t].pc = "store" => pages[th[t].p].level = th[t].lv

\* The pages that some page of the next level, or the root pointer, points to.
Linked ==
    {rootPtr} \cup UNION {Range(pages[a].ents) : a \in {b \in DOMAIN pages : pages[b].level > 0}}

\* Between operations every page is known one level up: no split leaves a page
\* that is only reached through its left sibling.
SplitsReachTheParent ==
    (\A t \in Threads : th[t].pc = "idle") /\ ~abort => DOMAIN pages = Linked

\* A range query that returns has every record that was, all the time, in one
\* and the same leaf below the cached pages that the query started from.  (One
\* that a split moved meanwhile, or before to a leaf the cache does not know, it
\* may miss.  No key is deleted and inserted again in the instances.)
RangesAreComplete ==
    \A t \in Threads : th[t].pc = "done" =>
      \A r \in th[t].seen : r[2] \in DOMAIN pages[r[1]].ents => r[2] \in th[t].found

\* Whatever the order of splits, new roots and late separators, the pages of a
\* level stay linked without gap or overlap, no page stays full, no stale root,
\* path or cache entry leads a thread too far right, every split arrives one
\* level up, and no range query skips a leaf that it knows (page_search,
\* leaf_page_store, internal_page_store, range_query).
TreeIsSound ==
    TypeOK /\ BLink /\ NeverTooFarRight /\ SplitsReachTheParent /\ RangesAreComplete

\* The map that the leaves hold.
Map ==
    [k \in Keys |->
       LET a == CHOOSE b \in DOMAIN pages :
                  pages[b].level = 0 /\ pages[b].lowest <= k /\ k < pages[b].highest
       IN  leaf_page_search(pages[a], k)]

KV == INSTANCE KVStore WITH
        Clients <- Threads, NoValue <- Null, kv <- Map, call <- [t \in Threads |-> th[t].call]

\* The tree is an atomic map: insertions and deletions take effect when the leaf
\* is written, a search returns the value of the moment it reads the leaf, and a
\* split, a new root or an update of a cache changes nothing.
IsAtomicMap == KV!Spec

\* Every operation returns (unless an assertion has stopped the program).
EveryOperationReturns == <>(abort \/ \A t \in Threads : th[t].pc = "idle" /\ todo[t] = {})
=============================================================================
