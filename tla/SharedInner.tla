---------------------------- MODULE SharedInner ----------------------------
(***************************************************************************)
(* How DEX's compute nodes change the inner nodes they share.              *)
(*                                                                         *)
(* Each compute node owns the keys [left, right).  Inner nodes whose range *)
(* spans a bound are shared: every compute node may cache a copy, and a    *)
(* change takes the remote lock, compares the copy's front_version with    *)
(* the remote one, writes the page back and releases the lock.  A compute  *)
(* node that finds its copies outdated refreshes them from the root,       *)
(* splitting full shared nodes on the way; a node that has come to lie in  *)
(* one partition is made private and changed without the remote side.      *)
(*                                                                         *)
(* One thread per compute node: the threads of one node are serialised by  *)
(* the optimistic page lock (OptLock).  A node is named <<level, min>>:    *)
(* min_limit_ never changes and nodes are never freed, so the child in a   *)
(* slot with lower bound m of a node of level l is <<l - 1, m>>.  Leaves   *)
(* are named by their min_limit_.                                          *)
(***************************************************************************)
EXTENDS Integers, FiniteSets, Sequences, FiniteSetsExt, TLC

CONSTANTS
    Nodes,        \* compute nodes
    None,         \* no lock holder, no parent
    Absent,       \* no page at this address, no copy in the buffer pool
    MaxKey,       \* the keys are 1..MaxKey
    Capacity,     \* separators in a full inner node (maxEntries - 1)
    MaxLevel,     \* levels of inner nodes
    Loader,       \* the compute node that bulk loaded and called set_shared
    Setups        \* the partitions and the trees to begin with, see setup

Keys == 1..MaxKey

Addr == (1..MaxLevel) \X (0..(MaxKey - 1))

\* The parent of the root: super_root_, level 255.
Super == <<255, 0>>

level(n) == n[1]

min_limit(n) == n[2]

ASSUME SharedInnerAssumption ==
    /\ Capacity >= 4
    /\ Loader \in Nodes
    /\ \A s \in Setups :
         /\ s.root \in DOMAIN s.pages
         /\ \A c \in Nodes : s.splits[c] \subseteq s.left[c]..(s.right[c] - 1)

VARIABLES
    remote,    \* remote memory: the pages of inner nodes
    rootPtr,   \* remote memory: the root pointer
    rootLock,  \* remote memory: the lock of the root pointer
    leafMax,   \* max_limit_ of each leaf, 0 while it is not allocated
    mem,       \* mem[c]: the inner nodes in c's buffer pool
    root,      \* root[c]: the root that c knows
    todo,      \* todo[c]: leaf splits that c has still to make
    th,        \* th[c]: the thread of c
    setup      \* never changes: the partition [left[c], right[c]) of each c, the
               \* bulk-loaded pages and their root, the keys splits[c] at which
               \* leaves of c fill up, the nodes the buffer pools may evict

core == <<remote, rootPtr, rootLock, leafMax, mem, root, todo, th>>
vars == <<core, setup>>

left == setup.left
right == setup.right

-----------------------------------------------------------------------------
(* Pages                                                                   *)

\* count == maxEntries - 1.
isFull(p) == Cardinality(p.seps) = Capacity

\* The range of the slot that holds k is (slot_min, slot_max].
slot_min(n, p, k) == Max({b \in {min_limit(n)} \cup p.seps : b < k})

slot_max(p, k) == Min({b \in p.seps \cup {p.max} : b >= k})

\* The child that lowerBound(k) selects.
child(n, p, k) == <<level(n) - 1, slot_min(n, p, k)>>

\* new_check_limit_match: the child's range is its slot in the parent.
fits(p, m, q) == q.max = slot_max(p, min_limit(m) + 1)

\* split: the separator that moves up; the left half keeps the smaller ones.
split_sep(p) ==
    LET count == Cardinality(p.seps)
        keep == count - (count - count \div 2) - 1
    IN  CHOOSE s \in p.seps : Cardinality({x \in p.seps : x < s}) = keep

left_half(p) ==
    [p EXCEPT !.seps = {x \in p.seps : x < split_sep(p)}, !.max = split_sep(p),
              !.ver = p.ver + 1, !.dirty = TRUE]

right_half(p, shared) ==
    [p EXCEPT !.seps = {x \in p.seps : x > split_sep(p)}, !.ver = 0,
              !.shared = shared, !.dirty = TRUE]

\* BTreeInner::insert of a separator and the node right of it.
insert_sep(p, s) ==
    [p EXCEPT !.seps = p.seps \cup {s}, !.ver = p.ver + 1, !.dirty = TRUE]

\* remote_to_cache, buffer_to_cache: everything but the lock word is copied.
to_cache(q, parent) ==
    [ver |-> q.ver, seps |-> q.seps, max |-> q.max, shared |-> q.shared,
     dirty |-> FALSE, parent |-> parent]

\* The page that remote_write sends, with its lock word.
to_page(p, lock) ==
    [lock |-> lock, ver |-> p.ver, seps |-> p.seps, max |-> p.max,
     shared |-> p.shared, back |-> p.ver]

fit_limits(c, n, q) == min_limit(n) < right[c] /\ q.max >= left[c]

is_private(c, n, p) == min_limit(n) >= left[c] /\ p.max < right[c]

\* sync_or_not: a slot inside the partition is read without synchronisation.
sync_or_not(c, n, p, k) ==
    ~(slot_min(n, p, k) >= left[c] /\ slot_max(p, k) < right[c])

\* check_global_conflict: locked, or of another version.
check_global_conflict(n, p) == remote[n].lock # None \/ remote[n].ver # p.ver

-----------------------------------------------------------------------------
(* Threads                                                                 *)

\* Forget the path, the read buffer and the network operations.
Clean == [cur |-> Super, par |-> Super, tgt |-> Super, why |-> "none",
          hdr |-> 0, rd |-> Absent, wq |-> << >>, next |-> "none", smo |-> "none"]

Set(c, r) == th' = [th EXCEPT ![c] = r @@ @]

\* goto restart, in insert or in new_refresh_from_root.
Begin(op) == [pc |-> IF op = "insert" THEN "restart" ELSE "root", op |-> op] @@ Clean

Restart(c) == Set(c, Begin(th[c].op))

\* Call new_refresh_from_root, or restart it.
Refresh(c) == Set(c, Begin("refresh"))

\* Issue network operations one by one and then continue with r.
Network(c, ops, r) == Set(c, [pc |-> "net", wq |-> ops, next |-> r])

\* Set the cursor to a node in the buffer pool.
Visit(c, n, parent) ==
    Set(c, [Clean EXCEPT !.cur = n, !.par = parent] @@ [pc |-> "node"])

Own(c) == mem[c][th[c].cur]

OwnParent(c) == mem[c][th[c].par]

\* The children of n are no longer reached through n's copy.
Orphan(pool, n) ==
    [m \in Addr |-> IF pool[m] # Absent /\ pool[m].parent = n
                    THEN [pool[m] EXCEPT !.parent = None] ELSE pool[m]]

Install(c, n, p) == mem' = [mem EXCEPT ![c][n] = p]

Init ==
    /\ setup \in Setups
    /\ remote = [n \in Addr |-> IF n \in DOMAIN setup.pages
                                THEN to_page(setup.pages[n], None) ELSE Absent]
    /\ rootPtr = setup.root
    /\ rootLock = None
    /\ leafMax = LET low == {n \in DOMAIN setup.pages : level(n) = 1}
                     ends == {MaxKey} \cup UNION {setup.pages[n].seps \cup {min_limit(n)} : n \in low}
                 IN  [m \in 0..(MaxKey - 1) |->
                        IF m \in ends THEN Min({b \in ends : b > m}) ELSE 0]
    /\ mem = [c \in Nodes |-> [n \in Addr |-> Absent]]
    /\ root = [c \in Nodes |-> setup.root]
    /\ todo = setup.splits
    /\ th = [c \in Nodes |-> [pc |-> "idle", op |-> "insert", key |-> 0] @@ Clean]

\* A key of c arrives whose leaf is full.
insert(c) ==
    /\ th[c].pc = "idle"
    /\ \E k \in todo[c] : Set(c, [key |-> k] @@ Begin("insert"))
    /\ UNCHANGED <<remote, rootPtr, rootLock, leafMax, mem, root, todo>>

\* The descent starts at the root, which is loaded if it is not there.
restart(c) ==
    /\ th[c].pc = "restart"
    /\ IF mem[c][root[c]] # Absent THEN Visit(c, root[c], Super) ELSE Set(c, [pc |-> "root"])
    /\ UNCHANGED <<remote, rootPtr, rootLock, leafMax, mem, root, todo>>

\* load_newest_root: compare the root pointer with the root c knows.
get_remote_root(c) ==
    /\ th[c].pc = "root"
    /\ IF rootPtr = root[c] /\ mem[c][root[c]] # Absent
       THEN Visit(c, root[c], Super)
       ELSE Set(c, [pc |-> "header", why |-> "root", tgt |-> rootPtr])
    /\ UNCHANGED <<remote, rootPtr, rootLock, leafMax, mem, root, todo>>

-----------------------------------------------------------------------------
(* opt_remote_read: header, page, header again                             *)

\* What the caller of opt_remote_read does when it returns nullptr.  Inside
\* new_refresh_from_root, load_newest_root then returns without needRestart
\* and the descent goes on from the root that is known.
ReadFailed(c) ==
    IF th[c].why = "load" THEN Refresh(c)
    ELSE IF th[c].why = "root" /\ th[c].op = "refresh" THEN Visit(c, root[c], Super)
    ELSE Restart(c)

read_header(c) ==
    /\ th[c].pc = "header"
    /\ LET q == remote[th[c].tgt]
       IN  IF q.lock # None THEN ReadFailed(c)
           ELSE Set(c, [pc |-> "page", hdr |-> q.ver])
    /\ UNCHANGED <<remote, rootPtr, rootLock, leafMax, mem, root, todo>>

read_page(c) ==
    /\ th[c].pc = "page"
    /\ Set(c, [pc |-> "verify", rd |-> remote[th[c].tgt]])
    /\ UNCHANGED <<remote, rootPtr, rootLock, leafMax, mem, root, todo>>

Verified(c) == remote[th[c].tgt].lock = None /\ remote[th[c].tgt].ver = th[c].hdr

read_verify(c) ==
    /\ th[c].pc = "verify"
    /\ IF ~Verified(c) THEN ReadFailed(c)
       ELSE Set(c, [pc |-> CASE th[c].why = "root" -> "test_root_lock"
                             [] th[c].why = "load" -> "loaded"
                             [] th[c].why = "refresh" -> "compare"])
    /\ UNCHANGED <<remote, rootPtr, rootLock, leafMax, mem, root, todo>>

\* raw_remote_read of a child inside the partition.
raw_remote_read(c) ==
    /\ th[c].pc = "raw"
    /\ Set(c, [pc |-> "loaded", rd |-> remote[th[c].tgt]])
    /\ UNCHANGED <<remote, rootPtr, rootLock, leafMax, mem, root, todo>>

\* simple_cold_to_hot: a page that does not fit its slot asks for a refresh.
simple_cold_to_hot(c) ==
    /\ th[c].pc = "loaded"
    /\ LET t == th[c]
           q == t.rd
       IN  IF fit_limits(c, t.tgt, q) /\ fits(Own(c), t.tgt, q)
           THEN Install(c, t.tgt, to_cache(q, t.cur)) /\ Visit(c, t.tgt, t.cur)
           ELSE Refresh(c) /\ UNCHANGED mem
    /\ UNCHANGED <<remote, rootPtr, rootLock, leafMax, root, todo>>

-----------------------------------------------------------------------------
(* The checks of the root pointer and of the parent                        *)

\* updatest_replace: the copy is replaced by the page in the read buffer.
updatest_replace(c) ==
    /\ mem' = [mem EXCEPT ![c] =
                 [Orphan(@, th[c].cur) EXCEPT ![th[c].cur] = to_cache(th[c].rd, th[c].par)]]
    /\ root' = root
    /\ Restart(c)

\* load_newest_root: the new root goes into the buffer pool.
load_newest_root(c) ==
    /\ mem' = [mem EXCEPT ![c] =
                 [Orphan(Orphan(@, Super), th[c].tgt)
                    EXCEPT ![th[c].tgt] = to_cache(th[c].rd, Super)]]
    /\ root' = [root EXCEPT ![c] = th[c].tgt]
    /\ Restart(c)

\* new_get_mem_node: go to the child, from the slot or from the page table if
\* its range matches; otherwise check which copy is outdated; or load it.
get_mem_node(c) ==
    LET n == th[c].cur
        m == child(n, Own(c), th[c].key)
        q == mem[c][m]
    IN  IF q = Absent
        THEN /\ Set(c, [pc |-> IF sync_or_not(c, n, Own(c), th[c].key)
                               THEN "header" ELSE "raw", why |-> "load", tgt |-> m])
             /\ UNCHANGED mem
        ELSE IF q.parent = n
        THEN Visit(c, m, n) /\ UNCHANGED mem
        ELSE IF fits(Own(c), m, q) \/ ~(q.shared \/ Own(c).shared)
        THEN Visit(c, m, n) /\ Install(c, m, [q EXCEPT !.parent = n])
        ELSE /\ Set(c, [pc |-> "stale", why |-> IF q.shared THEN "child" ELSE "parent",
                        tgt |-> m])
             /\ UNCHANGED mem

\* cache_get, when the ranges do not match: a shared child that differs from
\* the remote one is dropped, then a shared parent that differs is refreshed.
\* When neither differs the child is swizzled all the same.
stale(c) ==
    /\ th[c].pc = "stale"
    /\ LET t == th[c]
           n == IF t.why = "child" THEN t.tgt ELSE t.cur
       IN  IF check_global_conflict(n, mem[c][n])
           THEN /\ IF t.why = "child" THEN Install(c, n, Absent) ELSE UNCHANGED mem
                /\ Refresh(c)
           ELSE IF t.why = "child" /\ Own(c).shared
           THEN Set(c, [why |-> "parent"]) /\ UNCHANGED mem
           ELSE /\ Visit(c, t.tgt, t.cur)
                /\ Install(c, t.tgt, [mem[c][t.tgt] EXCEPT !.parent = t.cur])
    /\ UNCHANGED <<remote, rootPtr, rootLock, leafMax, root, todo>>

\* The refresh is over at the leaf; above, it goes down to the child.
Descend(c) ==
    /\ IF level(th[c].cur) = 1 THEN Set(c, Begin("insert")) /\ UNCHANGED mem
       ELSE get_mem_node(c)
    /\ UNCHANGED root

\* What follows when the root pointer, or the parent, is as expected.
Passed(c) ==
    \/ th[c].why = "root" /\ load_newest_root(c)
    \/ th[c].why = "replace" /\ updatest_replace(c)
    \/ th[c].why = "validate" /\ Descend(c)

test_root_lock(c) ==
    /\ th[c].pc = "test_root_lock"
    /\ IF rootLock # None THEN Restart(c) ELSE Set(c, [pc |-> "test_root_ptr"])
    /\ UNCHANGED <<remote, rootPtr, rootLock, leafMax, mem, root, todo>>

test_root_ptr(c) ==
    /\ th[c].pc = "test_root_ptr"
    /\ IF rootPtr # (IF th[c].why = "root" THEN th[c].tgt ELSE root[c])
       THEN Restart(c) /\ UNCHANGED <<mem, root>> ELSE Passed(c)
    /\ UNCHANGED <<remote, rootPtr, rootLock, leafMax, todo>>

\* parent_read_unlock and check_parent_global_conflict below the root.
test_parent(c) ==
    /\ th[c].pc = "test_parent"
    /\ IF check_global_conflict(th[c].par, OwnParent(c))
       THEN Restart(c) /\ UNCHANGED <<mem, root>> ELSE Passed(c)
    /\ UNCHANGED <<remote, rootPtr, rootLock, leafMax, todo>>

-----------------------------------------------------------------------------
(* new_refresh_from_root                                                   *)

\* Where the check of the parent starts.
CheckParent(c) == IF th[c].par = Super THEN "test_root_lock" ELSE "test_parent"

\* parent_read_unlock: a private parent and, except where set_shared ran, the
\* super root are only checked locally.
parent_read_unlock(c) ==
    /\ th[c].pc = "parent"
    /\ IF IF th[c].par = Super THEN c = Loader ELSE OwnParent(c).shared
       THEN /\ Set(c, [pc |-> CheckParent(c), why |-> "validate"])
            /\ UNCHANGED <<mem, root>>
       ELSE Descend(c)
    /\ UNCHANGED <<remote, rootPtr, rootLock, leafMax, todo>>

\* A shared node is compared with the remote one.
refresh_node(c) ==
    /\ th[c].pc = "node" /\ th[c].op = "refresh"
    /\ Set(c, IF Own(c).shared
              THEN [pc |-> "header", why |-> "refresh", tgt |-> th[c].cur]
              ELSE [pc |-> "parent"])
    /\ UNCHANGED <<remote, rootPtr, rootLock, leafMax, mem, root, todo>>

\* Mutant: a full shared node is never split.
Bad_SplitOrGoOn(c) == IF isFull(Own(c)) THEN "parent" ELSE "parent"

\* A full shared node is split before the descent goes on.
SplitOrGoOn(c) == IF isFull(Own(c)) THEN "lock_parent" ELSE "parent"

compare(c) ==
    /\ th[c].pc = "compare"
    /\ IF th[c].rd.ver > Own(c).ver
       THEN IF fit_limits(c, th[c].cur, th[c].rd)
            THEN Set(c, [pc |-> CheckParent(c), why |-> "replace"])
            ELSE Restart(c)
       ELSE Set(c, [pc |-> IF is_private(c, th[c].cur, Own(c))
                           THEN "io_lock" ELSE SplitOrGoOn(c)])
    /\ UNCHANGED <<remote, rootPtr, rootLock, leafMax, mem, root, todo>>

-----------------------------------------------------------------------------
(* Network operations.  remote_write is not atomic: the header arrives     *)
(* before the rest of the page.                                            *)

Write(n, p, lock) ==
    <<[op |-> "head", at |-> n, page |-> to_page(p, lock)],
      [op |-> "body", at |-> n, page |-> to_page(p, lock)]>>

\* A page that no other node points to yet is written in one step.
WriteNew(n, p) == <<[op |-> "page", at |-> n, page |-> to_page(p, None)]>>

\* release_remote_lock; the root pointer's lock stands for that of super_root_.
Unlock(n) == <<[op |-> IF n = Super THEN "root_unlock" ELSE "unlock", at |-> n]>>

UpdateRoot(new, old) == <<[op |-> "root_cas", at |-> new, old |-> old]>>

network(c) ==
    /\ th[c].pc = "net"
    /\ LET o == Head(th[c].wq)
       IN  /\ CASE o.op = "head" ->
                     remote' = [remote EXCEPT ![o.at].lock = o.page.lock, ![o.at].ver = o.page.ver]
                [] o.op = "body" ->
                     remote' = [remote EXCEPT ![o.at] = [o.page EXCEPT !.lock = remote[o.at].lock]]
                [] o.op = "page" -> remote' = [remote EXCEPT ![o.at] = o.page]
                [] o.op = "unlock" -> remote' = [remote EXCEPT ![o.at].lock = None]
                [] OTHER -> remote' = remote
           /\ rootPtr' = IF o.op = "root_cas" /\ rootPtr = o.old THEN o.at ELSE rootPtr
           /\ rootLock' = IF o.op = "root_unlock" THEN None ELSE rootLock
    /\ IF Len(th[c].wq) = 1 THEN Set(c, th[c].next)
       ELSE Set(c, [wq |-> Tail(th[c].wq)])
    /\ UNCHANGED <<leafMax, mem, root, todo>>

-----------------------------------------------------------------------------
(* Splitting a full shared node, top down                                  *)

\* Mutant: the lock word of a page is overwritten.
Bad_Locked(n) == n = Super /\ rootLock # None

\* try_get_remote_lock of a page or of the root pointer.
Locked(n) == IF n = Super THEN rootLock # None ELSE remote[n].lock # None

Lock(c, n) ==
    IF n = Super THEN rootLock' = c /\ UNCHANGED remote
    ELSE remote' = [remote EXCEPT ![n].lock = c] /\ UNCHANGED rootLock

\* full_lock_with_check, full_IO_lock_with_check: the remote lock, or give up
\* and release what is held.
Acquire(c, from, n, to, held) ==
    /\ th[c].pc = from
    /\ IF Locked(n)
       THEN /\ IF held = << >> THEN Restart(c) ELSE Network(c, held, Begin(th[c].op))
            /\ UNCHANGED <<remote, rootLock>>
       ELSE Lock(c, n) /\ Set(c, [pc |-> to])
    /\ UNCHANGED <<rootPtr, leafMax, mem, root, todo>>

lock_parent(c) == Acquire(c, "lock_parent", th[c].par, "match_parent", << >>)

lock_node(c) == Acquire(c, "lock_node", th[c].cur, "match_node", Unlock(th[c].par))

io_lock(c) == Acquire(c, "io_lock", th[c].cur, "match_io", << >>)

\* Mutant: neither the versions nor the root pointers are compared.
Bad_is_local_remote_match(c, n) == c \in Nodes /\ n \in Addr \cup {Super}

\* is_local_remote_match, or the comparison of the root pointers.
is_local_remote_match(c, n) ==
    IF n = Super THEN rootPtr = root[c] ELSE remote[n].ver = mem[c][n].ver

match_parent(c) ==
    /\ th[c].pc = "match_parent"
    /\ IF is_local_remote_match(c, th[c].par) THEN Set(c, [pc |-> "lock_node"])
       ELSE Network(c, Unlock(th[c].par), Begin(th[c].op))
    /\ UNCHANGED <<remote, rootPtr, rootLock, leafMax, mem, root, todo>>

\* split the copy of n; the swizzled children of the right half follow it.
SplitCopy(pool, n, shared, parent) ==
    LET new == <<level(n), split_sep(pool[n])>>
    IN  [m \in Addr |->
           CASE m = n -> left_half(pool[n])
             [] m = new -> [right_half(pool[n], shared) EXCEPT !.parent = parent]
             [] pool[m] # Absent /\ pool[m].parent = n /\ min_limit(m) >= min_limit(new) ->
                  [pool[m] EXCEPT !.parent = new]
             [] OTHER -> pool[m]]

\* remote_write_unswizzle leaves the copy clean.
Clear(pool, written) ==
    [m \in Addr |-> IF m \in written THEN [pool[m] EXCEPT !.dirty = FALSE] ELSE pool[m]]

\* The node splits below its parent, which gets the separator.
split_below(c, n, parent, sep, new) ==
    LET pool == [SplitCopy(mem[c], n, TRUE, parent) EXCEPT ![parent] = insert_sep(@, sep)]
    IN  /\ mem' = [mem EXCEPT ![c] = Clear(pool, {n, new, parent})]
        /\ root' = root
        /\ Network(c, WriteNew(new, pool[new]) \o Write(n, pool[n], c)
                       \o Write(parent, pool[parent], c) \o Unlock(n) \o Unlock(parent),
                   Begin("refresh"))

\* makeRoot: the root splits below a new root.
makeRoot(c, n, sep, new) ==
    LET top == <<level(n) + 1, 0>>
        pool == [SplitCopy(mem[c], n, TRUE, top) EXCEPT
                   ![n].parent = top,
                   ![top] = [ver |-> 0, seps |-> {sep}, max |-> MaxKey, shared |-> TRUE,
                             dirty |-> TRUE, parent |-> Super]]
    IN  /\ mem' = [mem EXCEPT ![c] = Clear(pool, {n, new, top})]
        /\ root' = [root EXCEPT ![c] = top]
        /\ Network(c, WriteNew(new, pool[new]) \o Write(n, pool[n], c)
                       \o WriteNew(top, pool[top]) \o UpdateRoot(top, n)
                       \o Unlock(n) \o Unlock(Super),
                   Begin("refresh"))

match_node(c) ==
    /\ th[c].pc = "match_node"
    /\ LET n == th[c].cur
           sep == split_sep(Own(c))
           new == <<level(n), sep>>
       IN  IF ~is_local_remote_match(c, n)
           THEN /\ Network(c, Unlock(n) \o Unlock(th[c].par), Begin(th[c].op))
                /\ UNCHANGED <<mem, root>>
           ELSE IF th[c].par = Super THEN makeRoot(c, n, sep, new)
           ELSE split_below(c, n, th[c].par, sep, new)
    /\ UNCHANGED <<remote, rootPtr, rootLock, leafMax, todo>>

\* Shared to private.  The page in the read buffer, whose lock word is 0, is
\* written back and then the lock is released.  iterate_check_private needs
\* all children in the buffer pool, which may fail; a node above level 1 has
\* shared children as long as this is not decided for them.
match_io(c) ==
    /\ th[c].pc = "match_io"
    /\ LET n == th[c].cur
       IN  IF ~is_local_remote_match(c, n)
           THEN Network(c, Unlock(n), Begin(th[c].op)) /\ UNCHANGED mem
           ELSE \/ /\ level(n) = 1
                   /\ Install(c, n, [Own(c) EXCEPT !.shared = FALSE])
                   /\ Network(c, Write(n, th[c].rd, None) \o Unlock(n), Begin(th[c].op))
                \/ /\ Network(c, Unlock(n), [Clean EXCEPT !.cur = n, !.par = th[c].par]
                                            @@ [pc |-> SplitOrGoOn(c)])
                   /\ UNCHANGED mem
    /\ UNCHANGED <<remote, rootPtr, rootLock, leafMax, root, todo>>

-----------------------------------------------------------------------------
(* insert: splitting a full leaf, or a full private node on the way to it  *)

\* The node that gets the separator.
Target(c) == IF th[c].smo = "leaf" THEN th[c].cur ELSE th[c].par

\* The leaf splits at the key; its parent gets the separator.
split_leaf(c, lock) ==
    LET n == th[c].cur
        k == th[c].key
        m == slot_min(n, Own(c), k)
        p == insert_sep(Own(c), k)
    IN  /\ leafMax' = [leafMax EXCEPT ![m] = k, ![k] = leafMax[m]]
        /\ todo' = [todo EXCEPT ![c] = @ \ {k}]
        /\ LET done == [pc |-> "idle", op |-> "insert", key |-> 0] @@ Clean
           IN  IF lock
               THEN /\ Install(c, n, [p EXCEPT !.dirty = FALSE])
                    /\ Network(c, Write(n, p, c) \o Unlock(n), done)
               ELSE Install(c, n, p) /\ Set(c, done)

\* A private node splits; neither half is written back.
split_private(c, lock) ==
    LET n == th[c].cur
        up == th[c].par
        pool == [SplitCopy(mem[c], n, FALSE, up) EXCEPT ![up] = insert_sep(@, split_sep(Own(c)))]
    IN  /\ UNCHANGED <<leafMax, todo>>
        /\ IF lock
           THEN /\ mem' = [mem EXCEPT ![c] = Clear(pool, {up})]
                /\ Network(c, Write(up, pool[up], c) \o Unlock(up), Begin("insert"))
           ELSE mem' = [mem EXCEPT ![c] = pool] /\ Restart(c)

\* A shared target is locked and verified first.
Split(c, smo) ==
    LET n == IF smo = "leaf" THEN th[c].cur ELSE th[c].par
    IN  IF mem[c][n].shared
        THEN Set(c, [pc |-> "v_lock", smo |-> smo]) /\ UNCHANGED <<mem, leafMax, todo>>
        ELSE IF smo = "leaf" THEN split_leaf(c, FALSE) ELSE split_private(c, FALSE)

insert_node(c) ==
    /\ th[c].pc = "node" /\ th[c].op = "insert"
    /\ IF isFull(Own(c)) /\ ~Own(c).shared THEN Split(c, "inner")
       ELSE IF level(th[c].cur) > 1
       THEN get_mem_node(c) /\ UNCHANGED <<leafMax, todo>>
       ELSE IF th[c].key > leafMax[slot_min(th[c].cur, Own(c), th[c].key)]
       THEN Refresh(c) /\ UNCHANGED <<mem, leafMax, todo>>
       ELSE Split(c, "leaf")
    /\ UNCHANGED <<remote, rootPtr, rootLock, root>>

verify_lock(c) == Acquire(c, "v_lock", Target(c), "v_read", << >>)

\* verify_and_acquire_lock: a full or an outdated node asks for a refresh.
verify_and_acquire_lock(c) ==
    /\ th[c].pc = "v_read"
    /\ LET n == Target(c)
       IN  IF isFull(remote[n]) \/ ~is_local_remote_match(c, n)
           THEN Network(c, Unlock(n), Begin("refresh")) /\ UNCHANGED <<mem, leafMax, todo>>
           ELSE IF th[c].smo = "leaf" THEN split_leaf(c, TRUE) ELSE split_private(c, TRUE)
    /\ UNCHANGED <<remote, rootPtr, rootLock, root>>

-----------------------------------------------------------------------------
\* The buffer pool evicts a node without swizzled children, other than the
\* root.  A dirty page is written back with its lock word cleared.
evict(c) ==
    /\ th[c].pc = "idle"
    /\ \E n \in setup.evictable :
         /\ n # root[c] /\ mem[c][n] # Absent
         /\ \A m \in Addr : mem[c][m] # Absent => mem[c][m].parent # n
         /\ Install(c, n, Absent)
         /\ IF ~mem[c][n].dirty THEN UNCHANGED th
            ELSE Network(c, IF remote[n] = Absent THEN WriteNew(n, mem[c][n])
                            ELSE Write(n, mem[c][n], None),
                         [pc |-> "idle"] @@ Clean)
    /\ UNCHANGED <<remote, rootPtr, rootLock, leafMax, root, todo>>

Step(c) ==
    \/ insert(c) \/ restart(c) \/ get_remote_root(c)
    \/ read_header(c) \/ read_page(c) \/ read_verify(c) \/ raw_remote_read(c)
    \/ simple_cold_to_hot(c) \/ stale(c)
    \/ test_root_lock(c) \/ test_root_ptr(c) \/ test_parent(c)
    \/ parent_read_unlock(c) \/ refresh_node(c) \/ compare(c) \/ network(c)
    \/ lock_parent(c) \/ lock_node(c) \/ io_lock(c)
    \/ match_parent(c) \/ match_node(c) \/ match_io(c)
    \/ insert_node(c) \/ verify_lock(c) \/ verify_and_acquire_lock(c)

\* Every key has been inserted.
Finished ==
    /\ \A c \in Nodes : th[c].pc = "idle" /\ todo[c] = {}
    /\ UNCHANGED core

Next == ((\E c \in Nodes : Step(c) \/ evict(c)) \/ Finished) /\ UNCHANGED setup

Spec == Init /\ [][Next]_vars

\* Every compute node's thread runs.
FairSpec == Spec /\ \A c \in Nodes : WF_core(Step(c))

-----------------------------------------------------------------------------
(* Properties                                                              *)

Copies == {x \in Nodes \X Addr : mem[x[1]][x[2]] # Absent}

\* Pages and copies are well formed; an inner node never exceeds its capacity,
\* although a parent is found not full long before it gets a separator
\* (the assertion in BTreeInner::insert).
TypeOK ==
    /\ \A n \in Addr : remote[n] # Absent =>
         /\ remote[n].lock \in Nodes \cup {None}
         /\ remote[n].ver \in Nat /\ remote[n].back \in Nat
         /\ remote[n].seps \subseteq Keys /\ Cardinality(remote[n].seps) <= Capacity
    /\ \A x \in Copies :
         /\ mem[x[1]][x[2]].seps \subseteq Keys
         /\ Cardinality(mem[x[1]][x[2]].seps) <= Capacity
         /\ mem[x[1]][x[2]].parent \in Addr \cup {Super, None}
    /\ rootPtr \in Addr /\ rootLock \in Nodes \cup {None}
    /\ leafMax \in [0..(MaxKey - 1) -> 0..MaxKey]

\* Network operations of c that have still to be carried out.
Pending(c) == {th[c].wq[i] : i \in 1..Len(th[c].wq)}

\* opt_remote_read only accepts whole pages: front and back version agree
\* (check_consistent is asserted after every accepted read).
RemoteReadIsWhole ==
    \A c \in Nodes :
      (th[c].pc \in {"loaded", "compare"} \/ (th[c].pc = "test_root_lock" /\ th[c].why = "root"))
        => th[c].rd.ver = th[c].rd.back

\* A page is written back by the holder of its lock: two compute nodes never
\* change one shared node at the same time.
WritesAreLocked ==
    \A c \in Nodes : \A o \in Pending(c) :
      o.op \in {"head", "body"} /\ o.page.lock = c => remote[o.at].lock = c

\* Comparing front_version is enough to know that a cached shared node is up
\* to date: an equal version means equal contents.
VersionIdentifiesContent ==
    \A x \in Copies :
      LET p == mem[x[1]][x[2]]
          q == remote[x[2]]
      IN  /\ p.shared /\ q # Absent /\ q.ver = p.ver
          /\ \A o \in Pending(x[1]) : o.at # x[2]
          => p.seps = q.seps /\ p.max = q.max

\* A swizzled child has exactly the range of its slot, after every refresh,
\* replacement and split (check_parent_child_info is asserted everywhere).
SwizzledChildFits ==
    \A x \in Copies :
      LET q == mem[x[1]][x[2]]
      IN  CASE q.parent = Super -> x[2] = root[x[1]]
            [] q.parent = None -> TRUE
            [] OTHER ->
                 /\ <<x[1], q.parent>> \in Copies
                 /\ min_limit(x[2]) \in {min_limit(q.parent)} \cup mem[x[1]][q.parent].seps
                 /\ fits(mem[x[1]][q.parent], x[2], q)

\* The node of each level on the path of key k through pages P from the root r.
Path(P, r, k) ==
    LET at[l \in 1..MaxLevel] ==
          IF l > level(r) THEN None
          ELSE IF l = level(r) THEN r
          ELSE IF at[l + 1] = None \/ P[at[l + 1]] = Absent THEN None
          ELSE LET m == child(at[l + 1], P[at[l + 1]], k)
               IN  IF P[m] # Absent /\ fits(P[at[l + 1]], m, P[m]) THEN m ELSE None
    IN  at[1]

\* k lies in the leaf that the lowest node n selects for it.
RoutesTo(P, n, k) == k <= leafMax[slot_min(n, P[n], k)]

\* The cached copies never lead a key of the node's own partition to a leaf that
\* does not hold it.
CachedRoutesRight ==
    SwizzledChildFits /\
    \A c \in Nodes : \A k \in Keys \cap (left[c]..(right[c] - 1)) :
      LET n == Path(mem[c], root[c], k)
      IN  n # None /\ mem[c][n] # Absent => RoutesTo(mem[c], n, k)

\* The newest state of a node: the copy of the compute node it is private to,
\* or the remote page.
Newest ==
    [n \in Addr |->
       LET own == {c \in Nodes : mem[c][n] # Absent /\ ~mem[c][n].shared}
       IN  IF own # {} THEN mem[CHOOSE c \in own : TRUE][n] ELSE remote[n]]

\* No separator is lost: between changes every key is found from the root.  A
\* compute node's cached inner nodes may be outdated, but after every refresh,
\* replacement and split a swizzled child has the range of its slot, and the
\* copies never lead a key of the node's own partition to a leaf that does not
\* hold it (new_refresh_from_root, updatest_replace).
NothingIsLost ==
  /\ CachedRoutesRight
  /\ (\A c \in Nodes : th[c].pc # "net") =>
      \A k \in Keys :
        LET n == Path(Newest, rootPtr, k)
        IN  n # None /\ RoutesTo(Newest, n, k)

\* A private node has one owner: no other compute node holds it as private or
\* is about to write it.
PrivateHasOneOwner ==
    \A x \in Copies : ~mem[x[1]][x[2]].shared =>
      \A d \in Nodes \ {x[1]} :
        /\ <<d, x[2]>> \in Copies => mem[d][x[2]].shared
        /\ \A o \in Pending(d) : o.op \in {"head", "body", "page"} => o.at # x[2]

\* The right half of a split, and the new root, are written where no node was;
\* the swing of the root pointer succeeds ("This must succeed!").
SplitsAreUnique ==
    \A c \in Nodes : \A o \in Pending(c) :
      /\ o.op = "page" => remote[o.at] = Absent
      /\ o.op = "root_cas" => rootPtr = o.old

\* The remote locks do their work.  opt_remote_read accepts whole pages only, a
\* shared node is changed by one compute node at a time and no node overflows;
\* equal front_versions mean equal contents, a node made private has one owner,
\* and new nodes and roots go where none was.  Pools that write private nodes
\* back while others still read them as shared are excepted (sample_page clears
\* the lock word of a node it has no lock of).
SharingIsSound ==
    setup.evictable = {} =>
        /\ TypeOK
        /\ RemoteReadIsWhole
        /\ WritesAreLocked
        /\ VersionIdentifiesContent
        /\ PrivateHasOneOwner
        /\ SplitsAreUnique

\* Every insertion into a full leaf completes, although compute nodes give up
\* locks and restart whenever they meet; pools under pressure excepted.
EveryInsertCompletes ==
    setup.evictable = {} ~> \A c \in Nodes : todo[c] = {} /\ th[c].pc = "idle"
=============================================================================
