----------------------------- MODULE SmartTree -----------------------------
(***************************************************************************)
(* SMART's adaptive radix tree in disaggregated memory.  A node has a      *)
(* header (the depth at which it begins, the key bytes that all its keys   *)
(* share from there on, its type) and slots, of which the type says how    *)
(* many are in use.  Compute nodes change it with one-sided compare-and-   *)
(* swaps and without locks, except that the value of a leaf is replaced    *)
(* under a lock in the leaf.  A compute node caches nodes by their key     *)
(* prefix; every node and leaf holds a reverse pointer to the slot that    *)
(* points to it, and a reader that comes from the cache compares the two   *)
(* to find out that the cached slot is outdated.  Reverse pointers are     *)
(* changed by requests that nobody waits for.                              *)
(*                                                                         *)
(* A slot is <<a, i>>; the root pointer is the only slot of page 0.  Reads *)
(* of a node and of a leaf are one step.  Threads of a compute node that   *)
(* work on one key at a time are LocalLockTable's concern: a thread here   *)
(* is the one that the lock table lets go to the tree.                     *)
(***************************************************************************)
EXTENDS Integers, FiniteSets, Sequences, FiniteSetsExt, Functions, SequencesExt, TLC

CONSTANTS
    Threads, Nodes,
    node,        \* the compute node of each thread
    KeyLen,      \* keyLen
    Keys,        \* sequences of KeyLen partial keys
    Radix,       \* the number of partial keys
    Values, Null,
    Base,        \* slots of the smallest node type (4 in the code)
    MaxType,     \* the largest node type
    PartialMax,  \* hPartialLenMax
    Setups       \* what to begin with: remote memory, the operations of each
                 \* thread, to perform in any order, the nodes a cache has room for

ASSUME SmartTreeAssumption ==
    /\ Base > 2 /\ MaxType >= 1 /\ PartialMax >= 1
    /\ \A s \in Setups : s.room \in Nat
    /\ \A k \in Keys : Len(k) = KeyLen /\ \A i \in 1..KeyLen : k[i] \in 0..(Radix - 1)
    /\ \A t \in Threads : node[t] \in Nodes

VARIABLES
    mem,      \* remote memory
    revs,     \* changes of reverse pointers on their way
    cache,    \* the radix cache of each compute node
    room,     \* the nodes that a cache has room for, never changes
    todo, th,
    held,     \* the values that the key of each call has had since it began
    abort     \* an assertion has failed and the program has stopped

core == <<mem, revs, cache, todo, th, abort>>

vars == <<core, held, room>>

-----------------------------------------------------------------------------
get_partial(k, d) == IF d = 0 THEN 0 ELSE k[d]

\* Mutant: the common prefix is counted one byte too short.
ShortPrefix(k1, k2, d) ==
    Max({0, Min({i \in 0..(KeyLen - d) : get_partial(k1, d + i) # get_partial(k2, d + i)}) - 1})

longest_common_prefix(k1, k2, d) ==
    Min({i \in 0..(KeyLen - d) : get_partial(k1, d + i) # get_partial(k2, d + i)})

node_type_to_num(type) == Base * 2 ^ (type - 1)

num_to_node_type(n) == Min({i \in 1..MaxType : n < node_type_to_num(i)})

MaxSlots == node_type_to_num(MaxType)

Header(k, len, d, type) == [depth |-> d, ps |-> SubSeq(k, d, d + len - 1), type |-> type]

\* Mutant: the header is shortened and its depth stays.
KeepDepth(h, i) == [h EXCEPT !.ps = SubSeq(@, i + 1, Len(@))]

\* What is left of the header when byte i of it goes to a node above.
split_header(h, i) == [h EXCEPT !.depth = @ + i, !.ps = SubSeq(@, i + 1, Len(@))]

\* The first byte of the header that the key does not share, if any.
Mismatch(h, k) ==
    LET is == {i \in 1..Len(h.ps) : get_partial(k, h.depth + i - 1) # h.ps[i]}
    IN  IF is = {} THEN 0 ELSE Min(is)

LeafEntry(partial, a) == [partial |-> partial, leaf |-> TRUE, type |-> 0, addr |-> a]

NodeEntry(partial, type, a) == [partial |-> partial, leaf |-> FALSE, type |-> type, addr |-> a]

Leaf(k, v, rev) == [key |-> k, val |-> v, rev |-> rev, lock |-> FALSE]

InternalPage(hdr, rev, slots) ==
    [hdr |-> hdr, rev |-> rev,
     slots |-> [s \in 0..(MaxSlots - 1) |-> IF s \in DOMAIN slots THEN slots[s] ELSE Null]]

RootPage(e) == [slots |-> (0 :> e)]

RootPtr == <<0, 0>>

Entry(ptr) == mem[ptr[1]].slots[ptr[2]]

Put(m, ptr, e) == [m EXCEPT ![ptr[1]].slots[ptr[2]] = e]

InUse(n) == {s \in 0..(node_type_to_num(n.hdr.type) - 1) : n.slots[s] # Null}

\* The slot in use for the partial key, if any.
SlotOf(n, partial) == {s \in InUse(n) : n.slots[s].partial = partial}

\* dsm->smart_alloc.
NewAddr == Cardinality(DOMAIN mem)

\* What is stored for a key below entry e: also behind the slots in use, or only in
\* those that both the entry and the header of the node show.
RECURSIVE Lookup(_, _, _, _)
Lookup(m, k, e, behind) ==
    CASE e = Null -> Null
      [] e # Null /\ e.leaf -> IF m[e.addr].key = k THEN m[e.addr].val ELSE Null
      [] OTHER ->
           LET n == m[e.addr]
               partial == get_partial(k, n.hdr.depth + Len(n.hdr.ps))
               many == IF behind THEN MaxSlots ELSE node_type_to_num(Min({e.type, n.hdr.type}))
               ss == {s \in 0..(many - 1) : n.slots[s] # Null /\ n.slots[s].partial = partial}
           IN  IF Mismatch(n.hdr, k) # 0 \/ ss = {} THEN Null
               ELSE Lookup(m, k, n.slots[CHOOSE s \in ss : TRUE], behind)

Find(m, k) == Lookup(m, k, m[0].slots[0], TRUE)

Shown(m, k) == Lookup(m, k, m[0].slots[0], FALSE)

-----------------------------------------------------------------------------
(* The radix cache: a copy of the slots in use of a node, by the key       *)
(* prefix that leads to it.                                                *)

\* The deepest cached node with an entry for the key, as a set of
\* [prefix, copy, slot].
search_from_cache(c, k) ==
    LET has(q, s) == c[q].recs[s] # Null /\ c[q].recs[s].partial = k[Len(q) + 1]
        slots(q) == {s \in DOMAIN c[q].recs : has(q, s)}
        hits == UNION {{[prefix |-> q, copy |-> c[q], slot |-> s] : s \in slots(q)} :
                          q \in {r \in DOMAIN c : IsPrefix(r, k) /\ Len(r) < KeyLen}}
    IN  {h \in hits : \A g \in hits : Len(g.prefix) <= Len(h.prefix)}

\* Entries are evicted, oldest first in the code and any here, when there are
\* too many.
Evicted(c) ==
    IF Cardinality(DOMAIN c) <= room THEN {c}
    ELSE {Restrict(c, S) : S \in kSubset(room, DOMAIN c)}

\* add_to_cache for the nodes ns (address to node), which the key k has met.  The
\* node at the top of the tree is not cached.
Added(c, k, ns) ==
    LET kept == {a \in DOMAIN ns : ns[a].hdr.depth > 1}
        prefix(a) == SubSeq(k, 1, ns[a].hdr.depth - 1) \o ns[a].hdr.ps
        copy(a) == [addr |-> a, depth |-> ns[a].hdr.depth + Len(ns[a].hdr.ps),
                    recs |-> Restrict(ns[a].slots, 0..(node_type_to_num(ns[a].hdr.type) - 1))]
    IN  [q \in {prefix(a) : a \in kept} |-> copy(CHOOSE a \in kept : prefix(a) = q)] @@ c

\* Keys are compared byte by byte.
AtMost(k, j) == \A i \in 1..KeyLen : (\A h \in 1..(i - 1) : k[h] = j[h]) => k[i] <= j[i]

InRange(k, from, to) == AtMost(from, k) /\ AtMost(k, to)

get_leftmost(k, d) == [i \in 1..KeyLen |-> IF i <= d THEN k[i] ELSE 0]

get_rightmost(k, d) == [i \in 1..KeyLen |-> IF i <= d THEN k[i] ELSE Radix - 1]

\* An entry that a range query has to look at: where it is, the part of the range
\* below it, and whether the ends of the range may cut that part (BORDER) or not.
ScanContext(e, ptr, d, hit, from, to, l, r) ==
    [e |-> e, ptr |-> ptr, depth |-> d, hit |-> hit, from |-> from, to |-> to, l |-> l, r |-> r,
     stale |-> FALSE]

\* Every key of the range is looked up, whether there is such a key or not.
search_range_from_cache(c, from, to) ==
    LET at(k, h) ==
          LET e == h.copy.recs[h.slot]
              lo == IF e.leaf THEN k ELSE get_leftmost(k, h.copy.depth)
              hi == IF e.leaf THEN k ELSE get_rightmost(k, h.copy.depth)
          IN  ScanContext(e, <<h.copy.addr, h.slot>>, h.copy.depth, h,
                          IF InRange(lo, from, to) THEN lo ELSE from,
                          IF InRange(hi, from, to) THEN hi ELSE to,
                          IF AtMost(lo, from) THEN "border" ELSE "inside",
                          IF AtMost(to, hi) THEN "border" ELSE "inside")
    IN  UNION {{at(k, h) : h \in search_from_cache(c, k)} :
                  k \in {j \in [1..KeyLen -> 0..(Radix - 1)] : InRange(j, from, to)}}

invalidate(c, hit) ==
    IF hit = Null THEN c
    ELSE Restrict(c, {q \in DOMAIN c : q # hit.prefix \/ c[q] # hit.copy})

-----------------------------------------------------------------------------
\* pptr and p are the slot that the thread has come to and the entry it has read
\* there; from is the cache hit that p comes from, if any.  hdr is the header
\* read last.  len and at describe the split under way: bytes shared below depth,
\* and the byte of hdr at which the keys part (0 for a leaf).  try are the slots
\* still to be tried; rev is the reverse pointer with which the thread has written
\* its new leaf; leaf is the leaf it has read; target, type, first and second
\* belong to cas_node_type.  The last two lines belong to range_query: now are the
\* entries to be read, later those for the next level, tokens the addresses read,
\* ret the result, bufs what earlier reads have left in the buffer; whole says that
\* the query went down from the root and has dropped nothing on its way.
IdleThread ==
    [pc |-> "idle", op |-> "none", key |-> Null, val |-> Null, pptr |-> RootPtr, p |-> Null,
     depth |-> 0, from |-> Null, hdr |-> Null, len |-> 0, at |-> 0, diff |-> 0, try |-> {},
     rev |-> Null, leaf |-> Null, target |-> 0, type |-> 0, first |-> FALSE, second |-> FALSE,
     now |-> {}, later |-> {}, tokens |-> {}, ret |-> << >>, bufs |-> {}, whole |-> TRUE]

Set(t, r) == th' = [th EXCEPT ![t] = r @@ @]

Fail == abort' = TRUE

Init ==
    /\ \E s \in Setups : mem = s.mem /\ todo = s.work /\ room = s.room
    /\ revs = {}
    /\ cache = [n \in Nodes |-> << >>]
    /\ th = [t \in Threads |-> IdleThread]
    /\ held = [t \in Threads |-> {}]
    /\ abort = FALSE

\* The local lock table lets one thread of a compute node perform an operation
\* of a kind on a key.
Call(t) ==
    /\ th[t].pc = "idle"
    /\ \E w \in todo[t] :
         /\ \A u \in Threads \ {t} :
              th[u].pc # "idle" /\ node[u] = node[t] => <<th[u].op, th[u].key>> # <<w.op, w.key>>
         /\ todo' = [todo EXCEPT ![t] = @ \ {w}]
         /\ Set(t, [pc |-> IF w.op = "range" THEN "range" ELSE "start", op |-> w.op, key |-> w.key, val |-> w.val])
    /\ UNCHANGED <<mem, revs, cache, abort>>

Go(t) == IF th[t].op = "range" THEN "walk" ELSE "next"

\* Where a traversal begins: a slot of the deepest cached node that matches the
\* key, or the root pointer.
Starts(t) ==
    LET hits == search_from_cache(cache[node[t]], th[t].key)
    IN  IF hits = {} THEN {[pptr |-> RootPtr, p |-> Entry(RootPtr), depth |-> 1]}
        ELSE {[pptr |-> <<h.copy.addr, h.slot>>, p |-> h.copy.recs[h.slot],
               depth |-> h.copy.depth + 1, from |-> h, whole |-> FALSE] : h \in hits}

insert(t) ==
    /\ th[t].pc = "start" /\ th[t].op = "insert"
    /\ \E r \in Starts(t) : Set(t, [pc |-> "next"] @@ r)
    /\ UNCHANGED <<mem, revs, cache, todo, abort>>

\* A search takes it that the tree is not empty.
search(t) ==
    /\ th[t].pc = "start" /\ th[t].op = "search"
    /\ \E r \in Starts(t) : Set(t, [pc |-> "next"] @@ r) /\ abort' = (r.p = Null)
    /\ UNCHANGED <<mem, revs, cache, todo>>

\* A range query that the cache could not serve.
search_entries(t) ==
    /\ th[t].pc = "start" /\ th[t].op = "range"
    /\ \E r \in Starts(t) : Set(t, [pc |-> "walk"] @@ r)
    /\ UNCHANGED <<mem, revs, cache, todo, abort>>

\* The thread's new leaf with the slot that it is written for.  The leaf is written
\* once; after that its reverse pointer is replaced without waiting for it.
NewLeaf(t, ptr) == Leaf(th[t].key, th[t].val, IF th[t].rev = Null THEN ptr ELSE th[t].rev)

NewRev(t, a, ptr) ==
    IF th[t].rev \in {Null, ptr} THEN {} ELSE {[addr |-> a, old |-> Null, new |-> ptr]}

Written(t, ptr) == IF th[t].rev = Null THEN ptr ELSE th[t].rev

\* out_of_place_write_leaf of a new leaf in the empty slot ptr.
WriteLeafAt(t, ptr, partial) ==
    /\ mem' = (NewAddr :> NewLeaf(t, ptr)) @@ Put(mem, ptr, LeafEntry(partial, NewAddr))
    /\ revs' = revs \cup NewRev(t, NewAddr, ptr)

\* 1. The root pointer is null.
InjectLeaf(t) ==
    /\ th[t].pc = "next" /\ th[t].p = Null
    /\ IF Entry(th[t].pptr) = Null
       THEN /\ WriteLeafAt(t, th[t].pptr, get_partial(th[t].key, th[t].depth - 1))
            /\ Set(t, [pc |-> "done"])
       ELSE /\ Set(t, [p |-> Entry(th[t].pptr), rev |-> Written(t, th[t].pptr)])
            /\ UNCHANGED <<mem, revs>>
    /\ UNCHANGED <<cache, todo, abort>>

\* A reader that does not come from the cache repairs the reverse pointer.
Repair(t) ==
    LET q == mem[th[t].p.addr]
    IN  IF th[t].from = Null /\ q.rev # th[t].pptr
        THEN {[addr |-> th[t].p.addr, old |-> q.rev, new |-> th[t].pptr]} ELSE {}

FromCacheValid(t) == th[t].from = Null \/ mem[th[t].p.addr].rev = th[t].pptr

Invalid(t) ==
    /\ cache' = [cache EXCEPT ![node[t]] = invalidate(@, th[t].from)]
    /\ Set(t, [pc |-> "reread"])

SearchLeaf(t, leaf) ==
    Set(t, [pc |-> "done", val |-> IF leaf.key = th[t].key THEN leaf.val ELSE Null])

InsertLeaf(t, leaf) ==
    LET i == longest_common_prefix(leaf.key, th[t].key, th[t].depth)
    IN  IF leaf.key # th[t].key
        THEN Set(t, [pc |-> "split", len |-> i, at |-> 0, diff |-> get_partial(leaf.key, th[t].depth + i)])
        ELSE Set(t, [pc |-> IF leaf.val = th[t].val THEN "done" ELSE "lock", leaf |-> leaf])

\* 2. The entry is a leaf's.
ReadLeaf(t) ==
    LET leaf == mem[th[t].p.addr]
    IN  /\ th[t].pc = "next" /\ th[t].p # Null /\ th[t].p.leaf
        /\ revs' = revs \cup Repair(t)
        /\ IF ~FromCacheValid(t) THEN Invalid(t)
           ELSE /\ IF th[t].op = "search" THEN SearchLeaf(t, leaf) ELSE InsertLeaf(t, leaf)
                /\ UNCHANGED cache
        /\ UNCHANGED <<mem, todo, abort>>

\* Mutant: the outdated entry is used again.
RereadNothing(t) ==
    /\ th[t].pc = "reread"
    /\ Set(t, [pc |-> Go(t)])
    /\ UNCHANGED <<mem, revs, cache, todo, abort>>

Reread(t) ==
    /\ th[t].pc = "reread"
    /\ Set(t, [pc |-> Go(t), p |-> Entry(th[t].pptr), from |-> Null])
    /\ UNCHANGED <<mem, revs, cache, todo, abort>>

\* in_place_update_leaf: the lock, then the whole leaf as it was read before, with
\* the new value and without the lock.
LockLeaf(t) ==
    /\ th[t].pc = "lock" /\ ~mem[th[t].p.addr].lock
    /\ mem' = [mem EXCEPT ![th[t].p.addr].lock = TRUE]
    /\ Set(t, [pc |-> "write"])
    /\ UNCHANGED <<revs, cache, todo, abort>>

WriteLeaf(t) ==
    /\ th[t].pc = "write"
    /\ mem' = [mem EXCEPT ![th[t].p.addr] = [th[t].leaf EXCEPT !.val = th[t].val, !.lock = FALSE]]
    /\ Set(t, [pc |-> "done"])
    /\ UNCHANGED <<revs, cache, todo, abort>>

\* read_node's verdict.
NodeValid(t) == FromCacheValid(t) /\ mem[th[t].p.addr].hdr.depth <= th[t].depth

Descend(t, n, s) ==
    Set(t, [pptr |-> <<th[t].p.addr, s>>, p |-> n.slots[s], from |-> Null,
            depth |-> n.hdr.depth + Len(n.hdr.ps) + 1])

SearchNode(t, n, ss) ==
    IF Mismatch(n.hdr, th[t].key) # 0 \/ ss = {} THEN Set(t, [pc |-> "done", val |-> Null])
    ELSE \E s \in ss : Descend(t, n, s)

\* insert_behind's slots.
Behind(n) == node_type_to_num(n.hdr.type)..(MaxSlots - 1)

\* 3.2 the header, 3.3 the slots.  A thread that finds no slot for its key goes on
\* with the free slots that it has seen and the slots behind (3.4), in this order.
InsertNode(t, n, ss) ==
    LET hdr == n.hdr
        i == Mismatch(hdr, th[t].key)
        p == NodeEntry(th[t].p.partial, hdr.type, th[t].p.addr)
    IN  CASE i # 0 ->
               Set(t, [pc |-> "split", p |-> p, hdr |-> hdr, len |-> hdr.depth + i - 1 - th[t].depth,
                       at |-> i, diff |-> hdr.ps[i]])
          [] i = 0 /\ ss # {} -> \E s \in ss : Descend(t, n, s)
          [] OTHER ->
               Set(t, [pc |-> "slots", p |-> p, hdr |-> hdr, depth |-> hdr.depth + Len(hdr.ps),
                       try |-> {s \in DOMAIN n.slots : n.slots[s] = Null} \cup Behind(n)])

\* 3. The entry is a node's.
ReadNode(t) ==
    LET a == th[t].p.addr
        n == mem[a]
        ss == SlotOf(n, get_partial(th[t].key, n.hdr.depth + Len(n.hdr.ps)))
    IN  /\ th[t].pc = "next" /\ th[t].p # Null /\ ~th[t].p.leaf
        /\ revs' = revs \cup Repair(t)
        /\ IF ~NodeValid(t) THEN Invalid(t)
           ELSE /\ IF th[t].depth = n.hdr.depth
                   THEN \E c \in Evicted(Added(cache[node[t]], th[t].key, a :> n)) :
                          cache' = [cache EXCEPT ![node[t]] = c]
                   ELSE UNCHANGED cache
                /\ IF th[t].op = "search" THEN SearchNode(t, n, ss) ELSE InsertNode(t, n, ss)
        /\ UNCHANGED <<mem, todo, abort>>

\* The nodes that out_of_place_write_node puts between the slot and the old entry.
\* A node takes PartialMax bytes into its header, and one more with the slot.
NewNodes(t, old) ==
    LET many == (th[t].len \div (PartialMax + 1)) + 1
        type == num_to_node_type(2)
        depth(j) == th[t].depth + (j - 1) * (PartialMax + 1)
        len(j) == IF j < many THEN PartialMax ELSE th[t].len - (many - 1) * (PartialMax + 1)
        addr(j) == NewAddr + j - 1
        partial(j) == get_partial(th[t].key, depth(j) + len(j))
        rev(j) == IF j = 1 THEN th[t].pptr ELSE <<addr(j - 1), 0>>
        slots(j) == IF j < many THEN 0 :> NodeEntry(partial(j), type, addr(j + 1))
                    ELSE (0 :> [old EXCEPT !.partial = th[t].diff])
                         @@ (1 :> LeafEntry(partial(j), NewAddr + many))
    IN  [a \in NewAddr..(NewAddr + many - 1) |->
           LET j == a - NewAddr + 1
           IN  InternalPage(Header(th[t].key, len(j), depth(j), type), rev(j), slots(j))]

\* out_of_place_write_node and, on success, the cache.
Split(t) ==
    LET ptr == th[t].pptr
        old == th[t].p
        ns == NewNodes(t, old)
        last == Max(DOMAIN ns)
        c == IF th[t].at = 0 THEN cache[node[t]] ELSE invalidate(cache[node[t]], th[t].from)
    IN  /\ th[t].pc = "split"
        /\ IF Entry(ptr) = old
           THEN /\ mem' = ((last + 1) :> NewLeaf(t, <<last, 1>>)) @@ ns
                          @@ Put(mem, ptr, NodeEntry(old.partial, num_to_node_type(2), Min(DOMAIN ns)))
                /\ revs' = revs \cup {[addr |-> old.addr, old |-> ptr, new |-> <<last, 0>>]}
                                \cup NewRev(t, last + 1, <<last, 1>>)
                /\ \E d \in Evicted(Added(c, th[t].key, ns)) : cache' = [cache EXCEPT ![node[t]] = d]
                /\ Set(t, [pc |-> IF th[t].at = 0 THEN "done" ELSE "readhdr"])
           ELSE /\ Set(t, [pc |-> "next", p |-> Entry(ptr), rev |-> Written(t, <<last, 1>>)])
                /\ UNCHANGED <<mem, revs, cache>>
        /\ UNCHANGED <<todo, abort>>

\* The header of the node that is now below: it is read for its type, and swapped.
\* An assertion says that this succeeds.
ReadHeader(t) ==
    /\ th[t].pc = "readhdr"
    /\ Set(t, [pc |-> "cashdr", hdr |-> [th[t].hdr EXCEPT !.type = mem[th[t].p.addr].hdr.type]])
    /\ UNCHANGED <<mem, revs, cache, todo, abort>>

CasHeader(t) ==
    /\ th[t].pc = "cashdr"
    /\ IF mem[th[t].p.addr].hdr = th[t].hdr
       THEN /\ mem' = [mem EXCEPT ![th[t].p.addr].hdr = split_header(@, th[t].at)]
            /\ Set(t, [pc |-> "done"])
            /\ UNCHANGED abort
       ELSE Fail /\ UNCHANGED <<mem, th>>
    /\ UNCHANGED <<revs, cache, todo>>

\* Another thread has taken the slot for the same partial key.
SamePartial(e, partial) == e.partial = partial

\* 3.3 and insert_behind: the thread tries one slot for its leaf.  After a slot
\* behind those in use the node changes its type.
TrySlot(t) ==
    LET a == th[t].p.addr
        s == Min(th[t].try)
        e == Entry(<<a, s>>)
        partial == get_partial(th[t].key, th[t].depth)
    IN  /\ th[t].pc = "slots"
        /\ IF th[t].try = {} THEN Fail /\ UNCHANGED <<mem, revs, th>>
           ELSE /\ IF e = Null
                   THEN /\ WriteLeafAt(t, <<a, s>>, partial)
                        /\ Set(t, IF s < node_type_to_num(th[t].p.type) THEN [pc |-> "done"]
                                  ELSE [pc |-> "casentry", target |-> a, type |-> num_to_node_type(s),
                                        first |-> FALSE, second |-> FALSE])
                   ELSE /\ IF SamePartial(e, partial)
                           THEN Set(t, [pc |-> "next", pptr |-> <<a, s>>, p |-> e, from |-> Null,
                                        depth |-> th[t].depth + 1, rev |-> Written(t, <<a, s>>)])
                           ELSE Set(t, [try |-> th[t].try \ {s}, rev |-> Written(t, <<a, s>>)])
                        /\ UNCHANGED <<mem, revs>>
                /\ UNCHANGED abort
        /\ UNCHANGED <<cache, todo>>

-----------------------------------------------------------------------------
(* cas_node_type: the entry, then the header, until each has the type.     *)

\* When both are done, a cache hit is outdated.
Switched(t, first, second) ==
    IF first /\ second
    THEN /\ Set(t, [pc |-> "done"])
         /\ cache' = [cache EXCEPT ![node[t]] = invalidate(@, th[t].from)]
    ELSE /\ Set(t, [pc |-> IF first THEN "casheader" ELSE "casentry", first |-> first, second |-> second])
         /\ UNCHANGED cache

CasEntry(t) ==
    LET cur == Entry(th[t].pptr)
        ok == cur = th[t].p
    IN  /\ th[t].pc = "casentry"
        /\ mem' = IF ok THEN Put(mem, th[t].pptr, [cur EXCEPT !.type = th[t].type]) ELSE mem
        /\ Set(t, [pc |-> IF th[t].second THEN "resume" ELSE "casheader", first |-> ok,
                   p |-> IF ok THEN th[t].p ELSE cur])
        /\ UNCHANGED <<revs, cache, todo, abort>>

\* Mutant: a header that has changed is left alone.
CasTypeOnce(t) ==
    LET cur == mem[th[t].target].hdr
    IN  /\ th[t].pc = "casheader"
        /\ mem' = IF cur = th[t].hdr THEN [mem EXCEPT ![th[t].target].hdr.type = th[t].type] ELSE mem
        /\ Set(t, [pc |-> "resume", hdr |-> cur, second |-> TRUE])
        /\ UNCHANGED <<revs, cache, todo, abort>>

CasType(t) ==
    LET cur == mem[th[t].target].hdr
        ok == cur = th[t].hdr
    IN  /\ th[t].pc = "casheader"
        /\ mem' = IF ok THEN [mem EXCEPT ![th[t].target].hdr.type = th[t].type] ELSE mem
        /\ Set(t, [pc |-> "resume", hdr |-> cur, second |-> ok \/ cur.type >= th[t].type])
        /\ UNCHANGED <<revs, cache, todo, abort>>

\* After a conflict at the entry, the thread follows first slots down to the entry
\* of its node, which a split has moved there.
Resume(t) ==
    LET p == th[t].p
        down == <<p.addr, 0>>
    IN  /\ th[t].pc = "resume"
        /\ IF ~th[t].first /\ ~p.leaf /\ p.addr # th[t].target
           THEN Set(t, [pptr |-> down, p |-> Entry(down)]) /\ UNCHANGED cache
           ELSE Switched(t, th[t].first \/ p.addr # th[t].target \/ p.type >= th[t].type, th[t].second)
        /\ UNCHANGED <<mem, revs, todo, abort>>

-----------------------------------------------------------------------------
(* range_query: the keys from th.key to th.val.                            *)

\* With nothing in the cache the query looks for the entry below which its keys are.
RangeQuery(t) ==
    /\ th[t].pc = "range"
    /\ LET es == search_range_from_cache(cache[node[t]], th[t].key, th[t].val)
       IN  IF es = {} THEN Set(t, [pc |-> "start", len |-> longest_common_prefix(th[t].key, th[t].val, 0)])
           ELSE Set(t, [pc |-> "scan", later |-> es, whole |-> FALSE])
    /\ UNCHANGED <<mem, revs, cache, todo, abort>>

\* BORDER becomes INSIDE or OUTSIDE where x and the end y of the range part.
Side(state, x, y) ==
    IF state # "border" \/ x = y THEN state ELSE IF x > y THEN "inside" ELSE "outside"

\* from and to below an entry that they do not cut.
Remake(k, hdr, partial) ==
    LET p == SubSeq(k, 1, hdr.depth - 1) \o hdr.ps \o <<partial>>
    IN  [i \in 1..KeyLen |-> IF i <= Len(p) THEN p[i] ELSE 0]

\* range_query_on_page: the entries of the page that the range meets.
Survivors(hdr, slots, c) ==
    LET i == Mismatch(hdr, c.from)
        j == Mismatch(hdr, c.to)
        l == IF i = 0 THEN c.l ELSE Side(c.l, hdr.ps[i], get_partial(c.from, hdr.depth + i - 1))
        r == IF j = 0 THEN c.r ELSE Side(c.r, get_partial(c.to, hdr.depth + j - 1), hdr.ps[j])
        d == hdr.depth + Len(hdr.ps)
        el(e) == Side(l, e.partial, get_partial(c.from, d))
        er(e) == Side(r, get_partial(c.to, d), e.partial)
        meets(s) == /\ slots[s] # Null
                    /\ el(slots[s]) # "outside" /\ er(slots[s]) # "outside"
        at(s) == LET e == slots[s] IN
                 ScanContext(e, <<c.e.addr, s>>, d, Null,
                             IF el(e) = "inside" THEN Remake(c.from, hdr, e.partial) ELSE c.from,
                             IF er(e) = "inside" THEN Remake(c.to, hdr, e.partial) ELSE c.to, el(e), er(e))
    IN  {at(s) : s \in {u \in 0..(node_type_to_num(hdr.type) - 1) : meets(u)}}

\* The page is cached with the slots that the buffer shows.
Cached(t, c, n) ==
    IF c.depth = n.hdr.depth - 1
    THEN \E d \in Evicted(Added(cache[node[t]], c.from, c.e.addr :> n)) :
           cache' = [cache EXCEPT ![node[t]] = d]
    ELSE UNCHANGED cache

\* search_entries: down to the depth where from and to part, if the tree goes that far.
Walk(t) ==
    LET p == th[t].p
        n == mem[p.addr]
        mis == Mismatch(n.hdr, th[t].key)
        at == th[t].len - n.hdr.depth
        d == n.hdr.depth + Len(n.hdr.ps)
        ss == {s \in 0..(node_type_to_num(p.type) - 1) :
                 n.slots[s] # Null /\ n.slots[s].partial = get_partial(th[t].key, d)}
        c == ScanContext(p, th[t].pptr, th[t].depth - 1, th[t].from, th[t].key, th[t].val, "border", "border")
        stop == Set(t, [pc |-> "done"]) /\ UNCHANGED cache
        outdated == th[t].from # Null /\ n.hdr.type # p.type
        drop == IF outdated THEN cache' = [cache EXCEPT ![node[t]] = invalidate(@, th[t].from)]
                ELSE UNCHANGED cache
    IN  /\ th[t].pc = "walk"
        /\ IF p = Null THEN stop /\ UNCHANGED revs
           ELSE IF th[t].depth = th[t].len
           THEN Set(t, [pc |-> "scan", later |-> {c}]) /\ UNCHANGED <<cache, revs>>
           ELSE IF p.leaf
           THEN Set(t, [pc |-> "done", whole |-> FALSE]) /\ UNCHANGED <<cache, revs>>
           ELSE /\ revs' = revs \cup Repair(t)
                /\ IF ~NodeValid(t) THEN Invalid(t)
                   ELSE IF at \in 1..Len(n.hdr.ps) /\ (mis = 0 \/ at < mis)
                   THEN Set(t, [pc |-> "scan", later |-> Survivors(n.hdr, n.slots, c)]) /\ Cached(t, c, n)
                   ELSE /\ drop
                        /\ IF mis # 0 \/ ss = {} THEN Set(t, [pc |-> "done", whole |-> n.hdr.type = p.type])
                           ELSE \E s \in ss : Descend(t, n, s)
        /\ UNCHANGED <<mem, todo, abort>>

\* The next level is read together, every address once in a query.
ReadBatch(t) ==
    LET new == {c \in th[t].later : c.e.addr \notin th[t].tokens}
        first(c) == \A d \in new : d.e.addr = c.e.addr => AtMost(c.from, d.from)
        addrs == {c.e.addr : c \in new}
    IN  /\ th[t].pc = "scan" /\ th[t].now = {}
        /\ IF th[t].later = {} THEN Set(t, [pc |-> "done"])
           ELSE Set(t, [now |-> {CHOOSE c \in new : c.e.addr = a /\ first(c) : a \in addrs}, later |-> {},
                        tokens |-> th[t].tokens \cup addrs, whole |-> th[t].whole /\ new = th[t].later])
        /\ UNCHANGED <<mem, revs, cache, todo, abort>>

\* One of the pages read.  A node that does not come from the cache is read as far as
\* the type in its entry says; the rest of the buffer is what it was.
Scan(t) ==
    /\ th[t].pc = "scan"
    /\ \E c \in th[t].now :
         LET q == mem[c.e.addr]
             rest == th[t].now \ {c}
             valid == c.hit = Null \/ q.rev = c.ptr
             invalid == /\ Set(t, [now |-> rest \cup {[c EXCEPT !.stale = TRUE]}])
                        /\ cache' = [cache EXCEPT ![node[t]] = invalidate(@, c.hit)]
         IN  IF c.stale
             THEN /\ Set(t, [now |-> rest, later |-> th[t].later \cup
                              {[c EXCEPT !.e = Entry(c.ptr), !.hit = Null, !.stale = FALSE]}])
                  /\ UNCHANGED cache
             ELSE IF c.e.leaf
             THEN IF ~valid THEN invalid
                  ELSE /\ Set(t, [now |-> rest, ret |-> IF InRange(q.key, th[t].key, th[t].val)
                                                        THEN (q.key :> q.val) @@ th[t].ret ELSE th[t].ret])
                       /\ UNCHANGED cache
             ELSE IF ~valid \/ q.hdr.depth > c.depth + 1 THEN invalid
             ELSE \E buf \in th[t].bufs \cup {[s \in DOMAIN q.slots |-> Null]} :
                    LET size == IF c.hit # Null THEN MaxSlots ELSE node_type_to_num(c.e.type)
                        seen == [s \in DOMAIN q.slots |-> IF s < size THEN q.slots[s] ELSE buf[s]]
                    IN  /\ Set(t, [now |-> rest, later |-> th[t].later \cup Survivors(q.hdr, seen, c),
                                    bufs |-> th[t].bufs \cup {seen}])
                        /\ Cached(t, c, [q EXCEPT !.slots = seen])
    /\ UNCHANGED <<mem, revs, todo, abort>>

-----------------------------------------------------------------------------
\* A request for a reverse pointer arrives: the unconditional write (old is Null)
\* or the compare-and-swap.
ArriveRev(r) ==
    /\ revs' = revs \ {r}
    /\ mem' = IF r.old \in {Null, mem[r.addr].rev} THEN [mem EXCEPT ![r.addr].rev = r.new] ELSE mem
    /\ UNCHANGED <<cache, todo, th, abort>>

Return(t) ==
    /\ th[t].pc = "done"
    /\ th' = [th EXCEPT ![t] = [IdleThread EXCEPT !.bufs = th[t].bufs]]
    /\ UNCHANGED <<mem, revs, cache, todo, abort>>

Step(t) ==
    \/ Call(t) \/ insert(t) \/ search(t) \/ search_entries(t)
    \/ InjectLeaf(t) \/ ReadLeaf(t) \/ Reread(t) \/ LockLeaf(t) \/ WriteLeaf(t)
    \/ ReadNode(t) \/ Split(t) \/ ReadHeader(t) \/ CasHeader(t) \/ TrySlot(t)
    \/ CasEntry(t) \/ CasType(t) \/ Resume(t) \/ Return(t)
    \/ RangeQuery(t) \/ Walk(t) \/ ReadBatch(t) \/ Scan(t)

Watch ==
    /\ UNCHANGED room
    /\ held' = [t \in Threads |->
                  IF th'[t].pc = "idle" THEN {}
                  ELSE held[t] \cup IF th'[t].op = "range"
                                    THEN UNION {{<<k, Find(mem', k)>>, <<k, Shown(mem', k)>>} : k \in Keys}
                                    ELSE {Find(mem', th'[t].key)}]

Move(t) == ~abort /\ Step(t)

Arrive == ~abort /\ \E r \in revs : ArriveRev(r)

AtRest == \A t \in Threads : th[t].pc = "idle"

Finished ==
    /\ abort \/ (AtRest /\ todo = [t \in Threads |-> {}] /\ revs = {})
    /\ UNCHANGED vars

Next == (((\E t \in Threads : Move(t)) \/ Arrive) /\ Watch) \/ Finished

Spec == Init /\ [][Next]_vars

\* Every thread goes on, and every request arrives.
FairSpec == Spec /\ (\A t \in Threads : WF_core(Move(t))) /\ WF_core(Arrive)

-----------------------------------------------------------------------------
Ptrs == (DOMAIN mem) \X (0..(MaxSlots - 1))

Entries == {Null} \cup [partial : Nat, leaf : BOOLEAN, type : 0..MaxType, addr : DOMAIN mem]

IsHeader(h) == h.depth \in 1..KeyLen /\ Len(h.ps) <= PartialMax /\ h.type \in 1..MaxType

\* Remote memory holds the root pointer, nodes and leaves; a header never has more
\* bytes than fit, and every pointer leads to a page.
TypeOK ==
    /\ \A a \in DOMAIN mem \ {0} :
         \/ /\ "slots" \in DOMAIN mem[a] /\ IsHeader(mem[a].hdr) /\ mem[a].rev \in Ptrs
            /\ mem[a].slots \in [0..(MaxSlots - 1) -> Entries]
         \/ /\ "key" \in DOMAIN mem[a] /\ mem[a].key \in Keys /\ mem[a].val \in Values
            /\ mem[a].rev \in Ptrs /\ mem[a].lock \in BOOLEAN
    /\ mem[0].slots[0] \in Entries
    /\ \A r \in revs : r.addr \in DOMAIN mem /\ r.new \in Ptrs
    /\ \A n \in Nodes : Cardinality(DOMAIN cache[n]) <= room
    /\ \A t \in Threads : th[t].p \in Entries /\ th[t].pptr \in Ptrs
    /\ abort \in BOOLEAN

Tree == {a \in DOMAIN mem : a # 0 /\ "slots" \in DOMAIN mem[a]}

\* Two threads never give a node two slots for the same partial key, although they
\* search and take slots without a lock, and slots behind those in use as well.
OneSlotPerPartial ==
    \A a \in Tree : \A s, u \in 0..(MaxSlots - 1) :
        mem[a].slots[s] # Null /\ mem[a].slots[u] # Null /\ s # u
            => mem[a].slots[s].partial # mem[a].slots[u].partial

\* The depth at which the entries of a page are.
EntryDepth(a) == IF a = 0 THEN 1 ELSE mem[a].hdr.depth + Len(mem[a].hdr.ps) + 1

\* A node's header never begins below the entry that leads to it, so that its bytes
\* and the entries above spell the whole prefix; and when nothing is going on it begins
\* exactly there.  Splits first hang the new node in and then shorten the header.
HeadersFollowEntries ==
    \A a \in DOMAIN mem : a \in Tree \cup {0} =>
        \A s \in DOMAIN mem[a].slots :
            LET e == mem[a].slots[s]
            IN  e # Null /\ ~e.leaf =>
                    /\ mem[e.addr].hdr.depth <= EntryDepth(a)
                    /\ EntryDepth(a) < EntryDepth(e.addr)
                    /\ AtRest => mem[e.addr].hdr.depth = EntryDepth(a)

\* When nothing is going on, every slot that holds an entry is one that the type of
\* the node shows, and the entry above says the same type: cas_node_type has caught up with
\* the slots taken behind, and with the splits that moved the entry meanwhile.
TypesCatchUp ==
    AtRest /\ ~abort =>
        /\ \A a \in Tree : {s \in 0..(MaxSlots - 1) : mem[a].slots[s] # Null} = InUse(mem[a])
        /\ \A a \in Tree \cup {0} : \A s \in DOMAIN mem[a].slots :
             LET e == mem[a].slots[s] IN e # Null /\ ~e.leaf => mem[e.addr].hdr.type = e.type

\* The nodes stay a radix tree under compare-and-swaps without locks: one slot for a
\* partial key, headers that spell the way, and types that show every slot in the end
\* (insert, insert_behind, cas_node_type).
NodesAreSound == TypeOK /\ OneSlotPerPartial /\ HeadersFollowEntries /\ TypesCatchUp

\* A range query returns keys of its range with values that they had since it was
\* called.  If it has gone down from the root, with no leaf above the depth where the
\* range begins and no page met twice, it returns every key that was there all the time,
\* in slots that the types of the nodes show.
RangesAreRight ==
    \A t \in Threads : th[t].pc = "done" /\ th[t].op = "range" =>
        LET in == {k \in Keys : InRange(k, th[t].key, th[t].val)}
            ret == th[t].ret
        IN  /\ \A k \in DOMAIN ret : k \in in /\ <<k, ret[k]>> \in held[t]
            /\ th[t].whole => {k \in in : <<k, Null>> \notin held[t]} \subseteq DOMAIN ret

\* Every operation takes effect between its call and its return: an insert that has got
\* as far as returning has stored its value at some moment since it was called, and a
\* search returns a value that the key had at some moment since it was called; that also
\* holds through cache entries that are out of date, but for a search that does not find
\* a key just stored by another compute node (the reverse pointer that would tell it may
\* still be under way).
TakesEffect ==
    /\ \A t \in Threads :
         th[t].pc = "done" /\ th[t].op # "range" /\ (th[t].op = "insert" \/ th[t].val # Null \/ room = 0)
             => th[t].val \in held[t]
    /\ RangesAreRight

\* What is stored for a key changes only by an insert of that key, to the inserted value:
\* no split, change of type, in-place write or late reverse pointer makes a key disappear
\* or brings an old value back, not even for a moment.  (A search sees a leaf behind a full
\* node only after the switch of the node's type, which may be another thread's.)
OnlyInsertsChangeTheMap ==
    [][\A k \in Keys :
         LET new == Find(mem', k)
         IN  new # Find(mem, k) =>
               \E t \in Threads : th[t].op = "insert" /\ th[t].key = k /\ th[t].val = new]_mem

\* Every operation returns (or the program has stopped at an assertion).
EveryOperationReturns ==
    \A t \in Threads : th[t].pc # "idle" ~> (th[t].pc = "idle" \/ abort)
=============================================================================
