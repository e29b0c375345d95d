------------------------------ MODULE DartTree ------------------------------
(***************************************************************************)
(* DART's radix tree in disaggregated memory (prheart, art-node.cc) with   *)
(* its skip table (RACE, race.cc), as the worker threads of the compute    *)
(* nodes drive it.  Every RDMA verb is one step: a read of a bucket, a     *)
(* node, a slot or a leaf, a compare-and-swap of one slot.  The writes     *)
(* that fill a freshly allocated node or leaf are invisible until the      *)
(* compare-and-swap that links it, and belong to that step.                *)
(*                                                                         *)
(* A node is addressed by an integer, as an fptr is: the root is at 0 and  *)
(* every thread allocates from its own region.  A slot of a node is the    *)
(* pair of the node's address and an index; a slot's value is its type,    *)
(* key byte, pointer and length, compared as a whole.  Values are left out:*)
(* a leaf is its key.                                                      *)
(***************************************************************************)
EXTENDS Integers, Sequences, FiniteSets, FiniteSetsExt, TLC

CONSTANTS KeyLen,       \* bytes of every key
          Node8Slots,   \* slots of the smallest node
          BucketSlots,  \* slots of one bucket, --bucket
          MaxType,      \* the largest type: the root's, Node256
          RaceSlots,    \* slots of a main bucket and its overflow bucket
          PageSize,     \* objects a region's size is rounded up to
          hash(_)       \* the bucket and the fingerprint of a prefix

VARIABLES mem,          \* disaggregated memory: address to node or leaf
          alloc,        \* per thread: alloc_now_fptr and alloc_end_fptr
          table,        \* the skip table: a sequence of slots per bucket
          cnt,          \* the skip table's start_cnt
          th,           \* per thread: the operation under way
          done,         \* keys whose insert has returned true
          missed,       \* whether a search missed a key it had to find
          harm          \* the known ways an operation went wrong

treeVars == <<mem, alloc, table, cnt, th, done, missed, harm>>

None == 0
Leaf == 1
Node8 == 2

----------------------------------------------------------------------------
(* Slots, nodes and buckets.                                               *)

NoSlot == [type |-> None, byte |-> 0, ptr |-> 0, len |-> 0]

type_to_size(type) == Node8Slots * 2 ^ (type - Node8)

NewNode(type) == [type |-> type, key |-> <<>>,
                  slots |-> [i \in 0 .. type_to_size(type) - 1 |-> NoSlot]]
NewLeaf(k) == [type |-> Leaf, key |-> k, slots |-> [i \in {} |-> NoSlot]]
Nothing == [type |-> None, key |-> <<>>, slots |-> [i \in {} |-> NoSlot]]

get_byte(k, pos) == IF pos >= KeyLen THEN 0 ELSE k[pos + 1]

BucketNum(type) == Max({1, type_to_size(type) \div BucketSlots})

(* rdma_read_bucket_data: the indices of the bucket a key byte hashes to.  *)
Bucket(type, byte) ==
  LET first == (byte % BucketNum(type)) * BucketSlots
  IN  first .. Min({first + BucketSlots, type_to_size(type)}) - 1

Used(slots, where) == {i \in where : slots[i].type # None}

(* search_local: the first slot of the bucket with the key's byte, else    *)
(* the first empty one.                                                    *)
search_local(slots, where, byte) ==
  LET same == {i \in Used(slots, where) : slots[i].byte = byte}
      none == where \ Used(slots, where)
  IN  CASE same # {} -> [result |-> "found", i |-> Min(same)]
        [] same = {} /\ none # {} -> [result |-> "with_none", i |-> Min(none)]
        [] OTHER -> [result |-> "with_full", i |-> 0]

(* uncompact_till_leaf_local: the slot with the same byte, or else the     *)
(* last one in use.                                                        *)
uncompact_till_leaf_local(slots, where, byte) ==
  LET r == search_local(slots, where, byte)
  IN  IF r.result = "found" THEN r.i ELSE Max(Used(slots, where))

(* The regrouping of an upgrade: each slot in use goes, in order, to the   *)
(* next place of the bucket its byte hashes to in the larger node.         *)
Upgraded(node) ==
  LET new == node.type + 1
      in(b) == {i \in Used(node.slots, DOMAIN node.slots) :
                   node.slots[i].byte % BucketNum(new) = b}
      place(i) == LET b == node.slots[i].byte % BucketNum(new)
                  IN  b * BucketSlots + Cardinality({j \in in(b) : j < i})
      from(p) == {i \in Used(node.slots, DOMAIN node.slots) : place(i) = p}
  IN  [NewNode(new) EXCEPT !.slots =
         [p \in DOMAIN @ |-> IF from(p) = {} THEN NoSlot
                             ELSE node.slots[CHOOSE i \in from(p) : TRUE]]]

(* get_diff_node: the first slot on the path whose compressed bytes, or    *)
(* the byte right after them, hold the first difference of the two keys.   *)
get_diff_node(k, path, real) ==
  LET differ == Min({p \in 0 .. KeyLen - 1 : get_byte(k, p) # get_byte(real, p)})
      end(i) == path[i].pos + path[i].slot.len
      at == {i \in DOMAIN path : path[i].pos <= differ /\ differ <= end(i)}
  IN  IF at = {} THEN [result |-> "split", i |-> 1, same |-> 0, pos |-> differ]
      ELSE [result |-> IF end(Min(at)) = differ THEN "head" ELSE "split",
            i |-> Min(at), same |-> differ - path[Min(at)].pos, pos |-> differ]

----------------------------------------------------------------------------
(* What a search of a key would visit, from the root, in a quiet memory.   *)

(* The node, or nothing, a search of k goes to after node n.               *)
Below(k, n) ==
  {[ptr |-> n.slots[i].ptr, pos |-> n.pos + n.slots[i].len] :
     i \in {j \in Bucket(n.type, get_byte(k, n.pos)) :
              /\ n.slots[j].type # None /\ n.slots[j].byte = get_byte(k, n.pos)
              /\ \A h \in Bucket(n.type, get_byte(k, n.pos)) :
                   h < j => n.slots[h].type = None \/ n.slots[h].byte # n.slots[j].byte}}

RECURSIVE Walk(_, _, _)
Walk(m, k, n) ==
  {n.ptr} \cup IF m[n.ptr].type \in {None, Leaf} \/ n.pos >= KeyLen THEN {}
               ELSE UNION {Walk(m, k, b) : b \in Below(k, m[n.ptr] @@ n)}

Path(k) == Walk(mem, k, [ptr |-> 0, pos |-> 0])
Holds(k) == \E p \in Path(k) : mem[p].type = Leaf /\ mem[p].key = k

----------------------------------------------------------------------------
(* The parts of an operation.                                              *)

Idle == [pc |-> "idle", op |-> "none", key |-> <<>>, end |-> <<>>, must |-> FALSE,
         choice |-> "unknown",
         at |-> [type |-> MaxType, ptr |-> 0, pos |-> 0],
         parent |-> [node |-> 0, i |-> 0],
         path |-> <<>>, old |-> NoSlot, new |-> Nothing, same |-> 0]

Root == Idle.at
FirstSlot == Idle.parent

Set(t, r) == th' = [th EXCEPT ![t] = r @@ @]

Quiet == UNCHANGED <<table, cnt>>
Reads == Quiet /\ UNCHANGED <<mem, alloc, harm>>

Return(t, ok) ==
  /\ Set(t, Idle)
  /\ done' = IF ok /\ th[t].op = "insert" THEN done \cup {th[t].key} ELSE done
  /\ missed' = (missed \/ (~ok /\ th[t].op \in {"search", "scan"} /\ th[t].must))

Goto(t, r) == Set(t, r) /\ UNCHANGED <<done, missed>>

(* A mutant of the next definition: a lost race is tried again where it    *)
(* was lost.                                                               *)
RetryInPlace(t) ==
  IF th[t].op = "insert" /\ ~th[t].race THEN Goto(t, [pc |-> th[t].pc])
  ELSE Return(t, FALSE)

(* PrheartTree::insert of the load phase starts again at the root when the *)
(* attempt lost a race; everything else, and the run phase, gives up.      *)
CasError(t) ==
  IF th[t].op = "insert" /\ ~th[t].race
  THEN Goto(t, [Idle EXCEPT !.pc = "node", !.op = "insert", !.key = th[t].key,
                            !.must = th[t].must])
  ELSE Return(t, FALSE)

Child(slot, pos) == [type |-> slot.type, ptr |-> slot.ptr, pos |-> pos + slot.len]

CanAlloc(t, n) == alloc[t].now + n <= alloc[t].end
Malloc(t, n) == alloc' = [alloc EXCEPT ![t].now = @ + n]

(* A mutant of the next definition: the slot is written unconditionally.   *)
BlindWrite(addr, old) == addr.i \in DOMAIN mem[addr.node].slots

(* rdma_cas_8_byte: TRUE iff the slot at the address holds the old value.  *)
rdma_cas_8_byte(addr, old) ==
  /\ addr.i \in DOMAIN mem[addr.node].slots
  /\ mem[addr.node].slots[addr.i] = old

Linked(m, addr, slot) == [m EXCEPT ![addr.node].slots[addr.i] = slot]

(* A swap into a node that a search of the key no longer reaches.          *)
Late(t, addr) == IF addr.node \in Path(th[t].key) THEN {} ELSE {"late"}

----------------------------------------------------------------------------
(* The steps of a thread.                                                  *)

(* start_benchmark takes the next record; without a skip table (the load   *)
(* phase) the operation starts at the root.                                *)
Take(t) ==
  /\ th[t].pc = "idle" /\ th[t].todo # <<>>
  /\ Goto(t, [pc |-> IF th[t].race /\ Head(th[t].todo).op \notin {"scan", "remove"}
                     THEN "root" ELSE "node",
              op |-> Head(th[t].todo).op, key |-> Head(th[t].todo).key,
              end |-> Head(th[t].todo).end, must |-> Head(th[t].todo).key \in done,
              todo |-> Tail(th[t].todo)])
  /\ Reads

(* The length of the prefix get_root looks up: a power of two less one.    *)
PrefixLen == Max({2 ^ n : n \in {m \in 0 .. KeyLen : 2 ^ m <= KeyLen - 1}}) - 1

(* RACE Client::search: every slot of the prefix's bucket pair with the    *)
(* prefix's fingerprint.                                                   *)
search_bucket(b, fp) == {b[i].node : i \in {j \in DOMAIN b : b[j].fp = fp}}
race_search(prefix) == search_bucket(table[hash(prefix).bucket], hash(prefix).fp)

(* get_root(key): exactly one match gives the node to start at.  The       *)
(* parent slot passed along is 0, which is the root's first slot.          *)
get_root(t) ==
  /\ th[t].pc = "root"
  /\ LET hits == race_search(SubSeq(th[t].key, 1, PrefixLen))
         at == IF Cardinality(hits) = 1 THEN CHOOSE n \in hits : TRUE ELSE Root
     IN  /\ Goto(t, [pc |-> "node", at |-> at])
         /\ harm' = harm \cup IF at.ptr \in Path(th[t].key) THEN {} ELSE {"astray"}
  /\ Quiet /\ UNCHANGED <<mem, alloc>>

(* PrheartNode::search at a leaf or at a node.                             *)
search(t) ==
  /\ th[t].pc = "node" /\ th[t].op = "search"
  /\ LET a == th[t].at
         byte == get_byte(th[t].key, a.pos)
         n == mem[a.ptr]
         r == search_local(n.slots, Bucket(a.type, byte), byte)
     IN  IF a.type = Leaf THEN Return(t, n.key = th[t].key)
         ELSE IF r.result = "found" THEN Goto(t, [at |-> Child(n.slots[r.i], a.pos)])
         ELSE Return(t, FALSE)
  /\ Reads

(* scan_local: which slots a scan may enter, and what is still to be       *)
(* compared below the slot it enters.                                      *)
Bounded(choice, side) == choice \in {"unknown", side}
Narrowed(choice, s, lo, hi) ==
  LET low == Bounded(choice, "lower") /\ s.byte = lo
      high == Bounded(choice, "upper") /\ s.byte = hi
  IN  CASE choice = "optimistic" \/ s.len > 1 -> "optimistic"
        [] low /\ high -> "unknown"
        [] low /\ ~high -> "lower"
        [] high /\ ~low -> "upper"
        [] OTHER -> "certain"
Admits(choice, s, lo, hi) ==
  \/ choice = "optimistic" \/ s.len > 1
  \/ /\ Bounded(choice, "lower") => s.byte >= lo
     /\ Bounded(choice, "upper") => s.byte <= hi

(* PrheartNode::scan goes into the first slot, in slot order, that the     *)
(* bounds admit, and returns the first leaf it comes to.                   *)
scan(t) ==
  /\ th[t].pc = "node" /\ th[t].op = "scan"
  /\ LET a == th[t].at
         s == mem[a.ptr].slots
         lo == get_byte(th[t].key, a.pos)
         hi == get_byte(th[t].end, a.pos)
         in == {i \in Used(s, DOMAIN s) : Admits(th[t].choice, s[i], lo, hi)}
     IN  IF a.type = Leaf THEN Return(t, TRUE)
         ELSE IF in = {} THEN Return(t, FALSE)
         ELSE Goto(t, [at |-> Child(s[Min(in)], a.pos),
                       choice |-> Narrowed(th[t].choice, s[Min(in)], lo, hi)])
  /\ Reads

(* PrheartNode::update: down to the slot of a leaf.                        *)
update(t) ==
  /\ th[t].pc = "node" /\ th[t].op = "update"
  /\ LET a == th[t].at
         byte == get_byte(th[t].key, a.pos)
         s == mem[a.ptr].slots
         r == search_local(s, Bucket(a.type, byte), byte)
     IN  IF r.result # "found" THEN Return(t, FALSE)
         ELSE IF s[r.i].type # Leaf
              THEN Goto(t, [at |-> Child(s[r.i], a.pos), parent |-> [node |-> a.ptr, i |-> r.i]])
         ELSE Goto(t, [pc |-> "replace", old |-> s[r.i], parent |-> [node |-> a.ptr, i |-> r.i]])
  /\ Reads

(* ... which is swapped for a new leaf, whatever key the old one has.      *)
update_leaf(t) ==
  /\ th[t].pc = "replace"
  /\ LET p == th[t].parent
         leaf == alloc[t].now
     IN  IF ~CanAlloc(t, 1) THEN Return(t, FALSE) /\ UNCHANGED <<mem, alloc, harm>>
         ELSE /\ Malloc(t, 1)
              /\ IF rdma_cas_8_byte(p, th[t].old)
                 THEN /\ mem' = Linked([mem EXCEPT ![leaf] = NewLeaf(th[t].key)], p,
                                       [th[t].old EXCEPT !.ptr = leaf])
                      /\ harm' = harm \cup Late(t, p)
                      /\ Return(t, TRUE)
                 ELSE CasError(t) /\ UNCHANGED <<mem, harm>>
  /\ Quiet

(* PrheartNode::insert, the read of the bucket and its four cases.         *)
insert(t) ==
  /\ th[t].pc = "node" /\ th[t].op = "insert" /\ th[t].at.type # Leaf
  /\ LET a == th[t].at
         byte == get_byte(th[t].key, a.pos)
         s == mem[a.ptr].slots
         r == search_local(s, Bucket(a.type, byte), byte)
         addr == [node |-> a.ptr, i |-> r.i]
     IN  CASE r.result = "with_none" -> Goto(t, [pc |-> "none", parent |-> addr])
           [] r.result = "with_full" -> Goto(t, [pc |-> "full"])
           [] r.result = "found" /\ s[r.i].len = 1 ->
                Goto(t, [at |-> Child(s[r.i], a.pos), parent |-> addr])
           [] r.result = "found" /\ s[r.i].len > 1 ->
                Goto(t, [pc |-> "uncompact", at |-> Child(s[r.i], a.pos),
                         path |-> <<[slot |-> s[r.i], pos |-> a.pos, addr |-> addr]>>])
           [] OTHER -> Return(t, FALSE)
  /\ Reads

(* At a leaf the key and the value are written in place.                   *)
insert_at_leaf(t) ==
  /\ th[t].pc = "node" /\ th[t].op = "insert" /\ th[t].at.type = Leaf
  /\ mem' = [mem EXCEPT ![th[t].at.ptr] = NewLeaf(th[t].key)]
  /\ Return(t, TRUE)
  /\ Quiet /\ UNCHANGED <<alloc, harm>>

(* Case 1: a new leaf goes to the empty slot.                              *)
insert_to_none(t) ==
  /\ th[t].pc = "none"
  /\ LET p == th[t].parent
         k == th[t].key
         leaf == alloc[t].now
     IN  IF ~CanAlloc(t, 1) THEN Return(t, FALSE) /\ UNCHANGED <<mem, alloc, harm>>
         ELSE /\ Malloc(t, 1)
              /\ IF rdma_cas_8_byte(p, NoSlot)
                 THEN /\ mem' = Linked([mem EXCEPT ![leaf] = NewLeaf(k)], p,
                                [type |-> Leaf, byte |-> get_byte(k, th[t].at.pos),
                                 ptr |-> leaf, len |-> KeyLen - th[t].at.pos])
                      /\ harm' = harm \cup Late(t, p)
                      /\ Return(t, TRUE)
                 ELSE CasError(t) /\ UNCHANGED <<mem, harm>>
  /\ Quiet

(* Case 2: the node is upgraded.  The parent's slot is read, and must      *)
(* still have the node's type; ...                                         *)
read_parent_slot(t) ==
  /\ th[t].pc = "full"
  /\ LET s == mem[th[t].parent.node].slots[th[t].parent.i]
     IN  IF s.type # th[t].at.type THEN CasError(t)
         ELSE Goto(t, [pc |-> "copy", old |-> s])
  /\ Reads

(* ... the whole node is read again; ...                                   *)
read_old_node(t) ==
  /\ th[t].pc = "copy"
  /\ Goto(t, [pc |-> "upgrade", new |-> mem[th[t].at.ptr]])
  /\ Reads

(* ... and its regrouped copy replaces it, unless the slot has changed.    *)
(* The insert goes on in the new node, below the same slot.                *)
upgrade(t) ==
  /\ th[t].pc = "upgrade"
  /\ LET p == th[t].parent
         o == th[t].old
         node == alloc[t].now
         new == Upgraded(th[t].new)
     IN  IF ~CanAlloc(t, 1) THEN Return(t, FALSE) /\ UNCHANGED <<mem, alloc, harm>>
         ELSE /\ Malloc(t, 1)
              /\ IF rdma_cas_8_byte(p, o)
                 THEN /\ mem' = Linked([mem EXCEPT ![node] = new], p,
                                       [o EXCEPT !.type = new.type, !.ptr = node])
                      /\ harm' = harm \cup Late(t, p) \cup
                           IF o.ptr = th[t].at.ptr /\ mem[o.ptr] = th[t].new
                           THEN {} ELSE {"clobber"}
                      /\ Goto(t, [pc |-> "node", new |-> Nothing, old |-> NoSlot,
                                  at |-> [type |-> new.type, ptr |-> node, pos |-> th[t].at.pos]])
                 ELSE CasError(t) /\ UNCHANGED <<mem, harm>>
  /\ Quiet

(* Case 4: down to some leaf below the compressed slot.  The bucket of the *)
(* key's byte is tried first; when it is empty the whole node is read, yet *)
(* the slot's address is still taken relative to the bucket.               *)
uncompact_till_leaf(t) ==
  /\ th[t].pc = "uncompact" /\ th[t].at.type # Leaf
  /\ LET a == th[t].at
         byte == get_byte(th[t].key, a.pos)
         s == mem[a.ptr].slots
         where == Bucket(a.type, byte)
         empty == Used(s, where) = {}
         i == uncompact_till_leaf_local(s, IF empty THEN DOMAIN s ELSE where, byte)
     IN  IF Used(s, DOMAIN s) = {} THEN Return(t, FALSE)
         ELSE Goto(t, [at |-> Child(s[i], a.pos),
                       path |-> Append(th[t].path,
                          [slot |-> s[i], pos |-> a.pos,
                           addr |-> [node |-> a.ptr,
                                     i |-> IF empty THEN Min(where) + i ELSE i]])])
  /\ Reads

(* The leaf's key decides: the same key is written in place, a difference  *)
(* at the head of a node is inserted there, any other splits a slot.       *)
uncompact_at_leaf(t) ==
  /\ th[t].pc = "uncompact" /\ th[t].at.type = Leaf
  /\ LET real == mem[th[t].at.ptr].key
         d == get_diff_node(th[t].key, th[t].path, real)
         s == th[t].path[d.i]
     IN  IF real = th[t].key THEN Goto(t, [pc |-> "node", path |-> <<>>])
         ELSE IF d.result = "head"
         THEN Goto(t, [pc |-> "node", at |-> Child(s.slot, s.pos), parent |-> s.addr,
                       path |-> <<>>])
         ELSE Goto(t, [pc |-> "split", parent |-> s.addr, old |-> s.slot, path |-> <<>>,
                       same |-> d.same,
                       new |-> [NewNode(Node8) EXCEPT
                         !.slots[0] = [s.slot EXCEPT !.byte = get_byte(real, d.pos),
                                                     !.len = @ - d.same],
                         !.slots[1] = [type |-> Leaf, byte |-> get_byte(th[t].key, d.pos),
                                       ptr |-> 0, len |-> KeyLen - d.same]]])
  /\ Reads

(* Case 4.3: a new node and a new leaf split the compressed slot.          *)
split(t) ==
  /\ th[t].pc = "split"
  /\ LET p == th[t].parent
         node == alloc[t].now
         leaf == node + 1
     IN  IF ~CanAlloc(t, 2)
         THEN /\ Return(t, FALSE)
              /\ Malloc(t, alloc[t].end - node)
              /\ UNCHANGED <<mem, harm>>
         ELSE /\ Malloc(t, 2)
              /\ IF rdma_cas_8_byte(p, th[t].old)
                 THEN /\ mem' = Linked([mem EXCEPT
                                         ![node] = [th[t].new EXCEPT !.slots[1].ptr = leaf],
                                         ![leaf] = NewLeaf(th[t].key)],
                                       p, [th[t].old EXCEPT !.type = Node8, !.ptr = node,
                                             !.len = th[t].same])
                      /\ harm' = harm \cup Late(t, p)
                      /\ Return(t, TRUE)
                 ELSE CasError(t) /\ UNCHANGED <<mem, harm>>
  /\ Quiet

(* PrheartNode::remove is not implemented: it reports false.               *)
remove(t) ==
  /\ th[t].pc = "node" /\ th[t].op = "remove"
  /\ Return(t, FALSE)
  /\ Reads

Operate(t) ==
  \/ Take(t) \/ get_root(t) \/ search(t) \/ scan(t) \/ update(t) \/ update_leaf(t)
  \/ insert(t) \/ insert_at_leaf(t) \/ insert_to_none(t)
  \/ read_parent_slot(t) \/ read_old_node(t) \/ upgrade(t)
  \/ uncompact_till_leaf(t) \/ uncompact_at_leaf(t) \/ split(t) \/ remove(t)
=============================================================================
