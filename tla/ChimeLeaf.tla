------------------------------ MODULE ChimeLeaf ------------------------------
(* The hopscotch leaf of CHIME (Tree.cpp): a table of Span slots in which a    *)
(* key lies at most Neighbor - 1 slots behind its home slot.  Writers hold the *)
(* leaf's lock, whose word also keeps a vacancy bitmap and the slot of the     *)
(* largest key; readers take no lock and read the neighbourhood of a home slot *)
(* while a writer's entries arrive one by one.                                 *)
(*                                                                             *)
(* Values are left out: a key stands for its entry.  The hash of a key is      *)
(* chosen when the key is first used, so that every hash function is covered.  *)
EXTENDS Integers, FiniteSets, FiniteSetsExt

CONSTANTS
  Shapes,     \* dimensions that a build may give its leaves, and the ghost key's home
  Keys,       \* keys, naturals above kkeyNull
  MaxSplits   \* bound: splits of the leaf

ASSUME ChimeLeafAssumption ==
  /\ \A s \in Shapes :
       /\ s \in [span : Nat \ {0}, neighbor : Nat \ {0}, buckets : Nat \ {0}, ghost : Nat]
       /\ s.neighbor <= s.span /\ s.buckets <= s.span /\ s.ghost < s.span
  /\ MaxSplits \in Nat
  /\ Keys \subseteq Nat \ {0} /\ Keys # {}

kkeyNull == 0
ghost_key == Max(Keys)
NoHome == -1

VARIABLES
  shape,    \* the dimensions of this build's leaves
  home,     \* get_hashed_leaf_entry_index
  records,  \* the leaf in remote memory: [key, hop, node] of each slot
  valock,   \* the lock word: [full, max]: full buckets, max_key_idx
  sibling,  \* keys that splits have moved to leaves on the right
  writer,   \* the leaf image that the lock holder is writing, and the slots left
  reader,   \* a lock-free search
  failed    \* an assert of the code has failed

vars == <<shape, home, records, valock, sibling, writer, reader, failed>>

Span == shape.span           \* define::leafSpanSize
Neighbor == shape.neighbor   \* define::neighborSize
Buckets == shape.buckets     \* define::vacancyMapBit
Slots == 0..Span-1
At(i) == (i + Span) % Span

NullEntry(node) == [key |-> kkeyNull, hop |-> {}, node |-> node]
NoWriter == [pc |-> "idle", key |-> kkeyNull, image |-> <<>>, left |-> {}, valock |-> <<>>, moved |-> {}]
NoReader == [pc |-> "idle", key |-> kkeyNull, seen |-> <<>>, had |-> FALSE]

KeysOf(rec) == {rec[i].key : i \in Slots} \ {kkeyNull}
Splits == records[0].node
-----------------------------------------------------------------------------
(* VALOCK: bit b of the bitmap stands for the slots b*Span/Buckets, rounded up, *)
(* to the next bucket.  A clear bit promises an empty slot.                     *)
find_bucket(i) == (i * Buckets) \div Span
First(b) == (b * Span + Buckets - 1) \div Buckets

\* Mutant: the bits of the buckets that an insert fills stay clear.
BlindVacancy(full, l, r, rec) == full

update_vacancy(full, l, r, rec) ==
  LET within == {i \in Slots : IF l <= r THEN l <= i /\ i <= r ELSE i <= r \/ l <= i}
      lb == find_bucket(l)
      rb == find_bucket(r)
      bits == {b \in 0..Buckets-1 : IF lb <= rb THEN lb <= b /\ b <= rb ELSE b <= rb \/ lb <= b}
  IN  (full \cup bits) \ {find_bucket(i) : i \in {j \in within : rec[j].key = kkeyNull}}

\* The first leaf holds a ghost key above all others, at its home slot.
Init ==
  /\ shape \in Shapes
  /\ home = [k \in Keys |-> IF k = ghost_key THEN shape.ghost ELSE NoHome]
  /\ records = [i \in Slots |-> IF i = shape.ghost THEN [NullEntry(0) EXCEPT !.key = ghost_key, !.hop = {0}]
                                                  ELSE NullEntry(0)]
  /\ valock = [full |-> {find_bucket(shape.ghost)}, max |-> shape.ghost]
  /\ sibling = {}
  /\ writer = NoWriter /\ reader = NoReader /\ failed = FALSE

\* Entries to read from slot s on to have an empty one among them; all when unknown.
get_read_entry_num_from_bitmap(full, s) ==
  LET free == {b \in find_bucket(s)..Buckets-1 : b \notin full /\ s <= First(b)}
  IN  IF free = {} THEN Span ELSE First(Min(free) + 1) - s

\* leaf_node_insert reads on to the next copy of the metadata, one per neighbourhood.
ReadNum(full, s) ==
  LET n == get_read_entry_num_from_bitmap(full, s)
      e == s + n
  IN  IF n < Neighbor /\ s % Neighbor # 0 /\ s \div Neighbor = (e - 1) \div Neighbor
      THEN ((e - 1 + Neighbor) \div Neighbor) * Neighbor + 1 - s
      ELSE n
-----------------------------------------------------------------------------
(* Hopping: an entry o slots before the empty slot j, z slots behind its home,  *)
(* may move to j if it stays in its neighbourhood; the farthest one is taken.   *)
Movers(rec, j) ==
  {<<o, z>> \in (1..Neighbor-1) \X (0..Neighbor-1) :
     o + z < Neighbor /\ z \in rec[At(j - o - z)].hop}

Farthest(ms) == CHOOSE m \in ms : \A n \in ms : m[1] >= n[1]

\* The records with k in them, the slots that changed, and whether every bit that is
\* cleared was set and every bit that is set was clear.
RECURSIVE Hop(_, _, _, _, _)
Hop(rec, k, h0, j, hopped) ==
  LET ms == Movers(rec, j)
      m == Farthest(ms)
      h == j - m[1]
      b == At(h - m[2])
      to == m[1] + m[2]
  IN  IF j < h0 + Neighbor
      THEN LET put == [rec EXCEPT ![At(j)].key = k]
           IN  [ok |-> TRUE, rec |-> [put EXCEPT ![h0].hop = @ \cup {j - h0}],
                hopped |-> hopped \cup {At(j)}, bits |-> (j - h0) \notin rec[h0].hop]
      ELSE IF ms = {} THEN [ok |-> FALSE, rec |-> rec, hopped |-> {}, bits |-> TRUE]
      ELSE LET put == [rec EXCEPT ![At(j)].key = rec[At(h)].key]
               rest == Hop([put EXCEPT ![b].hop = (@ \ {m[2]}) \cup {to}],
                           k, h0, h, hopped \cup {At(j)})
           IN  [rest EXCEPT !.bits = @ /\ to \notin rec[b].hop]

EmptyFrom(rec, h0, n) == {i \in h0..h0+n-1 : rec[At(i)].key = kkeyNull}

hopscotch_insert(rec, k, h0, n) ==
  LET e == EmptyFrom(rec, h0, n)
  IN  IF e = {} THEN [ok |-> FALSE, rec |-> rec, hopped |-> {}, bits |-> TRUE]
                ELSE Hop(rec, k, h0, Min(e), {})

\* Would slot j, were it empty, make room for a key of home h0?  By the keys' hashes.
RECURSIVE Reaches(_, _, _)
Reaches(rec, h0, j) ==
  LET Behind(h) == At(At(h) - home[rec[At(h)].key])
      os == {o \in 1..Neighbor-1 : Behind(j - o) + o < Neighbor}
  IN  j < h0 + Neighbor \/ (os # {} /\ Reaches(rec, h0, j - Max(os)))

Median(S) == CHOOSE x \in S : Cardinality({y \in S : y < x}) = Cardinality(S) \div 2

\* "calculate a proper split key to ensure k can be inserted after node split"
hopscotch_get_split_key(rec, k, h0) ==
  LET e == EmptyFrom(rec, h0, Span)
      run == h0..(IF e = {} THEN h0 + Span - 1 ELSE Min(e) - 1)
      critical == {rec[At(i)].key : i \in {i \in run : Reaches(rec, h0, i)}}
  IN  Median(critical \cup {k})

MaxIdx(rec) == LET top == Max(KeysOf(rec)) IN CHOOSE i \in Slots : rec[i].key = top

\* Mutant: the bits of keys that go to the other part stay set.
KeepBitsPart(rec, S, node) ==
  [i \in Slots |-> [key |-> IF rec[i].key \in S THEN rec[i].key ELSE kkeyNull,
                    hop |-> rec[i].hop, node |-> node]]

\* The part of a table with the keys in S.
Part(rec, S, node) ==
  [i \in Slots |-> [key |-> IF rec[i].key \in S THEN rec[i].key ELSE kkeyNull,
                    hop |-> {z \in rec[i].hop : rec[At(i + z)].key \in S}, node |-> node]]
-----------------------------------------------------------------------------
(* A writer: lock, read, insert; its entries then arrive in remote memory one   *)
(* by one, and the lock word last.                                              *)
LockFree == writer.pc = "idle" /\ ~failed

Write(k, image, lock, moved) ==
  writer' = [pc |-> "write", key |-> k, image |-> image,
             left |-> {i \in Slots : image[i] # records[i]}, valock |-> lock, moved |-> moved]

\* segment_write_and_unlock: max_key_idx follows the largest key when that has hopped.
NewMaxIdx(rec, hopped) ==
  IF valock.max \in hopped
  THEN CHOOSE i \in hopped : \A j \in hopped : rec[i].key >= rec[j].key
  ELSE valock.max

\* What an insert reads of the leaf: n slots from h0 on, the rest of its buffer being zero.
Within(h0, n, i) == At(i - h0) < n

Fetched(h0, n) == [i \in Slots |-> IF Within(h0, n, i) THEN records[i] ELSE NullEntry(Splits)]

\* A key above all of a leaf that has been split belongs to the right sibling.
InRange(k) == k \notin sibling /\ (Splits > 0 => \E x \in KeysOf(records) : k <= x)

\* leaf_node_insert of a new key: hop, or else split and insert into one of the halves.
leaf_node_insert(k, h0) ==
  /\ LockFree /\ InRange(k) /\ k \notin KeysOf(records)
  /\ home[k] \in {NoHome, h0}
  /\ home' = [home EXCEPT ![k] = h0]
  /\ LET n == ReadNum(valock.full, h0)
         r == hopscotch_insert(Fetched(h0, n), k, h0, n)
         image == [i \in Slots |-> IF Within(h0, n, i) THEN r.rec[i] ELSE records[i]]
         e == EmptyFrom(records, h0, n)
         sk == hopscotch_get_split_key(records, k, h0)
         high == {x \in KeysOf(records) : x >= sk}
         left == Part(records, KeysOf(records) \ high, Splits + 1)
         right == Part(records, high, Splits + 1)
         l == IF k < sk THEN hopscotch_insert(left, k, h0, Span)
                        ELSE [ok |-> TRUE, rec |-> left, hopped |-> {}, bits |-> TRUE]
         s == IF k < sk THEN [ok |-> TRUE, rec |-> right, hopped |-> {}, bits |-> TRUE]
                        ELSE hopscotch_insert(right, k, h0, Span)
     IN  \/ /\ r.ok
            /\ Write(k, image, [full |-> update_vacancy(valock.full, h0, At(Min(e)), image),
                             max |-> NewMaxIdx(image, r.hopped)], {})
            /\ failed' = ~r.bits
         \/ /\ ~r.ok /\ Splits < MaxSplits
            /\ failed' = ~((n = Span \/ e # {}) /\ l.ok /\ s.ok /\ l.bits /\ s.bits /\ KeysOf(l.rec) # {} /\ KeysOf(s.rec) # {})
            /\ IF failed' THEN writer' = writer
               ELSE Write(k, l.rec, [full |-> update_vacancy({}, 0, Span - 1, l.rec),
                                  max |-> MaxIdx(l.rec)], KeysOf(s.rec))
  /\ UNCHANGED <<shape, records, valock, sibling, reader>>

\* The entries of a WRITE arrive in any order; the sibling is written before them.
arrive(i) ==
  /\ i \in writer.left
  /\ records' = [records EXCEPT ![i] = writer.image[i]]
  /\ writer' = [writer EXCEPT !.left = @ \ {i}, !.moved = {}]
  /\ sibling' = sibling \cup writer.moved
  /\ UNCHANGED <<shape, home, valock, reader, failed>>

unlock ==
  /\ writer.pc = "write" /\ writer.left = {}
  /\ valock' = writer.valock
  /\ writer' = NoWriter
  /\ UNCHANGED <<shape, home, records, sibling, reader, failed>>
-----------------------------------------------------------------------------
(* leaf_node_search: the neighbourhood of the key's home, an entry at a time.   *)
Neighbourhood(k) == {At(home[k] + i) : i \in 0..Neighbor-1}

\* The insert of k is over.
Inserted(k) == home[k] # NoHome /\ writer.key # k

start_search(k) ==
  /\ reader.pc = "idle" /\ home[k] # NoHome
  /\ reader' = [pc |-> "read", key |-> k, seen |-> <<>>,
                had |-> Inserted(k)]
  /\ UNCHANGED <<shape, home, records, valock, sibling, writer, failed>>

read_entry(i) ==
  /\ reader.pc = "read" /\ i \in Neighbourhood(reader.key) \ DOMAIN reader.seen
  /\ reader' = [reader EXCEPT !.seen = [j \in {i} \cup DOMAIN @ |-> IF j = i THEN records[i] ELSE @[j]]]
  /\ UNCHANGED <<shape, home, records, valock, sibling, writer, failed>>

Found == \E i \in DOMAIN reader.seen : reader.seen[i].key = reader.key

\* decode_segment_versions: one node version; a node version stands for its sibling pointer too.
SameNode == \A i, j \in DOMAIN reader.seen : reader.seen[i].node = reader.seen[j].node

\* Mutant: the bitmap is not compared.
UncheckedHop == TRUE

\* "check hopping consistency": the bitmap of the home slot names the keys of that home.
HopConsistent ==
  LET h == home[reader.key]
  IN  reader.seen[h].hop =
        {z \in 0..Neighbor-1 : reader.seen[At(h + z)].key # kkeyNull
                                 /\ home[reader.seen[At(h + z)].key] = h}

finish_search ==
  /\ reader.pc = "read" /\ DOMAIN reader.seen = Neighbourhood(reader.key)
  /\ reader' = IF ~SameNode \/ (~Found /\ ~HopConsistent)
               THEN [reader EXCEPT !.seen = <<>>, !.had = Inserted(reader.key)]
               ELSE [reader EXCEPT !.pc = IF Found THEN "found" ELSE "miss"]
  /\ UNCHANGED <<shape, home, records, valock, sibling, writer, failed>>

return ==
  /\ reader.pc \in {"found", "miss"}
  /\ reader' = NoReader
  /\ UNCHANGED <<shape, home, records, valock, sibling, writer, failed>>

Next ==
  \/ \E k \in Keys, h \in Slots : leaf_node_insert(k, h)
  \/ \E i \in Slots : arrive(i)
  \/ unlock
  \/ \E k \in Keys : start_search(k)
  \/ \E i \in Slots : read_entry(i)
  \/ finish_search \/ return

Spec == Init /\ [][Next]_vars
-----------------------------------------------------------------------------
\* The shapes of the leaf, its lock word and the search.
TypeOK ==
  /\ home \in [Keys -> Slots \cup {NoHome}]
  /\ records \in [Slots -> [key : Keys \cup {kkeyNull}, hop : SUBSET (0..Neighbor-1), node : 0..MaxSplits]]
  /\ valock.full \subseteq 0..Buckets-1 /\ valock.max \in Slots
  /\ sibling \subseteq Keys

Quiet == writer.pc = "idle"

\* Between writes every key lies once, in the neighbourhood of its home, and the bitmap of
\* the home slot has its bit: what the hops, the split and their bit updates preserve.
HopscotchInvariant ==
  Quiet => \A i \in Slots : \A z \in 0..Neighbor-1 :
    (z \in records[i].hop) <=> (records[At(i + z)].key # kkeyNull /\ home[records[At(i + z)].key] = i)

\* A clear bit of the vacancy bitmap promises an empty slot in its bucket.
VacancyIsReal ==
  Quiet => \A b \in (0..Buckets-1) \ valock.full :
    \E i \in First(b)..First(b+1)-1 : records[i].key = kkeyNull

\* max_key_idx is the slot of the largest key, although an insert only looks at the slots
\* it changes: the test to turn right relies on it.
MaxIdxIsMax ==
  Quiet => records[valock.max].key = Max(KeysOf(records))

\* No key is lost or duplicated between a leaf and its siblings by a split.
SplitsPartition ==
  Quiet => /\ KeysOf(records) \cap sibling = {}
           /\ \A x \in KeysOf(records), y \in sibling : x < y

\* Whatever the order of inserts, hops and splits and whatever the hash function, the
\* bitmaps of the slots, the vacancy bits and max_key_idx of the lock word and the keys
\* moved right agree with the slots whenever the lock is free (hopscotch_insert_and_unlock,
\* hopscotch_split_and_unlock, segment_write_and_unlock).
LeafIsSound == TypeOK /\ HopscotchInvariant /\ VacancyIsReal /\ MaxIdxIsMax /\ SplitsPartition

\* The asserts of set_hop_bit, of the empty slot that the vacancy bitmap promises, and the
\* assert(false) of hopscotch_insert_locally: after a split there is always room for k, and
\* neither half is empty.
NoAssertFails == ~failed

\* A search that takes no lock never misses a key that was there when it began: it finds it,
\* or learns from the entries' node version that it has to turn right.
NoFalseMiss ==
  (reader.pc = "miss" /\ reader.had) =>
     reader.key \in sibling /\ \E i \in DOMAIN reader.seen : reader.seen[i].node > 0
=============================================================================
