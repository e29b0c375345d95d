-------------------------- MODULE PageTableProofs ---------------------------
(* The page table of a compute node is sound and implements PageMap, in a     *)
(* build without pushdown, for any slots, addresses, frames and threads.      *)
(*                                                                            *)
(* First the operations of page_table.h on a chain of buckets: each keeps the *)
(* chain in order and sets the entry of one address (insertSets, updateSets,  *)
(* upsertSets, removeClears), and unlinking a bucket drops no entry           *)
(* (UnlinkKeeps).  What the buffer manager relies on follows from the entries *)
(* alone.  What Basics says of numbers and finite sets is shown last, so that *)
(* the theorems about them do not burden every proof.                         *)
EXTENDS PageTable, TLAPS

Bucket == [count : 0..(CountRange - 1), frame : [1..Slots -> Frame]]
Used(b) == {i \in 1..Slots : b.frame[i].buffer_page # Null}

(* A chain in order: every bucket counts its frames in use, and the frame     *)
(* that has an address's entry comes before the stale ones of that address.   *)
InOrder(c) ==
  /\ c \in Seq(Bucket)
  /\ \A p, q \in Positions(c) :
       /\ At(c, p).page_id \in Keys /\ At(c, p).buffer_page # Null
       /\ At(c, q).page_id = At(c, p).page_id
       => p = q \/ (Before(p, q) /\ At(c, q).buffer_page = Null)
  /\ \A b \in 1..Len(c) : c[b].count = Cardinality(Used(c[b]))

(* d is in order and differs from c in the entry of k, which is v. *)
Sets(c, d, k, v) ==
  /\ InOrder(d) /\ get(d, k) = v
  /\ \A j \in Keys : j # k => get(d, j) = get(c, j)

(* What the proofs use of numbers and finite sets; BasicsHold shows it. *)
Basics ==
  /\ \A S \in SUBSET Nat : S # {} => \E m \in S : \A n \in S : m <= n
  /\ Cardinality({}) = 0 /\ \A x : Cardinality({x}) = 1
  /\ \A n \in Nat : \A S \in SUBSET (1..n) :
       /\ Cardinality(S) \in 0..n /\ (Cardinality(S) = 0 => S = {})
       /\ \A i \in S : Cardinality(S \ {i}) = Cardinality(S) - 1
       /\ \A i \in (1..n) \ S : Cardinality(S \cup {i}) = Cardinality(S) + 1

LEMMA Sizes ==
  ASSUME build \in Builds
  PROVE  Slots \in Nat /\ Slots > 0 /\ CountRange \in Nat /\ Slots < CountRange
BY PageTableAssumption DEF Slots

-----------------------------------------------------------------------------
(* Positions. *)

LEMMA FirstIs ==
  ASSUME NEW S \in SUBSET (Nat \X Nat), NEW p \in S, \A q \in S : Before(p, q)
  PROVE  First(S) = p
<1>1. First(S) \in S /\ \A q \in S : Before(First(S), q)
  BY Zenon DEF First
<1>2. Before(p, First(S)) /\ Before(First(S), p)
  BY <1>1, Zenon
<1>3. p[1] = First(S)[1] /\ p[2] = First(S)[2]
  BY <1>1, <1>2 DEF Before
<1>4. QED
  BY <1>1, <1>3

LEMMA FirstExists ==
  ASSUME Basics, NEW S \in SUBSET (Nat \X Nat), S # {}
  PROVE  First(S) \in S /\ \A q \in S : Before(First(S), q)
<1> DEFINE B == {n \in Nat : \E p \in S : p[1] = n}
<1>1. B # {}
  BY Zenon
<1>2. PICK b \in B : \A n \in B : b <= n
  BY <1>1, Zenon DEF Basics
<1> DEFINE I == {n \in Nat : \E p \in S : p[1] = b /\ p[2] = n}
<1>3. I # {}
  BY <1>2, Zenon
<1>4. PICK i \in I : \A n \in I : i <= n
  BY <1>3, Zenon DEF Basics
<1>5. PICK p \in S : p[1] = b /\ p[2] = i
  BY <1>4, Zenon
<1>6. ASSUME NEW q \in S PROVE Before(p, q)
  <2>1. q[1] \in B /\ (q[1] = b => q[2] \in I) /\ q[1] \in Nat /\ q[2] \in Nat
    BY Zenon
  <2>2. b <= q[1] /\ (q[1] = b => i <= q[2])
    BY <1>2, <1>4, <2>1, Zenon
  <2>3. QED
    BY <1>5, <2>1, <2>2 DEF Before
<1>7. QED
  BY <1>6, FirstIs, Zenon

LEMMA PositionsAre ==
  ASSUME build \in Builds, NEW c \in Seq(Bucket)
  PROVE  /\ Positions(c) \in SUBSET (Nat \X Nat)
         /\ \A p \in Positions(c) : /\ p[1] \in 1..Len(c) /\ p[2] \in 1..Slots /\ p = <<p[1], p[2]>>
                                    /\ c[p[1]] \in Bucket /\ At(c, p) \in Frame
         /\ \A b \in 1..Len(c), i \in 1..Slots : <<b, i>> \in Positions(c)
<1>1. Len(c) \in Nat /\ Slots \in Nat
  BY Sizes
<1>2. ASSUME NEW p \in Positions(c)
      PROVE  /\ p \in Nat \X Nat /\ p[1] \in 1..Len(c) /\ p[2] \in 1..Slots /\ p = <<p[1], p[2]>>
             /\ c[p[1]] \in Bucket /\ At(c, p) \in Frame
  <2>1. PICK b \in 1..Len(c), i \in 1..Slots : p = <<b, i>>
    BY DEF Positions
  <2>2. c[b] \in Bucket
    BY <1>1
  <2>3. c[b].frame[i] \in Frame
    BY <2>2, Zenon DEF Bucket
  <2>4. QED
    BY <1>1, <2>1, <2>2, <2>3 DEF At
<1>3. \A b \in 1..Len(c), i \in 1..Slots : <<b, i>> \in Positions(c)
  BY Zenon DEF Positions
<1>4. QED
  BY <1>2, <1>3, Zenon

(* The entry of an address is its one live frame. *)
LEMMA GetIs ==
  ASSUME build \in Builds, NEW c, InOrder(c), NEW k \in Keys
  PROVE  /\ \A p \in Live(c, k) : /\ Live(c, k) = {p} /\ get(c, k) = At(c, p).buffer_page
                                  /\ get(c, k) # Null /\ First(Named(c, k)) = p
         /\ get(c, k) = Null => Live(c, k) = {}
         /\ get(c, k) # Null => \E p \in Live(c, k) : First(Live(c, k)) = p
<1>0. Positions(c) \in SUBSET (Nat \X Nat)
  BY PositionsAre, Zenon DEF InOrder
<1>1. ASSUME NEW p \in Live(c, k)
      PROVE  /\ Live(c, k) = {p} /\ First(Live(c, k)) = p /\ First(Named(c, k)) = p
             /\ get(c, k) = At(c, p).buffer_page /\ get(c, k) # Null
  <2>1. Live(c, k) = {p}
    BY Zenon DEF InOrder, Live
  <2>2. p \in Nat \X Nat /\ Before(p, p)
    BY <1>0 DEF Live, Before
  <2>3. First(Live(c, k)) = p
    BY <2>1, <2>2, FirstIs, Zenon
  <2>4. /\ Named(c, k) \in SUBSET (Nat \X Nat) /\ p \in Named(c, k)
        /\ \A q \in Named(c, k) : Before(p, q)
    BY <1>0, <2>2, Zenon DEF Named, Live, InOrder
  <2>5. First(Named(c, k)) = p
    BY <2>4, FirstIs, Zenon
  <2>6. QED
    BY <2>1, <2>3, <2>5, Zenon DEF get, Live
<1>2. Live(c, k) = {} => get(c, k) = Null
  BY Zenon DEF get
<1>3. QED
  BY <1>1, <1>2, Zenon

-----------------------------------------------------------------------------
(* The operations keep a chain in order and set one entry. *)

(* The frame at p becomes r and the count of its bucket n. *)
Write(c, p, r, n) ==
  [c EXCEPT ![p[1]] = [count |-> n, frame |-> [c[p[1]].frame EXCEPT ![p[2]] = r]]]

Written(c, p, r, n, d) ==
  /\ d \in Seq(Bucket) /\ Len(d) = Len(c) /\ Positions(d) = Positions(c)
  /\ \A q \in Positions(c) : At(d, q) = IF q = p THEN r ELSE At(c, q)
  /\ \A b \in 1..Len(c) : b # p[1] => d[b] = c[b]
  /\ d[p[1]].count = n
  /\ Used(d[p[1]]) = IF r.buffer_page = Null THEN Used(c[p[1]]) \ {p[2]}
                                            ELSE Used(c[p[1]]) \cup {p[2]}

LEMMA WriteEffect ==
  ASSUME build \in Builds, NEW c \in Seq(Bucket), NEW p \in Positions(c), NEW r \in Frame,
         NEW n \in 0..(CountRange - 1)
  PROVE  Written(c, p, r, n, Write(c, p, r, n))
<1>1. /\ p[1] \in 1..Len(c) /\ p[2] \in 1..Slots /\ p = <<p[1], p[2]>> /\ c[p[1]] \in Bucket
  BY PositionsAre, Zenon
<1> DEFINE new == [count |-> n, frame |-> [c[p[1]].frame EXCEPT ![p[2]] = r]]
<1>2. c[p[1]].frame \in [1..Slots -> Frame]
  BY <1>1, Zenon DEF Bucket
<1>3. new \in Bucket /\ new.count = n /\ new.frame[p[2]] = r
      /\ \A i \in 1..Slots : i # p[2] => new.frame[i] = c[p[1]].frame[i]
  BY <1>1, <1>2, Zenon DEF Bucket
<1>4. Write(c, p, r, n) = [c EXCEPT ![p[1]] = new]
  BY Zenon DEF Write
<1> HIDE DEF new
<1> DEFINE d == Write(c, p, r, n)
<1>5. /\ d \in Seq(Bucket) /\ Len(d) = Len(c) /\ d[p[1]] = new
      /\ \A b \in 1..Len(c) : b # p[1] => d[b] = c[b]
  BY <1>1, <1>3, <1>4
<1> HIDE DEF d
<1>6. Positions(d) = Positions(c)
  BY <1>5, Zenon DEF Positions
<1>7. ASSUME NEW q \in Positions(c) PROVE At(d, q) = IF q = p THEN r ELSE At(c, q)
  <2>1. q[1] \in 1..Len(c) /\ q[2] \in 1..Slots /\ q = <<q[1], q[2]>>
    BY PositionsAre, Zenon
  <2>2. CASE q[1] # p[1]
    BY <2>1, <2>2, <1>5, Zenon DEF At
  <2>3. CASE q[1] = p[1] /\ q[2] # p[2]
    BY <2>1, <2>3, <1>3, <1>5 DEF At
  <2>4. CASE q[1] = p[1] /\ q[2] = p[2]
    BY <2>1, <2>4, <1>1, <1>3, <1>5, Zenon DEF At
  <2>5. QED
    BY <2>2, <2>3, <2>4, Zenon
<1>8. Used(d[p[1]]) =
        IF r.buffer_page = Null THEN Used(c[p[1]]) \ {p[2]} ELSE Used(c[p[1]]) \cup {p[2]}
  BY <1>1, <1>3, <1>5, Zenon DEF Used
<1>9. QED
  BY <1>3, <1>5, <1>6, <1>7, <1>8, Zenon DEF d, Written

(* A frame is written where no live frame of another address is lost and no   *)
(* stale frame of its address comes before it.                                *)
LEMMA WriteSets ==
  ASSUME build \in Builds, NEW c, InOrder(c), NEW p \in Positions(c), NEW k \in Keys,
         NEW v \in Values, NEW n \in 0..(CountRange - 1),
         At(c, p).page_id = k \/ At(c, p).buffer_page = Null,
         \A q \in Live(c, k) : q = p,
         v # Null => \A q \in Named(c, k) : Before(p, q),
         LET d == Write(c, p, [page_id |-> k, buffer_page |-> v], n)
         IN  n = Cardinality(Used(d[p[1]]))
  PROVE  Sets(c, Write(c, p, [page_id |-> k, buffer_page |-> v], n), k, v)
<1> DEFINE r == [page_id |-> k, buffer_page |-> v]
           d == Write(c, p, r, n)
<1>0. r \in Frame /\ r.page_id = k /\ r.buffer_page = v
  BY Zenon DEF Frame
<1>1. c \in Seq(Bucket) /\ n = Cardinality(Used(d[p[1]]))
  BY Zenon DEF InOrder
<1> HIDE DEF r
<1>2. /\ d \in Seq(Bucket) /\ Len(d) = Len(c) /\ Positions(d) = Positions(c)
      /\ \A q \in Positions(c) : At(d, q) = IF q = p THEN r ELSE At(c, q)
      /\ \A b \in 1..Len(c) : b # p[1] => d[b] = c[b]
      /\ d[p[1]].count = n
  <2>1. Written(c, p, r, n, d)
    BY <1>0, <1>1, WriteEffect, Zenon
  <2>2. QED
    BY <2>1, Zenon DEF Written
<1> HIDE DEF d
<1>3. ASSUME NEW x \in Positions(d), NEW y \in Positions(d), At(d, x).page_id \in Keys,
             At(d, x).buffer_page # Null, At(d, y).page_id = At(d, x).page_id
      PROVE  x = y \/ (Before(x, y) /\ At(d, y).buffer_page = Null)
  <2>1. CASE x = p /\ y # p
    <3>1. At(d, x) = r /\ At(d, y) = At(c, y) /\ y \in Positions(c) /\ At(c, y).page_id = k
      BY <1>0, <1>2, <1>3, <2>1, Zenon
    <3>2. y \in Named(c, k) /\ v # Null /\ y \notin Live(c, k)
      BY <1>0, <1>3, <2>1, <3>1, Zenon DEF Named
    <3>3. QED
      BY <2>1, <3>1, <3>2, Zenon DEF Live
  <2>2. CASE x # p /\ y = p
    <3>1. At(d, y) = r /\ At(d, x) = At(c, x) /\ x \in Positions(c) /\ At(c, x).page_id = k
      BY <1>0, <1>2, <1>3, <2>2, Zenon
    <3>2. x \in Live(c, k)
      BY <1>3, <3>1, Zenon DEF Live
    <3>3. QED
      BY <2>2, <3>2, Zenon
  <2>3. CASE x # p /\ y # p
    BY <1>2, <1>3, <2>3 DEF InOrder
  <2>4. QED
    BY <2>1, <2>2, <2>3, Zenon
<1>4. ASSUME NEW b \in 1..Len(d) PROVE d[b].count = Cardinality(Used(d[b]))
  <2>1. CASE b = p[1]
    BY <1>1, <1>2, <2>1, Zenon
  <2>2. CASE b # p[1]
    BY <1>2, <2>2, Zenon DEF InOrder
  <2>3. QED
    BY <2>1, <2>2, Zenon
<1>5. InOrder(d)
  BY <1>2, <1>3, <1>4, Zenon DEF InOrder
<1>6. get(d, k) = v
  <2>1. CASE v = Null
    <3>1. Live(d, k) = {}
      BY <1>0, <1>2, <2>1, Zenon DEF Live
    <3>2. QED
      BY <2>1, <3>1, Zenon DEF get
  <2>2. CASE v # Null
    <3>1. p \in Live(d, k) /\ At(d, p).buffer_page = v
      BY <1>0, <1>2, <2>2, Zenon DEF Live
    <3>2. QED
      BY <1>5, <3>1, GetIs, Zenon
  <2>3. QED
    BY <2>1, <2>2, Zenon
<1>7. ASSUME NEW j \in Keys, j # k PROVE get(d, j) = get(c, j)
  <2>1. Live(d, j) = Live(c, j)
    BY <1>0, <1>2, <1>7, Zenon DEF Live
  <2>2. CASE Live(c, j) = {}
    BY <2>1, <2>2, Zenon DEF get
  <2>3. CASE Live(c, j) # {}
    <3>1. PICK q \in Live(c, j) : TRUE
      BY <2>3, Zenon
    <3>2. At(d, q) = At(c, q)
      BY <1>0, <1>2, <1>7, <2>1, Zenon DEF Live
    <3>3. get(c, j) = At(c, q).buffer_page
      BY GetIs, Zenon
    <3>4. get(d, j) = At(d, q).buffer_page
      BY <1>5, <2>1, GetIs, Zenon
    <3>5. QED
      BY <3>2, <3>3, <3>4, Zenon
  <2>4. QED
    BY <2>2, <2>3, Zenon
<1>8. QED
  BY <1>5, <1>6, <1>7, Zenon DEF Sets, d, r

Operations(c, p, k, v) ==
  /\ Put(c, p, k, v) = Write(c, p, [page_id |-> k, buffer_page |-> v], c[p[1]].count)
  /\ CountUp(Put(c, p, k, v), p[1]) =
       Write(c, p, [page_id |-> k, buffer_page |-> v], (c[p[1]].count + 1) % CountRange)
  /\ Clear(c, p) =
       Unlink(Write(c, p, [page_id |-> At(c, p).page_id, buffer_page |-> Null],
                    (c[p[1]].count - 1) % CountRange), p[1])

LEMMA OperationsWrite ==
  ASSUME build \in Builds, NEW c \in Seq(Bucket), NEW p \in Positions(c), NEW k, NEW v
  PROVE  Operations(c, p, k, v)
<1>1. /\ p[1] \in DOMAIN c /\ p[2] \in 1..Slots /\ c[p[1]] \in Bucket
  BY PositionsAre
<1>2. c[p[1]].frame[p[2]] \in Frame /\ c[p[1]].frame \in [1..Slots -> Frame]
  BY <1>1, Zenon DEF Bucket
<1> DEFINE b == c[p[1]]
<1>3. ASSUME NEW f, NEW n
      PROVE  /\ [b EXCEPT !.frame = f] = [count |-> b.count, frame |-> f]
             /\ [[count |-> b.count, frame |-> f] EXCEPT !.count = n] = [count |-> n, frame |-> f]
  BY <1>1 DEF Bucket
<1>4. [c[p[1]].frame[p[2]] EXCEPT !.buffer_page = Null]
        = [page_id |-> At(c, p).page_id, buffer_page |-> Null]
  BY <1>2 DEF Frame, At
<1>5. Put(c, p, k, v) = Write(c, p, [page_id |-> k, buffer_page |-> v], c[p[1]].count)
  BY <1>3, Zenon DEF Put, Write
<1>6. CountUp(Put(c, p, k, v), p[1]) =
        Write(c, p, [page_id |-> k, buffer_page |-> v], (c[p[1]].count + 1) % CountRange)
  <2> DEFINE f == [b.frame EXCEPT ![p[2]] = [page_id |-> k, buffer_page |-> v]]
             m == (b.count + 1) % CountRange
             x == [count |-> b.count, frame |-> f]
             y == [count |-> m, frame |-> f]
             e == [c EXCEPT ![p[1]] = x]
  <2>1. Put(c, p, k, v) = e /\ [c EXCEPT ![p[1]] = y] = Write(c, p, [page_id |-> k, buffer_page |-> v], m)
    BY <1>5, Zenon DEF Write
  <2>2. e[p[1]] = x /\ DOMAIN e = DOMAIN c /\ \A i \in DOMAIN c : i # p[1] => e[i] = c[i]
    BY <1>1, Zenon
  <2>3. [x EXCEPT !.count = (x.count + 1) % CountRange] = y
    BY <1>3, Zenon
  <2> HIDE DEF e, x, y, m
  <2>4. CountUp(e, p[1]) = [e EXCEPT ![p[1]] = y]
    BY <2>2, <2>3, Zenon DEF CountUp
  <2>5. [e EXCEPT ![p[1]] = y] = [c EXCEPT ![p[1]] = y]
    BY <1>1, <2>2, Zenon
  <2>6. QED
    BY <2>1, <2>4, <2>5, Zenon DEF m
<1>7. [c EXCEPT ![p[1]].frame[p[2]].buffer_page = Null, ![p[1]].count = (@ - 1) % CountRange]
        = Write(c, p, [page_id |-> At(c, p).page_id, buffer_page |-> Null],
                (c[p[1]].count - 1) % CountRange)
  <2> DEFINE r == [page_id |-> At(c, p).page_id, buffer_page |-> Null]
             f == [b.frame EXCEPT ![p[2]] = r]
             m == (b.count - 1) % CountRange
             x == [count |-> b.count, frame |-> f]
             y == [count |-> m, frame |-> f]
             e == [c EXCEPT ![p[1]].frame[p[2]].buffer_page = Null]
  <2>1. [b EXCEPT !.frame[p[2]].buffer_page = Null] = x
    BY <1>3, <1>4, Zenon
  <2>2. e = [c EXCEPT ![p[1]] = x]
    BY <2>1, Zenon
  <2>3. [x EXCEPT !.count = (x.count - 1) % CountRange] = y
    BY <1>3, Zenon
  <2>4. [c EXCEPT ![p[1]].frame[p[2]].buffer_page = Null, ![p[1]].count = (@ - 1) % CountRange]
          = [e EXCEPT ![p[1]].count = (@ - 1) % CountRange]
    BY Zenon
  <2>5. [c EXCEPT ![p[1]] = y] = Write(c, p, r, m)
    BY Zenon DEF Write
  <2> HIDE DEF e, x, y, m, r
  <2>6. e[p[1]] = x /\ DOMAIN e = DOMAIN c /\ \A i \in DOMAIN c : i # p[1] => e[i] = c[i]
    BY <1>1, <2>2, Zenon
  <2>7. [e EXCEPT ![p[1]].count = (@ - 1) % CountRange] = [e EXCEPT ![p[1]] = y]
    BY <2>3, <2>6, Zenon
  <2>8. [e EXCEPT ![p[1]] = y] = [c EXCEPT ![p[1]] = y]
    BY <1>1, <2>2, <2>6, Zenon
  <2>9. QED
    BY <2>4, <2>5, <2>7, <2>8, Zenon DEF m, r
<1>8. QED
  BY <1>5, <1>6, <1>7, Zenon DEF Operations, Clear

LEMMA CountOfBucket ==
  ASSUME Basics, build \in Builds, NEW c, InOrder(c), NEW p \in Positions(c)
  PROVE  LET n == c[p[1]].count
         IN  /\ n \in 0..(CountRange - 1) /\ n = Cardinality(Used(c[p[1]]))
             /\ At(c, p).buffer_page = Null =>
                  /\ p[2] \notin Used(c[p[1]]) /\ (n + 1) % CountRange = n + 1
                  /\ (n + 1) % CountRange \in 0..(CountRange - 1)
                  /\ Cardinality(Used(c[p[1]]) \cup {p[2]}) = n + 1
             /\ At(c, p).buffer_page # Null =>
                  /\ p[2] \in Used(c[p[1]]) /\ (n - 1) % CountRange = n - 1
                  /\ (n - 1) % CountRange \in 0..(CountRange - 1)
                  /\ Cardinality(Used(c[p[1]]) \ {p[2]}) = n - 1
<1> DEFINE n == c[p[1]].count
           U == Used(c[p[1]])
<1>1. /\ p[1] \in 1..Len(c) /\ p[2] \in 1..Slots /\ c[p[1]] \in Bucket
  BY PositionsAre, Zenon DEF InOrder
<1>2. n \in 0..(CountRange - 1) /\ n = Cardinality(U) /\ U \in SUBSET (1..Slots)
      /\ (p[2] \in U <=> At(c, p).buffer_page # Null)
  BY <1>1, Zenon DEF InOrder, Bucket, Used, At
<1>3. Slots \in Nat /\ Slots > 0 /\ CountRange \in Nat /\ Slots < CountRange
  BY Sizes, Zenon
<1> HIDE DEF n, U
<1>4. /\ Cardinality(U) \in 0..Slots
      /\ \A i \in U : Cardinality(U \ {i}) = Cardinality(U) - 1
      /\ \A i \in (1..Slots) \ U : Cardinality(U \cup {i}) = Cardinality(U) + 1
  BY <1>2, <1>3, Zenon DEF Basics
<1>5. CASE p[2] \notin U
  <2>1. Cardinality(U \cup {p[2]}) = n + 1 /\ U \cup {p[2]} \in SUBSET (1..Slots)
    <3>1. p[2] \in (1..Slots) \ U
      BY <1>1, <1>5, Zenon
    <3>2. QED
      BY <1>2, <1>4, <3>1, Zenon
  <2>2. n + 1 \in 0..Slots
    BY <1>3, <2>1 DEF Basics
  <2>3. (n + 1) % CountRange = n + 1
    BY <1>2, <1>3, <1>4, <2>2
  <2>4. QED
    BY <1>2, <1>3, <1>5, <2>1, <2>2, <2>3 DEF n, U
<1>6. CASE p[2] \in U
  <2>1. Cardinality(U \ {p[2]}) = n - 1 /\ U \ {p[2]} \in SUBSET (1..Slots)
    BY <1>2, <1>4, <1>6, Zenon
  <2>2. n - 1 \in 0..Slots
    BY <1>3, <2>1 DEF Basics
  <2>3. (n - 1) % CountRange = n - 1
    BY <1>2, <1>3, <1>4, <2>2
  <2>4. QED
    BY <1>2, <1>3, <1>6, <2>1, <2>2, <2>3 DEF n, U
<1>7. QED
  BY <1>5, <1>6, Zenon

(* insert, when a frame is free. *)
LEMMA insertFree ==
  ASSUME Basics, build \in Builds, NEW c, InOrder(c), NEW k \in Keys,
         NEW v \in Values, v # Null, get(c, k) = Null, Free(c) # {}
  PROVE  Sets(c, insert(c, k, v), k, v)
<1> DEFINE p == First(Free(c))
           r == [page_id |-> k, buffer_page |-> v]
           n == (c[p[1]].count + 1) % CountRange
<1>1. c \in Seq(Bucket) /\ Positions(c) \in SUBSET (Nat \X Nat) /\ Free(c) \in SUBSET (Nat \X Nat)
  BY PositionsAre, Zenon DEF InOrder, Free
<1>2. p \in Free(c) /\ \A q \in Free(c) : Before(p, q)
  BY <1>1, FirstExists, Zenon
<1>3. insert(c, k, v) = CountUp(Put(c, p, k, v), p[1])
  BY Zenon DEF insert
<1> HIDE DEF p
<1>4. p \in Positions(c) /\ At(c, p).buffer_page = Null
  BY <1>2, Zenon DEF Free
<1>5. insert(c, k, v) = Write(c, p, r, n)
  <2>1. Operations(c, p, k, v)
    BY <1>1, <1>4, OperationsWrite, Zenon
  <2>2. QED
    BY <1>3, <2>1, Zenon DEF Operations
<1>6. Live(c, k) = {}
  BY GetIs, Zenon
<1>7. \A q \in Named(c, k) : Before(p, q)
  BY <1>2, <1>6, Zenon DEF Named, Live, Free
<1>8. n \in 0..(CountRange - 1) /\ n = Cardinality(Used(c[p[1]]) \cup {p[2]})
  BY <1>4, CountOfBucket, Zenon
<1>9. r \in Frame /\ r.buffer_page = v
  BY Zenon DEF Frame
<1>10. n = Cardinality(Used(Write(c, p, r, n)[p[1]]))
  <2> HIDE DEF n, r
  <2>1. Written(c, p, r, n, Write(c, p, r, n))
    BY <1>1, <1>4, <1>8, <1>9, WriteEffect, Zenon
  <2>2. QED
    BY <1>8, <1>9, <2>1, Zenon DEF Written
<1> HIDE DEF n
<1>11. Sets(c, Write(c, p, r, n), k, v)
  BY <1>4, <1>6, <1>7, <1>8, <1>10, WriteSets, Zenon
<1>12. QED
  BY <1>5, <1>11, Zenon

(* insert, when every frame is in use: a bucket is added. *)
LEMMA insertBucket ==
  ASSUME Basics, build \in Builds, NEW c, InOrder(c), NEW k \in Keys,
         NEW v \in Values, v # Null, get(c, k) = Null, Free(c) = {}
  PROVE  Sets(c, insert(c, k, v), k, v)
<1> DEFINE r == [page_id |-> k, buffer_page |-> v]
           f == [i \in 1..Slots |-> IF i = 1 THEN r ELSE EmptyFrame]
           w == [count |-> 1, frame |-> f]
           d == Append(c, w)
           m == Len(c) + 1
<1>0. /\ Slots \in Nat /\ Slots > 0 /\ CountRange \in Nat /\ Slots < CountRange
      /\ c \in Seq(Bucket) /\ Len(c) \in Nat
  BY Sizes DEF InOrder
<1>1. r \in Frame /\ EmptyFrame \in Frame /\ r.page_id = k /\ r.buffer_page = v
      /\ EmptyFrame.page_id = NoKey /\ EmptyFrame.buffer_page = Null
  BY Zenon DEF Frame, EmptyFrame, Values
<1>2. insert(c, k, v) = d
  <2> DEFINE z == [EmptyBucket EXCEPT !.frame[1] = r]
             e == Append(c, z)
  <2>1. z = [count |-> 0, frame |-> f]
    <3> DEFINE g == [i \in 1..Slots |-> EmptyFrame]
    <3>1. EmptyBucket = [count |-> 0, frame |-> g]
      BY Zenon DEF EmptyBucket
    <3>2. [g EXCEPT ![1] = r] = f
      BY <1>0, Zenon
    <3> HIDE DEF g, f, r
    <3>3. [[count |-> 0, frame |-> g] EXCEPT !.frame[1] = r] = [count |-> 0, frame |-> f]
      BY <3>2
    <3>4. QED
      BY <3>1, <3>3, Zenon
  <2>2. insert(c, k, v) = CountUp(e, m)
    BY Zenon DEF insert
  <2> HIDE DEF z, f
  <2>3. [z EXCEPT !.count = (z.count + 1) % CountRange] = w
    BY <1>0, <2>1
  <2>4. e \in Seq({z, w} \cup Bucket) /\ e[m] = z /\ Len(e) = m /\ \A i \in 1..Len(c) : e[i] = c[i]
    BY <1>0
  <2>5. CountUp(e, m) = [e EXCEPT ![m] = w]
    <3> HIDE DEF e, w, m
    <3>1. QED
      BY <2>3, <2>4, Zenon DEF CountUp
  <2>6. [e EXCEPT ![m] = w] = d
    <3>1. /\ d \in Seq({z, w} \cup Bucket) /\ Len(d) = m /\ d[m] = w
          /\ \A i \in 1..Len(c) : d[i] = c[i]
      BY <1>0
    <3> DEFINE x == [e EXCEPT ![m] = w]
    <3>2. x \in Seq({z, w} \cup Bucket) /\ Len(x) = m /\ x[m] = w
          /\ \A i \in 1..Len(c) : x[i] = c[i]
      <4> HIDE DEF e, w
      <4>1. QED
        BY <1>0, <2>4
    <3> HIDE DEF x, d, w
    <3>3. \A i \in 1..m : x[i] = d[i]
      BY <1>0, <3>1, <3>2
    <3>4. x = d
      BY <1>0, <3>1, <3>2, <3>3
    <3>5. QED
      BY <3>4, Zenon DEF x
  <2>7. QED
    BY <2>2, <2>5, <2>6, Zenon
<1>3. w \in Bucket /\ w.count = 1 /\ w.frame[1] = r
      /\ \A i \in 1..Slots : i # 1 => w.frame[i] = EmptyFrame
  BY <1>0, <1>1 DEF Bucket
<1>4. Used(w) = {1}
  BY <1>0, <1>1, <1>3 DEF Used
<1> HIDE DEF w, r
<1>5. d \in Seq(Bucket) /\ Len(d) = m /\ d[m] = w /\ \A i \in 1..Len(c) : d[i] = c[i]
  BY <1>0, <1>3
<1> HIDE DEF d
<1>6. ASSUME NEW q \in Positions(d)
      PROVE  \/ q \in Positions(c) /\ At(d, q) = At(c, q)
             \/ q = <<m, 1>> /\ At(d, q) = r
             \/ q[1] = m /\ At(d, q) = EmptyFrame
  <2>1. q[1] \in 1..m /\ q[2] \in 1..Slots /\ q = <<q[1], q[2]>>
    BY <1>5, PositionsAre, Zenon
  <2>2. CASE q[1] # m
    <3>1. q[1] \in 1..Len(c)
      BY <1>0, <2>1, <2>2
    <3>2. QED
      BY <1>0, <1>5, <2>1, <3>1, PositionsAre DEF At
  <2>3. CASE q[1] = m
    BY <1>3, <1>5, <2>1, <2>3, Zenon DEF At
  <2>4. QED
    BY <2>2, <2>3, Zenon
<1>7. Positions(c) \subseteq Positions(d) /\ <<m, 1>> \in Positions(d)
      /\ <<m, 1>> \notin Positions(c)
  BY <1>0, <1>5 DEF Positions
<1>8. \A q \in Positions(c) : At(d, q) = At(c, q) /\ At(c, q).buffer_page # Null
                              /\ At(c, q).page_id # k
  <2>1. \A q \in Positions(c) : At(d, q) = At(c, q)
    BY <1>0, <1>5, PositionsAre, Zenon DEF At
  <2>2. Live(c, k) = {}
    BY GetIs, Zenon
  <2>3. QED
    BY <2>1, <2>2, Zenon DEF Free, Live
<1>9. At(d, <<m, 1>>) = r
  BY <1>3, <1>5, Zenon DEF At
<1>10. \A x, y \in Positions(d) :
         /\ At(d, x).page_id \in Keys /\ At(d, x).buffer_page # Null
         /\ At(d, y).page_id = At(d, x).page_id
         => x = y \/ (Before(x, y) /\ At(d, y).buffer_page = Null)
  <2>1. NoKey \notin Keys
    BY PageTableAssumption, Zenon DEF Keys
  <2>2. TAKE x, y \in Positions(d)
  <2>3. HAVE /\ At(d, x).page_id \in Keys /\ At(d, x).buffer_page # Null
             /\ At(d, y).page_id = At(d, x).page_id
  <2>4. At(d, x) # EmptyFrame /\ At(d, y) # EmptyFrame
    BY <1>1, <2>1, <2>3, Zenon
  <2>5. CASE x = <<m, 1>> /\ At(d, x) = r
    BY <1>1, <1>6, <1>8, <2>3, <2>4, <2>5, Zenon
  <2>6. CASE x \in Positions(c) /\ At(d, x) = At(c, x)
    <3>1. y \in Positions(c) /\ At(d, y) = At(c, y)
      BY <1>1, <1>6, <1>8, <2>3, <2>4, <2>6, Zenon
    <3>2. QED
      BY <2>3, <2>6, <3>1, Zenon DEF InOrder
  <2>7. QED
    BY <1>6, <2>4, <2>5, <2>6, Zenon
<1>11. \A b \in 1..Len(d) : d[b].count = Cardinality(Used(d[b]))
  <2>1. TAKE b \in 1..Len(d)
  <2>2. CASE b = m
    BY <1>3, <1>4, <1>5, <2>2 DEF Basics
  <2>3. CASE b # m
    <3>1. b \in 1..Len(c)
      BY <1>0, <1>5, <2>3
    <3>2. QED
      BY <1>5, <3>1, Zenon DEF InOrder
  <2>4. QED
    BY <2>2, <2>3, Zenon
<1>12. InOrder(d)
  BY <1>5, <1>10, <1>11, Zenon DEF InOrder
<1>13. get(d, k) = v
  <2>1. <<m, 1>> \in Live(d, k)
    BY <1>1, <1>7, <1>9, Zenon DEF Live
  <2>2. QED
    BY <1>1, <1>9, <1>12, <2>1, GetIs, Zenon
<1>14. ASSUME NEW j \in Keys, j # k PROVE get(d, j) = get(c, j)
  <2>1. Live(d, j) = Live(c, j)
    BY <1>1, <1>6, <1>7, <1>8, <1>14, Zenon DEF Live
  <2>2. CASE Live(c, j) = {}
    BY <2>1, <2>2, Zenon DEF get
  <2>3. CASE Live(c, j) # {}
    <3>1. PICK q \in Live(c, j) : TRUE
      BY <2>3, Zenon
    <3>2. At(d, q) = At(c, q)
      BY <1>8, Zenon DEF Live
    <3>3. get(c, j) = At(c, q).buffer_page /\ get(d, j) = At(d, q).buffer_page
      BY <1>12, <2>1, GetIs, Zenon
    <3>4. QED
      BY <3>2, <3>3, Zenon
  <2>4. QED
    BY <2>2, <2>3, Zenon
<1>15. QED
  BY <1>2, <1>12, <1>13, <1>14, Zenon DEF Sets

LEMMA insertSets ==
  ASSUME Basics, build \in Builds, NEW c, InOrder(c), NEW k \in Keys,
         NEW v \in Values, v # Null, get(c, k) = Null
  PROVE  Sets(c, insert(c, k, v), k, v)
BY insertFree, insertBucket, Zenon

(* d has the entries of c, and is in order. *)
SameEntries(c, d) == InOrder(d) /\ \A j \in Keys : get(d, j) = get(c, j)

(* Unlink drops no entry: the bucket it takes out has no frame in use. *)
LEMMA UnlinkKeeps ==
  ASSUME Basics, build \in Builds, NEW c, InOrder(c), NEW b \in 1..Len(c)
  PROVE  SameEntries(c, Unlink(c, b))
<1>0. c \in Seq(Bucket) /\ Len(c) \in Nat /\ Slots \in Nat
  BY Sizes DEF InOrder
<1>1. CASE ~(c[b].count = 0 /\ b > 1)
  BY <1>1, Zenon DEF Unlink, SameEntries
<1>2. CASE c[b].count = 0 /\ b > 1
  <2> DEFINE d == SubSeq(c, 1, b - 1) \o SubSeq(c, b + 1, Len(c))
             Up(q) == IF q[1] < b THEN q ELSE <<q[1] + 1, q[2]>>
  <2>1. Unlink(c, b) = d
    BY <1>2, Zenon DEF Unlink
  <2>2. /\ d \in Seq(Bucket) /\ Len(d) = Len(c) - 1
        /\ \A i \in 1..Len(d) : d[i] = IF i < b THEN c[i] ELSE c[i + 1]
    <3> DEFINE x == SubSeq(c, 1, b - 1)
               y == SubSeq(c, b + 1, Len(c))
    <3>1. x \in Seq(Bucket) /\ Len(x) = b - 1 /\ \A i \in 1..(b - 1) : x[i] = c[i]
      BY <1>0, <1>2
    <3>2. y \in Seq(Bucket) /\ Len(y) = Len(c) - b /\ \A i \in 1..(Len(c) - b) : y[i] = c[b + i]
      BY <1>0, <1>2
    <3> HIDE DEF x, y
    <3>3. x \o y \in Seq(Bucket) /\ Len(x \o y) = Len(c) - 1
      <4>0. x \in Seq(Bucket) /\ y \in Seq(Bucket)
        BY <3>1, <3>2, Zenon
      <4>1. x \o y \in Seq(Bucket) /\ Len(x \o y) = Len(x) + Len(y)
        BY ONLY <4>0
      <4>2. (b - 1) + (Len(c) - b) = Len(c) - 1
        BY <1>0
      <4>3. QED
        BY <3>1, <3>2, <4>1, <4>2, Zenon
    <3>4. ASSUME NEW i \in 1..(Len(c) - 1) PROVE (x \o y)[i] = IF i < b THEN c[i] ELSE c[i + 1]
      <4>1. CASE i < b
        BY <1>0, <3>1, <3>2, <4>1
      <4>2. CASE ~(i < b)
        <5>1. (x \o y)[i] = y[i - (b - 1)]
          BY <1>0, <3>1, <3>2, <4>2
        <5>2. i - (b - 1) \in 1..(Len(c) - b) /\ b + (i - (b - 1)) = i + 1
          BY <1>0, <4>2
        <5>3. QED
          BY <3>2, <4>2, <5>1, <5>2, Zenon
      <4>3. QED
        BY <4>1, <4>2, Zenon
    <3>5. QED
      BY <3>3, <3>4, Zenon DEF x, y
  <2> HIDE DEF d
  <2>3. Used(c[b]) = {}
    <3>1. Cardinality(Used(c[b])) = 0
      BY <1>2, Zenon DEF InOrder
    <3>2. Used(c[b]) \in SUBSET (1..Slots)
      BY Zenon DEF Used
    <3>3. QED
      BY <1>0, <3>1, <3>2, Zenon DEF Basics
  <2>4. ASSUME NEW q \in Positions(d)
        PROVE  Up(q) \in Positions(c) /\ At(d, q) = At(c, Up(q)) /\ Up(q)[1] # b
               /\ q[1] \in Nat /\ q[2] \in Nat /\ q = <<q[1], q[2]>>
    <3>1. q[1] \in 1..Len(d) /\ q[2] \in 1..Slots /\ q = <<q[1], q[2]>>
      BY <2>2, PositionsAre, Zenon
    <3>2. CASE q[1] < b
      <4>1. q[1] \in 1..Len(c) /\ d[q[1]] = c[q[1]] /\ Up(q) = q
        BY <1>0, <2>2, <3>1, <3>2
      <4>2. QED
        BY <1>0, <3>1, <3>2, <4>1, PositionsAre DEF At
    <3>3. CASE ~(q[1] < b)
      <4>1. q[1] + 1 \in 1..Len(c) /\ d[q[1]] = c[q[1] + 1] /\ Up(q) = <<q[1] + 1, q[2]>>
        BY <1>0, <2>2, <3>1, <3>3
      <4>2. QED
        BY <1>0, <3>1, <3>3, <4>1, PositionsAre DEF At
    <3>4. QED
      BY <3>2, <3>3, Zenon
  <2>5. ASSUME NEW p \in Positions(c), At(c, p).buffer_page # Null
        PROVE  \E q \in Positions(d) : Up(q) = p
    <3>1. p[1] \in 1..Len(c) /\ p[2] \in 1..Slots /\ p = <<p[1], p[2]>>
      BY <1>0, PositionsAre, Zenon
    <3>2. p[1] # b
      BY <2>3, <2>5, <3>1, Zenon DEF Used, At
    <3> DEFINE q == IF p[1] < b THEN p ELSE <<p[1] - 1, p[2]>>
    <3>3. CASE p[1] < b
      <4>1. p[1] \in 1..Len(d)
        BY <1>0, <2>2, <3>1, <3>3
      <4>2. QED
        BY <2>2, <3>1, <3>3, <4>1, PositionsAre, Zenon
    <3>4. CASE p[1] > b
      <4> DEFINE a == p[1] - 1
      <4>1. a \in 1..Len(d) /\ ~(a < b) /\ a + 1 = p[1]
        BY <1>0, <2>2, <3>1, <3>4
      <4> HIDE DEF a
      <4>2. <<a, p[2]>> \in Positions(d)
        BY <2>2, <3>1, <4>1, PositionsAre, Zenon
      <4>3. Up(<<a, p[2]>>) = p
        BY <3>1, <4>1, Zenon
      <4>4. QED
        BY <4>2, <4>3, Zenon
    <3>5. QED
      BY <1>0, <3>1, <3>2, <3>3, <3>4
  <2>6. ASSUME NEW x \in Positions(d), NEW y \in Positions(d)
        PROVE  /\ Up(x) = Up(y) => x = y
               /\ Before(Up(x), Up(y)) => Before(x, y)
    BY <1>0, <2>4 DEF Before
  <2> HIDE DEF Up
  <2>7. InOrder(d)
    <3>1. ASSUME NEW x \in Positions(d), NEW y \in Positions(d), At(d, x).page_id \in Keys,
                 At(d, x).buffer_page # Null, At(d, y).page_id = At(d, x).page_id
          PROVE  x = y \/ (Before(x, y) /\ At(d, y).buffer_page = Null)
      <4>1. /\ Up(x) \in Positions(c) /\ At(d, x) = At(c, Up(x))
            /\ Up(y) \in Positions(c) /\ At(d, y) = At(c, Up(y))
        BY <2>4, Zenon
      <4>2. Up(x) = Up(y) \/ (Before(Up(x), Up(y)) /\ At(c, Up(y)).buffer_page = Null)
        BY <3>1, <4>1, Zenon DEF InOrder
      <4>3. QED
        BY <2>6, <4>1, <4>2, Zenon
    <3>2. ASSUME NEW i \in 1..Len(d) PROVE d[i].count = Cardinality(Used(d[i]))
      <4>1. PICK j \in 1..Len(c) : d[i] = c[j]
        BY <1>0, <2>2
      <4>2. QED
        BY <4>1, Zenon DEF InOrder
    <3>3. QED
      BY <2>2, <3>1, <3>2, Zenon DEF InOrder
  <2>8. ASSUME NEW j \in Keys PROVE get(d, j) = get(c, j)
    <3>1. ASSUME NEW q \in Live(d, j) PROVE get(d, j) = get(c, j)
      <4>1. Up(q) \in Live(c, j) /\ At(d, q) = At(c, Up(q))
        BY <2>4, Zenon DEF Live
      <4>2. get(d, j) = At(d, q).buffer_page
        BY <2>7, GetIs, Zenon
      <4>3. get(c, j) = At(c, Up(q)).buffer_page
        BY <4>1, GetIs, Zenon
      <4>4. QED
        BY <4>1, <4>2, <4>3, Zenon
    <3>2. CASE Live(d, j) = {}
      <4>1. Live(c, j) = {}
        <5>1. SUFFICES ASSUME NEW p \in Live(c, j) PROVE FALSE
          BY Zenon
        <5>2. PICK q \in Positions(d) : Up(q) = p
          BY <2>5, Zenon DEF Live
        <5>3. q \in Live(d, j)
          BY <2>4, <5>2, Zenon DEF Live
        <5>4. QED
          BY <3>2, <5>3, Zenon
      <4>2. QED
        BY <3>2, <4>1, Zenon DEF get
    <3>3. QED
      BY <3>1, <3>2, Zenon
  <2>9. QED
    BY <2>1, <2>7, <2>8, Zenon DEF SameEntries
<1>3. QED
  BY <1>1, <1>2, Zenon

(* remove(key, value) clears the entry if it is still the value, and leaves   *)
(* the chain alone otherwise.                                                 *)
LEMMA removeClears ==
  ASSUME Basics, build \in Builds, NEW c, InOrder(c), NEW k \in Keys, NEW v \in Values, v # Null
  PROVE  /\ get(c, k) = v => Sets(c, removeValue(c, k, v), k, Null)
         /\ get(c, k) # v => removeValue(c, k, v) = c
<1>0. c \in Seq(Bucket)
  BY Zenon DEF InOrder
<1>1. Holding(c, k, v) \subseteq Live(c, k)
  BY DEF Holding, Live
<1>2. ASSUME get(c, k) # v PROVE removeValue(c, k, v) = c
  <2>1. ASSUME NEW p \in Holding(c, k, v) PROVE FALSE
    <3>1. get(c, k) = At(c, p).buffer_page
      BY <1>1, GetIs, Zenon
    <3>2. QED
      BY <1>2, <3>1 DEF Holding
  <2>2. QED
    BY <2>1, Zenon DEF removeValue
<1>3. ASSUME get(c, k) = v PROVE Sets(c, removeValue(c, k, v), k, Null)
  <2>1. PICK p \in Live(c, k) : First(Live(c, k)) = p
    BY <1>3, GetIs, Zenon
  <2>2. Live(c, k) = {p} /\ At(c, p).buffer_page = v
    BY <1>3, GetIs, Zenon
  <2>3. p \in Positions(c) /\ At(c, p).page_id = k /\ At(c, p) \in Frame
    BY <1>0, PositionsAre, Zenon DEF Live
  <2>4. At(c, p) = [page_id |-> k, buffer_page |-> v]
    BY <2>2, <2>3, Zenon DEF Frame
  <2>5. Holding(c, k, v) = {p}
    BY <1>1, <2>2, <2>3, <2>4, Zenon DEF Holding
  <2>6. removeValue(c, k, v) = Clear(c, p)
    BY <2>1, <2>2, <2>5, Zenon DEF removeValue
  <2> DEFINE r == [page_id |-> k, buffer_page |-> Null]
             n == (c[p[1]].count - 1) % CountRange
             d == Write(c, p, r, n)
  <2>7. Clear(c, p) = Unlink(d, p[1])
    <3>1. Operations(c, p, k, v)
      BY <1>0, <2>3, OperationsWrite, Zenon
    <3>2. QED
      BY <2>3, <3>1, Zenon DEF Operations
  <2>8. n \in 0..(CountRange - 1) /\ n = Cardinality(Used(c[p[1]]) \ {p[2]})
    BY <2>2, <2>3, CountOfBucket, Zenon
  <2>9. r \in Frame /\ r.buffer_page = Null /\ Null \in Values
    BY Zenon DEF Frame, Values
  <2> HIDE DEF n
  <2>10. Written(c, p, r, n, d)
    <3> HIDE DEF r
    <3>1. QED
      BY <1>0, <2>3, <2>8, <2>9, WriteEffect, Zenon
  <2>11. n = Cardinality(Used(d[p[1]]))
    <3> HIDE DEF r, d
    <3>1. QED
      BY <2>8, <2>9, <2>10, Zenon DEF Written
  <2>12. Sets(c, d, k, Null)
    BY <2>2, <2>3, <2>8, <2>9, <2>11, WriteSets, Zenon
  <2> HIDE DEF d
  <2>13. InOrder(d) /\ p[1] \in 1..Len(d)
    BY <1>0, <2>3, <2>10, <2>12, PositionsAre, Zenon DEF Sets, Written
  <2>14. SameEntries(d, Unlink(d, p[1]))
    BY <2>13, UnlinkKeeps, Zenon
  <2>15. QED
    BY <2>6, <2>7, <2>12, <2>14, Zenon DEF Sets, SameEntries
<1>4. QED
  BY <1>2, <1>3, Zenon

LEMMA updateSets ==
  ASSUME Basics, build \in Builds, NEW c, InOrder(c), NEW k \in Keys, NEW v \in Values, v # Null,
         get(c, k) # Null
  PROVE  Sets(c, update(c, k, v), k, v)
<1>0. c \in Seq(Bucket)
  BY Zenon DEF InOrder
<1>1. PICK p \in Live(c, k) : First(Live(c, k)) = p
  BY GetIs, Zenon
<1>2. /\ Live(c, k) = {p} /\ p \in Positions(c) /\ At(c, p).page_id = k
      /\ At(c, p).buffer_page # Null
  BY GetIs, Zenon DEF Live
<1> DEFINE r == [page_id |-> k, buffer_page |-> v]
           n == c[p[1]].count
           d == Write(c, p, r, n)
<1>3. update(c, k, v) = d
  <2>1. update(c, k, v) = Put(c, p, k, v)
    BY <1>1, <1>2, Zenon DEF update
  <2>2. Operations(c, p, k, v)
    BY <1>0, <1>2, OperationsWrite, Zenon
  <2>3. QED
    BY <2>1, <2>2, Zenon DEF Operations
<1>4. \A q \in Named(c, k) : Before(p, q)
  <2>1. TAKE q \in Named(c, k)
  <2>2. p \in Nat \X Nat
    BY <1>0, <1>2, PositionsAre, Zenon
  <2>3. q = p \/ Before(p, q)
    BY <1>2, Zenon DEF InOrder, Named
  <2>4. QED
    BY <2>2, <2>3 DEF Before
<1>5. n \in 0..(CountRange - 1) /\ n = Cardinality(Used(c[p[1]])) /\ p[2] \in Used(c[p[1]])
  BY <1>2, CountOfBucket, Zenon
<1>6. r \in Frame /\ r.buffer_page = v
  BY Zenon DEF Frame
<1> HIDE DEF n
<1>7. n = Cardinality(Used(d[p[1]]))
  <2> HIDE DEF r
  <2>1. Written(c, p, r, n, d)
    BY <1>0, <1>2, <1>5, <1>6, WriteEffect, Zenon
  <2> HIDE DEF d
  <2>2. Used(d[p[1]]) = Used(c[p[1]]) \cup {p[2]}
    BY <1>6, <2>1, Zenon DEF Written
  <2>3. Used(d[p[1]]) = Used(c[p[1]])
    BY <1>5, <2>2, Zenon
  <2>4. QED
    BY <1>5, <2>3, Zenon
<1>8. QED
  BY <1>2, <1>3, <1>4, <1>5, <1>7, WriteSets, Zenon

LEMMA upsertSets ==
  ASSUME Basics, build \in Builds, NEW c, InOrder(c), NEW k \in Keys, NEW v \in Values, v # Null
  PROVE  Sets(c, upsert(c, k, v), k, v)
<1>1. CASE Live(c, k) = {}
  <2>1. get(c, k) = Null /\ upsert(c, k, v) = insert(c, k, v)
    BY <1>1, Zenon DEF get, upsert
  <2>2. QED
    BY <2>1, insertSets, Zenon
<1>2. CASE Live(c, k) # {}
  <2>1. get(c, k) # Null /\ upsert(c, k, v) = update(c, k, v)
    BY <1>2, GetIs, Zenon DEF upsert
  <2>2. QED
    BY <2>1, updateSets, Zenon
<1>3. QED
  BY <1>1, <1>2, Zenon

-----------------------------------------------------------------------------
(* The inductive invariant.  It speaks of the entries only: dir is the map    *)
(* that ImplementsPageMap reads off the chain.                                *)

dir == [k \in Keys |-> get(chain, k)]
Ordered == InOrder(chain)

TableInv ==
  /\ pos_state \in [Pages -> {"free", "hot", "cooling"}]
  /\ address \in [Pages -> Keys \cup {NoKey}]
  /\ pc \in [Threads -> {"idle", "io"}]
  /\ node \in [Threads -> Keys \cup {NoKey}]
  /\ leaf \in [Threads -> Leaves \cup {NoKey}]
  /\ Ordered
  /\ \A k \in Keys : dir[k] \in Pages => address[dir[k]] = k /\ pos_state[dir[k]] # "free"
  /\ \A p \in Pages : pos_state[p] # "free" => address[p] \in Keys
  /\ \A t \in Threads : \/ pc[t] = "idle" /\ node[t] = NoKey
                        \/ pc[t] = "io" /\ node[t] \in Keys /\ dir[node[t]] = IO_FLAG
  /\ \A t, u \in Threads : node[t] = node[u] /\ node[t] # NoKey => t = u

IInv == build \in Builds /\ (~Rpc => TableInv)

LEMMA ChainStep ==
  ASSUME build' = build
  PROVE  /\ Ordered' <=> InOrder(chain')
         /\ dir' = [k \in Keys |-> get(chain', k)]
<1>1. Ordered' <=> InOrder(chain')
  BY DEF Ordered, InOrder, Bucket, Positions, At, Used, Slots, Before
<1>2. dir' = [k \in Keys |-> get(chain', k)]
  BY DEF dir, get, Live, Positions, At, Slots, First, Before
<1>3. QED
  BY <1>1, <1>2, Zenon

LEMMA EntryStep ==
  ASSUME build' = build, NEW k \in Keys, NEW v, Sets(chain, chain', k, v)
  PROVE  Ordered' /\ dir' = [dir EXCEPT ![k] = v]
<1>1. Ordered'
  BY ChainStep, Zenon DEF Sets
<1>2. dir' = [j \in Keys |-> get(chain', j)]
  BY ChainStep, Zenon
<1>3. \A j \in Keys : get(chain', j) = IF j = k THEN v ELSE get(chain, j)
  BY Zenon DEF Sets
<1>4. [j \in Keys |-> get(chain', j)] = [[j \in Keys |-> get(chain, j)] EXCEPT ![k] = v]
  BY <1>3, Zenon
<1>5. QED
  BY <1>1, <1>2, <1>4, Zenon DEF dir

LEMMA SameChain ==
  ASSUME build' = build, chain' = chain, Ordered
  PROVE  Ordered' /\ dir' = dir
BY ChainStep, Zenon DEF Ordered, dir

(* A step of PageMap, or none. *)
MapStep ==
  \/ dir' = dir
  \/ \E k \in Keys :
       \/ dir[k] = Null /\ dir' = [dir EXCEPT ![k] = IO_FLAG]
       \/ \E p \in Pages : dir' = [dir EXCEPT ![k] = p]
       \/ dir[k] # Null /\ dir' = [dir EXCEPT ![k] = Null]

LEMMA Entries ==
  ASSUME build \in Builds
  PROVE  /\ DOMAIN dir = Keys /\ \A k \in Keys : dir[k] = get(chain, k)
         /\ \A v \in Values : \A k \in Keys : \A j \in Keys :
              [dir EXCEPT ![k] = v][j] = IF j = k THEN v ELSE dir[j]
         /\ NoKey \notin Keys /\ Null \notin Pages /\ IO_FLAG \notin Pages /\ Null # IO_FLAG
         /\ Pages \subseteq Values /\ Null \in Values /\ IO_FLAG \in Values
         /\ build.keys \subseteq Keys
BY PageTableAssumption, Zenon DEF dir, Values, Keys

LEMMA cache_getStep ==
  ASSUME Basics, build \in Builds, build' = build, TableInv,
         NEW t \in Threads, NEW k \in build.keys, cache_get(t, k)
  PROVE  TableInv' /\ MapStep
<1>0. k \in Keys /\ IO_FLAG \in Values /\ IO_FLAG # Null /\ dir[k] = Null
  BY Entries, Zenon DEF cache_get
<1>1. Sets(chain, chain', k, IO_FLAG)
  BY <1>0, insertSets, Zenon DEF TableInv, Ordered, cache_get
<1>2. Ordered' /\ dir' = [dir EXCEPT ![k] = IO_FLAG]
  BY <1>0, <1>1, EntryStep, Zenon
<1>3. \A j \in Keys : dir'[j] = IF j = k THEN IO_FLAG ELSE dir[j]
  BY <1>0, <1>2, Entries, Zenon
<1>4. \A u \in Threads : u # t => node[u] # k
  BY <1>0, Entries DEF TableInv
<1>5. TableInv'
  <2>1. /\ pc' = [pc EXCEPT ![t] = "io"] /\ node' = [node EXCEPT ![t] = k]
        /\ pos_state' = pos_state /\ address' = address /\ leaf' = leaf
    BY Zenon DEF cache_get
  <2>2. /\ pc' \in [Threads -> {"idle", "io"}] /\ node' \in [Threads -> Keys \cup {NoKey}]
    BY <1>0, <2>1, Zenon DEF TableInv
  <2>3. \A j \in Keys : dir'[j] \in Pages => address'[dir'[j]] = j /\ pos_state'[dir'[j]] # "free"
    BY <1>3, <2>1, Entries, Zenon DEF TableInv
  <2>4. \A u \in Threads : \/ pc'[u] = "idle" /\ node'[u] = NoKey
                           \/ pc'[u] = "io" /\ node'[u] \in Keys /\ dir'[node'[u]] = IO_FLAG
    BY <1>0, <1>3, <2>1 DEF TableInv
  <2>5. \A u, w \in Threads : node'[u] = node'[w] /\ node'[u] # NoKey => u = w
    BY <1>4, <2>1, Zenon DEF TableInv
  <2>6. QED
    BY <1>2, <2>1, <2>2, <2>3, <2>4, <2>5, Zenon DEF TableInv
<1>6. QED
  BY <1>0, <1>2, <1>5, Zenon DEF MapStep

LEMMA promoteStep ==
  ASSUME build \in Builds, build' = build, TableInv,
         NEW t \in Threads, NEW k \in build.keys, promote(t, k)
  PROVE  TableInv' /\ MapStep
<1>1. Ordered' /\ dir' = dir
  BY SameChain, Zenon DEF TableInv, promote
<1>2. k \in Keys /\ dir[k] \in Pages /\ pos_state' = [pos_state EXCEPT ![dir[k]] = "hot"]
      /\ pos_state[dir[k]] # "free"
  BY Entries, Zenon DEF promote
<1>3. /\ pos_state' \in [Pages -> {"free", "hot", "cooling"}]
      /\ \A p \in Pages : pos_state'[p] # "free" <=> pos_state[p] # "free"
  BY <1>2, Zenon DEF TableInv
<1>4. TableInv'
  BY <1>1, <1>3, Zenon DEF TableInv, promote
<1>5. QED
  BY <1>1, <1>4, Zenon DEF MapStep

LEMMA dropOutdatedStep ==
  ASSUME Basics, build \in Builds, build' = build, TableInv,
         NEW t \in Threads, NEW k \in build.keys, dropOutdated(t, k)
  PROVE  TableInv' /\ MapStep
<1>0. k \in Keys /\ dir[k] \in Pages /\ dir[k] = get(chain, k)
      /\ dir[k] # Null /\ dir[k] # IO_FLAG /\ dir[k] \in Values /\ Null \in Values
  BY Entries DEF dropOutdated
<1>1. Sets(chain, chain', k, Null)
  BY <1>0, removeClears, Zenon DEF TableInv, Ordered, dropOutdated
<1>2. Ordered' /\ dir' = [dir EXCEPT ![k] = Null]
  BY <1>0, <1>1, EntryStep, Zenon
<1>3. \A j \in Keys : dir'[j] = IF j = k THEN Null ELSE dir[j]
  BY <1>0, <1>2, Entries, Zenon
<1>4. TableInv'
  <2>1. /\ pos_state' = [pos_state EXCEPT ![dir[k]] = "hot"]
        /\ address' = address /\ pc' = pc /\ node' = node /\ leaf' = leaf
    BY <1>0, Zenon DEF dropOutdated
  <2>2. /\ pos_state' \in [Pages -> {"free", "hot", "cooling"}]
        /\ \A p \in Pages : pos_state'[p] # "free" <=> pos_state[p] # "free"
    BY <1>0, <2>1 DEF TableInv
  <2>3. \A j \in Keys : dir'[j] \in Pages => address'[dir'[j]] = j /\ pos_state'[dir'[j]] # "free"
    BY <1>3, <2>1, <2>2, Entries DEF TableInv
  <2>4. \A u \in Threads : \/ pc'[u] = "idle" /\ node'[u] = NoKey
                           \/ pc'[u] = "io" /\ node'[u] \in Keys /\ dir'[node'[u]] = IO_FLAG
    BY <1>0, <1>3, <2>1, Zenon DEF TableInv
  <2>5. QED
    BY <1>2, <2>1, <2>2, <2>3, <2>4 DEF TableInv
<1>5. QED
  BY <1>0, <1>2, <1>4, Zenon DEF MapStep

LEMMA cold_to_hotStep ==
  ASSUME Basics, build \in Builds, build' = build, TableInv,
         NEW t \in Threads, NEW p \in Pages, cold_to_hot(t, p)
  PROVE  TableInv' /\ MapStep
<1> DEFINE k == node[t]
<1>0. /\ k \in Keys /\ dir[k] = IO_FLAG /\ dir[k] = get(chain, k) /\ k # NoKey
      /\ p # Null /\ p \in Values /\ IO_FLAG # Null
  BY Entries DEF cold_to_hot, TableInv
<1> HIDE DEF k
<1>1. Sets(chain, chain', k, p)
  BY <1>0, updateSets, Zenon DEF TableInv, Ordered, cold_to_hot, k
<1>2. Ordered' /\ dir' = [dir EXCEPT ![k] = p]
  BY <1>0, <1>1, EntryStep, Zenon
<1>3. \A j \in Keys : dir'[j] = IF j = k THEN p ELSE dir[j]
  BY <1>0, <1>2, Entries, Zenon
<1>4. TableInv'
  <2>1. /\ pos_state' = [pos_state EXCEPT ![p] = "hot"] /\ address' = [address EXCEPT ![p] = k]
        /\ pc' = [pc EXCEPT ![t] = "idle"] /\ node' = [node EXCEPT ![t] = NoKey]
        /\ leaf' = [leaf EXCEPT ![t] = NoKey] /\ pos_state[p] = "free" /\ node[t] = k
    BY Zenon DEF cold_to_hot, Finish, k
  <2>2. /\ pos_state' \in [Pages -> {"free", "hot", "cooling"}]
        /\ address' \in [Pages -> Keys \cup {NoKey}]
        /\ pc' \in [Threads -> {"idle", "io"}] /\ node' \in [Threads -> Keys \cup {NoKey}]
        /\ leaf' \in [Threads -> Leaves \cup {NoKey}]
    BY <1>0, <2>1, Zenon DEF TableInv
  <2>3. \A j \in Keys : dir'[j] \in Pages => address'[dir'[j]] = j /\ pos_state'[dir'[j]] # "free"
    BY <1>3, <2>1 DEF TableInv
  <2>4. \A q \in Pages : pos_state'[q] # "free" => address'[q] \in Keys
    BY <1>0, <2>1, Zenon DEF TableInv
  <2>5. \A u \in Threads : \/ pc'[u] = "idle" /\ node'[u] = NoKey
                           \/ pc'[u] = "io" /\ node'[u] \in Keys /\ dir'[node'[u]] = IO_FLAG
    BY <1>0, <1>3, <2>1 DEF TableInv
  <2>6. \A u, w \in Threads : node'[u] = node'[w] /\ node'[u] # NoKey => u = w
    BY <2>1, Zenon DEF TableInv
  <2>7. QED
    BY <1>2, <2>2, <2>3, <2>4, <2>5, <2>6, Zenon DEF TableInv
<1>5. QED
  BY <1>0, <1>2, <1>4, Zenon DEF MapStep

LEMMA dropFlagStep ==
  ASSUME Basics, build \in Builds, build' = build, TableInv, NEW t \in Threads, dropFlag(t)
  PROVE  TableInv' /\ MapStep
<1> DEFINE k == node[t]
<1>0. /\ k \in Keys /\ dir[k] = IO_FLAG /\ dir[k] = get(chain, k) /\ k # NoKey
      /\ IO_FLAG # Null /\ IO_FLAG \in Values /\ Null \in Values
  BY Entries DEF dropFlag, TableInv
<1> HIDE DEF k
<1>1. Sets(chain, chain', k, Null)
  BY <1>0, removeClears, Zenon DEF TableInv, Ordered, dropFlag, k
<1>2. Ordered' /\ dir' = [dir EXCEPT ![k] = Null]
  BY <1>0, <1>1, EntryStep, Zenon
<1>3. \A j \in Keys : dir'[j] = IF j = k THEN Null ELSE dir[j]
  BY <1>0, <1>2, Entries, Zenon
<1>4. TableInv'
  <2>1. /\ pc' = [pc EXCEPT ![t] = "idle"] /\ node' = [node EXCEPT ![t] = NoKey]
        /\ leaf' = [leaf EXCEPT ![t] = NoKey] /\ node[t] = k
        /\ pos_state' = pos_state /\ address' = address
    BY Zenon DEF dropFlag, Finish, k
  <2>2. /\ pc' \in [Threads -> {"idle", "io"}] /\ node' \in [Threads -> Keys \cup {NoKey}]
        /\ leaf' \in [Threads -> Leaves \cup {NoKey}]
    BY <2>1, Zenon DEF TableInv
  <2>3. \A j \in Keys : dir'[j] \in Pages => address'[dir'[j]] = j /\ pos_state'[dir'[j]] # "free"
    BY <1>3, <2>1, Entries DEF TableInv
  <2>4. \A u \in Threads : \/ pc'[u] = "idle" /\ node'[u] = NoKey
                           \/ pc'[u] = "io" /\ node'[u] \in Keys /\ dir'[node'[u]] = IO_FLAG
    BY <1>0, <1>3, <2>1 DEF TableInv
  <2>5. \A u, w \in Threads : node'[u] = node'[w] /\ node'[u] # NoKey => u = w
    BY <2>1, Zenon DEF TableInv
  <2>6. QED
    BY <1>2, <2>1, <2>2, <2>3, <2>4, <2>5, Zenon DEF TableInv
<1>5. QED
  BY <1>0, <1>2, <1>4, Zenon DEF MapStep

LEMMA sample_pageStep ==
  ASSUME build \in Builds, build' = build, TableInv, NEW p \in Pages, sample_page(p)
  PROVE  TableInv' /\ MapStep
<1>1. Ordered' /\ dir' = dir
  BY SameChain, Zenon DEF TableInv, sample_page
<1>2. /\ pos_state' \in [Pages -> {"free", "hot", "cooling"}]
      /\ \A q \in Pages : pos_state'[q] # "free" <=> pos_state[q] # "free"
  BY Zenon DEF TableInv, sample_page
<1>3. TableInv'
  BY <1>1, <1>2, Zenon DEF TableInv, sample_page
<1>4. QED
  BY <1>1, <1>3, Zenon DEF MapStep

(* The frame is given away together with the entry that names it, if it is    *)
(* still the one of its address.                                              *)
LEMMA evictStep ==
  ASSUME Basics, build \in Builds, build' = build, TableInv, NEW p \in Pages, evict(p)
  PROVE  TableInv' /\ MapStep
<1> DEFINE k == address[p]
<1>0. /\ k \in Keys /\ dir[k] = get(chain, k) /\ p # Null /\ p # IO_FLAG /\ p \in Values
      /\ Null \in Values /\ Null \notin Pages /\ Null # IO_FLAG
  BY Entries DEF evict, TableInv
<1> HIDE DEF k
<1>1. /\ Ordered' /\ \/ dir' = dir
                     \/ dir[k] # Null /\ dir' = [dir EXCEPT ![k] = Null]
      /\ \A j \in Keys : dir'[j] = IF j = k /\ dir[k] = p THEN Null ELSE dir[j]
  <2>1. CASE dir[k] = p
    <3>1. Sets(chain, chain', k, Null)
      BY <1>0, <2>1, removeClears, Zenon DEF TableInv, Ordered, evict, k
    <3>2. Ordered' /\ dir' = [dir EXCEPT ![k] = Null]
      BY <1>0, <3>1, EntryStep, Zenon
    <3>3. QED
      BY <1>0, <2>1, <3>2, Entries, Zenon
  <2>2. CASE dir[k] # p
    <3>1. chain' = chain
      BY <1>0, <2>2, removeClears DEF TableInv, Ordered, evict, k
    <3>2. QED
      BY <2>2, <3>1, SameChain, Zenon DEF TableInv
  <2>3. QED
    BY <2>1, <2>2, Zenon
<1>2. TableInv'
  <2>1. /\ pos_state' = [pos_state EXCEPT ![p] = "free"]
        /\ address' = [address EXCEPT ![p] = NoKey] /\ address[p] = k /\ pos_state[p] = "cooling"
        /\ pc' = pc /\ node' = node /\ leaf' = leaf
    BY Zenon DEF evict, k
  <2>2. /\ pos_state' \in [Pages -> {"free", "hot", "cooling"}]
        /\ address' \in [Pages -> Keys \cup {NoKey}]
    BY <2>1, Zenon DEF TableInv
  <2>3. ASSUME NEW j \in Keys, dir'[j] \in Pages
        PROVE  address'[dir'[j]] = j /\ pos_state'[dir'[j]] # "free"
    <3>1. dir'[j] = dir[j] /\ dir[j] \in Pages
      BY <1>0, <1>1, <2>3, Zenon
    <3>2. address[dir[j]] = j /\ pos_state[dir[j]] # "free"
      BY <3>1, Zenon DEF TableInv
    <3>3. dir[j] # p
      BY <1>0, <1>1, <2>1, <2>3, <3>2, Zenon
    <3>4. QED
      BY <2>1, <3>1, <3>2, <3>3, Zenon DEF TableInv
  <2>4. \A q \in Pages : pos_state'[q] # "free" => address'[q] \in Keys
    BY <2>1, Zenon DEF TableInv
  <2>5. \A u \in Threads : \/ pc'[u] = "idle" /\ node'[u] = NoKey
                           \/ pc'[u] = "io" /\ node'[u] \in Keys /\ dir'[node'[u]] = IO_FLAG
    BY <1>0, <1>1, <2>1 DEF TableInv
  <2>6. QED
    BY <1>1, <2>1, <2>2, <2>3, <2>4, <2>5 DEF TableInv
<1>3. QED
  BY <1>0, <1>1, <1>2, Zenon DEF MapStep

LEMMA updatest_replaceStep ==
  ASSUME Basics, build \in Builds, build' = build, TableInv,
         NEW p \in Pages, NEW q \in Pages, updatest_replace(p, q)
  PROVE  TableInv' /\ MapStep
<1> DEFINE k == address[p]
<1>0. /\ k \in Keys /\ dir[k] = get(chain, k) /\ dir[k] \in {Null, p} /\ dir[k] # IO_FLAG
      /\ q # Null /\ q # IO_FLAG /\ q \in Values
  BY Entries DEF updatest_replace, TableInv
<1> HIDE DEF k
<1>1. Sets(chain, chain', k, q)
  BY <1>0, upsertSets, Zenon DEF TableInv, Ordered, updatest_replace, k
<1>2. Ordered' /\ dir' = [dir EXCEPT ![k] = q]
  BY <1>0, <1>1, EntryStep, Zenon
<1>3. \A j \in Keys : dir'[j] = IF j = k THEN q ELSE dir[j]
  BY <1>0, <1>2, Entries
<1>4. TableInv'
  <2>1. /\ pos_state' = [pos_state EXCEPT ![q] = "hot"] /\ address' = [address EXCEPT ![q] = k]
        /\ pos_state[q] = "free" /\ pc' = pc /\ node' = node /\ leaf' = leaf
    BY Zenon DEF updatest_replace, k
  <2>2. /\ pos_state' \in [Pages -> {"free", "hot", "cooling"}]
        /\ address' \in [Pages -> Keys \cup {NoKey}]
    BY <1>0, <2>1, Zenon DEF TableInv
  <2>3. \A j \in Keys : dir'[j] \in Pages => address'[dir'[j]] = j /\ pos_state'[dir'[j]] # "free"
    BY <1>3, <2>1 DEF TableInv
  <2>4. \A x \in Pages : pos_state'[x] # "free" => address'[x] \in Keys
    BY <1>0, <2>1, Zenon DEF TableInv
  <2>5. \A u \in Threads : \/ pc'[u] = "idle" /\ node'[u] = NoKey
                           \/ pc'[u] = "io" /\ node'[u] \in Keys /\ dir'[node'[u]] = IO_FLAG
    BY <1>0, <1>3, <2>1, Zenon DEF TableInv
  <2>6. QED
    BY <1>2, <2>1, <2>2, <2>3, <2>4, <2>5 DEF TableInv
<1>5. QED
  BY <1>0, <1>2, <1>4, Zenon DEF MapStep

LEMMA NextStep ==
  ASSUME Basics, build \in Builds, ~Rpc, TableInv, Next
  PROVE  TableInv' /\ MapStep
<1>0. build' = build
  BY Zenon DEF Next
<1>1. CASE \E t \in Threads, k \in build.keys : cache_get(t, k) \/ promote(t, k) \/ dropOutdated(t, k)
  BY <1>0, <1>1, cache_getStep, promoteStep, dropOutdatedStep, Zenon
<1>2. CASE \E t \in Threads, p \in Pages : cold_to_hot(t, p)
  BY <1>0, <1>2, cold_to_hotStep, Zenon
<1>3. CASE \E t \in Threads, l \in Leaves : rpc(t, l)
  BY <1>3, Zenon DEF rpc
<1>4. CASE \E t \in Threads : dropFlag(t) \/ check(t) \/ checkedRemove(t)
  <2>1. PICK t \in Threads : dropFlag(t) \/ check(t) \/ checkedRemove(t)
    BY <1>4, Zenon
  <2>2. ~check(t) /\ ~checkedRemove(t)
    BY Zenon DEF check, checkedRemove, TableInv
  <2>3. QED
    BY <1>0, <2>1, <2>2, dropFlagStep, Zenon
<1>5. CASE \E p \in Pages : sample_page(p) \/ evict(p)
  BY <1>0, <1>5, sample_pageStep, evictStep, Zenon
<1>6. CASE \E p, q \in Pages : updatest_replace(p, q)
  BY <1>0, <1>6, updatest_replaceStep, Zenon
<1>7. QED
  BY <1>1, <1>2, <1>3, <1>4, <1>5, <1>6, Zenon DEF Next, Step

LEMMA InitStep ==
  ASSUME Basics, Init
  PROVE  build \in Builds /\ TableInv /\ dir = [k \in Keys |-> Null]
<1>0. /\ build \in Builds /\ chain = <<EmptyBucket>> /\ Slots \in Nat /\ CountRange \in Nat
      /\ CountRange > 0 /\ NoKey \notin Keys
  BY Sizes, Entries DEF Init
<1>1. EmptyFrame \in Frame /\ EmptyFrame.page_id = NoKey /\ EmptyFrame.buffer_page = Null
  BY Zenon DEF Frame, EmptyFrame, Values
<1>2. EmptyBucket \in Bucket /\ EmptyBucket.count = 0
      /\ \A i \in 1..Slots : EmptyBucket.frame[i] = EmptyFrame
  BY <1>0, <1>1 DEF EmptyBucket, Bucket
<1>3. chain \in Seq(Bucket) /\ Len(chain) = 1 /\ chain[1] = EmptyBucket
  BY <1>0, <1>2
<1>4. \A p \in Positions(chain) : At(chain, p) = EmptyFrame
  <2>1. TAKE p \in Positions(chain)
  <2>2. p[1] = 1 /\ p[2] \in 1..Slots
    <3>1. p[1] \in 1..Len(chain) /\ p[2] \in 1..Slots
      BY <1>0, <1>3, PositionsAre, Zenon
    <3>2. QED
      BY <1>3, <3>1
  <2>3. QED
    BY <1>2, <1>3, <2>2, Zenon DEF At
<1>5. Ordered
  <2>1. Used(EmptyBucket) = {}
    BY <1>1, <1>2, Zenon DEF Used
  <2>2. \A b \in 1..Len(chain) : chain[b].count = Cardinality(Used(chain[b]))
    BY <1>2, <1>3, <2>1 DEF Basics
  <2>3. QED
    BY <1>0, <1>1, <1>3, <1>4, <2>2, Zenon DEF Ordered, InOrder
<1>6. \A k \in Keys : get(chain, k) = Null
  BY <1>1, <1>4, Zenon DEF get, Live
<1>7. dir = [k \in Keys |-> Null]
  BY <1>6, Zenon DEF dir
<1>8. TableInv
  BY <1>0, <1>5, <1>7, PageTableAssumption, Zenon DEF TableInv, Init
<1>9. QED
  BY <1>0, <1>7, <1>8, Zenon

LEMMA SoundFromInv ==
  ASSUME Basics, build \in Builds, TableInv
  PROVE  TableIsSound
<1>1. InOrder(chain) /\ \A k \in Keys : dir[k] = get(chain, k)
  BY Entries, Zenon DEF TableInv, Ordered
<1>2. TypeOK
  BY <1>1 DEF TypeOK, TableInv, InOrder, Bucket
<1>3. EntryIsResident
  BY <1>1 DEF EntryIsResident, TableInv
<1>4. IoFlagIsKept
  <2>1. SUFFICES ASSUME NEW t \in Threads, pc[t] # "idle"
                 PROVE  /\ get(chain, node[t]) = IO_FLAG
                        /\ \A u \in Threads : u # t => node[u] # node[t]
    BY Zenon DEF IoFlagIsKept
  <2>3. node[t] \in Keys /\ dir[node[t]] = IO_FLAG /\ node[t] # NoKey
    BY <2>1, Entries DEF TableInv
  <2>4. QED
    BY <1>1, <2>3, Zenon DEF TableInv
<1>5. CountIsExact
  BY <1>1, Zenon DEF CountIsExact, InOrder, Used
<1>6. LiveComesFirst
  <2>1. SUFFICES ASSUME NEW k \in Keys, NEW p \in Live(chain, k)
                 PROVE  /\ Cardinality(Live(chain, k)) = 1
                        /\ First(Named(chain, k)) \in Live(chain, k)
    BY Zenon DEF LiveComesFirst
  <2>2. Live(chain, k) = {p} /\ First(Named(chain, k)) = p
    BY <1>1, GetIs, Zenon
  <2>3. Cardinality({p}) = 1
    BY Zenon DEF Basics
  <2>4. QED
    BY <2>2, <2>3, Zenon
<1>7. QED
  BY <1>2, <1>3, <1>4, <1>5, <1>6, Zenon DEF TableIsSound

-----------------------------------------------------------------------------
INSTANCE FiniteSetTheorems
INSTANCE WellFoundedInduction

(* A set of numbers has a least one. *)
LEMMA LeastNumber ==
  ASSUME NEW S \in SUBSET Nat, S # {}
  PROVE  \E m \in S : \A n \in S : m <= n
<1> DEFINE R == OpToRel(<, Nat)
<1>1. IsWellFoundedOn(R, Nat)
  BY NatLessThanWellFounded, Zenon
<1>2. \A m, n \in Nat : <<n, m>> \in R <=> n < m
  BY Zenon DEF OpToRel
<1>3. S \subseteq Nat
  BY Zenon
<1> HIDE DEF R
<1>4. PICK m \in S : \A n \in S : ~(<<n, m>> \in R)
  BY ONLY <1>1, <1>3, S # {}, WFMin, Zenon
<1>5. ASSUME NEW n \in S PROVE m <= n
  <2>1. m \in Nat /\ n \in Nat /\ ~(<<n, m>> \in R)
    BY <1>3, <1>4, Zenon
  <2>2. ~(n < m)
    BY <1>2, <2>1, Zenon
  <2>3. QED
    BY <2>1, <2>2
<1>6. QED
  BY <1>5, Zenon

LEMMA BasicsHold == Basics
<1>1. Cardinality({}) = 0 /\ \A x : Cardinality({x}) = 1
  BY FS_EmptySet, FS_Singleton, Zenon
<1>2. ASSUME NEW n \in Nat, NEW S \in SUBSET (1..n)
      PROVE  /\ IsFiniteSet(S) /\ Cardinality(S) \in Nat /\ Cardinality(S) <= n
             /\ (Cardinality(S) = 0 => S = {})
  <2>1. IsFiniteSet(1..n) /\ Cardinality(1..n) = n
    BY FS_Interval
  <2>2. IsFiniteSet(S) /\ Cardinality(S) <= Cardinality(1..n)
    BY <2>1, FS_Subset, Zenon
  <2>3. Cardinality(S) \in Nat /\ (Cardinality(S) = 0 => S = {})
    BY <2>2, FS_CardinalityType, FS_EmptySet, Zenon
  <2>4. QED
    BY <2>1, <2>2, <2>3, Zenon
<1>3. ASSUME NEW n \in Nat, NEW S \in SUBSET (1..n), NEW i \in S
      PROVE  Cardinality(S \ {i}) = Cardinality(S) - 1
  BY <1>2, FS_RemoveElement, Zenon
<1>4. ASSUME NEW n \in Nat, NEW S \in SUBSET (1..n), NEW i \in (1..n) \ S
      PROVE  Cardinality(S \cup {i}) = Cardinality(S) + 1
  BY <1>2, FS_AddElement, Zenon
<1>5. \A S \in SUBSET Nat : S # {} => \E m \in S : \A n \in S : m <= n
  BY LeastNumber, Zenon
<1>6. \A n \in Nat : \A S \in SUBSET (1..n) :
        /\ Cardinality(S) \in 0..n /\ (Cardinality(S) = 0 => S = {})
        /\ \A i \in S : Cardinality(S \ {i}) = Cardinality(S) - 1
        /\ \A i \in (1..n) \ S : Cardinality(S \cup {i}) = Cardinality(S) + 1
  <2>1. TAKE n \in Nat
  <2> TAKE S \in SUBSET (1..n)
  <2>2. Cardinality(S) \in 0..n /\ (Cardinality(S) = 0 => S = {})
    BY <1>2
  <2>3. \A i \in S : Cardinality(S \ {i}) = Cardinality(S) - 1
    BY <1>3, Zenon
  <2>4. \A i \in (1..n) \ S : Cardinality(S \cup {i}) = Cardinality(S) + 1
    BY <1>4, Zenon
  <2>5. QED
    BY <2>2, <2>3, <2>4, Zenon
<1>7. QED
  BY <1>1, <1>5, <1>6, Zenon DEF Basics

LEMMA NextIInv == IInv /\ [Next]_vars => IInv'
<1> SUFFICES ASSUME IInv, [Next]_vars PROVE IInv'
  BY Zenon
<1>1. build' = build /\ build \in Builds
  BY Zenon DEF IInv, Next, vars
<1>2. Rpc' = Rpc
  BY <1>1, Zenon DEF Rpc
<1>3. CASE Rpc
  BY <1>1, <1>2, <1>3, Zenon DEF IInv
<1>4. CASE ~Rpc /\ Next
  BY <1>1, <1>2, <1>4, BasicsHold, NextStep, Zenon DEF IInv
<1>5. CASE ~Rpc /\ UNCHANGED vars
  <2>1. TableInv
    BY <1>5, Zenon DEF IInv
  <2>2. Ordered' /\ dir' = dir
    BY <1>1, <1>5, <2>1, SameChain, Zenon DEF TableInv, vars
  <2>3. TableInv'
    BY <1>5, <2>1, <2>2, Zenon DEF TableInv, vars
  <2>4. QED
    BY <1>1, <2>3, Zenon DEF IInv
<1>6. QED
  BY <1>3, <1>4, <1>5, Zenon

LEMMA Invariance == Spec => []IInv
<1>1. Init => IInv
  BY BasicsHold, InitStep, Zenon DEF IInv
<1>2. QED
  BY <1>1, NextIInv, PTL DEF Spec

(* In a build without pushdown the page table is sound at every moment, for   *)
(* any number of slots, addresses, frames and threads: the operations of      *)
(* page_table.h under their lock never leave two live frames of an address,   *)
(* a frame given away, a lost mark or a wrong count_.                         *)
THEOREM TableStaysSound == Spec => [](~Rpc => TableIsSound)
<1>1. IInv => (~Rpc => TableIsSound)
  BY BasicsHold, SoundFromInv, Zenon DEF IInv
<1>2. QED
  BY <1>1, Invariance, PTL

(* In a build without pushdown the chain of buckets behaves as PageMap: every *)
(* operation of page_table.h changes the entry of one address, the unlinking  *)
(* of an empty overflow bucket included.                                      *)
THEOREM TableIsAMap == Spec /\ ~Rpc => ImplementsPageMap
<1>1. Init => Map!Init
  BY BasicsHold, InitStep, Zenon DEF Map!Init, dir
<1>2. IInv /\ ~Rpc /\ [Next]_vars => [Map!Next]_([k \in Keys |-> get(chain, k)]) /\ ~Rpc'
  <2> SUFFICES ASSUME IInv, ~Rpc, [Next]_vars
               PROVE  [Map!Next]_([k \in Keys |-> get(chain, k)]) /\ ~Rpc'
    BY Zenon
  <2>1. build' = build /\ build \in Builds /\ TableInv
    BY Zenon DEF IInv, Next, vars
  <2>2. ~Rpc'
    BY <2>1, Zenon DEF Rpc
  <2>3. MapStep
    <3>1. CASE Next
      BY <2>1, <3>1, BasicsHold, NextStep, Zenon
    <3>2. CASE UNCHANGED vars
      BY <2>1, <3>2, SameChain, Zenon DEF TableInv, vars, MapStep
    <3>3. QED
      BY <3>1, <3>2, Zenon
  <2>4. dir' = dir \/ Map!Next
    BY <2>3, Zenon DEF MapStep, Map!Next, Map!Claim, Map!Publish, Map!Install, Map!Forget, dir
  <2>5. QED
    BY <2>2, <2>4, Zenon DEF dir
<1>3. QED
  BY <1>1, <1>2, Invariance, PTL DEF Spec, ImplementsPageMap, Map!Spec
=============================================================================
