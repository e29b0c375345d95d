----------------------------- MODULE DSMProofs -----------------------------
(* The cluster keeps to the protocol of the page's lock: whatever machines    *)
(* and workers do around it, ShermanLock's variables only take ShermanLock's  *)
(* steps, so that what is proved of the lock holds in the cluster.            *)
(*                                                                            *)
(* The second part is about allocation: the areas of memory that directories, *)
(* messages and threads hold are pairwise disjoint, and a step only cuts one  *)
(* of them up or passes it on; so no page is given out twice.                 *)
(*                                                                            *)
(* The third part is about the barriers at which the machines meet.           *)
EXTENDS DSM, ShermanLockProofs

(* A step of the cluster is a step of the lock or leaves it alone. *)
LEMMA ClusterStep == [ClusterNext]_clusterVars => [Next]_vars
<1> SUFFICES ASSUME ClusterNext PROVE [Next]_vars
  BY Zenon DEF clusterVars, lockVars
<1>1. ASSUME NEW m \in Machines, MainStep(m) \/ process_message(m)
      PROVE  UNCHANGED vars
  BY <1>1, Zenon DEF MainStep, process_message, serverEnter, serverConnect, setDataToRemote,
     setDataFromRemote, barrier_reset, memFetchAndAdd, barrier, InstallRoot, warm_finish,
     join, sum, lockVars
<1>2. ASSUME NEW m \in Machines, NEW t \in Threads \cup Machines, ThreadStep(m, t)
      PROVE  [Next]_vars
  <2>1. CASE registerThread(m, t) \/ alloc(m, t) \/ rpc_wait(m, t)
    BY <2>1, Zenon DEF registerThread, alloc, rpc_wait, lockVars
  <2>2. CASE Works(m, t)
    BY <2>2, Zenon DEF Works, LockStep, Next
  <2>3. QED
    BY <1>2, <2>1, <2>2, Zenon DEF ThreadStep
<1>3. CASE Land
  BY <1>3, Zenon DEF Land, Next
<1>4. ASSUME NEW r \in Readers, Searches(r)
      PROVE  [Next]_vars
  BY <1>4, Zenon DEF Searches, Next
<1>5. QED
  BY <1>1, <1>2, <1>3, <1>4, Zenon DEF ClusterNext, clusterVars, lockVars

(* Start-up, barriers, allocation and the workers' splits never interfere     *)
(* with the lock: the cluster implements ShermanLock.                         *)
THEOREM ClusterImplementsLock == ClusterSpec => Spec
<1>1. ClusterInit => Init
  BY Zenon DEF ClusterInit
<1>2. QED
  BY <1>1, ClusterStep, PTL DEF ClusterSpec, Spec

(* In the running cluster no two threads of any machines are under the page's *)
(* lock together, no store is missed, also one that waits for a directory to  *)
(* give it a sibling page while it holds the lock, and hand-over is fair.     *)
THEOREM ClusterLockIsSafe ==
  ClusterSpec => [](LockExclusion /\ NoStoreIsMissed /\ HandOverIsFair)
  BY ClusterImplementsLock, PageLockExcludes, StoresAreSeen, HandOverFair, PTL

-----------------------------------------------------------------------------
(* The memory that alloc gives out.  A chunk that no thread has asked for, a  *)
(* chunk on its way to a thread, what is left of a thread's chunk and a page  *)
(* are areas of memory; the invariant is that they are apart.  A step only    *)
(* ever cuts one of them up.                                                  *)

Users == Threads \cup Machines

Addresses == [node : Nat, offset : Nat]

Area(is, a, end) == [is |-> is, node |-> a.node, from |-> a.offset, to |-> end]

Page(t, p) == Area(<<"page", t>>, p, p.offset + PageSize)
Rest(t, r) == Area(<<"rest", t>>, r.cur, r.head.offset + kChunkSize)
Sent(q) == Area(<<"reply", q>>, q.addr, q.addr.offset + kChunkSize)
Chunk(d, i) == Area(<<"chunk", d>>, Address(d, i), Address(d, i).offset + kChunkSize)

Areas(T, Q, L) ==
  UNION {
    UNION {{Page(t, p) : p \in T[t].pages} : t \in Users},
    {Rest(t, T[t]) : t \in {u \in Users : T[u].head # None}},
    {Sent(q) : q \in {m \in Q : m.type = "reply"}},
    UNION {{Chunk(d, i) : i \in L[d]..(bitmap_len - 1)} : d \in Directories}}

Apart(a, b) == a.node # b.node \/ a.to <= b.from \/ b.to <= a.from

(* An area lies in the share of one directory, behind its first chunk. *)
InShare(a) ==
  /\ a.from \in Nat /\ a.to \in Nat /\ a.from <= a.to
  /\ \E d \in Directories : /\ a.node = d[1] /\ a.from >= Address(d, 1).offset
                            /\ a.to <= Address(d, bitmap_len).offset

Sound(A) == /\ \A a \in A : InShare(a)
            /\ \A a, b \in A : a # b => Apart(a, b)

(* What registerThread needs to give a thread a first target. *)
NodeInv ==
  /\ memc.serverNum \in Nat /\ DOMAIN memc = {"serverNum", "meta", "sum", "barrier"}
  /\ DOMAIN node = Machines
  /\ \A m \in Machines : /\ DOMAIN node[m] = DOMAIN Process /\ node[m].appID \in Nat
                         /\ node[m].id \in Nat \cup {None}
                         /\ node[m].pc # "enter" => node[m].id \in Nat
                         /\ node[m].pc \in {"reset", "add", "spin"} => node[m].at \in Barriers

ThreadStates == [pc : {"start", "run", "wait"}, id : Nat \cup {None},
                 head : Addresses \cup {None}, cur : Addresses \cup {None},
                 next : Directories \cup {None}, pages : SUBSET Addresses]

ThreadInv ==
  /\ th \in [Users -> ThreadStates]
  /\ \A t \in Users : /\ th[t].head # None => th[t].head \in Addresses /\ th[t].cur \in Addresses
                      /\ th[t].pc # "start" => th[t].next \in Directories

NetInv ==
  /\ tail \in [Directories -> 1..bitmap_len]
  /\ \A q \in net : \/ q.type = "MALLOC" /\ q.dir \in Directories
                    \/ q.type = "reply" /\ q.addr \in Addresses

AllocInv == NodeInv /\ ThreadInv /\ NetInv /\ Sound(Areas(th, net, tail))

LEMMA Sizes ==
  /\ N \in Nat \ {0} /\ memThreadCount \in Nat \ {0} /\ bitmap_len \in Nat \ {0}
  /\ PageSize \in Nat \ {0} /\ kChunkSize \in Nat /\ Slack \in Nat /\ PageSize + Slack <= kChunkSize
  BY DSMAssumption

(* What is an area. *)
IsArea(T, Q, L, a) ==
  \/ \E t \in Users : \E p \in T[t].pages : a = Page(t, p)
  \/ \E t \in Users : T[t].head # None /\ a = Rest(t, T[t])
  \/ \E q \in Q : q.type = "reply" /\ a = Sent(q)
  \/ \E d \in Directories : \E i \in L[d]..(bitmap_len - 1) : a = Chunk(d, i)

LEMMA AreaCases ==
  ASSUME NEW T, NEW Q, NEW L, NEW a
  PROVE  a \in Areas(T, Q, L) <=> IsArea(T, Q, L, a)
<1> DEFINE P == UNION {{Page(t, p) : p \in T[t].pages} : t \in Users}
           R == {Rest(t, T[t]) : t \in {u \in Users : T[u].head # None}}
           S == {Sent(q) : q \in {m \in Q : m.type = "reply"}}
           C == UNION {{Chunk(d, i) : i \in L[d]..(bitmap_len - 1)} : d \in Directories}
<1>1. a \in P <=> \E t \in Users : \E p \in T[t].pages : a = Page(t, p)
  OBVIOUS
<1>2. a \in R <=> \E t \in Users : T[t].head # None /\ a = Rest(t, T[t])
  BY Zenon
<1>3. a \in S <=> \E q \in Q : q.type = "reply" /\ a = Sent(q)
  BY Zenon
<1>4. a \in C <=> \E d \in Directories : \E i \in L[d]..(bitmap_len - 1) : a = Chunk(d, i)
  OBVIOUS
<1>5. Areas(T, Q, L) = UNION {P, R, S, C}
  BY Zenon DEF Areas
<1> HIDE DEF P, R, S, C
<1>6. a \in Areas(T, Q, L) <=> a \in P \/ a \in R \/ a \in S \/ a \in C
  BY <1>5, Zenon
<1>7. QED
  BY <1>1, <1>2, <1>3, <1>4, <1>6, Zenon DEF IsArea

LEMMA Multiples ==
  ASSUME NEW i \in Nat, NEW j \in Nat, i < j, NEW k \in Nat
  PROVE  i * k + k <= j * k
<1> DEFINE e == j - (i + 1)
<1>1. e \in Nat /\ j = i + 1 + e
  OBVIOUS
<1>2. e * k \in Nat
  BY <1>1
<1>3. j * k = i * k + k + e * k
  BY <1>1
<1>4. QED
  BY <1>2, <1>3

(* Where a chunk is. *)
LEMMA ChunkOffset ==
  ASSUME NEW d \in Directories, NEW i \in Nat
  PROVE  /\ Address(d, i) \in Addresses /\ Address(d, i).node = d[1]
         /\ d[2] \in Nat /\ d[2] * bitmap_len + i \in Nat
         /\ Address(d, i).offset = (d[2] * bitmap_len + i) * kChunkSize
<1>1. d[1] \in Nat /\ d[2] \in Nat
  BY Sizes DEF Directories
<1> DEFINE n == d[2] * bitmap_len
<1>2. n \in Nat
  BY <1>1, Sizes
<1>3. n * kChunkSize + i * kChunkSize = (n + i) * kChunkSize /\ (n + i) * kChunkSize \in Nat
  <2> HIDE DEF n
  <2>1. QED
    BY <1>2, Sizes
<1>4. QED
  BY <1>1, <1>2, <1>3 DEF Address, Addresses

LEMMA ChunksAreApart ==
  ASSUME NEW d \in Directories, NEW e \in Directories, NEW i \in 1..(bitmap_len - 1),
         NEW j \in 1..(bitmap_len - 1), d # e \/ i # j
  PROVE  Apart(Chunk(d, i), Chunk(e, j))
<1> DEFINE n == d[2] * bitmap_len + i
           m == e[2] * bitmap_len + j
<1>1. i \in Nat /\ j \in Nat /\ i < bitmap_len /\ j < bitmap_len
  BY Sizes
<1>2. /\ n \in Nat /\ m \in Nat /\ d[2] \in Nat /\ e[2] \in Nat
      /\ Chunk(d, i).from = n * kChunkSize /\ Chunk(d, i).to = n * kChunkSize + kChunkSize
      /\ Chunk(e, j).from = m * kChunkSize /\ Chunk(e, j).to = m * kChunkSize + kChunkSize
      /\ Chunk(d, i).node = d[1] /\ Chunk(e, j).node = e[1]
  BY <1>1, ChunkOffset, Zenon DEF Chunk, Area
<1>3. CASE d[1] # e[1]
  BY <1>2, <1>3, Zenon DEF Apart
<1>4. CASE d[1] = e[1]
  <2>1. d = <<d[1], d[2]>> /\ e = <<e[1], e[2]>>
    BY DEF Directories
  <2>2. CASE d[2] = e[2]
    <3>1. i # j
      BY <1>4, <2>1, <2>2, Zenon
    <3>2. d[2] * bitmap_len \in Nat /\ e[2] * bitmap_len = d[2] * bitmap_len
      BY <1>2, <2>2, Sizes
    <3>3. n < m \/ m < n
      BY <1>1, <3>1, <3>2
    <3>4. QED
      BY <1>2, <3>3, Multiples, Sizes, ZenonT(40) DEF Apart
  <2>3. CASE d[2] < e[2]
    <3>1. d[2] * bitmap_len + bitmap_len <= e[2] * bitmap_len
      BY <1>2, <2>3, Multiples, Sizes, Zenon
    <3>2. d[2] * bitmap_len \in Nat /\ e[2] * bitmap_len \in Nat
      BY <1>2, Sizes
    <3>3. n < m
      BY <1>1, <3>1, <3>2, Sizes
    <3>4. QED
      BY <1>2, <3>3, Multiples, Sizes, ZenonT(40) DEF Apart
  <2>4. CASE e[2] < d[2]
    <3>1. e[2] * bitmap_len + bitmap_len <= d[2] * bitmap_len
      BY <1>2, <2>4, Multiples, Sizes, Zenon
    <3>2. d[2] * bitmap_len \in Nat /\ e[2] * bitmap_len \in Nat
      BY <1>2, Sizes
    <3>3. m < n
      BY <1>1, <3>1, <3>2, Sizes
    <3>4. QED
      BY <1>2, <3>3, Multiples, Sizes, Zenon DEF Apart
  <2>5. QED
    BY <1>2, <2>2, <2>3, <2>4
<1>5. QED
  BY <1>3, <1>4, Zenon

LEMMA ChunkInShare ==
  ASSUME NEW d \in Directories, NEW i \in 1..(bitmap_len - 1)
  PROVE  InShare(Chunk(d, i))
<1> DEFINE n == d[2] * bitmap_len
<1>1. i \in Nat /\ i < bitmap_len /\ 1 <= i
  BY Sizes
<1>2. n \in Nat
  <2>1. d[2] \in Nat
    BY ChunkOffset, Zenon
  <2>2. QED
    BY <2>1, Sizes
<1>3. /\ Address(d, i) \in Addresses /\ Address(d, i).node = d[1]
      /\ Address(d, i).offset = (n + i) * kChunkSize
      /\ Address(d, 1).offset = (n + 1) * kChunkSize /\ Address(d, 1).offset \in Nat
      /\ Address(d, bitmap_len).offset = (n + bitmap_len) * kChunkSize
      /\ Address(d, bitmap_len).offset \in Nat
  BY <1>1, ChunkOffset, Sizes, Zenon DEF Addresses
<1> HIDE DEF n
<1>4. (n + i) * kChunkSize + kChunkSize <= (n + bitmap_len) * kChunkSize
  BY <1>1, <1>2, Multiples, Sizes
<1>5. (n + 1) * kChunkSize <= (n + i) * kChunkSize
  <2>1. CASE i = 1
    BY <1>2, <1>3, <2>1
  <2>2. CASE 1 < i
    <3>1. (n + 1) * kChunkSize + kChunkSize <= (n + i) * kChunkSize
      BY <1>1, <1>2, <2>2, Multiples, Sizes
    <3>2. QED
      BY <1>3, <3>1, Sizes DEF Addresses
  <2>3. QED
    BY <1>1, <2>1, <2>2
<1>6. Address(d, i).offset \in Nat
  BY <1>3, Zenon DEF Addresses
<1>7. QED
  BY <1>3, <1>4, <1>5, <1>6, Sizes DEF InShare, Chunk, Area

PartOf(z, o) == /\ z.node = o.node /\ z.from \in Nat /\ z.to \in Nat
                /\ o.from <= z.from /\ z.from <= z.to /\ z.to <= o.to

(* Cutting an area up leaves all of them apart. *)
LEMMA CutUp ==
  ASSUME NEW A, Sound(A), NEW o \in A, NEW x, NEW y, NEW B, B \subseteq (A \ {o}) \cup {x, y},
         PartOf(x, o), PartOf(y, o),
         x = y \/ x.to <= y.from
  PROVE  Sound(B)
<1>1. ASSUME NEW z \in {x, y} PROVE InShare(z)
  <2>1. PICK d \in Directories : /\ o.node = d[1] /\ o.from >= Address(d, 1).offset
                                 /\ o.to <= Address(d, bitmap_len).offset
    BY Zenon DEF Sound, InShare
  <2>2. Address(d, 1).offset \in Nat /\ Address(d, bitmap_len).offset \in Nat
    BY ChunkOffset, Sizes, Zenon DEF Addresses
  <2>3. o.from \in Nat /\ o.to \in Nat
    BY Zenon DEF Sound, InShare
  <2>4. z.from >= Address(d, 1).offset /\ z.to <= Address(d, bitmap_len).offset /\ z.node = d[1]
    BY <2>1, <2>2, <2>3 DEF PartOf
  <2>5. QED
    BY <2>4, Zenon DEF InShare, PartOf
<1>2. \A z \in {x, y} : \A a \in A \ {o} : Apart(a, z) /\ Apart(z, a)
  BY DEF Sound, InShare, Apart, PartOf
<1>3. x # y => Apart(x, y) /\ Apart(y, x)
  BY Zenon DEF Apart
<1>4. QED
  BY <1>1, <1>2, <1>3, Zenon DEF Sound

-----------------------------------------------------------------------------
(* The steps of a machine's main thread keep what registerThread needs. *)

LEMMA NodeStep ==
  ASSUME NodeInv, NEW m \in Machines, NEW r, SetNode(m, r),
         memc'.serverNum \in Nat, DOMAIN memc' = DOMAIN memc,
         With(node[m], r).appID \in Nat, With(node[m], r).id \in Nat \cup {None},
         With(node[m], r).pc # "enter" => With(node[m], r).id \in Nat,
         With(node[m], r).pc \in {"reset", "add", "spin"} => With(node[m], r).at \in Barriers
  PROVE  NodeInv'
<1>1. DOMAIN With(node[m], r) = DOMAIN Process
  BY Zenon DEF With, NodeInv
<1>2. DOMAIN node' = Machines /\ \A l \in Machines : node'[l] = IF l = m THEN With(node[m], r) ELSE node[l]
  BY Zenon DEF SetNode, NodeInv
<1>3. QED
  BY <1>1, <1>2, Zenon DEF NodeInv

(* Fields that an update leaves out stay. *)
LEMMA WithField ==
  ASSUME NodeInv, NEW m \in Machines, NEW r
  PROVE  /\ With(node[m], r).pc = IF "pc" \in DOMAIN r THEN r.pc ELSE node[m].pc
         /\ With(node[m], r).id = IF "id" \in DOMAIN r THEN r.id ELSE node[m].id
         /\ With(node[m], r).at = IF "at" \in DOMAIN r THEN r.at ELSE node[m].at
         /\ With(node[m], r).appID = IF "appID" \in DOMAIN r THEN r.appID ELSE node[m].appID
<1>1. {"pc", "id", "at", "appID"} \subseteq DOMAIN node[m]
  BY Zenon DEF NodeInv, Process
<1>2. QED
  BY <1>1, Zenon DEF With

LEMMA MainNodeInv ==
  ASSUME NodeInv, NEW m \in Machines, MainStep(m)
  PROVE  NodeInv'
<1> DEFINE s == node[m]
<1>0. /\ s.appID \in Nat /\ s.id \in Nat \cup {None} /\ (s.pc # "enter" => s.id \in Nat)
      /\ (s.pc \in {"reset", "add", "spin"} => s.at \in Barriers)
  BY Zenon DEF NodeInv
<1>1. CASE serverEnter(m)
  <2>1. memc'.serverNum \in Nat /\ DOMAIN memc' = DOMAIN memc
    BY <1>1 DEF serverEnter, NodeInv
  <2>2. SetNode(m, [pc |-> "connect", id |-> memc.serverNum]) /\ memc.serverNum \in Nat
    BY <1>1, Zenon DEF serverEnter, NodeInv
  <2>3. QED
    BY <1>0, <2>1, <2>2, WithField, NodeStep
<1>2. CASE serverConnect(m)
  <2>1. memc'.serverNum \in Nat /\ DOMAIN memc' = DOMAIN memc /\ s.pc = "connect"
    BY <1>2, Zenon DEF serverConnect, NodeInv
  <2>2. \/ SetNode(m, [pc |-> "peer", serverNum |-> memc.serverNum, k |-> s.curServer])
        \/ SetNode(m, ToBarrier(s.id, "DSM-init"))
    BY <1>2, Zenon DEF serverConnect
  <2>3. QED
    BY <1>0, <2>1, <2>2, WithField, NodeStep DEF ToBarrier, Barriers
<1>3. CASE setDataToRemote(m)
  <2>1. memc'.serverNum \in Nat /\ DOMAIN memc' = DOMAIN memc /\ s.pc = "peer"
    BY <1>3, Zenon DEF setDataToRemote, NodeInv
  <2>2. \/ SetNode(m, [pc |-> "connect", curServer |-> s.serverNum])
        \/ SetNode(m, [k |-> s.k + 1])
        \/ SetNode(m, [pc |-> "get_meta"])
    BY <1>3, Zenon DEF setDataToRemote
  <2>3. CASE SetNode(m, [pc |-> "connect", curServer |-> s.serverNum])
    BY <1>0, <2>1, <2>3, WithField, NodeStep
  <2>4. CASE SetNode(m, [k |-> s.k + 1])
    BY <1>0, <2>1, <2>4, WithField, NodeStep, Zenon
  <2>5. CASE SetNode(m, [pc |-> "get_meta"])
    BY <1>0, <2>1, <2>5, WithField, NodeStep, ZenonT(40)
  <2>6. QED
    BY <2>2, <2>3, <2>4, <2>5, Zenon
<1>4. CASE setDataFromRemote(m)
  <2>1. memc'.serverNum \in Nat /\ DOMAIN memc' = DOMAIN memc /\ s.pc = "get_meta"
    BY <1>4, Zenon DEF setDataFromRemote, NodeInv
  <2>2. SetNode(m, [pc |-> "peer", k |-> s.k + 1])
    BY <1>4, Zenon DEF setDataFromRemote
  <2>3. QED
    BY <1>0, <2>1, <2>2, WithField, NodeStep, ZenonT(40)
<1>5. CASE barrier_reset(m) \/ memFetchAndAdd(m)
  <2>1. memc'.serverNum \in Nat /\ DOMAIN memc' = DOMAIN memc /\ s.pc \in {"reset", "add"}
    BY <1>5, Zenon DEF barrier_reset, memFetchAndAdd, NodeInv
  <2>2. SetNode(m, [pc |-> "add"]) \/ SetNode(m, [pc |-> "spin"])
    BY <1>5, Zenon DEF barrier_reset, memFetchAndAdd
  <2>3. QED
    BY <1>0, <2>1, <2>2, WithField, NodeStep
<1>6. CASE barrier(m)
  <2>1. memc'.serverNum \in Nat /\ DOMAIN memc' = DOMAIN memc /\ s.pc = "spin"
    BY <1>6, Zenon DEF barrier, NodeInv
  <2>2. SetNode(m, After(s))
    BY <1>6, Zenon DEF barrier
  <2>3. s.id < CNodeCount \/ s.id >= CNodeCount
    BY <1>0, <2>1, DSMAssumption, Sizes
  <2>4. \/ After(s) = ToBarrier(s.id, "finish")
        \/ After(s) \in {[pc |-> "register"], [pc |-> "run"], [pc |-> "end"]}
        \/ After(s) = [pc |-> "spawn", appID |-> 0]
    BY <1>0, <2>1, <2>3 DEF After, Barriers
  <2>5. CASE After(s) = ToBarrier(s.id, "finish")
    BY <1>0, <2>1, <2>2, <2>5, WithField, NodeStep DEF ToBarrier, Barriers
  <2>6. ASSUME NEW where \in {"register", "run", "end"}, After(s) = [pc |-> where]
        PROVE  NodeInv'
    BY <1>0, <2>1, <2>2, <2>6, WithField, NodeStep, ZenonT(40)
  <2>7. CASE After(s) = [pc |-> "spawn", appID |-> 0]
    BY <1>0, <2>1, <2>2, <2>7, WithField, NodeStep
  <2>8. QED
    BY <2>4, <2>5, <2>6, <2>7, Zenon
<1>7. CASE InstallRoot(m)
  <2>1. memc'.serverNum \in Nat /\ DOMAIN memc' = DOMAIN memc /\ s.pc = "tree"
    BY <1>7, Zenon DEF InstallRoot, NodeInv
  <2>2. SetNode(m, ToBarrier(s.id, "bulkload"))
    BY <1>7, Zenon DEF InstallRoot
  <2>3. QED
    BY <1>0, <2>1, <2>2, WithField, NodeStep DEF ToBarrier, Barriers
<1>8. CASE warm_finish(m)
  <2>1. memc'.serverNum \in Nat /\ DOMAIN memc' = DOMAIN memc /\ s.pc = "spawn"
    BY <1>8, Zenon DEF warm_finish, NodeInv
  <2>2. SetNode(m, ToBarrier(s.id, "warm_finish"))
    BY <1>8, Zenon DEF warm_finish
  <2>3. QED
    BY <1>0, <2>1, <2>2, WithField, NodeStep DEF ToBarrier, Barriers
<1>9. CASE join(m)
  <2>1. memc'.serverNum \in Nat /\ DOMAIN memc' = DOMAIN memc /\ s.pc = "run"
    BY <1>9, Zenon DEF join, NodeInv
  <2>2. SetNode(m, [pc |-> "sum", k |-> 0, total |-> 0])
    BY <1>9, Zenon DEF join
  <2>3. QED
    BY <1>0, <2>1, <2>2, WithField, NodeStep, ZenonT(40)
<1>10. CASE sum(m)
  <2>1. memc'.serverNum \in Nat /\ DOMAIN memc' = DOMAIN memc /\ s.pc = "sum"
    BY <1>10, Zenon DEF sum, NodeInv
  <2>2. PICK part \in memc.sum :
          \/ SetNode(m, With([s EXCEPT !.k = @ + 1, !.total = @ + part[2]], ToBarrier(s.id, "finish")))
          \/ SetNode(m, [s EXCEPT !.k = @ + 1, !.total = @ + part[2]])
    BY <1>10, Zenon DEF sum
  <2> DEFINE a == [s EXCEPT !.k = @ + 1, !.total = @ + part[2]]
             b == With(a, ToBarrier(s.id, "finish"))
  <2>3. /\ DOMAIN a = DOMAIN Process /\ DOMAIN b = DOMAIN Process
        /\ \A z \in {a, b} : z.appID = s.appID /\ z.id = s.id
        /\ a.pc = "sum" /\ b.pc \in {"reset", "add"} /\ b.at = "finish"
    <3>1. DOMAIN s = DOMAIN Process
      BY Zenon DEF NodeInv
    <3>2. DOMAIN a = DOMAIN Process /\ a.appID = s.appID /\ a.id = s.id /\ a.pc = "sum"
      BY <2>1, <3>1, Zenon DEF Process
    <3> HIDE DEF a
    <3>3. QED
      BY <3>2, Zenon DEF With, ToBarrier, Process
  <2>4. {"pc", "id", "at", "appID"} \subseteq DOMAIN Process
    BY Zenon DEF Process
  <2> HIDE DEF a, b
  <2>5. \A z \in {a, b} : SetNode(m, z) => NodeInv'
    BY <1>0, <2>1, <2>3, <2>4, WithField, NodeStep DEF Barriers
  <2>6. QED
    BY <2>2, <2>5, Zenon DEF a, b
<1>11. QED
  BY <1>1, <1>2, <1>3, <1>4, <1>5, <1>6, <1>7, <1>8, <1>9, <1>10, Zenon DEF MainStep

-----------------------------------------------------------------------------
(* The steps that move memory. *)

(* A page is cut off the area o: what is left of the thread's chunk, or the   *)
(* chunk of a reply that has been taken from the network.                     *)
LEMMA TakePage ==
  ASSUME ThreadInv, NetInv, Sound(Areas(th, net, tail)), NEW t \in Users,
         NEW r \in ThreadStates, r.head \in Addresses, r.cur \in Addresses,
         r.next \in Directories, r.pages = th[t].pages,
         NEW o \in Areas(th, net, tail),
         o.is = <<"rest", t>> \/ \E q : o.is = <<"reply", q>> /\ q \notin net',
         o.node = r.cur.node, o.from = r.cur.offset, o.to = r.head.offset + kChunkSize,
         r.cur.offset + PageSize <= o.to,
         th' = [th EXCEPT ![t] = malloc(r)], net' \subseteq net, tail' = tail
  PROVE  ThreadInv' /\ NetInv' /\ Sound(Areas(th', net', tail'))
<1> DEFINE m == malloc(r)
           x == Page(t, r.cur)
           y == Rest(t, m)
<1>1. /\ m \in ThreadStates /\ m.pages = r.pages \cup {r.cur} /\ m.head = r.head
      /\ m.next = r.next /\ m.cur \in Addresses
      /\ m.cur.node = r.cur.node /\ m.cur.offset = r.cur.offset + PageSize
  <2> DEFINE c == [r.cur EXCEPT !.offset = @ + PageSize]
  <2>1. c \in Addresses /\ c.node = r.cur.node /\ c.offset = r.cur.offset + PageSize
    BY Sizes DEF Addresses
  <2>2. m = [r EXCEPT !.pages = @ \cup {r.cur}, !.cur = c]
    BY Zenon DEF malloc
  <2> HIDE DEF c, m
  <2>3. QED
    BY <2>1, <2>2, Zenon DEF ThreadStates
<1>2. /\ th' \in [Users -> ThreadStates]
      /\ \A u \in Users : th'[u] = IF u = t THEN m ELSE th[u]
  BY <1>1, Zenon DEF ThreadInv
<1>3. ThreadInv'
  BY <1>1, <1>2, Zenon DEF ThreadInv
<1>4. NetInv'
  BY Zenon DEF NetInv
<1> HIDE DEF m
<1>5. /\ x.is = <<"page", t>> /\ x.node = o.node /\ x.from = o.from /\ x.to = o.from + PageSize
      /\ y.is = <<"rest", t>> /\ y.node = o.node /\ y.from = o.from + PageSize /\ y.to = o.to
      /\ o.from \in Nat /\ o.to \in Nat /\ o.from + PageSize \in Nat
  BY <1>1, Sizes DEF Page, Rest, Area, Addresses
<1>6. ASSUME NEW a \in Areas(th', net', tail')
      PROVE  a \in (Areas(th, net, tail) \ {o}) \cup {x, y}
  <2>1. ASSUME NEW u \in Users, NEW p \in th'[u].pages, a = Page(u, p)
        PROVE  a = x \/ (a \in Areas(th, net, tail) /\ a # o)
    <3>1. CASE u = t /\ p = r.cur
      BY <2>1, <3>1, Zenon
    <3>2. CASE ~(u = t /\ p = r.cur)
      <4>1. p \in th[u].pages
        BY <1>1, <1>2, <2>1, <3>2, ZenonT(40)
      <4>2. a \in Areas(th, net, tail)
        BY <2>1, <4>1, AreaCases, Zenon DEF IsArea
      <4>3. a.is = <<"page", u>>
        BY <2>1, Zenon DEF Page, Area
      <4>4. QED
        BY <4>2, <4>3
    <3>3. QED
      BY <3>1, <3>2, Zenon
  <2>2. ASSUME NEW u \in Users, th'[u].head # None, a = Rest(u, th'[u])
        PROVE  a = y \/ (a \in Areas(th, net, tail) /\ a # o)
    <3>1. CASE u = t
      BY <1>2, <2>2, <3>1, Zenon
    <3>2. CASE u # t
      <4>1. a \in Areas(th, net, tail)
        BY <1>2, <2>2, <3>2, AreaCases, Zenon DEF IsArea
      <4>2. a.is = <<"rest", u>>
        BY <2>2, Zenon DEF Rest, Area
      <4>3. QED
        BY <3>2, <4>1, <4>2
    <3>3. QED
      BY <3>1, <3>2, Zenon
  <2>3. ASSUME NEW q \in net', q.type = "reply", a = Sent(q)
        PROVE  a \in Areas(th, net, tail) /\ a # o
    <3>1. a \in Areas(th, net, tail)
      BY <2>3, AreaCases, Zenon DEF IsArea
    <3>2. a.is = <<"reply", q>>
      BY <2>3, Zenon DEF Sent, Area
    <3>3. QED
      BY <3>1, <3>2
  <2>4. ASSUME NEW d \in Directories, NEW i \in tail'[d]..(bitmap_len - 1), a = Chunk(d, i)
        PROVE  a \in Areas(th, net, tail) /\ a # o
    <3>1. a \in Areas(th, net, tail)
      BY <2>4, AreaCases, Zenon DEF IsArea
    <3>2. a.is = <<"chunk", d>>
      BY <2>4, Zenon DEF Chunk, Area
    <3>3. QED
      BY <3>1, <3>2
  <2>5. IsArea(th', net', tail', a)
    BY <1>6, AreaCases, Zenon
  <2> HIDE DEF x, y
  <2>6. QED
    BY <2>1, <2>2, <2>3, <2>4, <2>5, Zenon DEF IsArea
<1>7. Sound(Areas(th', net', tail'))
  <2>1. Areas(th', net', tail') \subseteq (Areas(th, net, tail) \ {o}) \cup {x, y}
    BY <1>6, Zenon
  <2> HIDE DEF x, y
  <2>2. (x = y \/ x.to <= y.from) /\ PartOf(x, o) /\ PartOf(y, o)
    BY <1>5, Sizes DEF PartOf
  <2>3. Sound(Areas(th, net, tail)) /\ o \in Areas(th, net, tail)
    BY Zenon
  <2> HIDE DEF x, y
  <2>4. QED
    BY ONLY <2>1, <2>2, <2>3, CutUp, Zenon
<1>8. QED
  BY <1>3, <1>4, <1>7, Zenon

LEMMA AllocStep ==
  ASSUME AllocInv, NEW m \in Machines, NEW t \in Users, alloc(m, t)
  PROVE  AllocInv'
<1> DEFINE r == th[t]
<1>1. r \in ThreadStates /\ r.pc = "run" /\ r.next \in Directories
  BY Zenon DEF AllocInv, ThreadInv, alloc, Allocates
<1>2. NodeInv' /\ tail' = tail
  BY Zenon DEF AllocInv, NodeInv, alloc
<1>3. CASE need_chunk(r)
  <2>1. /\ net' = net \cup {[type |-> "MALLOC", dir |-> r.next, node |-> node[m].id, app |-> r.id]}
        /\ th' = [th EXCEPT ![t].pc = "wait"]
    BY <1>3, Zenon DEF alloc
  <2>2. ThreadInv'
    BY <1>1, <2>1, Zenon DEF AllocInv, ThreadInv, ThreadStates
  <2>3. NetInv'
    BY <1>1, <1>2, <2>1 DEF AllocInv, NetInv
  <2>4. \A u \in Users : /\ th'[u].pages = th[u].pages /\ th'[u].head = th[u].head
                         /\ th'[u].cur = th[u].cur
    BY <2>1, Zenon DEF AllocInv, ThreadInv, ThreadStates
  <2>5. \A q \in net' : q.type = "reply" => q \in net
    BY <2>1
  <2>6. ASSUME NEW a \in Areas(th', net', tail') PROVE a \in Areas(th, net, tail)
    <3>1. \A u \in Users : Rest(u, th'[u]) = Rest(u, th[u])
      BY <2>4, Zenon DEF Rest
    <3>2. IsArea(th', net', tail, a)
      BY <1>2, <2>6, AreaCases, Zenon
    <3>3. IsArea(th, net, tail, a)
      BY <2>4, <2>5, <3>1, <3>2, Zenon DEF IsArea
    <3>4. QED
      BY <3>3, AreaCases, Zenon
  <2>7. Sound(Areas(th', net', tail'))
    BY <2>6, Zenon DEF AllocInv, Sound
  <2>8. QED
    BY <1>2, <2>2, <2>3, <2>7, Zenon DEF AllocInv
<1>4. CASE ~need_chunk(r)
  <2>1. th' = [th EXCEPT ![t] = malloc(r)] /\ net' = net
    BY <1>4, Zenon DEF alloc
  <2>2. /\ r.head # None /\ r.head \in Addresses /\ r.cur \in Addresses
        /\ r.cur.offset + PageSize <= r.head.offset + kChunkSize
    BY <1>4, Sizes DEF need_chunk, AllocInv, ThreadInv, Addresses
  <2> DEFINE o == Rest(t, r)
  <2>3. /\ o \in Areas(th, net, tail) /\ o.is = <<"rest", t>> /\ o.node = r.cur.node
        /\ o.from = r.cur.offset /\ o.to = r.head.offset + kChunkSize
    <3>1. o \in Areas(th, net, tail)
      BY <2>2, AreaCases, Zenon DEF IsArea
    <3>2. QED
      BY <3>1, Zenon DEF Rest, Area
  <2> HIDE DEF o
  <2>4. ThreadInv' /\ NetInv' /\ Sound(Areas(th', net', tail'))
    BY <1>1, <1>2, <2>1, <2>2, <2>3, TakePage, Zenon DEF AllocInv
  <2>5. QED
    BY <1>2, <2>4, Zenon DEF AllocInv
<1>5. QED
  BY <1>3, <1>4, Zenon

LEMMA NextTargetIsDirectory ==
  ASSUME NEW d \in Directories
  PROVE  NextTarget(d) \in Directories
<1>1. d[1] \in 0..(N - 1) /\ d[2] \in 0..(memThreadCount - 1)
  BY Zenon DEF Directories
<1>2. (d[1] + 1) % N \in 0..(N - 1)
  BY <1>1, Sizes
<1>3. d[2] + 1 # memThreadCount => d[2] + 1 \in 0..(memThreadCount - 1)
  BY <1>1, Sizes
<1>4. 0 \in 0..(memThreadCount - 1)
  BY Sizes
<1>5. QED
  BY <1>1, <1>2, <1>3, <1>4, Zenon DEF NextTarget, Directories

LEMMA WaitStep ==
  ASSUME AllocInv, NEW m \in Machines, NEW t \in Users, rpc_wait(m, t)
  PROVE  AllocInv'
<1>1. PICK q \in net :
        /\ q.type = "reply" /\ net' = net \ {q}
        /\ th' = [th EXCEPT ![t] = malloc([th[t] EXCEPT !.pc = "run", !.head = q.addr,
                                             !.cur = q.addr, !.next = NextTarget(@)])]
  BY Zenon DEF rpc_wait
<1> DEFINE r == [th[t] EXCEPT !.pc = "run", !.head = q.addr, !.cur = q.addr,
                              !.next = NextTarget(@)]
           o == Sent(q)
<1>2. q.addr \in Addresses
  BY <1>1, Zenon DEF AllocInv, NetInv
<1>3. th[t] \in ThreadStates /\ th[t].next \in Directories
  BY Zenon DEF AllocInv, ThreadInv, rpc_wait
<1>4. NextTarget(th[t].next) \in Directories
  BY <1>3, NextTargetIsDirectory, Zenon
<1>5. /\ r \in ThreadStates /\ r.head = q.addr /\ r.cur = q.addr /\ r.next \in Directories
      /\ r.pages = th[t].pages
  BY <1>2, <1>3, <1>4, Zenon DEF ThreadStates
<1>6. /\ o \in Areas(th, net, tail) /\ o.is = <<"reply", q>> /\ o.node = q.addr.node
      /\ o.from = q.addr.offset /\ o.to = q.addr.offset + kChunkSize
  <2>1. o \in Areas(th, net, tail)
    BY <1>1, AreaCases, Zenon DEF IsArea
  <2>2. QED
    BY <2>1, Zenon DEF Sent, Area
<1>7. q.addr.offset + PageSize <= q.addr.offset + kChunkSize
  BY <1>2, Sizes DEF Addresses
<1>8. th' = [th EXCEPT ![t] = malloc(r)] /\ net' \subseteq net /\ q \notin net'
  BY <1>1, Zenon
<1>9. NodeInv' /\ tail' = tail
  BY Zenon DEF AllocInv, NodeInv, rpc_wait
<1> HIDE DEF o, r
<1>10. ThreadInv' /\ NetInv' /\ Sound(Areas(th', net', tail'))
  BY <1>2, <1>5, <1>6, <1>7, <1>8, <1>9, TakePage, Zenon DEF AllocInv
<1>11. QED
  BY <1>9, <1>10, Zenon DEF AllocInv

LEMMA MessageStep ==
  ASSUME AllocInv, NEW m \in Machines, process_message(m)
  PROVE  AllocInv'
<1>1. PICK q \in net : q.type = "MALLOC" /\ alloc_chunck(m, q)
  BY Zenon DEF process_message
<1>2. th' = th /\ memc' = memc /\ node[m].pc # "aborted"
  BY Zenon DEF process_message
<1>3. CASE tail[q.dir] >= bitmap_len
  <2>1. SetNode(m, [pc |-> "aborted"]) /\ net' = net /\ tail' = tail
    BY <1>1, <1>3, Zenon DEF alloc_chunck
  <2>2. node[m].id \in Nat /\ node[m].appID \in Nat /\ memc.serverNum \in Nat
    BY Zenon DEF process_message, AllocInv, NodeInv
  <2>3. NodeInv'
    BY <1>2, <2>1, <2>2, WithField, NodeStep DEF AllocInv
  <2>4. ThreadInv' /\ NetInv'
    BY <1>2, <2>1, Zenon DEF AllocInv, ThreadInv, NetInv
  <2>5. QED
    BY <1>2, <2>1, <2>3, <2>4, Zenon DEF AllocInv
<1>4. CASE ~(tail[q.dir] >= bitmap_len)
  <2> DEFINE d == q.dir
             i == tail[d]
             a == [type |-> "reply", node |-> q.node, app |-> q.app, addr |-> Address(d, i)]
  <2>1. net' = (net \ {q}) \cup {a} /\ tail' = [tail EXCEPT ![d] = i + 1] /\ node' = node
    BY <1>1, <1>4, Zenon DEF alloc_chunck, Mark
  <2>2. d \in Directories /\ i \in 1..(bitmap_len - 1) /\ i \in Nat /\ tail \in [Directories -> 1..bitmap_len]
    BY <1>1, <1>4, Sizes DEF AllocInv, NetInv
  <2>3. a.type = "reply" /\ a.addr = Address(d, i) /\ Address(d, i) \in Addresses
    BY <2>2, ChunkOffset, Zenon
  <2> DEFINE o == Chunk(d, i)
             x == Sent(a)
  <2> HIDE DEF a
  <2>4. /\ o \in Areas(th, net, tail) /\ o.is = <<"chunk", d>> /\ o.from = Address(d, i).offset
        /\ x.node = o.node /\ x.from = o.from /\ x.to = o.to
    <3>1. i \in tail[d]..(bitmap_len - 1)
      BY <2>2, Sizes
    <3>2. o \in Areas(th, net, tail)
      BY <2>2, <3>1, AreaCases, Zenon DEF IsArea
    <3>3. QED
      BY <2>3, <3>2, Zenon DEF Chunk, Sent, Area
  <2>5. PartOf(x, o)
    BY <2>4 DEF AllocInv, Sound, InShare, PartOf
  <2>6. ASSUME NEW b \in Areas(th', net', tail')
        PROVE  b \in (Areas(th, net, tail) \ {o}) \cup {x, x}
    <3>1. ASSUME NEW u \in Users, NEW p \in th[u].pages, b = Page(u, p)
          PROVE  b \in Areas(th, net, tail) /\ b # o
      <4>1. b.is = <<"page", u>> /\ b \in Areas(th, net, tail)
        BY <3>1, AreaCases, Zenon DEF IsArea, Page, Area
      <4>2. QED
        BY <2>4, <4>1
    <3>2. ASSUME NEW u \in Users, th[u].head # None, b = Rest(u, th[u])
          PROVE  b \in Areas(th, net, tail) /\ b # o
      <4>1. b.is = <<"rest", u>> /\ b \in Areas(th, net, tail)
        BY <3>2, AreaCases, Zenon DEF IsArea, Rest, Area
      <4>2. QED
        BY <2>4, <4>1
    <3>3. ASSUME NEW z \in net', z.type = "reply", b = Sent(z)
          PROVE  b = x \/ (b \in Areas(th, net, tail) /\ b # o)
      <4>1. CASE z = a
        BY <3>3, <4>1, Zenon
      <4>2. CASE z # a
        <5>1. z \in net
          BY <2>1, <4>2, Zenon
        <5>2. b.is = <<"reply", z>> /\ b \in Areas(th, net, tail)
          BY <3>3, <5>1, AreaCases, Zenon DEF IsArea, Sent, Area
        <5>3. QED
          BY <2>4, <5>2
      <4>3. QED
        BY <4>1, <4>2, Zenon
    <3>4. ASSUME NEW e \in Directories, NEW j \in tail'[e]..(bitmap_len - 1), b = Chunk(e, j)
          PROVE  b \in Areas(th, net, tail) /\ b # o
      <4>1. tail[e] \in Nat /\ j \in tail[e]..(bitmap_len - 1) /\ (e = d => j # i) /\ j \in 1..(bitmap_len - 1)
        BY <2>1, <2>2, <3>4, Sizes
      <4>2. b.is = <<"chunk", e>> /\ b \in Areas(th, net, tail) /\ b.from = Address(e, j).offset
        BY <3>4, <4>1, AreaCases, Zenon DEF IsArea, Chunk, Area
      <4>3. CASE e # d
        BY <2>4, <4>2, <4>3
      <4>4. CASE e = d
        <5>1. Apart(Chunk(d, i), Chunk(e, j))
          BY <2>2, <4>1, <4>4, ChunksAreApart, Zenon
        <5>2. Chunk(d, i).to = Chunk(d, i).from + kChunkSize /\ Chunk(d, i).from \in Nat /\ kChunkSize > 0
          BY <2>3, Sizes DEF Chunk, Area, Addresses
        <5>3. b # o
          BY <3>4, <5>1, <5>2, Sizes DEF Apart
        <5>4. QED
          BY <4>2, <5>3, Zenon
      <4>5. QED
        BY <4>3, <4>4, Zenon
    <3>5. IsArea(th, net', tail', b)
      BY <1>2, <2>6, AreaCases, Zenon
    <3> HIDE DEF x, o
    <3>6. QED
      BY <3>1, <3>2, <3>3, <3>4, <3>5, Zenon DEF IsArea
  <2>7. Sound(Areas(th', net', tail'))
    <3>1. Areas(th', net', tail') \subseteq (Areas(th, net, tail) \ {o}) \cup {x, x}
      BY <2>6, Zenon
    <3>2. Sound(Areas(th, net, tail)) /\ o \in Areas(th, net, tail)
      BY <2>4, Zenon DEF AllocInv
    <3> HIDE DEF x, o
    <3>3. QED
      BY ONLY <2>5, <3>1, <3>2, CutUp, Zenon
  <2>8. NetInv'
    <3>1. tail' \in [Directories -> 1..bitmap_len]
      BY <2>1, <2>2, Sizes
    <3>2. QED
      BY <2>1, <2>3, <3>1, Zenon DEF AllocInv, NetInv
  <2>9. ThreadInv' /\ NodeInv'
    BY <1>2, <2>1, Zenon DEF AllocInv, ThreadInv, NodeInv
  <2>10. QED
    BY <2>7, <2>8, <2>9, Zenon DEF AllocInv
<1>5. QED
  BY <1>3, <1>4, Zenon

LEMMA RegisterStep ==
  ASSUME AllocInv, NEW m \in Machines, NEW t \in Users, registerThread(m, t)
  PROVE  AllocInv'
<1> DEFINE s == node[m]
           n == s.appID + s.id
           next == <<n % N, n % memThreadCount>>
           where == IF t = m THEN "tree" ELSE "spawn"
<1>1. s.appID \in Nat /\ s.id \in Nat /\ s.pc \in {"register", "spawn"}
  BY Zenon DEF registerThread, AllocInv, NodeInv
<1>2. /\ th' = [th EXCEPT ![t].pc = "run", ![t].id = s.appID, ![t].next = next]
      /\ SetNode(m, [appID |-> s.appID + 1, pc |-> where])
      /\ memc' = memc /\ tail' = tail /\ net' = net
  BY Zenon DEF registerThread, fetch_add
<1>3. next \in Directories
  BY <1>1, Sizes DEF Directories
<1>4. NodeInv'
  <2>1. memc.serverNum \in Nat /\ s.appID + 1 \in Nat /\ where \notin {"enter", "reset", "add", "spin"}
    BY <1>1 DEF AllocInv, NodeInv
  <2> HIDE DEF where
  <2>2. QED
    BY <1>1, <1>2, <2>1, WithField, NodeStep, ZenonT(40) DEF AllocInv
<1> HIDE DEF next
<1> DEFINE r == [th[t] EXCEPT !.pc = "run", !.id = s.appID, !.next = next]
<1>5. th[t] \in ThreadStates /\ th' = [th EXCEPT ![t] = r]
  BY <1>2, Zenon DEF AllocInv, ThreadInv
<1>6. /\ r \in ThreadStates /\ r.pages = th[t].pages /\ r.head = th[t].head /\ r.cur = th[t].cur
      /\ r.next \in Directories
  BY <1>1, <1>3, <1>5, Zenon DEF ThreadStates
<1> HIDE DEF r
<1>7. /\ ThreadInv'
      /\ \A u \in Users : /\ th'[u].pages = th[u].pages /\ th'[u].head = th[u].head
                           /\ th'[u].cur = th[u].cur
  BY <1>5, <1>6, Zenon DEF AllocInv, ThreadInv
<1>8. ASSUME NEW a \in Areas(th', net', tail') PROVE a \in Areas(th, net, tail)
  <2>1. \A u \in Users : Rest(u, th'[u]) = Rest(u, th[u])
    BY <1>7, Zenon DEF Rest
  <2>2. IsArea(th', net, tail, a)
    BY <1>2, <1>8, AreaCases, Zenon
  <2>3. IsArea(th, net, tail, a)
    BY <1>7, <2>1, <2>2, Zenon DEF IsArea
  <2>4. QED
    BY <2>3, AreaCases, Zenon
<1>9. Sound(Areas(th', net', tail'))
  BY <1>8, Zenon DEF AllocInv, Sound
<1>10. NetInv'
  BY <1>2, Zenon DEF AllocInv, NetInv
<1>11. QED
  BY <1>4, <1>7, <1>9, <1>10, Zenon DEF AllocInv

LEMMA AllocInit == ClusterInit => AllocInv
<1> SUFFICES ASSUME ClusterInit PROVE AllocInv
  BY Zenon
<1>1. NodeInv
  BY Zenon DEF ClusterInit, NodeInv, Process
<1>2. ThreadInv
  BY Zenon DEF ClusterInit, ThreadInv, ThreadStates, Unregistered, Users
<1>3. NetInv
  BY Sizes DEF ClusterInit, NetInv
<1>4. ASSUME NEW a \in Areas(th, net, tail)
      PROVE  \E d \in Directories : \E i \in 1..(bitmap_len - 1) : a = Chunk(d, i)
  <2>1. /\ \A t \in Users : th[t].pages = {} /\ th[t].head = None
        /\ net = {} /\ \A d \in Directories : tail[d] = 1
    BY Zenon DEF ClusterInit, Unregistered, Users
  <2>2. IsArea(th, net, tail, a)
    BY <1>4, AreaCases, Zenon
  <2>3. QED
    BY <2>1, <2>2, Zenon DEF IsArea
<1>5. Sound(Areas(th, net, tail))
  BY <1>4, ChunkInShare, ChunksAreApart DEF Sound
<1>6. QED
  BY <1>1, <1>2, <1>3, <1>5, Zenon DEF AllocInv

LEMMA AllocNext == AllocInv /\ [ClusterNext]_clusterVars => AllocInv'
<1> SUFFICES ASSUME AllocInv, [ClusterNext]_clusterVars PROVE AllocInv'
  BY Zenon
<1>1. ASSUME UNCHANGED dsmVars PROVE AllocInv'
  BY <1>1, Zenon DEF dsmVars, AllocInv, NodeInv, ThreadInv, NetInv
<1>2. ASSUME NEW m \in Machines, MainStep(m) PROVE AllocInv'
  <2>1. th' = th /\ net' = net /\ tail' = tail
    BY <1>2, Zenon DEF MainStep, serverEnter, serverConnect, setDataToRemote, setDataFromRemote,
       barrier_reset, memFetchAndAdd, barrier, InstallRoot, warm_finish, join, sum
  <2>2. NodeInv'
    BY <1>2, MainNodeInv, Zenon DEF AllocInv
  <2>3. QED
    BY <2>1, <2>2, Zenon DEF AllocInv, ThreadInv, NetInv
<1>3. ASSUME NEW m \in Machines, NEW t \in Threads \cup Machines, ThreadStep(m, t) PROVE AllocInv'
  BY <1>1, <1>3, RegisterStep, AllocStep, WaitStep, Zenon DEF ThreadStep, Works, Users
<1>4. CASE Land \/ \E r \in Readers : Searches(r)
  BY <1>1, <1>4, Zenon DEF Land, Searches
<1>5. CASE UNCHANGED clusterVars
  BY <1>1, <1>5, Zenon DEF clusterVars
<1>6. QED
  BY <1>2, <1>3, <1>4, <1>5, MessageStep, Zenon DEF ClusterNext

(* Pages that alloc returns never overlap and each lies in the share of one   *)
(* directory, behind its first chunk: for any machines, threads, directories  *)
(* and sizes with a page and its slack no larger than a chunk, and in         *)
(* whatever order requests and replies travel (LocalAllocator.h,              *)
(* GlobalAllocator.h, DSM.h).                                                 *)
THEOREM PagesStayDisjoint == ClusterSpec => []PagesAreDisjoint
<1>1. AllocInv => PagesAreDisjoint
  <2> SUFFICES ASSUME AllocInv PROVE PagesAreDisjoint
    BY Zenon
  <2>1. \A x \in Pages : \E t \in Users : \E p \in th[t].pages : x = <<t, p>>
    BY Zenon DEF Pages, AllocInv, ThreadInv
  <2>2. ASSUME NEW t \in Users, NEW p \in th[t].pages
        PROVE  /\ p \in Addresses /\ Page(t, p) \in Areas(th, net, tail)
               /\ Page(t, p).is = <<"page", t>> /\ Page(t, p).node = p.node
               /\ Page(t, p).from = p.offset /\ Page(t, p).to = p.offset + PageSize
    <3>1. p \in Addresses
      BY Zenon DEF AllocInv, ThreadInv, ThreadStates
    <3>2. Page(t, p) \in Areas(th, net, tail)
      BY AreaCases, Zenon DEF IsArea
    <3>3. QED
      BY <3>1, <3>2, Zenon DEF Page, Area
  <2>3. ASSUME NEW t \in Users, NEW p \in th[t].pages, NEW u \in Users, NEW q \in th[u].pages,
               <<t, p>> # <<u, q>>
        PROVE  ~Overlap(p, q)
    <3>1. Page(t, p) # Page(u, q)
      BY <2>2, <2>3 DEF Addresses
    <3>2. Apart(Page(t, p), Page(u, q))
      BY <2>2, <3>1, Zenon DEF AllocInv, Sound
    <3>3. QED
      BY <2>2, <3>2, Sizes DEF Apart, Overlap, Addresses
  <2>4. ASSUME NEW t \in Users, NEW p \in th[t].pages
        PROVE  \E d \in Directories : /\ p.node = d[1] /\ p.offset >= Address(d, 1).offset
                                      /\ p.offset + PageSize <= Address(d, bitmap_len).offset
    BY <2>2 DEF AllocInv, Sound, InShare
  <2>5. \A x, y \in Pages : x # y => ~Overlap(x[2], y[2])
    BY <2>1, <2>3
  <2>6. QED
    BY <2>1, <2>4, <2>5 DEF PagesAreDisjoint
<1>2. QED
  BY <1>1, AllocInit, AllocNext, PTL DEF ClusterSpec

-----------------------------------------------------------------------------
(* The barriers.  The key of a barrier never counts more machines than have   *)
(* added to it, and the machines that take part are no more than it waits     *)
(* for, having different numbers; so when it opens all of them have come.     *)

INSTANCE FiniteSetTheorems

Waits == {"reset", "add", "spin", "aborted"}

(* Of the process s of a machine: it takes part in b, has come to it, has     *)
(* added to its key, is beyond it.                                            *)
Take(s, b) == s.id \in 0..(Num(b) - 1)
Reached(s, b) == Order(s.at) >= Order(b)
Came(s, b) == Reached(s, b) /\ ~(s.at = b /\ s.pc \in {"reset", "add"})
Out(s, b) == Reached(s, b) /\ (s.at # b \/ s.pc \notin Waits)

AtBarrier(b) == {m \in Machines : Take(node[m], b) /\ Came(node[m], b)}

Met(b) == \A m \in Machines : Take(node[m], b) \/ node[m].id = None => Reached(node[m], b)

Entered == {m \in Machines : node[m].id # None}

IdInv ==
  /\ memc.serverNum \in Nat /\ memc.serverNum = Cardinality(Entered)
  /\ \A m \in Machines : node[m].id # None => node[m].id \in 0..(memc.serverNum - 1)
  /\ \A m, l \in Entered : node[m].id = node[l].id => m = l
  /\ \A k \in 0..(memc.serverNum - 1) : \E m \in Machines : node[m].id = k

(* Where a process is tells which barrier was its last. *)
Stage(s) ==
  /\ s.at \in Barriers \cup {None}
  /\ s.pc = "enter" <=> s.id = None
  /\ s.pc \in {"enter", "connect", "peer", "get_meta"} => s.at = None
  /\ s.pc \in {"reset", "add", "spin"} => s.at # None
  /\ s.pc \in {"register", "tree"} => s.at = "DSM-init" /\ s.id < CNodeCount
  /\ s.pc = "spawn" => s.at = "bulkload"
  /\ s.pc \in {"run", "sum"} => s.at = "warm_finish"
  /\ s.pc = "end" => s.at = "finish"
  /\ s.at \in {"bulkload", "warm_finish"} => s.id < CNodeCount /\ root # None

(* The machines that a process has connected to have its meta data. *)
Knows(s, n) == \A j \in 0..(n - 1) : j # s.id => <<s.id, j>> \in memc.meta

Peers(s) ==
  /\ s.curServer \in 0..memc.serverNum /\ Knows(s, s.curServer)
  /\ s.pc = "enter" => s.curServer = 0
  /\ s.at # None => s.curServer >= N
  /\ s.pc \in {"peer", "get_meta"} =>
       s.serverNum \in 0..memc.serverNum /\ s.k \in 0..s.serverNum /\ Knows(s, s.k)
  /\ s.pc = "get_meta" => <<s.id, s.k>> \in memc.meta /\ s.k < s.serverNum

WorkOf(k) == UNION {Work(n) : n \in 0..(k - 1)}

Summed(s) ==
  /\ s.total # None => s.at \in {"warm_finish", "finish"}
  /\ s.pc = "sum" => /\ s.k \in Nodes /\ IsFiniteSet(WorkOf(s.k))
                     /\ s.total = Cardinality(WorkOf(s.k))
  /\ s.at = "finish" /\ s.total # None => s.total = Cardinality(WorkOf(CNodeCount))

SumInv ==
  /\ cast \in Setups
  /\ \A part \in memc.sum : part[1] \in Nodes /\ part[2] = cast.limit[part[1]]

CountInv ==
  /\ DOMAIN memc.barrier = Barriers
  /\ \A b \in Barriers : memc.barrier[b] # None =>
       memc.barrier[b] \in Nat /\ memc.barrier[b] <= Cardinality(AtBarrier(b))

MeetInv ==
  \A m \in Machines : \A b \in Barriers : Take(node[m], b) /\ Out(node[m], b) => Met(b)

ProcessInv == \A m \in Machines : Stage(node[m]) /\ Peers(node[m]) /\ Summed(node[m])

BarrierInv == IdInv /\ ProcessInv /\ SumInv /\ CountInv /\ MeetInv

LEMMA Counts ==
  /\ N \in Nat \ {0} /\ CNodeCount \in Nat \ {0} /\ CNodeCount <= N /\ Nodes = 0..(CNodeCount - 1)
  /\ IsFiniteSet(Machines) /\ Cardinality(Machines) = N
  /\ \A b \in Barriers : Num(b) \in {N, CNodeCount} /\ Order(b) \in 1..4
  /\ \A b, c \in Barriers : Order(b) = Order(c) => b = c
  /\ Order(None) = 0 /\ None \notin Barriers /\ None \notin Nat
<1>1. None \notin Barriers /\ None \notin Nat
  BY NoneAssumption
<1>2. Order(None) = 0
  BY <1>1 DEF Order, Barriers
<1>3. \A b \in Barriers : Num(b) \in {N, CNodeCount} /\ Order(b) \in 1..4
  BY DEF Num, Order, Barriers
<1>4. \A b, c \in Barriers : Order(b) = Order(c) => b = c
  BY DEF Order, Barriers
<1>5. IsFiniteSet(Machines) /\ Cardinality(Machines) = N
  BY DSMAssumption, Zenon DEF N
<1>6. QED
  BY <1>1, <1>2, <1>3, <1>4, <1>5, DSMAssumption

(* No more machines have a number below n than n. *)
LEMMA NumbersAreFew ==
  ASSUME IdInv, NEW n \in Nat
  PROVE  LET P == {m \in Machines : node[m].id \in 0..(n - 1)}
         IN  IsFiniteSet(P) /\ Cardinality(P) <= n
<1> DEFINE P == {m \in Machines : node[m].id \in 0..(n - 1)}
           f == [m \in P |-> node[m].id]
<1>1. \A m \in P : m \in Machines /\ node[m].id \in 0..(n - 1) /\ node[m].id # None
  BY Counts
<1>2. f \in [P -> 0..(n - 1)]
  BY <1>1, Zenon
<1>3. \A m, l \in P : f[m] = f[l] => m = l
  BY <1>1, Zenon DEF IdInv, Entered
<1> HIDE DEF P, f
<1>4. f \in Injection(P, 0..(n - 1))
  BY <1>2, <1>3, Zenon DEF Injection, IsInjective
<1>5. IsFiniteSet(0..(n - 1)) /\ Cardinality(0..(n - 1)) = n
  <2>1. 0 \in Int /\ n - 1 \in Int
    OBVIOUS
  <2>2. /\ IsFiniteSet(0..(n - 1))
        /\ Cardinality(0..(n - 1)) = IF 0 > n - 1 THEN 0 ELSE n - 1 - 0 + 1
    BY <2>1, FS_Interval, Zenon
  <2>3. QED
    BY <2>2
<1>6. IsFiniteSet(P) /\ Cardinality(P) <= Cardinality(0..(n - 1))
  BY <1>4, <1>5, FS_Injection
<1>7. QED
  BY <1>5, <1>6, Zenon DEF P

(* The machines come to N, and their numbers are below it. *)
LEMMA NumbersAreSmall ==
  ASSUME IdInv
  PROVE  /\ IsFiniteSet(Entered) /\ memc.serverNum <= N
         /\ \A m \in Entered : node[m].id \in 0..(N - 1)
<1>1. Entered \in SUBSET Machines
  BY Zenon DEF Entered
<1>2. IsFiniteSet(Entered) /\ Cardinality(Entered) <= Cardinality(Machines)
  BY <1>1, Counts, FS_Subset, Zenon
<1>3. memc.serverNum \in Nat /\ memc.serverNum <= N
  BY <1>2, Counts, Zenon DEF IdInv
<1>4. \A m \in Entered : node[m].id \in 0..(memc.serverNum - 1)
  BY Zenon DEF IdInv, Entered
<1>5. QED
  BY <1>2, <1>3, <1>4, Counts

LEMMA AtBarrierIsFinite ==
  ASSUME NEW b
  PROVE  /\ IsFiniteSet(AtBarrier(b)) /\ Cardinality(AtBarrier(b)) \in Nat
         /\ IsFiniteSet(AtBarrier(b)') /\ Cardinality(AtBarrier(b)') \in Nat
         /\ AtBarrier(b) \subseteq AtBarrier(b)' => Cardinality(AtBarrier(b)) <= Cardinality(AtBarrier(b)')
<1>1. AtBarrier(b) \in SUBSET Machines /\ AtBarrier(b)' \in SUBSET Machines
  BY Zenon DEF AtBarrier
<1>2. IsFiniteSet(AtBarrier(b)) /\ IsFiniteSet(AtBarrier(b)')
  BY <1>1, Counts, FS_Subset, Zenon
<1>3. Cardinality(AtBarrier(b)) \in Nat /\ Cardinality(AtBarrier(b)') \in Nat
  BY <1>2, FS_CardinalityType, Zenon
<1>4. ASSUME AtBarrier(b) \in SUBSET AtBarrier(b)'
      PROVE  Cardinality(AtBarrier(b)) <= Cardinality(AtBarrier(b)')
  BY <1>2, <1>4, FS_Subset, Zenon
<1>5. QED
  BY <1>2, <1>3, <1>4, Zenon

(* When the key of a barrier shows what it waits for, all have come that take *)
(* part.                                                                      *)
LEMMA OpenMeets ==
  ASSUME BarrierInv, NEW m \in Machines, node[m].at \in Barriers, node[m].id # None, Open(node[m].at)
  PROVE  Met(node[m].at)
<1> DEFINE b == node[m].at
           P == {l \in Machines : node[l].id \in 0..(Num(b) - 1)}
<1>0. b \in Barriers /\ Num(b) \in Nat /\ memc.barrier[b] = Num(b)
  BY Counts, Zenon DEF Open
<1>1. Num(b) <= Cardinality(AtBarrier(b))
  <2>1. Num(b) # None
    BY <1>0, Counts, Zenon
  <2>2. QED
    BY <1>0, <2>1, Zenon DEF BarrierInv, CountInv
<1>2. AtBarrier(b) = P
  <2>1. AtBarrier(b) \in SUBSET P
    BY Zenon DEF AtBarrier, Take
  <2>2. IsFiniteSet(P) /\ Cardinality(P) <= Num(b)
    BY <1>0, NumbersAreFew, Zenon DEF BarrierInv
  <2> HIDE DEF P
  <2>3. /\ Cardinality(AtBarrier(b)) <= Cardinality(P)
        /\ (Cardinality(P) = Cardinality(AtBarrier(b)) => P = AtBarrier(b))
    BY <2>1, <2>2, FS_Subset, Zenon
  <2>4. Cardinality(P) \in Nat /\ Cardinality(AtBarrier(b)) \in Nat
    BY <2>2, AtBarrierIsFinite, FS_CardinalityType, Zenon
  <2>5. Cardinality(P) = Cardinality(AtBarrier(b))
    BY <1>0, <1>1, <2>2, <2>3, <2>4
  <2>6. QED
    BY <2>3, <2>5, Zenon
<1>3. ASSUME NEW l \in Machines, Take(node[l], b) PROVE Reached(node[l], b)
  <2>1. l \in AtBarrier(b)
    BY <1>2, <1>3, Zenon DEF Take
  <2>2. QED
    BY <2>1, Zenon DEF AtBarrier, Came
<1>4. ASSUME NEW l \in Machines, node[l].id = None PROVE FALSE
  <2>1. node[l].at = None
    BY <1>4, Zenon DEF BarrierInv, ProcessInv, Stage
  <2>2. CASE Num(b) = N
    <3>1. P \in SUBSET Machines /\ l \notin P
      BY <1>4, Counts
    <3>2. Cardinality(P) = Cardinality(Machines) => P = Machines
      <4> HIDE DEF P
      <4>1. QED
        BY <3>1, Counts, FS_Subset, Zenon
    <3>3. Cardinality(P) <= Cardinality(Machines) /\ Cardinality(P) \in Nat
      <4> HIDE DEF P
      <4>1. QED
        BY <3>1, Counts, FS_Subset, FS_CardinalityType, Zenon
    <3>4. N <= Cardinality(P)
      <4> HIDE DEF P
      <4>1. QED
        BY <1>1, <1>2, <2>2, Zenon
    <3>5. Cardinality(P) = Cardinality(Machines)
      <4> HIDE DEF P
      <4>1. QED
        BY <3>3, <3>4, Counts
    <3>6. QED
      BY <3>1, <3>2, <3>5, Zenon
  <2>3. CASE Num(b) # N
    <3>1. b \in {"bulkload", "warm_finish"} /\ "DSM-init" \in Barriers
      BY <1>0, <2>3 DEF Num, Barriers
    <3>2. Out(node[m], "DSM-init")
      BY <3>1 DEF Out, Reached, Order
    <3>3. Take(node[m], "DSM-init")
      <4>1. m \in Entered /\ Num("DSM-init") = N
        BY DEF Entered, Num
      <4>2. QED
        BY <4>1, NumbersAreSmall, Zenon DEF BarrierInv, Take
    <3>4. Reached(node[l], "DSM-init")
      BY <1>4, <3>1, <3>2, <3>3, Zenon DEF BarrierInv, MeetInv, Met
    <3>5. QED
      BY <2>1, <3>4, Counts DEF Reached, Order
  <2>4. QED
    BY <2>2, <2>3, Zenon
<1>5. QED
  BY <1>3, <1>4, Zenon DEF Met

(* What a step of a process may do to the machines at barriers. *)
Forward(r, s) ==
  /\ s.id = r.id \/ r.id = None
  /\ \A b \in Barriers : /\ Reached(r, b) => Reached(s, b)
                         /\ Came(r, b) => Came(s, b)
                         /\ Take(s, b) /\ Out(s, b) => Out(r, b) \/ Met(b)

LEMMA StaysThere ==
  ASSUME NEW r, NEW s, s.id = r.id \/ r.id = None, s.at = r.at,
         s.pc \in {"reset", "add"} => r.pc \in {"reset", "add"},
         s.pc \in Waits \/ r.pc \notin Waits \/ s.at \notin Barriers \/ Met(s.at)
  PROVE  Forward(r, s)
<1>1. \A b \in Barriers : Reached(r, b) => Reached(s, b)
  BY Zenon DEF Reached
<1>2. \A b \in Barriers : Came(r, b) => Came(s, b)
  BY <1>1, Zenon DEF Came
<1>3. ASSUME NEW b \in Barriers, Out(s, b), ~Met(b) PROVE Out(r, b)
  <2>1. Reached(r, b) /\ (r.at = b => s.pc \notin Waits)
    BY <1>3, Zenon DEF Out, Reached
  <2>2. r.at = b => r.pc \notin Waits
    BY <1>3, <2>1, Zenon
  <2>3. QED
    BY <2>1, <2>2, Zenon DEF Out
<1>4. QED
  BY <1>1, <1>2, <1>3, Zenon DEF Forward

(* ToBarrier, for the next barrier. *)
LEMMA GoesOn ==
  ASSUME NEW r, NEW s, s.id = r.id, r.at \in Barriers \cup {None}, s.at \in Barriers,
         r.pc \notin Waits, s.pc \in {"reset", "add"}, Order(s.at) = Order(r.at) + 1
  PROVE  Forward(r, s)
<1>1. ASSUME NEW b \in Barriers
      PROVE  /\ Reached(r, b) => Reached(s, b) /\ s.at # b
             /\ Reached(s, b) /\ ~Reached(r, b) => s.at = b
  <2>1. /\ Order(b) \in Nat /\ Order(r.at) \in Nat /\ Order(s.at) \in Nat
        /\ (Order(b) = Order(s.at) => b = s.at)
    <3>1. \A c \in Barriers \cup {None} : Order(c) \in Nat
      BY Counts
    <3>2. Order(b) = Order(s.at) => b = s.at
      BY Counts, Zenon
    <3>3. QED
      BY <3>1, <3>2, Zenon
  <2>2. QED
    BY <2>1 DEF Reached
<1>2. \A b \in Barriers : Came(r, b) => Came(s, b)
  BY <1>1, Zenon DEF Came
<1>3. ASSUME NEW b \in Barriers, Out(s, b) PROVE Out(r, b)
  <2>1. s.pc \in Waits /\ Reached(s, b) /\ s.at # b
    BY <1>3, Zenon DEF Out, Waits
  <2>2. QED
    BY <1>1, <2>1, Zenon DEF Out
<1>4. QED
  BY <1>1, <1>2, <1>3, Zenon DEF Forward

LEMMA Moves ==
  ASSUME MeetInv, NEW m \in Machines, NEW s, DOMAIN node = Machines,
         node' = [node EXCEPT ![m] = s], Forward(node[m], s), node[m].id = None => node[m].at = None
  PROVE  MeetInv' /\ \A b \in Barriers : AtBarrier(b) \subseteq AtBarrier(b)'
<1>1. node'[m] = s /\ \A l \in Machines \ {m} : node'[l] = node[l]
  BY Zenon
<1>2. \A b \in Barriers, l \in Machines :
        /\ Take(node[l], b)' <=> Take(node'[l], b)
        /\ Came(node[l], b)' <=> Came(node'[l], b)
        /\ Out(node[l], b)' <=> Out(node'[l], b)
        /\ Reached(node[l], b)' <=> Reached(node'[l], b)
  BY Zenon DEF Take, Came, Out, Reached
<1>3. \A b \in Barriers : Take(node[m], b) => Take(s, b)
  BY Counts DEF Forward, Take
<1>4. ASSUME NEW b \in Barriers, Met(b) PROVE Met(b)'
  <2>1. ASSUME NEW l \in Machines, Take(node'[l], b) \/ node'[l].id = None
        PROVE  Reached(node'[l], b)
    <3>1. CASE l = m
      <4>1. Take(s, b) \/ s.id = None
        BY <1>1, <2>1, <3>1, Zenon
      <4>2. Take(node[m], b) \/ node[m].id = None
        BY <4>1, Zenon DEF Forward, Take
      <4>3. Reached(s, b)
        BY <1>4, <4>2, Zenon DEF Met, Forward
      <4>4. QED
        BY <1>1, <3>1, <4>3, Zenon
    <3>2. CASE l # m
      <4>1. node'[l] = node[l]
        BY <1>1, <3>2, Zenon
      <4>2. QED
        BY <1>4, <2>1, <4>1, Zenon DEF Met
    <3>3. QED
      BY <3>1, <3>2, Zenon
  <2>2. QED
    BY <1>2, <2>1, Zenon DEF Met
<1>5. ASSUME NEW l \in Machines, NEW b \in Barriers, Take(node'[l], b), Out(node'[l], b)
      PROVE  Met(b)
  <2>1. CASE l = m
    <3>1. Take(s, b) /\ (Out(node[m], b) \/ Met(b))
      BY <1>1, <1>5, <2>1, Zenon DEF Forward
    <3>2. Take(node[m], b) \/ node[m].id = None
      BY <3>1, Zenon DEF Forward, Take
    <3>3. CASE Take(node[m], b)
      BY <3>1, <3>3, Zenon DEF MeetInv
    <3>4. CASE node[m].id = None
      <4>1. node[m].at = None /\ Order(b) \in 1..4 /\ Order(None) = 0
        BY <3>4, Counts, Zenon
      <4>2. ~Out(node[m], b)
        BY <4>1 DEF Out, Reached
      <4>3. QED
        BY <3>1, <4>2, Zenon
    <3>5. QED
      BY <3>2, <3>3, <3>4, Zenon
  <2>2. CASE l # m
    <3>1. node'[l] = node[l]
      BY <1>1, <2>2, Zenon
    <3>2. QED
      BY <1>5, <3>1, Zenon DEF MeetInv
  <2>3. QED
    BY <2>1, <2>2, Zenon
<1>6. MeetInv'
  BY <1>2, <1>4, <1>5, Zenon DEF MeetInv
<1>7. ASSUME NEW b \in Barriers, NEW l \in AtBarrier(b) PROVE l \in AtBarrier(b)'
  <2>1. l \in Machines /\ Take(node[l], b) /\ Came(node[l], b)
    BY <1>7, Zenon DEF AtBarrier
  <2>2. Take(node'[l], b) /\ Came(node'[l], b)
    <3>1. CASE l = m
      BY <1>1, <1>3, <2>1, <3>1, Zenon DEF Forward
    <3>2. CASE l # m
      BY <1>1, <2>1, <3>2, Zenon
    <3>3. QED
      BY <3>1, <3>2, Zenon
  <2>3. QED
    BY <1>2, <2>1, <2>2, Zenon DEF AtBarrier
<1>8. QED
  BY <1>6, <1>7, Zenon

(* A step of machine m keeps the invariant if it keeps it for m. *)
LEMMA BarrierStep ==
  ASSUME BarrierInv, NEW m \in Machines, DOMAIN node = Machines,
         node' = [node EXCEPT ![m] = node'[m]],
         Forward(node[m], node'[m]), Stage(node[m])', Peers(node[m])', Summed(node[m])',
         memc'.serverNum \in Nat, memc.serverNum <= memc'.serverNum, memc.meta \subseteq memc'.meta,
         IdInv' \/ (node'[m].id = node[m].id /\ memc'.serverNum = memc.serverNum),
         CountInv' \/ memc'.barrier = memc.barrier,
         SumInv', root # None => root' # None, cast' = cast
  PROVE  BarrierInv'
<1>0. IdInv /\ ProcessInv /\ CountInv /\ MeetInv
  BY Zenon DEF BarrierInv
<1>1. \A l \in Machines \ {m} : node'[l] = node[l]
  BY Zenon
<1>2. IdInv'
  <2> SUFFICES ASSUME node'[m].id = node[m].id, memc'.serverNum = memc.serverNum PROVE IdInv'
    BY Zenon
  <2>1. \A l \in Machines : node'[l].id = node[l].id
    BY <1>1, Zenon
  <2>2. Entered' = Entered
    BY <2>1, Zenon DEF Entered
  <2>3. /\ memc.serverNum \in Nat /\ memc.serverNum = Cardinality(Entered)
        /\ \A l \in Machines : node[l].id # None => node[l].id \in 0..(memc.serverNum - 1)
        /\ \A l, k \in Entered : node[l].id = node[k].id => l = k
        /\ \A k \in 0..(memc.serverNum - 1) : \E l \in Machines : node[l].id = k
    BY <1>0, Zenon DEF IdInv
  <2>4. \A l \in Machines : node'[l].id # None => node'[l].id \in 0..(memc'.serverNum - 1)
    BY <2>1, <2>3, Zenon
  <2>5. \A l, k \in Entered' : node'[l].id = node'[k].id => l = k
    <3>1. \A l \in Entered : l \in Machines /\ node'[l].id = node[l].id
      BY <2>1, Zenon DEF Entered
    <3>2. \A l, k \in Entered : node'[l].id = node'[k].id => l = k
      BY <2>3, <3>1
    <3>3. QED
      BY <2>2, <3>2, Zenon
  <2>6. \A k \in 0..(memc'.serverNum - 1) : \E l \in Machines : node'[l].id = k
    BY <2>1, <2>3
  <2>7. QED
    BY <2>2, <2>3, <2>4, <2>5, <2>6, Zenon DEF IdInv
<1>3. /\ MeetInv' /\ \A b \in Barriers : AtBarrier(b) \subseteq AtBarrier(b)'
  <2>1. node[m].id = None => node[m].at = None
    BY <1>0, Zenon DEF ProcessInv, Stage
  <2>2. QED
    BY <1>0, <2>1, Moves, Zenon
<1>4. CountInv'
  <2> SUFFICES ASSUME memc'.barrier = memc.barrier PROVE CountInv'
    BY Zenon
  <2>1. ASSUME NEW b \in Barriers
        PROVE  Cardinality(AtBarrier(b)) <= Cardinality(AtBarrier(b)') /\ Cardinality(AtBarrier(b)) \in Nat
               /\ Cardinality(AtBarrier(b)') \in Nat
    BY <1>3, AtBarrierIsFinite, ZenonT(40)
  <2>2. ASSUME NEW b \in Barriers, memc.barrier[b] # None
        PROVE  memc.barrier[b] \in Nat /\ memc.barrier[b] <= Cardinality(AtBarrier(b)')
    <3>1. memc.barrier[b] \in Nat /\ memc.barrier[b] <= Cardinality(AtBarrier(b))
      BY <1>0, <2>2, Zenon DEF CountInv
    <3>2. QED
      BY <2>1, <3>1
  <2>3. QED
    BY <1>0, <2>2, Zenon DEF CountInv
<1>5. ASSUME NEW l \in Machines PROVE Stage(node[l])' /\ Peers(node[l])' /\ Summed(node[l])'
  <2>1. CASE l = m
    BY <2>1, Zenon
  <2>2. CASE l # m
    <3>1. node'[l] = node[l] /\ Stage(node[l]) /\ Peers(node[l]) /\ Summed(node[l])
      BY <1>0, <1>1, <2>2, Zenon DEF ProcessInv
    <3>2. Stage(node[l])'
      BY <3>1, ZenonT(40) DEF Stage
    <3>3. Summed(node[l])'
      <4>1. \A k : WorkOf(k)' = WorkOf(k)
        BY Zenon DEF WorkOf, Work
      <4>2. QED
        BY <3>1, <4>1, Zenon DEF Summed
    <3>4. 0..memc.serverNum \subseteq 0..memc'.serverNum
      BY <1>0 DEF IdInv
    <3>5. \A n : Knows(node[l], n) => Knows(node[l], n)'
      <4>1. node'[l].id = node[l].id
        BY <3>1, Zenon
      <4>2. QED
        BY <4>1, Zenon DEF Knows
    <3>6. Peers(node[l])'
      BY <3>1, <3>4, <3>5, Zenon DEF Peers, Knows
    <3>7. QED
      BY <3>2, <3>3, <3>6, Zenon
  <2>3. QED
    BY <2>1, <2>2, Zenon
<1>6. QED
  BY <1>2, <1>3, <1>4, <1>5, Zenon DEF BarrierInv, ProcessInv

(* The acquisitions of the first k compute nodes. *)
LEMMA WorkGrows ==
  ASSUME SumInv, NEW k \in Nodes, IsFiniteSet(WorkOf(k))
  PROVE  /\ IsFiniteSet(WorkOf(k + 1)) /\ cast.limit[k] \in Nat
         /\ Cardinality(WorkOf(k + 1)) = Cardinality(WorkOf(k)) + cast.limit[k]
<1>1. k \in Nat /\ cast.limit[k] \in Nat
  BY Counts, ShermanLockAssumption DEF SumInv
<1>2. IsFiniteSet(Work(k)) /\ Cardinality(Work(k)) = cast.limit[k]
  <2>1. IsFiniteSet({k}) /\ Cardinality({k}) = 1
    BY FS_Singleton, Zenon
  <2>2. IsFiniteSet(1..cast.limit[k]) /\ Cardinality(1..cast.limit[k]) = cast.limit[k]
    <3>1. 1 \in Int /\ cast.limit[k] \in Int
      BY <1>1
    <3>2. /\ IsFiniteSet(1..cast.limit[k])
          /\ Cardinality(1..cast.limit[k]) = IF 1 > cast.limit[k] THEN 0 ELSE cast.limit[k] - 1 + 1
      BY <3>1, FS_Interval, Zenon
    <3>3. QED
      BY <1>1, <3>2
  <2>3. /\ IsFiniteSet(Work(k))
        /\ Cardinality(Work(k)) = Cardinality({k}) * Cardinality(1..cast.limit[k])
    BY <2>1, <2>2, FS_Product, Zenon DEF Work
  <2>4. QED
    BY <1>1, <2>1, <2>2, <2>3
<1>3. WorkOf(k + 1) = WorkOf(k) \cup Work(k)
  <2>1. \A n : n \in 0..(k + 1 - 1) <=> n \in 0..(k - 1) \/ n = k
    BY <1>1
  <2>2. \A x : x \in WorkOf(k + 1) <=> x \in WorkOf(k) \/ x \in Work(k)
    BY <2>1 DEF WorkOf
  <2>3. QED
    BY <2>2, Zenon
<1>4. WorkOf(k) \cap Work(k) = {}
  <2>1. ASSUME NEW n \in 0..(k - 1), NEW x, x \in Work(n), x \in Work(k) PROVE FALSE
    <3>1. x[1] = n /\ x[1] = k
      BY <2>1 DEF Work
    <3>2. QED
      BY <1>1, <3>1
  <2>2. QED
    BY <2>1, Zenon DEF WorkOf
<1>5. /\ IsFiniteSet(WorkOf(k) \cup Work(k))
      /\ Cardinality(WorkOf(k) \cup Work(k)) =
           Cardinality(WorkOf(k)) + Cardinality(Work(k)) - Cardinality(WorkOf(k) \cap Work(k))
  BY <1>2, FS_Union, Zenon
<1>6. Cardinality({}) = 0 /\ Cardinality(WorkOf(k)) \in Nat
  BY FS_EmptySet, FS_CardinalityType, Zenon
<1>7. Cardinality(WorkOf(k + 1)) = Cardinality(WorkOf(k)) + cast.limit[k] - 0
  BY <1>2, <1>3, <1>4, <1>5, <1>6, Zenon
<1>8. Cardinality(WorkOf(k + 1)) = Cardinality(WorkOf(k)) + cast.limit[k]
  BY <1>1, <1>6, <1>7
<1>9. QED
  BY <1>1, <1>3, <1>5, <1>8, Zenon

(* What SetNode leaves in the fields of a machine. *)
Becomes(m, r) ==
  /\ DOMAIN node = Machines /\ node' = [node EXCEPT ![m] = node'[m]]
  /\ node'[m].pc = IF "pc" \in DOMAIN r THEN r.pc ELSE node[m].pc
  /\ node'[m].id = IF "id" \in DOMAIN r THEN r.id ELSE node[m].id
  /\ node'[m].at = IF "at" \in DOMAIN r THEN r.at ELSE node[m].at
  /\ node'[m].curServer = IF "curServer" \in DOMAIN r THEN r.curServer ELSE node[m].curServer
  /\ node'[m].serverNum = IF "serverNum" \in DOMAIN r THEN r.serverNum ELSE node[m].serverNum
  /\ node'[m].k = IF "k" \in DOMAIN r THEN r.k ELSE node[m].k
  /\ node'[m].total = IF "total" \in DOMAIN r THEN r.total ELSE node[m].total

LEMMA Fields ==
  ASSUME NodeInv, NEW m \in Machines, NEW r, SetNode(m, r)
  PROVE  Becomes(m, r)
<1>1. DOMAIN node = Machines /\ DOMAIN node[m] = DOMAIN Process
  BY Zenon DEF NodeInv
<1>2. node' = [node EXCEPT ![m] = With(node[m], r)]
  BY Zenon DEF SetNode
<1>3. node'[m] = With(node[m], r)
  BY <1>1, <1>2, Zenon
<1>4. node' = [node EXCEPT ![m] = node'[m]]
  BY <1>2, <1>3, Zenon
<1>5. {"pc", "id", "at", "curServer", "serverNum", "k", "total"} \subseteq DOMAIN node[m]
  BY <1>1, Zenon DEF Process
<1>6. \A f \in DOMAIN node[m] : With(node[m], r)[f] = IF f \in DOMAIN r THEN r[f] ELSE node[m][f]
  BY Zenon DEF With
<1>7. QED
  BY <1>1, <1>3, <1>4, <1>5, <1>6 DEF Becomes

(* A step that is not one of connecting or adding up. *)
LEMMA Passes ==
  ASSUME BarrierInv, NEW m \in Machines, DOMAIN node = Machines,
         node' = [node EXCEPT ![m] = node'[m]],
         node'[m].id = node[m].id, node'[m].curServer = node[m].curServer,
         node'[m].total = node[m].total, node'[m].pc \notin {"enter", "peer", "get_meta", "sum"},
         node'[m].at = node[m].at \/ node[m].at \notin {"warm_finish", "finish"},
         node'[m].at # None => node[m].at # None \/ node[m].curServer >= N,
         memc'.serverNum = memc.serverNum, memc'.meta = memc.meta, memc'.sum = memc.sum,
         CountInv' \/ memc'.barrier = memc.barrier,
         root # None => root' # None, cast' = cast,
         Forward(node[m], node'[m]), Stage(node[m])'
  PROVE  BarrierInv'
<1>0. Peers(node[m]) /\ Summed(node[m]) /\ SumInv /\ memc.serverNum \in Nat
  BY Zenon DEF BarrierInv, ProcessInv, IdInv
<1>1. Peers(node[m])'
  <2>1. Knows(node[m], node[m].curServer)' <=> Knows(node[m], node[m].curServer)
    BY DEF Knows
  <2>2. QED
    BY <1>0, <2>1, Zenon DEF Peers
<1>2. Summed(node[m])'
  <2>1. \A n : WorkOf(n)' = WorkOf(n)
    BY ZenonT(40) DEF WorkOf, Work
  <2>2. QED
    BY <1>0, <2>1, Zenon DEF Summed
<1>3. SumInv'
  BY <1>0, Zenon DEF SumInv
<1>4. memc.serverNum <= memc'.serverNum
  BY <1>0
<1>5. QED
  BY <1>0, <1>1, <1>2, <1>3, <1>4, BarrierStep, Zenon

(* A machine gets its number. *)
LEMMA EnterBarrier ==
  ASSUME NodeInv, BarrierInv, NEW m \in Machines, serverEnter(m), cast' = cast
  PROVE  BarrierInv'
<1> DEFINE s == node[m]
           n == memc.serverNum
<1>0. /\ IdInv /\ Stage(s) /\ Peers(s) /\ Summed(s) /\ SumInv /\ n \in Nat
      /\ DOMAIN memc = {"serverNum", "meta", "sum", "barrier"}
  BY Zenon DEF BarrierInv, ProcessInv, NodeInv
<1>1. s.pc = "enter" /\ s.id = None /\ s.at = None
  BY <1>0, ZenonT(40) DEF serverEnter, Stage
<1>2. /\ DOMAIN node = Machines /\ node' = [node EXCEPT ![m] = node'[m]]
      /\ node'[m].pc = "connect" /\ node'[m].id = n /\ node'[m].at = None
      /\ node'[m].curServer = s.curServer /\ node'[m].total = s.total
  <2>1. SetNode(m, [pc |-> "connect", id |-> n])
    BY Zenon DEF serverEnter
  <2>2. QED
    <3>1. Becomes(m, [pc |-> "connect", id |-> n])
      BY <1>1, <2>1, Fields, Zenon
    <3>2. QED
      BY <3>1, <1>1 DEF Becomes
<1>3. /\ memc' = [memc EXCEPT !.serverNum = n + 1] /\ root' = root
  BY Zenon DEF serverEnter
<1>4. memc'.serverNum = n + 1 /\ memc'.meta = memc.meta /\ memc'.sum = memc.sum /\ memc'.barrier = memc.barrier
  BY <1>0, <1>3, Zenon
<1>5. \A l \in Machines \ {m} : node'[l] = node[l]
  BY <1>2, Zenon
<1>6. IdInv'
  <2>1. n # None /\ m \notin Entered
    BY <1>0, <1>1, Counts, Zenon DEF Entered
  <2>2. Entered' = Entered \cup {m}
    BY <1>2, <1>5, <2>1, Zenon DEF Entered
  <2>3. Cardinality(Entered') = n + 1
    <3>1. IsFiniteSet(Entered) /\ Cardinality(Entered) = n
      BY <1>0, NumbersAreSmall, Zenon DEF IdInv
    <3>2. Cardinality(Entered \cup {m}) = Cardinality(Entered) + 1
      BY <2>1, <3>1, FS_AddElement, Zenon
    <3>3. QED
      BY <2>2, <3>1, <3>2, Zenon
  <2>4. ASSUME NEW l \in Entered PROVE l \in Machines /\ node'[l] = node[l] /\ node[l].id \in 0..(n - 1)
    BY <1>0, <1>5, <2>1, Zenon DEF Entered, IdInv
  <2>5. \A l \in Machines : node'[l].id # None => node'[l].id \in 0..(n + 1 - 1)
    <3>1. \A l \in Entered' : node'[l].id \in 0..(n + 1 - 1)
      BY <1>0, <1>2, <2>2, <2>4
    <3>2. QED
      BY <3>1, Zenon DEF Entered
  <2>6. \A l, k \in Entered' : node'[l].id = node'[k].id => l = k
    <3>1. \A l \in Entered : node'[l].id # n
      BY <1>0, <2>4
    <3>2. \A l, k \in Entered : node'[l].id = node'[k].id => l = k
      BY <1>0, <2>4 DEF IdInv
    <3>3. QED
      BY <1>2, <2>2, <3>1, <3>2
  <2>7. ASSUME NEW k \in 0..(n + 1 - 1) PROVE \E l \in Machines : node'[l].id = k
    <3>1. CASE k = n
      BY <1>2, <3>1, Zenon
    <3>2. CASE k # n
      <4>1. PICK l \in Machines : node[l].id = k
        BY <1>0, <3>2 DEF IdInv
      <4>2. l # m
        BY <1>1, <2>7, <4>1, Counts
      <4>3. QED
        BY <1>5, <4>1, <4>2, Zenon
    <3>3. QED
      BY <3>1, <3>2, Zenon
  <2>8. QED
    BY <1>0, <1>4, <2>3, <2>5, <2>6, <2>7 DEF IdInv
<1>7. Forward(s, node'[m])
  <2>1. node'[m].pc \notin {"reset", "add"} /\ node'[m].at \notin Barriers
    BY <1>2, Counts, Zenon
  <2>2. node'[m].at = s.at /\ s.id = None
    BY <1>1, <1>2, Zenon
  <2> HIDE DEF s
  <2>3. QED
    BY <2>1, <2>2, StaysThere, Zenon
<1>8. Stage(node[m])'
  <2>1. n # None /\ None \notin {"bulkload", "warm_finish"}
    BY <1>0, Counts, ZenonT(40) DEF Barriers
  <2>2. QED
    BY <1>2, <2>1, Zenon DEF Stage
<1>9. Peers(node[m])'
  <2>1. s.curServer \in 0..n /\ s.curServer = 0
    BY <1>0, <1>1, Zenon DEF Peers
  <2>2. QED
    BY <1>0, <1>2, <1>4, <2>1 DEF Peers, Knows
<1>10. Summed(node[m])'
  <2>1. None \notin {"warm_finish", "finish"}
    BY Counts, Zenon DEF Barriers
  <2>2. s.total = None
    BY <1>0, <1>1, <2>1, Zenon DEF Summed
  <2>3. QED
    BY <1>2, <2>2, Zenon DEF Summed
<1>11. SumInv'
  BY <1>0, <1>4, Zenon DEF SumInv
<1>12. memc'.serverNum \in Nat /\ memc.serverNum <= memc'.serverNum
  BY <1>0, <1>4
<1>13. memc.meta \subseteq memc'.meta /\ (root # None => root' # None)
  BY <1>3, <1>4, Zenon
<1>14. QED
  BY <1>2, <1>4, <1>6, <1>7, <1>8, <1>9, <1>10, <1>11, <1>12, <1>13, BarrierStep, Zenon

(* A step by which a machine connects to others. *)
LEMMA Connects ==
  ASSUME BarrierInv, NEW m \in Machines, DOMAIN node = Machines,
         node' = [node EXCEPT ![m] = node'[m]],
         node[m].pc \in {"connect", "peer", "get_meta"}, node'[m].pc \in {"connect", "peer", "get_meta"},
         node'[m].id = node[m].id, node'[m].at = node[m].at, node'[m].total = node[m].total,
         memc'.serverNum = memc.serverNum, memc.meta \subseteq memc'.meta, memc'.sum = memc.sum,
         memc'.barrier = memc.barrier, root' = root, cast' = cast, Peers(node[m])'
  PROVE  BarrierInv'
<1>0. Stage(node[m]) /\ Summed(node[m]) /\ SumInv /\ memc.serverNum \in Nat
  BY Zenon DEF BarrierInv, ProcessInv, IdInv
<1>1. node[m].at = None /\ node[m].id # None /\ None \notin Barriers
  BY <1>0, Counts, Zenon DEF Stage
<1>2. None \notin {"bulkload", "warm_finish", "finish"}
  BY <1>1, Zenon DEF Barriers
<1>3. Forward(node[m], node'[m])
  <2>1. node'[m].pc \notin {"reset", "add"} /\ node'[m].at \notin Barriers
    BY <1>1, Zenon
  <2>2. QED
    BY <2>1, StaysThere, Zenon
<1>4. Stage(node[m])'
  BY <1>1, <1>2, Zenon DEF Stage
<1>5. Summed(node[m])'
  <2>1. node[m].total = None
    BY <1>0, <1>1, <1>2, Zenon DEF Summed
  <2>2. node'[m].pc # "sum"
    BY Zenon
  <2>3. QED
    BY <2>1, <2>2, Zenon DEF Summed
<1>6. SumInv'
  BY <1>0, ZenonT(40) DEF SumInv
<1>7. memc'.serverNum \in Nat /\ memc.serverNum <= memc'.serverNum
  BY <1>0
<1>8. QED
  BY <1>3, <1>4, <1>5, <1>6, <1>7, BarrierStep, Zenon

LEMMA ConnectBarrier ==
  ASSUME NodeInv, BarrierInv, NEW m \in Machines, serverConnect(m), cast' = cast
  PROVE  BarrierInv'
<1> DEFINE s == node[m]
<1>0. /\ Stage(s) /\ Peers(s) /\ Summed(s) /\ memc.serverNum \in Nat
      /\ s.pc = "connect" /\ s.at = None /\ s.id # None /\ memc' = memc /\ root' = root
  BY Zenon DEF BarrierInv, ProcessInv, IdInv, serverConnect, Stage
<1>1. s.curServer \in 0..memc.serverNum /\ Knows(s, s.curServer)
  BY <1>0, Zenon DEF Peers
<1>2. CASE s.curServer < N
  <2>1. SetNode(m, [pc |-> "peer", serverNum |-> memc.serverNum, k |-> s.curServer])
    BY <1>2, ZenonT(40) DEF serverConnect
  <2>2. /\ DOMAIN node = Machines /\ node' = [node EXCEPT ![m] = node'[m]]
        /\ node'[m].pc = "peer" /\ node'[m].id = s.id /\ node'[m].at = s.at
        /\ node'[m].curServer = s.curServer /\ node'[m].total = s.total
        /\ node'[m].serverNum = memc.serverNum /\ node'[m].k = s.curServer
    <3>1. Becomes(m, [pc |-> "peer", serverNum |-> memc.serverNum, k |-> s.curServer])
      BY <2>1, Fields, Zenon
    <3>2. QED
      BY <3>1 DEF Becomes
  <2>3. Peers(node[m])'
    <3>1. Knows(node[m], node[m].curServer)' /\ Knows(node[m], node[m].k)'
      BY <1>0, <1>1, <2>2, Zenon DEF Knows
    <3>2. memc.serverNum \in 0..memc.serverNum
      BY <1>0
    <3>3. node'[m].at = None
      BY <1>0, <2>2, Zenon
    <3>4. QED
      BY <1>0, <1>1, <2>2, <3>1, <3>2, <3>3, Zenon DEF Peers
  <2>4. memc.meta \subseteq memc'.meta
    BY <1>0, Zenon
  <2>5. QED
    BY <1>0, <2>2, <2>3, <2>4, Connects, Zenon
<1>3. CASE ~(s.curServer < N)
  <2>1. SetNode(m, ToBarrier(s.id, "DSM-init"))
    BY <1>3, Zenon DEF serverConnect
  <2>2. /\ DOMAIN node = Machines /\ node' = [node EXCEPT ![m] = node'[m]]
        /\ node'[m].pc \in {"reset", "add"} /\ node'[m].id = s.id /\ node'[m].at = "DSM-init"
        /\ node'[m].curServer = s.curServer /\ node'[m].total = s.total
    <3>1. Becomes(m, ToBarrier(s.id, "DSM-init"))
      BY <2>1, Fields, Zenon
    <3>2. QED
      BY <3>1 DEF Becomes, ToBarrier
  <2>3. s.curServer >= N
    BY <1>1, <1>3, Counts
  <2>4. Forward(s, node'[m])
    <3>1. /\ "DSM-init" \in Barriers /\ Order("DSM-init") = 1 /\ Order(None) = 0
          /\ "connect" \notin Waits
      BY Counts DEF Order, Barriers, Waits
    <3>2. Order(node'[m].at) = Order(s.at) + 1
      BY <1>0, <2>2, <3>1
    <3>3. QED
      BY <1>0, <2>2, <3>1, <3>2, GoesOn
  <2>5. Stage(node[m])'
    BY <1>0, <2>2, Counts DEF Stage, Barriers
  <2>6. None \notin {"warm_finish", "finish"}
    BY Counts, Zenon DEF Barriers
  <2>7. node'[m].pc \notin {"enter", "peer", "get_meta", "sum"} /\ s.at \notin {"warm_finish", "finish"}
    BY <1>0, <2>2, <2>6
  <2>8. QED
    BY <1>0, <2>2, <2>3, <2>4, <2>5, <2>7, Passes, Zenon
<1>4. QED
  BY <1>2, <1>3, Zenon

LEMMA PeerBarrier ==
  ASSUME NodeInv, BarrierInv, NEW m \in Machines, setDataToRemote(m) \/ setDataFromRemote(m),
         cast' = cast
  PROVE  BarrierInv'
<1> DEFINE s == node[m]
<1>0. /\ Peers(s) /\ memc.serverNum \in Nat /\ Stage(s) /\ root' = root
      /\ s.pc \in {"peer", "get_meta"} /\ s.at = None
      /\ DOMAIN memc = {"serverNum", "meta", "sum", "barrier"}
  <2>1. s.pc \in {"peer", "get_meta"} /\ root' = root
    BY Zenon DEF setDataToRemote, setDataFromRemote
  <2>2. Peers(s) /\ memc.serverNum \in Nat /\ Stage(s) /\ DOMAIN memc = {"serverNum", "meta", "sum", "barrier"}
    BY Zenon DEF BarrierInv, ProcessInv, IdInv, NodeInv
  <2>3. QED
    BY <2>1, <2>2, Zenon DEF Stage
<1>1. /\ s.curServer \in 0..memc.serverNum /\ Knows(s, s.curServer)
      /\ s.serverNum \in 0..memc.serverNum /\ s.k \in 0..s.serverNum /\ Knows(s, s.k)
      /\ s.pc = "get_meta" => <<s.id, s.k>> \in memc.meta /\ s.k < s.serverNum
  BY <1>0, Zenon DEF Peers
<1>2. CASE s.pc = "peer" /\ s.k = s.serverNum /\ memc' = memc /\ SetNode(m, [pc |-> "connect", curServer |-> s.serverNum])
  <2>1. /\ DOMAIN node = Machines /\ node' = [node EXCEPT ![m] = node'[m]]
        /\ node'[m].pc = "connect" /\ node'[m].id = s.id /\ node'[m].at = s.at
        /\ node'[m].curServer = s.serverNum /\ node'[m].total = s.total
    <3>1. Becomes(m, [pc |-> "connect", curServer |-> s.serverNum])
      BY <1>2, Fields, Zenon
    <3>2. QED
      BY <3>1 DEF Becomes
  <2>2. Knows(node[m], node[m].curServer)' /\ memc'.serverNum = memc.serverNum /\ memc.meta \subseteq memc'.meta
    BY <1>1, <1>2, <2>1, Zenon DEF Knows
  <2>3. Peers(node[m])'
    BY <1>0, <1>1, <2>1, <2>2, Zenon DEF Peers
  <2>4. QED
    BY <1>0, <1>2, <2>1, <2>2, <2>3, Connects, Zenon
<1>3. ASSUME s.k < s.serverNum, memc' = memc, s.k = s.id \/ <<s.id, s.k>> \in memc.meta,
             node' = [node EXCEPT ![m] = node'[m]], node'[m].pc = "peer", node'[m].id = s.id,
             node'[m].at = s.at, node'[m].curServer = s.curServer, node'[m].total = s.total,
             node'[m].serverNum = s.serverNum, node'[m].k = s.k + 1, DOMAIN node = Machines
      PROVE  BarrierInv'
  <2>1. s.k \in Nat /\ s.serverNum \in Nat /\ s.k + 1 \in 0..s.serverNum
    BY <1>0, <1>1, <1>3
  <2>2. ASSUME NEW j \in 0..(s.k + 1 - 1), j # s.id PROVE <<s.id, j>> \in memc.meta
    <3>1. CASE j = s.k
      BY <1>3, <2>2, <3>1, Zenon
    <3>2. CASE j # s.k
      <4>1. j \in 0..(s.k - 1)
        BY <2>1, <2>2, <3>2
      <4>2. QED
        BY <1>1, <2>2, <4>1, Zenon DEF Knows
    <3>3. QED
      BY <3>1, <3>2, Zenon
  <2>3. Knows(node[m], node[m].curServer)' /\ Knows(node[m], node[m].k)'
    <3>1. Knows(node[m], node[m].curServer)'
      BY <1>1, <1>3 DEF Knows
    <3>2. Knows(node[m], node[m].k)'
      <4>1. node'[m].k = s.k + 1 /\ node'[m].id = s.id /\ memc' = memc
        BY <1>3, Zenon
      <4>2. \A j \in 0..(s.k + 1 - 1) : j # s.id => <<s.id, j>> \in memc.meta
        BY <2>2, Zenon
      <4>3. \A j \in 0..(node'[m].k - 1) : j # node'[m].id => <<node'[m].id, j>> \in memc'.meta
        BY <2>1, <4>1, <4>2
      <4>4. QED
        BY <4>3, Zenon DEF Knows
    <3>3. QED
      BY <3>1, <3>2, ZenonT(40)
  <2>4. Peers(node[m])'
    BY <1>0, <1>1, <1>3, <2>1, <2>3, Zenon DEF Peers
  <2>5. memc.meta \subseteq memc'.meta /\ memc'.serverNum = memc.serverNum
    BY <1>3, Zenon
  <2>6. QED
    BY <1>0, <1>3, <2>4, <2>5, Connects, Zenon
<1>4. CASE s.pc = "peer" /\ s.k < s.serverNum /\ s.k = s.id /\ memc' = memc /\ SetNode(m, [k |-> s.k + 1])
  <2>1. /\ DOMAIN node = Machines /\ node' = [node EXCEPT ![m] = node'[m]]
        /\ node'[m].pc = "peer" /\ node'[m].id = s.id /\ node'[m].at = s.at
        /\ node'[m].curServer = s.curServer /\ node'[m].total = s.total
        /\ node'[m].serverNum = s.serverNum /\ node'[m].k = s.k + 1
    <3>1. Becomes(m, [k |-> s.k + 1])
      BY <1>4, Fields, Zenon
    <3>2. QED
      BY <3>1, <1>4 DEF Becomes
  <2>2. QED
    BY <1>3, <1>4, <2>1, ZenonT(40)
<1>5. CASE s.pc = "peer" /\ s.k < s.serverNum /\ s.k # s.id
           /\ memc' = [memc EXCEPT !.meta = @ \cup {<<s.id, s.k>>}] /\ SetNode(m, [pc |-> "get_meta"])
  <2>1. /\ DOMAIN node = Machines /\ node' = [node EXCEPT ![m] = node'[m]]
        /\ node'[m].pc = "get_meta" /\ node'[m].id = s.id /\ node'[m].at = s.at
        /\ node'[m].curServer = s.curServer /\ node'[m].total = s.total
        /\ node'[m].serverNum = s.serverNum /\ node'[m].k = s.k
    <3>1. Becomes(m, [pc |-> "get_meta"])
      BY <1>5, Fields, Zenon
    <3>2. QED
      BY <3>1 DEF Becomes
  <2>2. /\ memc'.serverNum = memc.serverNum /\ memc'.meta = memc.meta \cup {<<s.id, s.k>>}
        /\ memc'.sum = memc.sum /\ memc'.barrier = memc.barrier
    BY <1>0, <1>5, ZenonT(40)
  <2>3. Knows(node[m], node[m].curServer)' /\ Knows(node[m], node[m].k)'
    BY <1>1, <2>1, <2>2 DEF Knows
  <2>4. Peers(node[m])'
    BY <1>0, <1>1, <1>5, <2>1, <2>2, <2>3, Zenon DEF Peers
  <2>5. memc.meta \subseteq memc'.meta
    BY <2>2, Zenon
  <2>6. QED
    BY <1>0, <2>1, <2>2, <2>4, <2>5, Connects, Zenon
<1>6. CASE setDataFromRemote(m)
  <2>1. /\ s.pc = "get_meta" /\ memc' = memc /\ SetNode(m, [pc |-> "peer", k |-> s.k + 1])
    BY <1>6, ZenonT(40) DEF setDataFromRemote
  <2>2. /\ DOMAIN node = Machines /\ node' = [node EXCEPT ![m] = node'[m]]
        /\ node'[m].pc = "peer" /\ node'[m].id = s.id /\ node'[m].at = s.at
        /\ node'[m].curServer = s.curServer /\ node'[m].total = s.total
        /\ node'[m].serverNum = s.serverNum /\ node'[m].k = s.k + 1
    <3>1. Becomes(m, [pc |-> "peer", k |-> s.k + 1])
      BY <2>1, Fields, Zenon
    <3>2. QED
      BY <3>1 DEF Becomes
  <2>3. QED
    BY <1>1, <1>3, <2>1, <2>2, Zenon
<1>7. QED
  BY <1>2, <1>4, <1>5, <1>6, Zenon DEF setDataToRemote

-----------------------------------------------------------------------------
(* The steps of DSMKeeper::barrier. *)

LEMMA ResetBarrier ==
  ASSUME NodeInv, BarrierInv, NEW m \in Machines, barrier_reset(m), cast' = cast
  PROVE  BarrierInv'
<1> DEFINE s == node[m]
<1>b. PICK b \in Barriers : b = s.at
  BY Zenon DEF BarrierInv, ProcessInv, Stage, barrier_reset, memFetchAndAdd
<1>0. /\ Stage(s) /\ CountInv /\ MeetInv /\ s.pc = "reset" /\ root' = root /\ SetNode(m, [pc |-> "add"])
      /\ memc' = [memc EXCEPT !.barrier[b] = 0]
      /\ DOMAIN memc = {"serverNum", "meta", "sum", "barrier"}
  BY <1>b, Zenon DEF BarrierInv, ProcessInv, NodeInv, barrier_reset
<1>1. /\ DOMAIN node = Machines /\ node' = [node EXCEPT ![m] = node'[m]]
      /\ node'[m].pc = "add" /\ node'[m].id = s.id /\ node'[m].at = b
      /\ node'[m].curServer = s.curServer /\ node'[m].total = s.total
  <2>1. Becomes(m, [pc |-> "add"])
    BY <1>0, <1>b, Fields, Zenon
  <2>2. QED
    BY <2>1, <1>b DEF Becomes
<1>2. b # None /\ s.id # None
  BY <1>0, <1>b, Zenon DEF Stage
<1>3. /\ memc'.serverNum = memc.serverNum /\ memc'.meta = memc.meta /\ memc'.sum = memc.sum
      /\ memc'.barrier = [memc.barrier EXCEPT ![b] = 0]
  BY <1>0, Zenon
<1>4. Forward(s, node'[m])
  <2>1. node'[m].pc \in Waits /\ s.pc \in {"reset", "add"}
    BY <1>0, <1>1, Zenon DEF Waits
  <2>2. QED
    BY <1>b, <1>1, <2>1, StaysThere, Zenon
<1>5. Stage(node[m])'
  BY <1>0, <1>b, <1>1, <1>2, Zenon DEF Stage
<1>6. CountInv'
  <2>1. \A c \in Barriers : AtBarrier(c) \in SUBSET AtBarrier(c)'
    BY <1>0, <1>1, <1>2, <1>4, Moves, Zenon
  <2>2. ASSUME NEW c \in Barriers, memc'.barrier[c] # None
        PROVE  memc'.barrier[c] \in Nat /\ memc'.barrier[c] <= Cardinality(AtBarrier(c)')
    <3>1. IsFiniteSet(AtBarrier(c)') /\ Cardinality(AtBarrier(c)') \in Nat
      BY AtBarrierIsFinite, Zenon
    <3>2. CASE c = b
      <4>1. memc'.barrier[c] = 0
        BY <1>0, <1>2, <1>3, <3>2, Zenon DEF CountInv
      <4>2. QED
        BY <3>1, <4>1
    <3>3. CASE c # b
      <4>1. memc'.barrier[c] = memc.barrier[c]
        BY <1>0, <1>3, <3>3, Zenon DEF CountInv
      <4>2. memc.barrier[c] \in Nat /\ memc.barrier[c] <= Cardinality(AtBarrier(c))
        BY <1>0, <2>2, <4>1, Zenon DEF CountInv
      <4>3. Cardinality(AtBarrier(c)) <= Cardinality(AtBarrier(c)') /\ Cardinality(AtBarrier(c)) \in Nat
        BY <2>1, AtBarrierIsFinite, Zenon
      <4>4. QED
        BY <3>1, <4>1, <4>2, <4>3
    <3>4. QED
      BY <3>2, <3>3, Zenon
  <2>3. DOMAIN memc'.barrier = Barriers
    BY <1>0, <1>3, Zenon DEF CountInv
  <2>4. QED
    BY <2>2, <2>3, Zenon DEF CountInv
<1>7. node'[m].pc \notin {"enter", "peer", "get_meta", "sum"} /\ node'[m].at = s.at
  BY <1>b, <1>1, Zenon
<1>8. QED
  BY <1>0, <1>1, <1>2, <1>3, <1>4, <1>5, <1>6, <1>7, <1>b, Passes, Zenon

(* The machine counts itself, and has not done so before. *)
LEMMA AddBarrier ==
  ASSUME NodeInv, BarrierInv, NEW m \in Machines, memFetchAndAdd(m), cast' = cast
  PROVE  BarrierInv'
<1> DEFINE s == node[m]
<1>b. PICK b \in Barriers : b = s.at
  BY Zenon DEF BarrierInv, ProcessInv, Stage, barrier_reset, memFetchAndAdd
<1>0. /\ Stage(s) /\ CountInv /\ MeetInv /\ s.pc = "add" /\ root' = root /\ SetNode(m, [pc |-> "spin"])
      /\ memc' = [memc EXCEPT !.barrier[b] = memc.barrier[b] + 1] /\ memc.barrier[b] # None
      /\ DOMAIN memc = {"serverNum", "meta", "sum", "barrier"}
  BY <1>b, Zenon DEF BarrierInv, ProcessInv, NodeInv, memFetchAndAdd
<1>1. /\ DOMAIN node = Machines /\ node' = [node EXCEPT ![m] = node'[m]]
      /\ node'[m].pc = "spin" /\ node'[m].id = s.id /\ node'[m].at = b
      /\ node'[m].curServer = s.curServer /\ node'[m].total = s.total
  <2>1. Becomes(m, [pc |-> "spin"])
    BY <1>0, <1>b, Fields, Zenon
  <2>2. QED
    BY <2>1, <1>b DEF Becomes
<1>2. b # None /\ s.id # None
  BY <1>0, <1>b, Zenon DEF Stage
<1>3. /\ memc'.serverNum = memc.serverNum /\ memc'.meta = memc.meta /\ memc'.sum = memc.sum
      /\ memc'.barrier = [memc.barrier EXCEPT ![b] = memc.barrier[b] + 1]
  BY <1>0, Zenon
<1>4. Forward(s, node'[m])
  <2>1. node'[m].pc \in Waits /\ s.pc \in {"reset", "add"}
    BY <1>0, <1>1, Zenon DEF Waits
  <2>2. QED
    BY <1>b, <1>1, <2>1, StaysThere, ZenonT(40)
<1>5. Stage(node[m])'
  BY <1>0, <1>b, <1>1, <1>2, Zenon DEF Stage
<1>6. m \notin AtBarrier(b) /\ m \in AtBarrier(b)'
  <2>1. ~Came(s, b)
    BY <1>0, <1>b, Zenon DEF Came
  <2>2. Take(s, b)
    <3>1. s.id \in 0..(N - 1)
      BY <1>2, NumbersAreSmall, Zenon DEF BarrierInv, Entered
    <3>2. Num(b) = N \/ (Num(b) = CNodeCount /\ s.id < CNodeCount)
      BY <1>0, <1>b, Zenon DEF Num, Stage
    <3>3. QED
      BY <3>1, <3>2, Counts DEF Take
  <2>3. Order(b) >= Order(b)
    BY Counts
  <2>4. Take(node[m], b)' /\ Came(node[m], b)'
    BY <1>1, <2>2, <2>3, Zenon DEF Take, Came, Reached
  <2>5. QED
    BY <2>1, <2>4, Zenon DEF AtBarrier
<1>7. CountInv'
  <2>1. \A c \in Barriers : AtBarrier(c) \subseteq AtBarrier(c)'
    BY <1>0, <1>1, <1>2, <1>4, Moves, Zenon
  <2>2. ASSUME NEW c \in Barriers, memc'.barrier[c] # None
        PROVE  memc'.barrier[c] \in Nat /\ memc'.barrier[c] <= Cardinality(AtBarrier(c)')
    <3>1. /\ IsFiniteSet(AtBarrier(c)) /\ Cardinality(AtBarrier(c)) \in Nat
          /\ IsFiniteSet(AtBarrier(c)') /\ Cardinality(AtBarrier(c)') \in Nat
          /\ Cardinality(AtBarrier(c)) <= Cardinality(AtBarrier(c)')
      BY <2>1, AtBarrierIsFinite, Zenon
    <3>2. memc.barrier[c] # None
      <4>1. CASE c = b
        BY <1>0, <4>1, Zenon
      <4>2. CASE c # b
        BY <1>0, <1>3, <2>2, <4>2, Zenon DEF CountInv
      <4>3. QED
        BY <4>1, <4>2, Zenon
    <3>3. memc.barrier[c] \in Nat /\ memc.barrier[c] <= Cardinality(AtBarrier(c))
      BY <1>0, <3>2, Zenon DEF CountInv
    <3>4. CASE c = b
      <4>1. memc'.barrier[c] = memc.barrier[c] + 1
        BY <1>0, <1>3, <3>4, Zenon DEF CountInv
      <4>2. AtBarrier(c) \cup {m} \in SUBSET AtBarrier(c)' /\ m \notin AtBarrier(c)
        BY <1>6, <2>1, <3>4, Zenon
      <4>3. Cardinality(AtBarrier(c) \cup {m}) = Cardinality(AtBarrier(c)) + 1
        BY <3>1, <4>2, FS_AddElement
      <4>4. Cardinality(AtBarrier(c) \cup {m}) <= Cardinality(AtBarrier(c)')
        BY <3>1, <4>2, FS_Subset, ZenonT(40)
      <4>5. QED
        BY <3>1, <3>3, <4>1, <4>3, <4>4
    <3>5. CASE c # b
      <4>1. memc'.barrier[c] = memc.barrier[c]
        BY <1>0, <1>3, <3>5, Zenon DEF CountInv
      <4>2. QED
        BY <3>1, <3>3, <4>1
    <3>6. QED
      BY <3>4, <3>5, Zenon
  <2>3. DOMAIN memc'.barrier = Barriers
    BY <1>0, <1>3, Zenon DEF CountInv
  <2>4. QED
    BY <2>2, <2>3, Zenon DEF CountInv
<1>8. node'[m].pc \notin {"enter", "peer", "get_meta", "sum"} /\ node'[m].at = s.at
  BY <1>b, <1>1, Zenon
<1>9. QED
  BY <1>0, <1>1, <1>2, <1>3, <1>4, <1>5, <1>7, <1>8, <1>b, Passes, Zenon

LEMMA OpenBarrier ==
  ASSUME NodeInv, BarrierInv, NEW m \in Machines, barrier(m), cast' = cast
  PROVE  BarrierInv'
<1> DEFINE s == node[m]
<1>0. /\ Stage(s) /\ Peers(s) /\ s.pc = "spin" /\ Open(s.at) /\ SetNode(m, After(s))
      /\ root' = root /\ memc' = memc /\ memc.serverNum \in Nat
  BY Zenon DEF BarrierInv, ProcessInv, IdInv, barrier
<1>1. s.at \in Barriers /\ s.at # None /\ s.id # None
  BY <1>0, Zenon DEF Stage
<1>2. Met(s.at)
  BY <1>0, <1>1, OpenMeets, Zenon
<1>3. s.id \in 0..(N - 1)
  BY <1>1, NumbersAreSmall, Zenon DEF BarrierInv, Entered
<1>4. s.id < CNodeCount \/ s.id >= CNodeCount
  BY <1>3, Counts
<1>5. ASSUME NEW where \in {"register", "spawn", "run", "end"}, node'[m].pc = where,
             node'[m].id = s.id, node'[m].at = s.at, node'[m].curServer = s.curServer,
             node'[m].total = s.total, DOMAIN node = Machines, node' = [node EXCEPT ![m] = node'[m]],
             \/ where = "register" /\ s.at = "DSM-init" /\ s.id < CNodeCount
             \/ (where = "spawn" /\ s.at = "bulkload") \/ (where = "run" /\ s.at = "warm_finish")
             \/ where = "end" /\ s.at = "finish"
      PROVE  BarrierInv'
  <2>1. Forward(s, node'[m])
    <3>1. node'[m].pc \notin {"reset", "add"}
      BY <1>5, ZenonT(40)
    <3>2. QED
      BY <1>2, <1>5, <3>1, StaysThere, Zenon
  <2>2. Stage(node[m])'
    BY <1>0, <1>1, <1>5, Zenon DEF Stage
  <2>3. node'[m].pc \notin {"enter", "peer", "get_meta", "sum"}
    BY <1>5, Zenon
  <2>4. QED
    BY <1>0, <1>1, <1>5, <2>1, <2>2, <2>3, Passes, Zenon
<1>6. CASE s.at = "DSM-init" /\ s.id < CNodeCount
  <2>1. After(s) = [pc |-> "register"]
    BY <1>6, <1>3, Counts DEF After
  <2>2. SetNode(m, [pc |-> "register"])
    BY <1>0, <2>1, ZenonT(40)
  <2>3. /\ DOMAIN node = Machines /\ node' = [node EXCEPT ![m] = node'[m]]
        /\ node'[m].pc = "register" /\ node'[m].id = s.id /\ node'[m].at = s.at
        /\ node'[m].curServer = s.curServer /\ node'[m].total = s.total
    <3>1. Becomes(m, [pc |-> "register"])
      BY <2>2, Fields, Zenon
    <3>2. QED
      BY <3>1 DEF Becomes
  <2>4. QED
    BY <1>5, <1>6, <2>3, Zenon
<1>7. CASE s.at = "bulkload"
  <2>1. After(s) = [pc |-> "spawn", appID |-> 0]
    BY <1>7 DEF After
  <2>2. SetNode(m, [pc |-> "spawn", appID |-> 0])
    BY <1>0, <2>1, ZenonT(40)
  <2>3. /\ DOMAIN node = Machines /\ node' = [node EXCEPT ![m] = node'[m]]
        /\ node'[m].pc = "spawn" /\ node'[m].id = s.id /\ node'[m].at = s.at
        /\ node'[m].curServer = s.curServer /\ node'[m].total = s.total
    <3>1. Becomes(m, [pc |-> "spawn", appID |-> 0])
      BY <2>2, Fields, Zenon
    <3>2. QED
      BY <3>1 DEF Becomes
  <2>4. QED
    BY <1>5, <1>7, <2>3, Zenon
<1>8. CASE s.at = "warm_finish"
  <2>1. After(s) = [pc |-> "run"]
    BY <1>8 DEF After
  <2>2. SetNode(m, [pc |-> "run"])
    BY <1>0, <2>1, Zenon
  <2>3. /\ DOMAIN node = Machines /\ node' = [node EXCEPT ![m] = node'[m]]
        /\ node'[m].pc = "run" /\ node'[m].id = s.id /\ node'[m].at = s.at
        /\ node'[m].curServer = s.curServer /\ node'[m].total = s.total
    <3>1. Becomes(m, [pc |-> "run"])
      BY <2>2, Fields, Zenon
    <3>2. QED
      BY <3>1 DEF Becomes
  <2>4. QED
    BY <1>5, <1>8, <2>3, Zenon
<1>9. CASE s.at = "finish"
  <2>1. After(s) = [pc |-> "end"]
    BY <1>9 DEF After
  <2>2. SetNode(m, [pc |-> "end"])
    BY <1>0, <2>1, Zenon
  <2>3. /\ DOMAIN node = Machines /\ node' = [node EXCEPT ![m] = node'[m]]
        /\ node'[m].pc = "end" /\ node'[m].id = s.id /\ node'[m].at = s.at
        /\ node'[m].curServer = s.curServer /\ node'[m].total = s.total
    <3>1. Becomes(m, [pc |-> "end"])
      BY <2>2, Fields, Zenon
    <3>2. QED
      BY <3>1 DEF Becomes
  <2>4. QED
    BY <1>5, <1>9, <2>3, Zenon
<1>10. CASE s.at = "DSM-init" /\ s.id >= CNodeCount
  <2>1. After(s) = ToBarrier(s.id, "finish")
    BY <1>10, <1>3, Counts DEF After
  <2>2. /\ DOMAIN node = Machines /\ node' = [node EXCEPT ![m] = node'[m]]
        /\ node'[m].pc \in {"reset", "add"} /\ node'[m].id = s.id /\ node'[m].at = "finish"
        /\ node'[m].curServer = s.curServer /\ node'[m].total = s.total
    <3>1. Becomes(m, ToBarrier(s.id, "finish"))
      BY <1>0, <2>1, Fields, Zenon
    <3>2. QED
      BY <3>1 DEF Becomes, ToBarrier
  <2>3. Forward(s, node'[m])
    <3>1. ASSUME NEW b \in Barriers
          PROVE  /\ Reached(s, b) => b = "DSM-init"
                 /\ Reached(node'[m], b)
                 /\ Take(s, b) => b \in {"DSM-init", "finish"}
      <4>1. Reached(s, b) => b = "DSM-init"
        BY <1>10 DEF Reached, Order, Barriers
      <4>2. Reached(node'[m], b)
        BY <2>2 DEF Reached, Order, Barriers
      <4>3. Take(s, b) => b \in {"DSM-init", "finish"}
        BY <1>10, <1>3, Counts DEF Take, Num, Barriers
      <4>4. QED
        BY <4>1, <4>2, <4>3, Zenon
    <3>2. \A b \in Barriers : Take(node'[m], b) <=> Take(s, b)
      BY <2>2, Zenon DEF Take
    <3>3. ASSUME NEW b \in Barriers, Take(node'[m], b), Out(node'[m], b) PROVE Met(b)
      <4>1. b # "finish"
        BY <2>2, <3>3, Zenon DEF Out, Waits
      <4>2. b = "DSM-init"
        BY <3>1, <3>2, <3>3, <4>1, Zenon
      <4>3. QED
        BY <1>2, <1>10, <4>2, Zenon
    <3>4. \A b \in Barriers : Came(s, b) => Came(node'[m], b)
      BY <2>2, <3>1, ZenonT(40) DEF Came
    <3>5. QED
      BY <2>2, <3>1, <3>3, <3>4, Zenon DEF Forward
  <2>4. Stage(node[m])'
    BY <1>1, <2>2, Counts DEF Stage, Barriers
  <2>5. node'[m].pc \notin {"enter", "peer", "get_meta", "sum"} /\ s.at \notin {"warm_finish", "finish"}
    BY <1>10, <2>2, Zenon
  <2>6. QED
    BY <1>0, <1>1, <2>2, <2>3, <2>4, <2>5, Passes, Zenon
<1>11. QED
  BY <1>1, <1>4, <1>6, <1>7, <1>8, <1>9, <1>10, Zenon DEF Barriers

-----------------------------------------------------------------------------
(* The steps between barriers. *)

LEMMA RootBarrier ==
  ASSUME AllocInv, BarrierInv, NEW m \in Machines, InstallRoot(m), cast' = cast
  PROVE  BarrierInv'
<1> DEFINE s == node[m]
<1>0. /\ Stage(s) /\ s.pc = "tree" /\ SetNode(m, ToBarrier(s.id, "bulkload")) /\ memc' = memc
      /\ root' = IF root = None THEN CHOOSE p \in th[m].pages : TRUE ELSE root
      /\ th[m].pages # {} /\ NodeInv
  BY Zenon DEF BarrierInv, ProcessInv, InstallRoot, AllocInv
<1>1. s.at = "DSM-init" /\ s.id < CNodeCount /\ s.id # None
  BY <1>0, Zenon DEF Stage
<1>2. root' # None
  <2>1. th[m].pages \subseteq Addresses /\ None \notin Addresses
    BY NoneAssumption, Zenon DEF AllocInv, ThreadInv, ThreadStates, Users, Addresses
  <2>2. (CHOOSE p \in th[m].pages : TRUE) \in th[m].pages
    BY <1>0, ZenonT(40)
  <2>3. QED
    BY <1>0, <2>1, <2>2, Zenon
<1>3. /\ DOMAIN node = Machines /\ node' = [node EXCEPT ![m] = node'[m]]
      /\ node'[m].pc \in {"reset", "add"} /\ node'[m].id = s.id /\ node'[m].at = "bulkload"
      /\ node'[m].curServer = s.curServer /\ node'[m].total = s.total
  <2>1. Becomes(m, ToBarrier(s.id, "bulkload"))
    BY <1>0, Fields, Zenon
  <2>2. QED
    BY <2>1 DEF Becomes, ToBarrier
<1>4. Forward(s, node'[m])
  <2>1. /\ s.at \in Barriers /\ node'[m].at \in Barriers /\ s.pc \notin Waits
        /\ Order(node'[m].at) = Order(s.at) + 1
    BY <1>0, <1>1, <1>3 DEF Order, Barriers, Waits
  <2>2. QED
    BY <1>3, <2>1, GoesOn
<1>5. Stage(node[m])'
  BY <1>1, <1>2, <1>3, Counts DEF Stage, Barriers
<1>6. /\ node'[m].pc \notin {"enter", "peer", "get_meta", "sum"} /\ s.at \notin {"warm_finish", "finish"}
      /\ s.at # None
  BY <1>1, <1>3, Counts DEF Barriers
<1>7. QED
  BY <1>0, <1>2, <1>3, <1>4, <1>5, <1>6, Passes, Zenon

LEMMA WarmBarrier ==
  ASSUME NodeInv, BarrierInv, NEW m \in Machines, warm_finish(m), cast' = cast
  PROVE  BarrierInv'
<1> DEFINE s == node[m]
<1>0. /\ Stage(s) /\ s.pc = "spawn" /\ SetNode(m, ToBarrier(s.id, "warm_finish")) /\ memc' = memc
      /\ root' = root
  BY Zenon DEF BarrierInv, ProcessInv, warm_finish
<1>1. s.at = "bulkload" /\ s.id < CNodeCount /\ s.id # None /\ root # None
  BY <1>0, ZenonT(40) DEF Stage
<1>2. /\ DOMAIN node = Machines /\ node' = [node EXCEPT ![m] = node'[m]]
      /\ node'[m].pc \in {"reset", "add"} /\ node'[m].id = s.id /\ node'[m].at = "warm_finish"
      /\ node'[m].curServer = s.curServer /\ node'[m].total = s.total
  <2>1. Becomes(m, ToBarrier(s.id, "warm_finish"))
    BY <1>0, Fields, Zenon
  <2>2. QED
    BY <2>1 DEF Becomes, ToBarrier
<1>3. Forward(s, node'[m])
  <2>1. /\ s.at \in Barriers /\ node'[m].at \in Barriers /\ s.pc \notin Waits
        /\ Order(node'[m].at) = Order(s.at) + 1
    BY <1>0, <1>1, <1>2 DEF Order, Barriers, Waits
  <2>2. QED
    BY <1>2, <2>1, GoesOn
<1>4. Stage(node[m])'
  BY <1>0, <1>1, <1>2, Counts, ZenonT(40) DEF Stage, Barriers
<1>5. /\ node'[m].pc \notin {"enter", "peer", "get_meta", "sum"} /\ s.at \notin {"warm_finish", "finish"}
      /\ s.at # None
  BY <1>1, <1>2, Counts DEF Barriers
<1>6. QED
  BY <1>0, <1>2, <1>3, <1>4, <1>5, Passes, Zenon

(* A thread registers, or the machine of a directory stops. *)
LEMMA StaysBarrier ==
  ASSUME NodeInv, BarrierInv, NEW m \in Machines, NEW r, SetNode(m, r),
         DOMAIN r \subseteq {"appID", "pc"}, "pc" \in DOMAIN r, node[m].id # None,
         \/ r.pc = "aborted" \/ (node[m].pc = "spawn" /\ r.pc = "spawn")
         \/ (node[m].pc = "register" /\ r.pc = "tree"),
         memc' = memc, root' = root, cast' = cast
  PROVE  BarrierInv'
<1> DEFINE s == node[m]
<1>0. Stage(s)
  BY Zenon DEF BarrierInv, ProcessInv
<1>1. /\ DOMAIN node = Machines /\ node' = [node EXCEPT ![m] = node'[m]]
      /\ node'[m].pc = r.pc /\ node'[m].id = s.id /\ node'[m].at = s.at
      /\ node'[m].curServer = s.curServer /\ node'[m].total = s.total
  <2>1. {"id", "at", "curServer", "total"} \cap DOMAIN r = {}
    OBVIOUS
  <2>2. QED
    <3>1. Becomes(m, r)
      BY <2>1, Fields, Zenon
    <3>2. QED
      BY <3>1, <2>1 DEF Becomes
<1>2. Forward(s, node'[m])
  <2>1. node'[m].pc \notin {"reset", "add"}
    BY <1>1, Zenon
  <2>2. node'[m].pc \in Waits \/ s.pc \notin Waits
    BY <1>1, ZenonT(40) DEF Waits
  <2>3. QED
    BY <1>1, <2>1, <2>2, StaysThere, Zenon
<1>3. Stage(node[m])'
  BY <1>0, <1>1 DEF Stage
<1>4. node'[m].pc \notin {"enter", "peer", "get_meta", "sum"}
  BY <1>1, Zenon
<1>5. QED
  BY <1>1, <1>2, <1>3, <1>4, Passes, Zenon

LEMMA JoinBarrier ==
  ASSUME NodeInv, BarrierInv, NEW m \in Machines, join(m), cast' = cast
  PROVE  BarrierInv'
<1> DEFINE s == node[m]
<1>0. /\ Stage(s) /\ Peers(s) /\ SumInv /\ memc.serverNum \in Nat /\ s.pc = "run" /\ root' = root
      /\ SetNode(m, [pc |-> "sum", k |-> 0, total |-> 0])
      /\ memc' = [memc EXCEPT !.sum = @ \cup {<<s.id, taken[s.id]>>}]
      /\ DOMAIN memc = {"serverNum", "meta", "sum", "barrier"}
      /\ s.id # None
  BY Zenon DEF BarrierInv, ProcessInv, IdInv, NodeInv, join, Stage
<1>1. s.at = "warm_finish" /\ s.id < CNodeCount /\ root # None
  BY <1>0, Zenon DEF Stage
<1>2. /\ DOMAIN node = Machines /\ node' = [node EXCEPT ![m] = node'[m]]
      /\ node'[m].pc = "sum" /\ node'[m].id = s.id /\ node'[m].at = s.at
      /\ node'[m].curServer = s.curServer /\ node'[m].k = 0 /\ node'[m].total = 0
  <2>1. Becomes(m, [pc |-> "sum", k |-> 0, total |-> 0])
    BY <1>0, Fields, Zenon
  <2>2. QED
    BY <2>1 DEF Becomes
<1>3. /\ memc'.serverNum = memc.serverNum /\ memc'.meta = memc.meta /\ memc'.barrier = memc.barrier
      /\ memc'.sum = memc.sum \cup {<<s.id, taken[s.id]>>}
  BY <1>0, Zenon
<1>4. s.id \in Nodes
  <2>1. s.id \in 0..(N - 1)
    BY <1>0, NumbersAreSmall, Zenon DEF BarrierInv, Entered
  <2>2. QED
    BY <1>1, <2>1, Counts
<1>5. taken[s.id] = cast.limit[s.id]
  <2>1. PICK t \in Threads : home[t] = s.id
    BY <1>4, DSMAssumption, Zenon
  <2>2. t \in Workers(m)
    BY <2>1, Zenon DEF Workers, Runs
  <2>3. taken[home[t]] = cast.limit[home[t]]
    BY <2>2, Zenon DEF join
  <2>4. QED
    BY <2>1, <2>3, Zenon
<1>6. SumInv'
  <2>1. \A part \in memc'.sum : part[1] \in Nodes /\ part[2] = cast.limit[part[1]]
    BY <1>0, <1>3, <1>4, <1>5 DEF SumInv
  <2>2. QED
    BY <1>0, <2>1, Zenon DEF SumInv
<1>7. Forward(s, node'[m])
  <2>1. node'[m].pc \notin {"reset", "add"} /\ s.pc \notin Waits
    BY <1>0, <1>2, Zenon DEF Waits
  <2>2. QED
    BY <1>2, <2>1, StaysThere, Zenon
<1>8. Stage(node[m])'
  BY <1>0, <1>1, <1>2 DEF Stage, Barriers
<1>9. Peers(node[m])'
  <2>1. Knows(node[m], node[m].curServer)' <=> Knows(node[m], node[m].curServer)
    BY <1>2, <1>3 DEF Knows
  <2>2. QED
    BY <1>0, <1>2, <1>3, <2>1, ZenonT(40) DEF Peers
<1>10. Summed(node[m])'
  <2>1. WorkOf(0)' = {}
    BY DEF WorkOf
  <2>2. WorkOf(node[m].k)' = WorkOf(0)'
    BY <1>2, Zenon DEF WorkOf
  <2>3. IsFiniteSet({}) /\ Cardinality({}) = 0 /\ 0 \in Nodes
    BY FS_EmptySet, Counts
  <2>4. node'[m].pc = "sum" /\ node'[m].at = "warm_finish" /\ node'[m].k = 0 /\ node'[m].total = 0
    BY <1>1, <1>2, Zenon
  <2>5. WorkOf(node[m].k)' = {}
    BY <2>1, <2>2, Zenon
  <2>6. QED
    BY <2>3, <2>4, <2>5, Zenon DEF Summed
<1>11. memc'.serverNum \in Nat /\ memc.serverNum <= memc'.serverNum /\ memc.meta \subseteq memc'.meta
  BY <1>0, <1>3
<1>12. QED
  BY <1>0, <1>2, <1>3, <1>6, <1>7, <1>8, <1>9, <1>10, <1>11, BarrierStep, Zenon

LEMMA SumBarrier ==
  ASSUME NodeInv, BarrierInv, NEW m \in Machines, sum(m), cast' = cast
  PROVE  BarrierInv'
<1> DEFINE s == node[m]
<1>0. /\ Stage(s) /\ Peers(s) /\ Summed(s) /\ SumInv /\ memc.serverNum \in Nat /\ s.pc = "sum"
      /\ root' = root /\ memc' = memc /\ DOMAIN s = DOMAIN Process
  BY Zenon DEF BarrierInv, ProcessInv, IdInv, NodeInv, sum
<1>1. PICK part \in memc.sum :
        /\ part[1] = s.k
        /\ SetNode(m, IF s.k + 1 = CNodeCount
                        THEN With([s EXCEPT !.k = @ + 1, !.total = @ + part[2]], ToBarrier(s.id, "finish"))
                        ELSE [s EXCEPT !.k = @ + 1, !.total = @ + part[2]])
  BY Zenon DEF sum
<1>2. s.at = "warm_finish" /\ s.id < CNodeCount /\ root # None /\ s.id # None
  BY <1>0, Zenon DEF Stage
<1>3. /\ s.k \in Nodes /\ IsFiniteSet(WorkOf(s.k)) /\ s.total = Cardinality(WorkOf(s.k))
      /\ part[2] = cast.limit[s.k]
  BY <1>0, <1>1, Zenon DEF Summed, SumInv
<1>4. /\ IsFiniteSet(WorkOf(s.k + 1)) /\ s.total + part[2] = Cardinality(WorkOf(s.k + 1))
      /\ s.total + part[2] \in Nat
  <2>1. IsFiniteSet(WorkOf(s.k + 1)) /\ s.total + part[2] = Cardinality(WorkOf(s.k + 1))
    BY <1>0, <1>3, WorkGrows, Zenon
  <2>2. QED
    BY <2>1, FS_CardinalityType, Zenon
<1> DEFINE a == [s EXCEPT !.k = @ + 1, !.total = @ + part[2]]
<1>5. /\ DOMAIN a = DOMAIN Process /\ a.pc = "sum" /\ a.id = s.id /\ a.at = s.at
      /\ a.curServer = s.curServer /\ a.serverNum = s.serverNum
      /\ a.k = s.k + 1 /\ a.total = s.total + part[2]
  BY <1>0, Zenon DEF Process
<1> HIDE DEF a
<1>6. {"pc", "id", "at", "curServer", "serverNum", "k", "total"} \subseteq DOMAIN Process
  BY Zenon DEF Process
<1>7. SumInv' /\ memc'.serverNum \in Nat /\ memc.serverNum <= memc'.serverNum /\ memc.meta \subseteq memc'.meta
  <2>1. SumInv'
    BY <1>0, Zenon DEF SumInv
  <2>2. QED
    BY <1>0, <2>1
<1>8. ASSUME NEW n, n = s.k + 1 PROVE WorkOf(n)' = WorkOf(s.k + 1)
  BY <1>8, Zenon DEF WorkOf, Work
<1>9. ASSUME DOMAIN node = Machines, node' = [node EXCEPT ![m] = node'[m]], node'[m].id = s.id,
             node'[m].curServer = s.curServer, node'[m].at \in {"warm_finish", "finish"},
             node'[m].pc \notin {"enter", "peer", "get_meta"},
             Forward(s, node'[m]), Stage(node[m])', Summed(node[m])'
      PROVE  BarrierInv'
  <2>1. Knows(node[m], node[m].curServer)' <=> Knows(node[m], node[m].curServer)
    BY <1>0, <1>9 DEF Knows
  <2>2. s.at # None
    BY <1>2, Counts DEF Barriers
  <2>3. Peers(node[m])'
    BY <1>0, <1>9, <2>1, <2>2, Zenon DEF Peers
  <2>4. QED
    BY <1>0, <1>7, <1>9, <2>3, BarrierStep, Zenon
<1>10. CASE s.k + 1 = CNodeCount
  <2> DEFINE z == With(a, ToBarrier(s.id, "finish"))
  <2>1. SetNode(m, z)
    BY <1>1, <1>10, Zenon DEF a
  <2>2. /\ DOMAIN z = DOMAIN Process /\ z.pc \in {"reset", "add"} /\ z.id = s.id /\ z.at = "finish"
        /\ z.curServer = s.curServer /\ z.total = s.total + part[2]
    BY <1>5, <1>6, ZenonT(40) DEF With, ToBarrier
  <2> HIDE DEF z
  <2>3. /\ DOMAIN node = Machines /\ node' = [node EXCEPT ![m] = node'[m]]
        /\ node'[m].pc \in {"reset", "add"} /\ node'[m].id = s.id /\ node'[m].at = "finish"
        /\ node'[m].curServer = s.curServer /\ node'[m].total = s.total + part[2]
    <3>1. Becomes(m, z)
      BY <1>6, <2>1, <2>2, Fields, Zenon
    <3>2. QED
      BY <3>1, <1>6, <2>2 DEF Becomes
  <2>4. Forward(s, node'[m])
    <3>1. /\ s.at \in Barriers /\ node'[m].at \in Barriers /\ s.pc \notin Waits
          /\ Order(node'[m].at) = Order(s.at) + 1
      BY <1>0, <1>2, <2>3 DEF Order, Barriers, Waits
    <3>2. QED
      BY <2>3, <3>1, GoesOn
  <2>5. Stage(node[m])'
    BY <1>2, <2>3, Counts DEF Stage, Barriers
  <2>6. Summed(node[m])'
    <3>1. WorkOf(CNodeCount)' = WorkOf(s.k + 1)
      BY <1>8, <1>10, Zenon
    <3>2. node'[m].total = Cardinality(WorkOf(CNodeCount)')
      BY <1>4, <2>3, <3>1, Zenon
    <3>3. node'[m].pc # "sum"
      BY <2>3, Zenon
    <3>4. QED
      BY <2>3, <3>2, <3>3, Zenon DEF Summed
  <2>7. node'[m].pc \notin {"enter", "peer", "get_meta"}
    BY <2>3, Zenon
  <2>8. QED
    BY <1>9, <2>3, <2>4, <2>5, <2>6, <2>7, Zenon
<1>11. CASE s.k + 1 # CNodeCount
  <2>1. SetNode(m, a)
    BY <1>1, <1>11, ZenonT(40) DEF a
  <2>2. /\ DOMAIN node = Machines /\ node' = [node EXCEPT ![m] = node'[m]]
        /\ node'[m].pc = "sum" /\ node'[m].id = s.id /\ node'[m].at = s.at
        /\ node'[m].curServer = s.curServer /\ node'[m].k = s.k + 1
        /\ node'[m].total = s.total + part[2]
    <3>1. Becomes(m, a)
      BY <1>5, <1>6, <2>1, Fields, Zenon
    <3>2. QED
      BY <3>1, <1>5, <1>6 DEF Becomes
  <2>3. Forward(s, node'[m])
    <3>1. node'[m].pc \notin {"reset", "add"} /\ s.pc \notin Waits
      BY <1>0, <2>2, ZenonT(40) DEF Waits
    <3>2. QED
      BY <2>2, <3>1, StaysThere, Zenon
  <2>4. Stage(node[m])'
    BY <1>0, <1>2, <2>2, Zenon DEF Stage, Barriers
  <2>5. Summed(node[m])'
    <3>1. WorkOf(node[m].k)' = WorkOf(s.k + 1)
      BY <2>2, ZenonT(40) DEF WorkOf, Work
    <3>2. s.k + 1 \in Nodes
      BY <1>3, <1>11, Counts
    <3>3. node'[m].at = "warm_finish" /\ node'[m].at # "finish"
      BY <1>2, <2>2
    <3>4. QED
      BY <1>4, <2>2, <3>1, <3>2, <3>3, Zenon DEF Summed
  <2>6. node'[m].pc \notin {"enter", "peer", "get_meta"} /\ node'[m].at \in {"warm_finish", "finish"}
    BY <1>2, <2>2, Zenon
  <2>7. QED
    BY <1>9, <2>2, <2>3, <2>4, <2>5, <2>6, Zenon
<1>12. QED
  BY <1>10, <1>11, Zenon

-----------------------------------------------------------------------------
LEMMA CastStays == [Next]_vars => cast' = cast
  BY Zenon DEF Next, vars, localVars, acquire_local_lock, wait, granted, try_lock_addr,
     lock_and_read_page, write_page_and_unlock, write_sync, write_batch, unlock_addr, landed,
     releases_local_lock, land, read_version, read_sync, check_version, Finished

LEMMA BarrierInit == ClusterInit => BarrierInv
<1> SUFFICES ASSUME ClusterInit PROVE BarrierInv
  BY Zenon
<1>1. /\ memc.serverNum = 0 /\ memc.meta = {} /\ memc.sum = {} /\ memc.barrier = [b \in Barriers |-> None]
      /\ \A m \in Machines : node[m] = Process
      /\ cast \in Setups
  BY Zenon DEF ClusterInit, Init
<1>2. /\ Process.pc = "enter" /\ Process.id = None /\ Process.at = None /\ Process.curServer = 0
      /\ Process.total = None
  BY Zenon DEF Process
<1>3. IdInv
  <2>1. Entered = {}
    BY <1>1, <1>2, Zenon DEF Entered
  <2>2. Cardinality({}) = 0
    BY FS_EmptySet, Zenon
  <2>3. QED
    BY <1>1, <1>2, <2>1, <2>2 DEF IdInv
<1>4. ASSUME NEW m \in Machines PROVE Stage(node[m]) /\ Peers(node[m]) /\ Summed(node[m])
  <2>1. node[m] = Process /\ None \notin Barriers
    BY <1>1, Counts, Zenon
  <2>2. Stage(node[m])
    BY <1>2, <2>1 DEF Stage, Barriers
  <2>3. Peers(node[m])
    BY <1>1, <1>2, <2>1 DEF Peers, Knows
  <2>4. Summed(node[m])
    BY <1>2, <2>1 DEF Summed
  <2>5. QED
    BY <2>2, <2>3, <2>4, Zenon
<1>5. CountInv
  BY <1>1, Zenon DEF CountInv
<1>6. MeetInv
  <2>1. ASSUME NEW m \in Machines, NEW b \in Barriers PROVE ~Out(node[m], b)
    <3>1. node[m].at = None /\ Order(None) = 0 /\ Order(b) \in 1..4
      BY <1>1, <1>2, Counts, Zenon
    <3>2. QED
      BY <3>1 DEF Out, Reached
  <2>2. QED
    BY <2>1, Zenon DEF MeetInv
<1>7. SumInv
  BY <1>1, Zenon DEF SumInv
<1>8. QED
  BY <1>3, <1>4, <1>5, <1>6, <1>7, Zenon DEF BarrierInv, ProcessInv

LEMMA BarrierFrame ==
  ASSUME BarrierInv, memc' = memc, node' = node, root' = root, cast' = cast PROVE BarrierInv'
<1>1. IdInv'
  BY DEF BarrierInv, IdInv, Entered
<1>2. ProcessInv'
  <2>1. ASSUME NEW m \in Machines PROVE Stage(node[m])' /\ Peers(node[m])' /\ Summed(node[m])'
    <3>1. Stage(node[m]) /\ Peers(node[m]) /\ Summed(node[m])
      BY Zenon DEF BarrierInv, ProcessInv
    <3>2. Stage(node[m])'
      BY <3>1, Zenon DEF Stage
    <3>3. Peers(node[m])'
      BY <3>1, Zenon DEF Peers, Knows
    <3>4. Summed(node[m])'
      <4>1. \A k : WorkOf(k)' = WorkOf(k)
        BY Zenon DEF WorkOf, Work
      <4>2. QED
        BY <3>1, <4>1, Zenon DEF Summed
    <3>5. QED
      BY <3>2, <3>3, <3>4, Zenon
  <2>2. QED
    BY <2>1, Zenon DEF ProcessInv
<1>3. SumInv'
  BY DEF BarrierInv, SumInv
<1>4. CountInv'
  BY DEF BarrierInv, CountInv, AtBarrier, Take, Came, Reached
<1>5. MeetInv'
  BY DEF BarrierInv, MeetInv, Met, Take, Out, Reached
<1>6. QED
  BY <1>1, <1>2, <1>3, <1>4, <1>5, Zenon DEF BarrierInv

LEMMA BarrierNext ==
  AllocInv /\ BarrierInv /\ [ClusterNext]_clusterVars => BarrierInv'
<1> SUFFICES ASSUME AllocInv, BarrierInv, [ClusterNext]_clusterVars PROVE BarrierInv'
  BY Zenon
<1>1. cast' = cast /\ NodeInv
  BY ClusterStep, CastStays, Zenon DEF AllocInv
<1>2. ASSUME UNCHANGED <<memc, node, root>> PROVE BarrierInv'
  BY <1>1, <1>2, BarrierFrame, Zenon
<1>3. ASSUME NEW m \in Machines, MainStep(m) PROVE BarrierInv'
  BY <1>1, <1>3, EnterBarrier, ConnectBarrier, PeerBarrier, ResetBarrier, AddBarrier, OpenBarrier,
     RootBarrier, WarmBarrier, JoinBarrier, SumBarrier, Zenon DEF MainStep
<1>4. ASSUME NEW m \in Machines, process_message(m) PROVE BarrierInv'
  <2>1. memc' = memc /\ root' = root /\ node[m].id # None
    BY <1>4, Zenon DEF process_message
  <2>2. PICK q \in net : alloc_chunck(m, q)
    BY <1>4, Zenon DEF process_message
  <2>3. CASE SetNode(m, [pc |-> "aborted"])
    <3>1. /\ DOMAIN [pc |-> "aborted"] \subseteq {"appID", "pc"} /\ "pc" \in DOMAIN [pc |-> "aborted"]
          /\ [pc |-> "aborted"].pc = "aborted"
      BY Zenon
    <3>2. QED
      BY <1>1, <2>1, <2>3, <3>1, StaysBarrier, Zenon
  <2>4. CASE UNCHANGED node
    BY <1>2, <2>1, <2>4, Zenon
  <2>5. QED
    BY <2>2, <2>3, <2>4, Zenon DEF alloc_chunck
<1>5. ASSUME NEW m \in Machines, NEW t \in Threads \cup Machines, registerThread(m, t)
      PROVE  BarrierInv'
  <2> DEFINE r == [appID |-> node[m].appID + 1, pc |-> IF t = m THEN "tree" ELSE "spawn"]
  <2>1. /\ memc' = memc /\ root' = root /\ SetNode(m, r)
        /\ node[m].pc = IF t = m THEN "register" ELSE "spawn"
    BY <1>5, Zenon DEF registerThread
  <2>2. /\ DOMAIN r \subseteq {"appID", "pc"} /\ "pc" \in DOMAIN r
        /\ r.pc = IF t = m THEN "tree" ELSE "spawn"
    BY Zenon
  <2>3. node[m].id # None
    <3>1. node[m].pc # "enter"
      BY <2>1, Zenon
    <3>2. QED
      BY <3>1, Zenon DEF BarrierInv, ProcessInv, Stage
  <2> HIDE DEF r
  <2>4. QED
    BY <1>1, <2>1, <2>2, <2>3, StaysBarrier, Zenon
<1>6. ASSUME NEW m \in Machines, NEW t \in Threads \cup Machines, ThreadStep(m, t)
      PROVE  BarrierInv'
  BY <1>2, <1>5, <1>6, Zenon DEF ThreadStep, alloc, rpc_wait, Works, dsmVars
<1>7. CASE Land \/ \E r \in Readers : Searches(r)
  BY <1>2, <1>7, Zenon DEF Land, Searches, dsmVars
<1>8. CASE UNCHANGED clusterVars
  BY <1>2, <1>8, Zenon DEF clusterVars, dsmVars
<1>9. QED
  BY <1>3, <1>4, <1>6, <1>7, <1>8, Zenon DEF ClusterNext

(* The barriers hold, whatever the numbers of machines, of compute nodes and  *)
(* of threads, and in whatever order machines come: none is beyond a barrier  *)
(* of DSMKeeper before all that take part have come to it; when workers run   *)
(* there is a root and every machine has everybody's meta data; and what      *)
(* DSMKeeper::sum returns is the work of all compute nodes.                   *)
THEOREM BarriersDoHold == ClusterSpec => []BarriersHold
<1>1. BarrierInv => BarriersHold
  <2> SUFFICES ASSUME BarrierInv PROVE BarriersHold
    BY Zenon
  <2>0. IdInv /\ ProcessInv /\ MeetInv
    BY Zenon DEF BarrierInv
  <2>1. ASSUME NEW m \in Machines, NEW b \in Barriers
        PROVE  /\ Before(m, b) <=> ~Reached(node[m], b)
               /\ Beyond(m, b) <=> Out(node[m], b)
               /\ Out(node[m], b) => node[m].id # None
               /\ node[m].id # None => node[m].id \in 0..(N - 1)
    <3>1. node[m].at \in Barriers \cup {None} /\ (node[m].id = None => node[m].at = None)
      BY <2>0, Zenon DEF ProcessInv, Stage
    <3>2. Order(b) \in 1..4 /\ Order(node[m].at) \in 0..4 /\ Order(None) = 0
      BY <3>1, Counts
    <3>3. Before(m, b) <=> ~Reached(node[m], b)
      BY <3>2 DEF Before, Reached
    <3>4. Beyond(m, b) <=> Out(node[m], b)
      BY <3>3, Zenon DEF Beyond, Out, Waits
    <3>5. Out(node[m], b) => node[m].id # None
      BY <3>1, <3>2 DEF Out, Reached
    <3>6. QED
      BY <2>0, <3>3, <3>4, <3>5, NumbersAreSmall, Zenon DEF Entered
  <2>2. ASSUME NEW m \in Machines, NEW l \in Machines, NEW b \in Barriers,
               Num(b) = N \/ {node[m].id, node[l].id} \cap CNodeCount..(N - 1) = {}, Beyond(m, b)
        PROVE  ~Before(l, b)
    <3>1. ASSUME NEW k \in {m, l}, node[k].id # None PROVE Take(node[k], b)
      <4>1. node[k].id \in 0..(N - 1)
        BY <2>1, <3>1, Zenon
      <4>2. Num(b) = N \/ node[k].id \notin CNodeCount..(N - 1)
        BY <2>2, <3>1, Zenon
      <4>3. Num(b) \in {N, CNodeCount}
        BY Counts, Zenon
      <4>4. QED
        BY <4>1, <4>2, <4>3, Counts DEF Take
    <3>2. Met(b)
      BY <2>0, <2>1, <2>2, <3>1, Zenon DEF MeetInv
    <3>3. Reached(node[l], b)
      BY <3>1, <3>2, Zenon DEF Met
    <3>4. QED
      BY <2>1, <3>3, Zenon
  <2>3. ASSUME NEW m \in Machines, node[m].pc = "run"
        PROVE  root # None /\ \A k, l \in 0..(N - 1) : k # l => <<k, l>> \in memc.meta
    <3>1. node[m].at = "warm_finish" /\ root # None
      BY <2>0, <2>3, Zenon DEF ProcessInv, Stage
    <3>2. Out(node[m], "DSM-init") /\ "DSM-init" \in Barriers /\ Num("DSM-init") = N
      BY <3>1 DEF Out, Reached, Order, Barriers, Num
    <3>3. \A i \in Machines : ~Before(i, "DSM-init")
      <4>1. Beyond(m, "DSM-init")
        BY <2>1, <3>2, Zenon
      <4>2. QED
        BY <2>2, <3>2, <4>1, Zenon
    <3>4. ASSUME NEW i \in Machines PROVE node[i].at # None
      <4>1. ~Before(i, "DSM-init")
        BY <3>3, Zenon
      <4>2. QED
        BY <4>1, Counts DEF Before, Order
    <3>5. ASSUME NEW i \in Machines
          PROVE  /\ node[i].curServer \in 0..memc.serverNum /\ node[i].curServer >= N
                 /\ Knows(node[i], node[i].curServer)
      BY <2>0, <3>4, Zenon DEF ProcessInv, Peers
    <3>6. memc.serverNum \in Nat /\ memc.serverNum >= N
      <4>1. memc.serverNum \in Nat
        BY <2>0, Zenon DEF IdInv
      <4>2. QED
        BY <3>5, <4>1, Counts
    <3>7. ASSUME NEW k \in 0..(N - 1), NEW l \in 0..(N - 1), k # l PROVE <<k, l>> \in memc.meta
      <4>1. k \in 0..(memc.serverNum - 1)
        BY <3>6, Counts
      <4>2. PICK i \in Machines : node[i].id = k
        BY <2>0, <4>1, Zenon DEF IdInv
      <4>3. l \in 0..(node[i].curServer - 1)
        BY <3>5, <3>6, Counts
      <4>4. QED
        BY <3>5, <3>7, <4>2, <4>3, Zenon DEF Knows
    <3>8. QED
      BY <3>1, <3>7, Zenon
  <2>4. ASSUME NEW m \in Machines, node[m].at = "finish", node[m].total # None
        PROVE  node[m].total = Cardinality(UNION {Work(n) : n \in Nodes})
    <3>1. node[m].total = Cardinality(WorkOf(CNodeCount))
      BY <2>0, <2>4, Zenon DEF ProcessInv, Summed
    <3>2. Nodes = 0..(CNodeCount - 1)
      BY Counts, Zenon
    <3>3. QED
      BY <3>1, <3>2, Zenon DEF WorkOf
  <2>5. QED
    BY <2>2, <2>3, <2>4, Zenon DEF BarriersHold
<1>2. QED
  BY <1>1, AllocInit, AllocNext, BarrierInit, BarrierNext, PTL DEF ClusterSpec
=============================================================================
