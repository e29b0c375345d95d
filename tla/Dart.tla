-------------------------------- MODULE Dart --------------------------------
(***************************************************************************)
(* A DART run: the processes of DartCluster, with the threads of DartTree  *)
(* working inside the compute nodes' load and run phases, and the skip     *)
(* table built in between by the compute node with index 0.                *)
(***************************************************************************)
EXTENDS DartTree, DartCluster

CONSTANT Setups    \* the casts of the runs considered

vars == <<treeVars, clusterVars>>

N == cast.threads
Threads == 0 .. Cardinality(cast.computes) * N - 1
ThreadsOf(c) == {index[c] * N + i : i \in 0 .. N - 1}
MemoryNum == Cardinality(cast.memories)

----------------------------------------------------------------------------
(* The regions of disaggregated memory the threads allocate from.          *)

CeilDiv(a, b) == (a + b - 1) \div b

(* DisaggregatedMemoryController: equal shares of one memory machine,      *)
(* rounded up to whole pages and clipped, and the root kept out.           *)
Region(i, threads, machines) ==
  LET per == CeilDiv(threads, machines)
      size == CeilDiv(cast.room \div per, PageSize) * PageSize
      start == Min({(i % per) * size, cast.room})
      base == (i \div per) * cast.room
  IN  [now |-> base + IF base + start = 0 THEN 1 ELSE start,
       end |-> base + Min({start + size, cast.room})]

(* get_part_index_start and get_part_index_end: a thread's records.        *)
Part(file, i) ==
  LET size == CeilDiv(Len(file), N)
  IN  SubSeq(file, i * size + 1, Min({(i + 1) * size, Len(file)}))

----------------------------------------------------------------------------
Off == [todo |-> <<>>, race |-> FALSE, m |-> 1] @@ [Idle EXCEPT !.pc = "off"]

Init ==
  /\ cast \in Setups
  /\ mon = [stage |-> 1, i |-> 1, err |-> FALSE, list |-> <<>>]
  /\ step = [n \in Nodes |-> 1]
  /\ index = [n \in Nodes |-> 0]
  /\ up = [n \in Nodes |-> <<>>]
  /\ down = [n \in Nodes |-> <<>>]
  /\ mem = [a \in 0 .. MemoryNum * cast.room - 1 |-> Nothing]
  /\ alloc = [t \in Threads |-> Region(t, Cardinality(Threads), MemoryNum)]
  /\ table = [b \in cast.buckets |-> <<>>]
  /\ cnt = [m \in 1 .. MemoryNum |-> 0]
  /\ th = [t \in Threads |-> Off]
  /\ done = {} /\ missed = FALSE /\ harm = {}

(* The memory node with index 0 clears the root once it is connected.      *)
Connect(n) ==
  /\ connect(n)
  /\ mem' = IF n \in cast.memories /\ index[n] = 0 /\ step'[n] # 0
            THEN [mem EXCEPT ![0] = NewNode(MaxType)] ELSE mem
  /\ UNCHANGED <<alloc, table, cnt, th, done, missed, harm>>

(* The compute node starts its load or run threads, each with its part of  *)
(* the file; the run threads first meet at the skip table's counter.       *)
StartThreads(c, what, file, r) ==
  /\ AtLocal(c, what)
  /\ \A t \in ThreadsOf(c) : th[t].pc = "off"
  /\ th' = [t \in Threads |-> IF t \in ThreadsOf(c)
              THEN [todo |-> Part(file, t % N)] @@ r @@ th[t] ELSE th[t]]
  /\ UNCHANGED <<clusterVars, mem, alloc, table, cnt, done, missed, harm>>

StartLoad(c) == StartThreads(c, "load", cast.load, [pc |-> "idle"])
StartRun(c) == StartThreads(c, "run", cast.run, [pc |-> "start", race |-> TRUE])

Finished(t) == th[t].pc = IF th[t].race THEN "gone" ELSE "idle"

(* ... and joins them.                                                     *)
JoinThreads(c) ==
  /\ AtLocal(c, "load") \/ AtLocal(c, "run")
  /\ \A t \in ThreadsOf(c) : Finished(t) /\ th[t].todo = <<>>
  /\ th' = [t \in Threads |-> IF t \in ThreadsOf(c) THEN Off ELSE th[t]]
  /\ Advance(c)
  /\ UNCHANGED <<cast, mon, index, up, down, mem, alloc, table, cnt, done, missed, harm>>

----------------------------------------------------------------------------
(* The skip table's counter, on each memory machine in turn.               *)

AddCnt(t, d) == cnt' = [cnt EXCEPT ![th[t].m] = @ + d]
NextMachine(t, waiting, again, then) ==
  IF waiting # "no" THEN Set(t, [pc |-> waiting])
  ELSE IF th[t].m < MemoryNum THEN Set(t, [pc |-> again, m |-> th[t].m + 1])
  ELSE Set(t, [pc |-> then, m |-> 1])

Counter == UNCHANGED <<clusterVars, mem, alloc, table, done, missed, harm>>

(* Client::start: count in, and wait until all the compute node's threads  *)
(* (or as many others) have.                                               *)
start(t) ==
  /\ th[t].pc = "start" /\ AddCnt(t, 1)
  /\ NextMachine(t, IF cnt[th[t].m] < N THEN "starting" ELSE "no", "start", "idle")
  /\ Counter
starting(t) ==
  /\ th[t].pc = "starting" /\ cnt[th[t].m] >= N
  /\ NextMachine(t, "no", "start", "idle")
  /\ UNCHANGED cnt /\ Counter

(* Client::stop: count out, and wait for everyone.                         *)
stop(t) ==
  /\ \/ th[t].pc = "idle" /\ th[t].race /\ th[t].todo = <<>>
     \/ th[t].pc = "stop"
  /\ AddCnt(t, -1)
  /\ NextMachine(t, IF cnt[th[t].m] # 0 THEN "stopping" ELSE "no", "stop", "gone")
  /\ Counter
stopping(t) ==
  /\ th[t].pc = "stopping" /\ cnt[th[t].m] = 0
  /\ NextMachine(t, "no", "stop", "gone")
  /\ UNCHANGED cnt /\ Counter

----------------------------------------------------------------------------
(* create_skip_table.                                                      *)

(* get_one_leaf: the first leaf below, in slot order.                      *)
RECURSIVE get_one_leaf(_)
get_one_leaf(ptr) ==
  IF mem[ptr].type \in {None, Leaf} THEN mem[ptr].key
  ELSE LET s == mem[ptr].slots
           keys == {i \in Used(s, DOMAIN s) : get_one_leaf(s[i].ptr) # <<>>}
       IN  IF keys = {} THEN <<>> ELSE get_one_leaf(s[Min(keys)].ptr)

(* add_shortcut: a shortcut for the first node of each path at or beyond a *)
(* power of two, with the prefix one byte shorter than that power.         *)
RECURSIVE add_shortcut(_, _, _)
add_shortcut(ptr, pos, level) ==
  IF mem[ptr].type \in {None, Leaf} THEN <<>>
  ELSE LET s == mem[ptr].slots
           next == IF pos + 2 <= level THEN level
                   ELSE Min({l \in {level * 2 ^ n : n \in 1 .. KeyLen} : pos + 2 <= l})
           this == IF pos + 2 <= level THEN <<>>
                   ELSE <<[prefix |-> SubSeq(get_one_leaf(ptr), 1, next \div 2 - 1),
                           node |-> [type |-> mem[ptr].type, ptr |-> ptr, pos |-> pos % 32]]>>
           below == [i \in 1 .. Cardinality(DOMAIN s) |->
                       IF s[i - 1].type = None THEN <<>>
                       ELSE add_shortcut(s[i - 1].ptr, pos + s[i - 1].len, next)]
       IN  this \o FlattenSeq(below)

(* RACE Client::insert: the first empty slot of the bucket pair, and       *)
(* nothing when there is none.                                             *)
FindEmptySlot(bucket) == Len(bucket) < RaceSlots
race_insert(tab, e) ==
  LET b == hash(e.prefix).bucket
  IN  IF ~FindEmptySlot(tab[b]) THEN tab
      ELSE [tab EXCEPT ![b] = Append(@, [fp |-> hash(e.prefix).fp, node |-> e.node])]

create_skip_table == FoldLeft(race_insert, table, add_shortcut(0, 0, 2))

(* Only the compute node with index 0 builds the table; it counts itself   *)
(* in and out of an otherwise unused counter.                              *)
Prepare(c) ==
  /\ AtLocal(c, "prepare")
  /\ table' = IF index[c] = 0 THEN create_skip_table ELSE table
  /\ index[c] = 0 => \A m \in DOMAIN cnt : cnt[m] = 0
  /\ Advance(c)
  /\ UNCHANGED <<cast, mon, index, up, down, mem, alloc, cnt, th, done, missed, harm>>

----------------------------------------------------------------------------
Process(n) ==
  \/ NodeStep(n) /\ UNCHANGED treeVars
  \/ Connect(n) \/ StartLoad(n) \/ StartRun(n) \/ JoinThreads(n) \/ Prepare(n)
MonitorStep == Monitor /\ UNCHANGED treeVars
Thread(t) ==
  \/ Operate(t) /\ UNCHANGED clusterVars
  \/ start(t) \/ starting(t) \/ stop(t) \/ stopping(t)

AllLeft == Closed /\ \A n \in Nodes : step[n] = 0

(* A thread waits at the counter for threads that have already counted     *)
(* themselves out, and nobody is left to count in.                         *)
Waits(t) == \/ th[t].pc = "starting" /\ cnt[th[t].m] < N
            \/ th[t].pc = "stopping" /\ cnt[th[t].m] # 0
Hung ==
  /\ \E t \in Threads : th[t].pc = "starting"
  /\ \A c \in cast.computes :
       \/ step[c] = 0 \/ Past(c, "run")
       \/ AtLocal(c, "run") /\ \A t \in ThreadsOf(c) : Waits(t) \/ th[t].pc = "gone"

Next ==
  \/ MonitorStep
  \/ \E n \in Nodes : Process(n)
  \/ \E t \in Threads : Thread(t)
  \/ (AllLeft \/ Hung) /\ UNCHANGED vars

Spec == Init /\ [][Next]_vars

----------------------------------------------------------------------------
(* Properties.                                                             *)

SlotOK(s) == s.type \in None .. MaxType /\ s.ptr \in DOMAIN mem /\ s.len >= 0
TypeOK ==
  /\ \A p \in DOMAIN mem : \A i \in DOMAIN mem[p].slots : SlotOK(mem[p].slots[i])
  /\ \A t \in Threads : alloc[t].now <= alloc[t].end /\ SlotOK(th[t].old)
  /\ \A x \in DOMAIN table : Len(table[x]) <= RaceSlots
  /\ harm \subseteq {"late", "clobber", "astray"}
  /\ \A n \in Nodes : step[n] \in 0 .. Len(Script(n))

(* The keys of the leaves below an address.                                *)
RECURSIVE KeysBelow(_)
KeysBelow(ptr) ==
  IF mem[ptr].type \in {None, Leaf} THEN {mem[ptr].key}
  ELSE UNION {KeysBelow(mem[ptr].slots[i].ptr) :
                i \in Used(mem[ptr].slots, DOMAIN mem[ptr].slots)}

(* Below a node at a position: bytes are distinct and in their bucket, the *)
(* leaves under a slot have its byte, and share its compressed bytes.      *)
RECURSIVE SoundBelow(_, _)
SoundBelow(ptr, pos) ==
  LET s == mem[ptr].slots IN
  mem[ptr].type > Leaf =>
    \A i \in Used(s, DOMAIN s) :
      /\ i \in Bucket(mem[ptr].type, s[i].byte)
      /\ \A j \in Used(s, DOMAIN s) : s[i].byte = s[j].byte => i = j
      /\ \A k, l \in KeysBelow(s[i].ptr) :
           /\ k[pos + 1] = s[i].byte
           /\ SubSeq(k, 1, Min({pos + s[i].len, KeyLen})) = SubSeq(l, 1, Min({pos + s[i].len, KeyLen}))
      /\ SoundBelow(s[i].ptr, pos + s[i].len)

(* The tree (insert, update and the upgrade and split of art-node.cc) is a *)
(* radix tree, every key whose insert returned true is found from the      *)
(* root, no search missed a key that had been inserted before it began,    *)
(* and no scan from such a key came back empty, whatever splits and        *)
(* upgrades overlapped it.  Three things are known to break this and are   *)
(* excepted: a swap into a node that an upgrade has already copied or      *)
(* replaced, an upgrade that replaces a slot which points elsewhere or to  *)
(* a node changed since the copy, and an operation started at a shortcut   *)
(* which is not on its key's path.                                         *)
TreeIsSound ==
  /\ TypeOK
  /\ harm = {} => /\ SoundBelow(0, 0)
                  /\ \A k \in done : Holds(k)
                  /\ ~missed

(* The phases of a run (the 200, 600/700 and 800/900 exchanges of          *)
(* monitor.cc) do not overlap, whoever fails: threads touch the tree only  *)
(* after the root was cleared and every node is connected; while the skip  *)
(* table is built no thread works; a run thread starts only when every     *)
(* compute node has loaded and the table is complete.  All keys below a    *)
(* shortcut's node hash to the shortcut's slot.                            *)
Working(t) == th[t].pc # "off"
PhasesAreKept ==
  /\ \A t \in Threads : Working(t) =>
       /\ mem[0].type = MaxType
       /\ \A n \in Nodes : step[n] = 0 \/ Past(n, "connect")
  /\ \A n \in cast.computes : AtLocal(n, "prepare") => ~\E t \in Threads : Working(t)
  /\ \A t \in Threads : Working(t) /\ th[t].race =>
       /\ \A n \in cast.computes : step[n] = 0 \/ Past(n, "prepare")
       /\ \A u \in Threads : Working(u) => th[u].race
  /\ \A x \in DOMAIN table : \A i \in DOMAIN table[x] :
       \A k \in KeysBelow(table[x][i].node.ptr) :
         hash(SubSeq(k, 1, PrefixLen)) = [bucket |-> x, fp |-> table[x][i].fp]

(* Every process of a run ends, with the results or after an error, unless *)
(* run threads hang at the skip table's start counter (race.cc, start and  *)
(* stop) because one counted itself out before the other saw the total.    *)
EveryProcessEnds == <>(AllLeft \/ Hung)

(* Fairness: as long as some process or thread can take a step, one does.  *)
FairSpec == Spec /\ WF_vars(Next)
=============================================================================
