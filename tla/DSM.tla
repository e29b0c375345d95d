-------------------------------- MODULE DSM --------------------------------
(* The cluster of the Sherman benchmark around the page of ShermanLock: how   *)
(* machines find each other through memcached (Keeper.cpp, DSMKeeper.cpp),    *)
(* how they meet at barriers, how threads register (DSM.cpp) and how they get *)
(* pages: from the chunk a thread owns (LocalAllocator.h), which it asks of a *)
(* directory of a memory node by a message (DSM.h, Directory.cpp,             *)
(* GlobalAllocator.h).  The workers then compete for the page's lock, and a   *)
(* store that splits the page allocates its sibling under that lock.          *)
(*                                                                            *)
(* Every memcached command is a step.  A message is taken from the network in *)
(* any order.  A setup also bounds the splits of each worker.                 *)
EXTENDS ShermanLock, FiniteSets

CONSTANTS
  Machines,
  CNodeCount,   \* the machines that run workers: Nodes = 0..CNodeCount - 1
  memThreadCount,
  kChunkSize, PageSize,
  Slack,        \* the 8 bytes that malloc keeps behind a page
  bitmap_len,   \* chunks of a directory
  None

N == Cardinality(Machines)

ASSUME DSMAssumption ==
  /\ IsFiniteSet(Machines) /\ N \in Nat /\ Machines \subseteq Nat
  /\ Threads \subseteq Nat /\ Threads \cap Machines = {}
  /\ CNodeCount \in 1..N /\ Nodes = 0..(CNodeCount - 1)
  /\ \A n \in Nodes : \E t \in Threads : home[t] = n
  /\ memThreadCount \in Nat \ {0} /\ bitmap_len \in Nat \ {0}
  /\ PageSize \in Nat \ {0} /\ Slack \in Nat
  /\ kChunkSize \in Nat /\ PageSize + Slack <= kChunkSize

VARIABLES
  memc,   \* memcached
  node,   \* the process of each machine: main thread and DSM object
  th,     \* the DSM state of each thread; a machine stands for its main thread
  tail,   \* bitmap_tail of each directory
  net,    \* messages on their way
  root    \* the word at root_ptr_ptr

lockVars == vars
dsmVars == <<memc, node, th, tail, net, root>>
clusterVars == <<lockVars, dsmVars>>

Barriers == {"DSM-init", "bulkload", "warm_finish", "finish"}

(* What is absent is no number, no name of a barrier and no address. *)
ASSUME NoneAssumption ==
  None \notin Nat /\ None \notin Barriers /\ None \notin [node : Nat, offset : Nat]

Directories == (0..(N - 1)) \X (0..(memThreadCount - 1))

Unregistered == [pc |-> "start", id |-> None, head |-> None, cur |-> None, next |-> None, pages |-> {}]

Process == [pc |-> "enter", id |-> None, curServer |-> 0, serverNum |-> 0,
            k |-> 0, at |-> None, appID |-> 0, total |-> None]

ClusterInit ==
  /\ Init
  /\ memc = [serverNum |-> 0, meta |-> {}, sum |-> {}, barrier |-> [b \in Barriers |-> None]]
  /\ node = [m \in Machines |-> Process]
  /\ th = [t \in Threads \cup Machines |-> Unregistered]
  /\ tail = [d \in Directories |-> 1]
  /\ net = {}
  /\ root = None

(* The record s with the fields that r has. *)
With(s, r) == [f \in DOMAIN s |-> IF f \in DOMAIN r THEN r[f] ELSE s[f]]

SetNode(m, r) == node' = [node EXCEPT ![m] = With(@, r)]

Runs(m, t) == t = m \/ (t \in Threads /\ home[t] = node[m].id)

Workers(m) == {t \in Threads : Runs(m, t)}

Resets(id) == id = 0

(* DSMKeeper::barrier begins; node 0 first sets the key to 0. *)
ToBarrier(id, b) == [at |-> b, pc |-> IF Resets(id) THEN "reset" ELSE "add"]

-----------------------------------------------------------------------------
(* Keeper: the machines find each other. *)

(* Machines are numbered in the order in which they come, being all alike     *)
(* before.                                                                    *)
serverEnter(m) ==
  /\ node[m].pc = "enter"
  /\ \A l \in Machines : l < m => node[l].pc # "enter"
  /\ memc' = [memc EXCEPT !.serverNum = @ + 1]
  /\ SetNode(m, [pc |-> "connect", id |-> memc.serverNum])
  /\ UNCHANGED <<lockVars, th, tail, net, root>>

(* One turn of the loop of serverConnect that finds more machines; behind it  *)
(* connectMySelf and initRouteRule, which nobody waits for.                   *)
serverConnect(m) ==
  /\ node[m].pc = "connect"
  /\ memc.serverNum > node[m].curServer \/ node[m].curServer >= N
  /\ SetNode(m, IF node[m].curServer < N
                  THEN [pc |-> "peer", serverNum |-> memc.serverNum, k |-> node[m].curServer]
                  ELSE ToBarrier(node[m].id, "DSM-init"))
  /\ UNCHANGED <<lockVars, memc, th, tail, net, root>>

(* connectNode: the own meta data is stored for machine k, ... *)
setDataToRemote(m) ==
  LET s == node[m] IN
  /\ s.pc = "peer"
  /\ \/ /\ s.k = s.serverNum
        /\ SetNode(m, [pc |-> "connect", curServer |-> s.serverNum])
        /\ UNCHANGED memc
     \/ /\ s.k < s.serverNum /\ s.k = s.id
        /\ SetNode(m, [k |-> s.k + 1])
        /\ UNCHANGED memc
     \/ /\ s.k < s.serverNum /\ s.k # s.id
        /\ memc' = [memc EXCEPT !.meta = @ \cup {<<s.id, s.k>>}]
        /\ SetNode(m, [pc |-> "get_meta"])
  /\ UNCHANGED <<lockVars, th, tail, net, root>>

(* ... and that of k is awaited. *)
setDataFromRemote(m) ==
  /\ node[m].pc = "get_meta"
  /\ <<node[m].k, node[m].id>> \in memc.meta
  /\ SetNode(m, [pc |-> "peer", k |-> node[m].k + 1])
  /\ UNCHANGED <<lockVars, memc, th, tail, net, root>>

-----------------------------------------------------------------------------
(* DSMKeeper::barrier *)

Num(b) == IF b \in {"bulkload", "warm_finish"} THEN CNodeCount ELSE N

barrier_reset(m) ==
  /\ node[m].pc = "reset"
  /\ memc' = [memc EXCEPT !.barrier[node[m].at] = 0]
  /\ SetNode(m, [pc |-> "add"])
  /\ UNCHANGED <<lockVars, th, tail, net, root>>

(* memFetchAndAdd: tried until the key exists. *)
memFetchAndAdd(m) ==
  /\ node[m].pc = "add"
  /\ memc.barrier[node[m].at] # None
  /\ memc' = [memc EXCEPT !.barrier[node[m].at] = @ + 1]
  /\ SetNode(m, [pc |-> "spin"])
  /\ UNCHANGED <<lockVars, th, tail, net, root>>

(* A barrier that the last node but one opens. *)
OpensEarly(b) == memc.barrier[b] >= Num(b) - 1

Open(b) == memc.barrier[b] = Num(b)

(* What main does behind each barrier: machines beyond CNodeCount only wait   *)
(* for the others; behind "bulkload" is resetThread.                          *)
After(s) ==
  CASE s.at = "DSM-init" /\ s.id < CNodeCount -> [pc |-> "register"]
    [] s.at = "DSM-init" /\ s.id >= CNodeCount -> ToBarrier(s.id, "finish")
    [] s.at = "bulkload" -> [pc |-> "spawn", appID |-> 0]
    [] s.at = "warm_finish" -> [pc |-> "run"]
    [] s.at = "finish" -> [pc |-> "end"]

(* A barrier at which node 0, while it waits, sets the key to 0 again. *)
ResetsAgain(m) ==
  LET s == node[m] IN
  /\ s.pc = "spin"
  /\ SetNode(m, IF Open(s.at) THEN After(s) ELSE IF Resets(s.id) THEN ToBarrier(s.id, s.at) ELSE s)
  /\ UNCHANGED <<lockVars, memc, th, tail, net, root>>

barrier(m) ==
  /\ node[m].pc = "spin"
  /\ Open(node[m].at)
  /\ SetNode(m, After(node[m]))
  /\ UNCHANGED <<lockVars, memc, th, tail, net, root>>

-----------------------------------------------------------------------------
(* Threads. *)

fetch_add(m) == node[m].appID

(* registerThread, for the main thread and for a worker; the first target of  *)
(* alloc is made from the number.  Workers of a machine, too, are numbered in *)
(* the order in which they come.                                              *)
registerThread(m, t) ==
  LET s == node[m]
      id == fetch_add(m)
  IN  /\ Runs(m, t) /\ th[t].pc = "start"
      /\ s.pc = IF t = m THEN "register" ELSE "spawn"
      /\ \A u \in Workers(m) : u < t => t = m \/ th[u].pc # "start"
      /\ th' = [th EXCEPT ![t].pc = "run", ![t].id = id,
                          ![t].next = <<(id + s.id) % N, (id + s.id) % memThreadCount>>]
      /\ SetNode(m, [appID |-> s.appID + 1, pc |-> IF t = m THEN "tree" ELSE "spawn"])
      /\ UNCHANGED <<lockVars, memc, tail, net, root>>

Address(d, i) == [node |-> d[1], offset |-> d[2] * bitmap_len * kChunkSize + i * kChunkSize]

(* A malloc that looks whether the page begins in the chunk. *)
PageBegins(r) == r.head = None \/ r.cur.offset >= r.head.offset + kChunkSize

need_chunk(r) == r.head = None \/ r.cur.offset + PageSize + Slack > r.head.offset + kChunkSize

(* LocalAllocator::malloc, when it needs no chunk. *)
malloc(r) == [r EXCEPT !.pages = @ \cup {r.cur}, !.cur.offset = @ + PageSize]

NextTarget(d) ==
  IF d[2] + 1 = memThreadCount THEN <<(d[1] + 1) % N, 0>> ELSE <<d[1], d[2] + 1>>

(* When a thread calls alloc: main for the root of its Tree, a worker between *)
(* reading the page under the lock and writing it back (the sibling, and a    *)
(* new root above it).                                                        *)
Allocates(m, t) ==
  /\ Runs(m, t) /\ th[t].pc = "run"
  /\ IF t = m THEN node[m].pc = "tree" /\ th[t].pages = {}
              ELSE node[m].pc = "run" /\ pc[t] = "write" /\ Cardinality(th[t].pages) < cast.splits[t]

alloc(m, t) ==
  /\ Allocates(m, t)
  /\ IF need_chunk(th[t])
       THEN /\ net' = net \cup {[type |-> "MALLOC", dir |-> th[t].next, node |-> node[m].id, app |-> th[t].id]}
            /\ th' = [th EXCEPT ![t].pc = "wait"]
       ELSE th' = [th EXCEPT ![t] = malloc(@)] /\ UNCHANGED net
  /\ UNCHANGED <<lockVars, memc, node, tail, root>>

(* rpc_wait, set_chunck, the next target and the second malloc. *)
rpc_wait(m, t) ==
  LET r == th[t] IN
  /\ Runs(m, t) /\ r.pc = "wait" /\ node[m].pc # "aborted"
  /\ \E reply \in net :
       /\ reply.type = "reply" /\ reply.node = node[m].id /\ reply.app = r.id
       /\ net' = net \ {reply}
       /\ th' = [th EXCEPT ![t] = malloc([r EXCEPT !.pc = "run", !.head = reply.addr,
                                           !.cur = reply.addr, !.next = NextTarget(@)])]
  /\ UNCHANGED <<lockVars, memc, node, tail, root>>

Mark(i) == i + 1

(* It is asserted that there is a chunk left. *)
alloc_chunck(m, q) ==
  IF tail[q.dir] >= bitmap_len
    THEN SetNode(m, [pc |-> "aborted"]) /\ UNCHANGED <<net, tail>>
    ELSE /\ net' = (net \ {q}) \cup {[type |-> "reply", node |-> q.node, app |-> q.app,
                                      addr |-> Address(q.dir, tail[q.dir])]}
         /\ tail' = [tail EXCEPT ![q.dir] = Mark(@)]
         /\ UNCHANGED node

(* The thread of a directory takes a message: MALLOC. *)
process_message(m) ==
  /\ node[m].id # None /\ node[m].pc # "aborted"
  /\ \E q \in net : q.type = "MALLOC" /\ q.dir[1] = node[m].id /\ alloc_chunck(m, q)
  /\ UNCHANGED <<lockVars, memc, th, root>>

(* The end of the constructor of Tree: the first root page is installed. *)
InstallRoot(m) ==
  /\ node[m].pc = "tree" /\ th[m].pages # {}
  /\ root' = IF root = None THEN CHOOSE p \in th[m].pages : TRUE ELSE root
  /\ SetNode(m, ToBarrier(node[m].id, "bulkload"))
  /\ UNCHANGED <<lockVars, memc, th, tail, net>>

-----------------------------------------------------------------------------
(* The run, and DSMKeeper::sum at its end. *)

LockStep(t) ==
  \/ acquire_local_lock(t) \/ wait(t) \/ granted(t) \/ try_lock_addr(t)
  \/ lock_and_read_page(t) \/ write_page_and_unlock(t) \/ write_sync(t)
  \/ \E async \in BOOLEAN : write_batch(t, async) \/ unlock_addr(t, async)
  \/ landed(t) \/ releases_local_lock(t)

Works(m, t) == t \in Threads /\ Runs(m, t) /\ th[t].pc = "run" /\ node[m].pc = "run" /\ LockStep(t) /\ UNCHANGED dsmVars

(* Searching threads belong to machine 0. *)
Searches(r) ==
  /\ \E m \in Machines : node[m].pc = "run" /\ node[m].id = 0
  /\ read_version(r) \/ read_sync(r) \/ check_version(r)
  /\ UNCHANGED dsmVars

(* thread_run: when the workers have registered and are warm, one of them     *)
(* meets the other machines at a barrier; until then main waits for ready and *)
(* the workers for ready_to_report.  The warm-up's operations are left out.   *)
warm_finish(m) ==
  /\ node[m].pc = "spawn"
  /\ \A t \in Workers(m) : th[t].pc = "run"
  /\ SetNode(m, ToBarrier(node[m].id, "warm_finish"))
  /\ UNCHANGED <<lockVars, memc, th, tail, net, root>>

(* The workers are joined and the machine stores its part of the sum. *)
join(m) ==
  /\ node[m].pc = "run"
  /\ \A t \in Workers(m) : th[t].pc = "run" /\ pc[t] = "idle" /\ taken[home[t]] = cast.limit[home[t]]
  /\ node[m].id = 0 /\ cast.search => \A r \in Readers : rpc[r] = "accepted"
  /\ memc' = [memc EXCEPT !.sum = @ \cup {<<node[m].id, taken[node[m].id]>>}]
  /\ SetNode(m, [pc |-> "sum", k |-> 0, total |-> 0])
  /\ UNCHANGED <<lockVars, th, tail, net, root>>

sum(m) ==
  LET s == node[m]
      Added(part) == [s EXCEPT !.k = @ + 1, !.total = @ + part[2]]
  IN
  /\ s.pc = "sum"
  /\ \E part \in memc.sum :
       /\ part[1] = s.k
       /\ SetNode(m, IF s.k + 1 = CNodeCount THEN With(Added(part), ToBarrier(s.id, "finish"))
                                            ELSE Added(part))
  /\ UNCHANGED <<lockVars, memc, th, tail, net, root>>

Ended == \A m \in Machines : node[m].pc = "end"

Aborted == \E m \in Machines : node[m].pc = "aborted"

MainStep(m) ==
  \/ serverEnter(m) \/ serverConnect(m) \/ setDataToRemote(m) \/ setDataFromRemote(m)
  \/ barrier_reset(m) \/ memFetchAndAdd(m) \/ barrier(m)
  \/ InstallRoot(m) \/ warm_finish(m) \/ join(m) \/ sum(m)

ThreadStep(m, t) == registerThread(m, t) \/ alloc(m, t) \/ rpc_wait(m, t) \/ Works(m, t)

Land == land /\ UNCHANGED dsmVars

ClusterNext ==
  \/ \E m \in Machines :
       MainStep(m) \/ process_message(m) \/ \E t \in Threads \cup Machines : ThreadStep(m, t)
  \/ Land
  \/ \E r \in Readers : Searches(r)
  \/ (Ended \/ Aborted) /\ UNCHANGED clusterVars

ClusterSpec == ClusterInit /\ [][ClusterNext]_clusterVars

(* Some process that can go on does: the operating system never stops them    *)
(* all, and a posted batch lands.                                             *)
FairClusterSpec == ClusterSpec /\ WF_clusterVars(ClusterNext)

-----------------------------------------------------------------------------
(* Properties. *)

Pages == UNION {{<<t, p>> : p \in th[t].pages} : t \in DOMAIN th}

Overlap(p, q) ==
  p.node = q.node /\ p.offset < q.offset + PageSize /\ q.offset < p.offset + PageSize

(* Pages that alloc has returned, to whichever threads of whichever machines, *)
(* never overlap; each lies in the share of one directory, and none in the    *)
(* first chunk of a share, where node 0 keeps the root pointers and which is  *)
(* the null address (GlobalAllocator), whoever takes which reply and in which *)
(* order.                                                                     *)
PagesAreDisjoint ==
  /\ \A x, y \in Pages : x # y => ~Overlap(x[2], y[2])
  /\ \A x \in Pages : \E d \in Directories :
       /\ x[2].node = d[1]
       /\ x[2].offset >= Address(d, 1).offset
       /\ x[2].offset + PageSize <= Address(d, bitmap_len).offset

Order(b) == CASE b = "DSM-init" -> 1 [] b = "bulkload" -> 2 [] b = "warm_finish" -> 3 [] b = "finish" -> 4 [] OTHER -> 0

Before(m, b) == Order(node[m].at) < Order(b)

(* An assertion may stop a machine also while it waits. *)
Beyond(m, b) ==
  /\ ~Before(m, b)
  /\ node[m].at # b \/ node[m].pc \notin {"reset", "add", "spin", "aborted"}

(* The acquisitions that compute node n makes. *)
Work(n) == {n} \X (1..cast.limit[n])

(* A barrier holds (DSMKeeper::barrier): no machine is beyond one before each *)
(* machine that takes part has come to it.  So when a worker runs, there is a *)
(* root and the machines have all been connected; and the sum that a machine  *)
(* gets at the end counts the whole work of every machine.                    *)
BarriersHold ==
  /\ \A m, l \in Machines, b \in Barriers :
       (Num(b) = N \/ {node[m].id, node[l].id} \cap CNodeCount..(N - 1) = {}) /\ Beyond(m, b) => ~Before(l, b)
  /\ \A m \in Machines : node[m].pc = "run" =>
       /\ root # None
       /\ \A k, l \in 0..(N - 1) : k # l => <<k, l>> \in memc.meta
  /\ \A m \in Machines : node[m].at = "finish" /\ node[m].total # None =>
       node[m].total = Cardinality(UNION {Work(n) : n \in Nodes})

(* Every machine gets through: the exchange of meta data, three barriers, the *)
(* waits for chunks and locks and the sum never leave machines waiting for    *)
(* each other; the one way out is the assertion that the memory of a          *)
(* directory suffices.                                                        *)
EveryMachineEnds == <>(Ended \/ Aborted)
=============================================================================
