---------------------------- MODULE ShermanLock ----------------------------
(* One page of the Sherman tree (Tree.cpp, LOCK_VERSION build): the lock word *)
(* and the version in the memory node's on-chip memory, the ticket lock that  *)
(* each compute node keeps in front of it and hands over between its own      *)
(* threads, stores under the lock, and searches that take no lock.            *)
(*                                                                            *)
(* The page is two halves, written and read one after the other.  A store     *)
(* reads the page and writes it back with one more change, so a half counts   *)
(* the changes it has.  A batch posted to the memory node lands in order,     *)
(* whether or not the thread waits for it.                                    *)
EXTENDS Integers

CONSTANTS
  Threads, Nodes, Readers,
  home,         \* the compute node of a thread
  Wrap,         \* values of each half of ticket_lock (2^32)
  Setups,       \* bounds: the acquisitions of each node, whether readers search
  MaxHandOver,  \* kMaxHandOverTime
  Nobody

ASSUME ShermanLockAssumption ==
  /\ home \in [Threads -> Nodes]
  /\ Wrap \in Nat \ {0} /\ \A s \in Setups : s.limit \in [Nodes -> Nat] /\ s.search \in BOOLEAN
  /\ MaxHandOver \in 1..255
  /\ Nobody \notin Threads

(* Fewer acquisitions than a ticket has values: past that, the carry lets two *)
(* threads of a node through at once.                                         *)
ASSUME TicketsSuffice == \A s \in Setups : \A n \in Nodes : s.limit[n] < Wrap

VARIABLES
  cast,                  \* the setup of this behaviour
  ticket, current,       \* the halves of ticket_lock of each node
  hand_over, hand_time,  \* the rest of its LocalLockNode
  taken,                 \* acquisitions so far
  pc, my, buffer,        \* of each thread: its step, ticket and page buffer
  lock, version, page,   \* in the memory node
  batch,                 \* the batch on its way to the memory node
  changes,               \* stores made under the lock
  streak,                \* threads served since the lock word was last taken
  rpc, rversion, rpage,  \* of each reader: its step, version and page buffer,
  rstart                 \* and the changes in the page when it began

localVars == <<cast, ticket, current, hand_over, hand_time, taken>>
threadVars == <<pc, my, buffer>>
memoryVars == <<lock, version, page, batch>>
readerVars == <<rpc, rversion, rpage, rstart>>
vars == <<localVars, threadVars, memoryVars, changes, streak, readerVars>>

NoBatch == [by |-> Nobody, stage |-> 0, data |-> 0, version |-> 0]

Init ==
  /\ cast \in Setups
  /\ ticket = [n \in Nodes |-> 0] /\ current = [n \in Nodes |-> 0]
  /\ hand_over = [n \in Nodes |-> FALSE] /\ hand_time = [n \in Nodes |-> 0]
  /\ taken = [n \in Nodes |-> 0]
  /\ pc = [t \in Threads |-> "idle"]
  /\ my = [t \in Threads |-> 0]
  /\ buffer = [t \in Threads |-> 0]
  /\ lock = Nobody /\ version = 0 /\ page = <<0, 0>> /\ batch = NoBatch
  /\ changes = 0 /\ streak = 0
  /\ rpc = [r \in Readers |-> "version"]
  /\ rversion = [r \in Readers |-> 0]
  /\ rpage = [r \in Readers |-> <<0, 0>>]
  /\ rstart = [r \in Readers |-> 0]

Go(t, where) == pc' = [pc EXCEPT ![t] = where]

-----------------------------------------------------------------------------
(* acquire_local_lock.  fetch_add(1) on the 64-bit word: the carry out of the *)
(* low half goes into the high half.                                          *)
acquire_local_lock(t) ==
  LET n == home[t]
      carry == ticket[n] = Wrap - 1
  IN  /\ pc[t] = "idle"
      /\ taken[n] < cast.limit[n]
      /\ taken' = [taken EXCEPT ![n] = @ + 1]
      /\ my' = [my EXCEPT ![t] = ticket[n]]
      /\ ticket' = [ticket EXCEPT ![n] = IF carry THEN 0 ELSE @ + 1]
      /\ current' = [current EXCEPT ![n] = IF carry THEN (@ + 1) % Wrap ELSE @]
      /\ Go(t, IF my'[t] = current[n] THEN "granted" ELSE "wait")
      /\ UNCHANGED <<cast, hand_over, hand_time, buffer, memoryVars, changes, streak, readerVars>>

(* The loop over the current ticket. *)
wait(t) ==
  /\ pc[t] = "wait"
  /\ current[home[t]] = my[t]
  /\ Go(t, "granted")
  /\ UNCHANGED <<localVars, my, buffer, memoryVars, changes, streak, readerVars>>

granted(t) ==
  LET n == home[t] IN
  /\ pc[t] = "granted"
  /\ hand_time' = [hand_time EXCEPT ![n] = (@ + 1) % 256]
  /\ streak' = IF hand_over[n] THEN streak + 1 ELSE streak
  /\ Go(t, IF hand_over[n] THEN "read" ELSE "cas")
  /\ UNCHANGED <<cast, ticket, current, hand_over, taken, my, buffer, memoryVars, changes, readerVars>>

-----------------------------------------------------------------------------
(* Verbs on the on-chip words and on the page (DSM.cpp).  A verb that is      *)
(* waited for is one step where it moves one word, and two for a page.        *)

cas_dm_sync(t) == lock = Nobody /\ lock' = t

read_dm == [version |-> version, lock |-> lock]

(* write_dm and write_batch only post: land delivers. *)
write_dm(t) == batch' = [by |-> t, stage |-> 3, data |-> 0, version |-> version]

PostBatch(t, data, new) == batch' = [by |-> t, stage |-> 1, data |-> data, version |-> new]

-----------------------------------------------------------------------------
(* try_lock_addr: compare-and-swap of the lock word until it succeeds. *)
try_lock_addr(t) ==
  /\ pc[t] = "cas"
  /\ cas_dm_sync(t)
  /\ streak' = 1
  /\ Go(t, "read")
  /\ UNCHANGED <<localVars, my, buffer, version, page, batch, changes, readerVars>>

(* lock_and_read_page, and the change made to the buffer; a key that is not   *)
(* of this page leaves it alone.                                              *)
lock_and_read_page(t) ==
  /\ pc[t] = "read"
  /\ \/ /\ buffer' = [buffer EXCEPT ![t] = page[1] + 1]
        /\ changes' = changes + 1
        /\ Go(t, "write")
     \/ /\ Go(t, "unlock")
        /\ UNCHANGED <<buffer, changes>>
  /\ UNCHANGED <<localVars, my, memoryVars, streak, readerVars>>

-----------------------------------------------------------------------------
(* can_hand_over *)

(* ticket <= current + 1 means no pending locks. *)
Pending(n) == ~(ticket[n] <= (current[n] + 1) % Wrap)

Bad_HandOver(n) == Pending(n)

HandOver(n) == Pending(n) /\ hand_time[n] < MaxHandOver

can_hand_over(n) ==
  /\ hand_over' = [hand_over EXCEPT ![n] = HandOver(n)]
  /\ hand_time' = [hand_time EXCEPT ![n] = IF HandOver(n) THEN @ ELSE 0]

(* write_page_and_unlock: the page is written before a hand-over; otherwise   *)
(* the version is read for the batch.                                         *)
write_page_and_unlock(t) ==
  /\ pc[t] = "write"
  /\ can_hand_over(home[t])
  /\ Go(t, IF HandOver(home[t]) THEN "write_1" ELSE "version")
  /\ UNCHANGED <<cast, ticket, current, taken, my, buffer, memoryVars, changes, streak, readerVars>>

write_sync(t) ==
  /\ \/ /\ pc[t] = "write_1"
        /\ page' = [page EXCEPT ![1] = buffer[t]]
        /\ Go(t, "write_2")
     \/ /\ pc[t] = "write_2"
        /\ page' = [page EXCEPT ![2] = buffer[t]]
        /\ Go(t, "release")
  /\ UNCHANGED <<localVars, my, buffer, lock, version, batch, changes, streak, readerVars>>

(* A batch that carries version and lock before the page. *)
Bad_write_batch(t, async) ==
  /\ pc[t] = "version"
  /\ version' = version + 1
  /\ lock' = Nobody
  /\ PostBatch(t, buffer[t], read_dm.version + 1)
  /\ Go(t, IF async THEN "release" ELSE "landing")
  /\ UNCHANGED <<localVars, my, buffer, page, changes, streak, readerVars>>

(* The version is read and the batch posted: the page, then version and lock. *)
write_batch(t, async) ==
  /\ pc[t] = "version"
  /\ PostBatch(t, buffer[t], read_dm.version + 1)
  /\ Go(t, IF async THEN "release" ELSE "landing")
  /\ UNCHANGED <<localVars, my, buffer, lock, version, page, changes, streak, readerVars>>

(* An unlock that clears the lock word although it hands the lock over. *)
Bad_unlock_addr(t, async) ==
  /\ pc[t] = "unlock"
  /\ can_hand_over(home[t])
  /\ write_dm(t)
  /\ Go(t, IF async THEN "release" ELSE "landing")
  /\ UNCHANGED <<cast, ticket, current, taken, my, buffer, lock, version, page, changes, streak, readerVars>>

(* unlock_addr *)
unlock_addr(t, async) ==
  /\ pc[t] = "unlock"
  /\ can_hand_over(home[t])
  /\ \/ /\ HandOver(home[t])
        /\ Go(t, "release")
        /\ UNCHANGED batch
     \/ /\ ~HandOver(home[t])
        /\ write_dm(t)
        /\ Go(t, IF async THEN "release" ELSE "landing")
  /\ UNCHANGED <<cast, ticket, current, taken, my, buffer, lock, version, page, changes, streak, readerVars>>

(* The batch lands. *)
land ==
  /\ batch.by # Nobody
  /\ \/ /\ batch.stage \in {1, 2}
        /\ page' = [page EXCEPT ![batch.stage] = batch.data]
        /\ batch' = [batch EXCEPT !.stage = @ + 1]
        /\ UNCHANGED <<lock, version>>
     \/ /\ batch.stage = 3
        /\ version' = batch.version
        /\ lock' = Nobody
        /\ batch' = NoBatch
        /\ UNCHANGED page
  /\ UNCHANGED <<localVars, threadVars, changes, streak, readerVars>>

landed(t) ==
  /\ pc[t] = "landing"
  /\ batch.by # t
  /\ Go(t, "release")
  /\ UNCHANGED <<localVars, my, buffer, memoryVars, changes, streak, readerVars>>

(* releases_local_lock: fetch_add(2^32) *)
releases_local_lock(t) ==
  /\ pc[t] = "release"
  /\ current' = [current EXCEPT ![home[t]] = (@ + 1) % Wrap]
  /\ Go(t, "idle")
  /\ my' = [my EXCEPT ![t] = 0]
  /\ buffer' = [buffer EXCEPT ![t] = 0]
  /\ UNCHANGED <<cast, ticket, hand_over, hand_time, taken, memoryVars, changes, streak, readerVars>>

-----------------------------------------------------------------------------
(* page_search; a reader searches once, at any time. *)

ReadTo(r, where) == rpc' = [rpc EXCEPT ![r] = where]

read_version(r) ==
  /\ rpc[r] = "version" /\ cast.search
  /\ read_dm.lock = Nobody
  /\ rversion' = [rversion EXCEPT ![r] = read_dm.version]
  /\ rstart' = [rstart EXCEPT ![r] = changes]
  /\ ReadTo(r, "page_1")
  /\ UNCHANGED <<localVars, threadVars, memoryVars, changes, streak, rpage>>

read_sync(r) ==
  /\ \/ /\ rpc[r] = "page_1"
        /\ rpage' = [rpage EXCEPT ![r][1] = page[1]]
        /\ ReadTo(r, "page_2")
     \/ /\ rpc[r] = "page_2"
        /\ rpage' = [rpage EXCEPT ![r][2] = page[2]]
        /\ ReadTo(r, "check")
  /\ UNCHANGED <<localVars, threadVars, memoryVars, changes, streak, rversion, rstart>>

(* The second look at version and lock; the code reads again only when the    *)
(* version has changed and the lock is taken.                                 *)
ReRead(r) == rversion[r] # read_dm.version /\ read_dm.lock # Nobody

check_version(r) ==
  /\ rpc[r] = "check"
  /\ ReadTo(r, IF ReRead(r) THEN "version" ELSE "accepted")
  /\ UNCHANGED <<localVars, threadVars, memoryVars, changes, streak, rversion, rpage, rstart>>

(* Every node has used its acquisitions. *)
Finished ==
  /\ \A t \in Threads : pc[t] = "idle" /\ taken[home[t]] = cast.limit[home[t]]
  /\ batch = NoBatch
  /\ UNCHANGED vars

Next ==
  \/ \E t \in Threads :
       \/ acquire_local_lock(t) \/ wait(t) \/ granted(t) \/ try_lock_addr(t)
       \/ lock_and_read_page(t) \/ write_page_and_unlock(t) \/ write_sync(t)
       \/ \E async \in BOOLEAN : write_batch(t, async) \/ unlock_addr(t, async)
       \/ landed(t) \/ releases_local_lock(t)
  \/ land
  \/ \E r \in Readers : read_version(r) \/ read_sync(r) \/ check_version(r)
  \/ Finished

Spec == Init /\ [][Next]_vars

-----------------------------------------------------------------------------
(* Properties. *)

Steps == {"idle", "wait", "granted", "cas", "read", "write", "unlock", "write_1", "write_2",
          "version", "landing", "release"}

(* Every variable has its type; hand_time, a uint8_t, never gets past         *)
(* kMaxHandOverTime and so never wraps.                                       *)
TypeOK ==
  /\ ticket \in [Nodes -> 0..(Wrap - 1)] /\ current \in [Nodes -> 0..(Wrap - 1)]
  /\ hand_over \in [Nodes -> BOOLEAN] /\ hand_time \in [Nodes -> 0..MaxHandOver]
  /\ taken \in [Nodes -> Nat]
  /\ pc \in [Threads -> Steps] /\ my \in [Threads -> 0..(Wrap - 1)] /\ buffer \in [Threads -> Nat]
  /\ lock \in Threads \cup {Nobody} /\ version \in Nat /\ page \in Nat \X Nat
  /\ batch \in [by : Threads \cup {Nobody}, stage : 0..3, data : Nat, version : Nat]
  /\ changes \in Nat /\ streak \in Nat
  /\ rpc \in [Readers -> {"version", "page_1", "page_2", "check", "accepted"}]
  /\ rversion \in [Readers -> Nat] /\ rpage \in [Readers -> Nat \X Nat]
  /\ rstart \in [Readers -> Nat]

(* The threads between taking the lock, from the memory node or by hand-over, *)
(* and letting it go.                                                         *)
Holding == {t \in Threads : pc[t] \in {"read", "write", "unlock", "write_1", "write_2", "version"}}

(* Two threads, of one compute node or of two, are never under the page's     *)
(* lock together, although a hand-over leaves the lock word untouched: the    *)
(* word then still names a thread of the holder's own compute node.           *)
LockExclusion ==
  /\ \A t, u \in Holding : t = u
  /\ \A t \in Holding : lock # Nobody /\ home[lock] = home[t]

(* No store is missed.  A store finds a whole page with every earlier change  *)
(* in it, also when the lock came by hand-over (assert(check_consistent()) in *)
(* leaf_page_store and internal_page_store); the lock word is never free      *)
(* before every change made under it has landed, as write_page_and_unlock     *)
(* puts the unlock behind the page in one batch; and a search, which takes no *)
(* lock, sees every store that ended before it began.                         *)
NoStoreIsMissed ==
  /\ \A t \in Threads : pc[t] = "read" => page = <<changes, changes>>
  /\ lock = Nobody => page = <<changes, changes>>
  /\ \A r \in Readers :
       rpc[r] = "accepted" => rpage[r][1] >= rstart[r] /\ rpage[r][2] >= rstart[r]

(* "no pending locks" (can_hand_over): when the words say so, no other thread *)
(* of the node has a ticket.                                                  *)
NoPendingLocks ==
  \A t \in Threads :
    pc[t] \in {"write", "unlock"} /\ ~Pending(home[t]) =>
      \A u \in Threads \ {t} : home[u] = home[t] => pc[u] = "idle"

(* Hand-over is fair to the other compute nodes and to the own one: a node    *)
(* keeps the lock for kMaxHandOverTime threads at most while others wait, and *)
(* it lets the lock go without a hand-over only when nobody of it waits or    *)
(* that bound is reached.                                                     *)
HandOverIsFair == TypeOK /\ streak <= MaxHandOver /\ NoPendingLocks
=============================================================================
