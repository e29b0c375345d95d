------------------------- MODULE ShermanLockProofs --------------------------
(* What the lock of a Sherman page guarantees, for any threads, compute nodes *)
(* and readers and any bound on hand-overs, as long as tickets do not wrap.   *)
(*                                                                            *)
(* The lock word does not say who is under the lock: a hand-over leaves it    *)
(* alone, and a thread that has posted its unlock goes on before it lands.    *)
(* The inductive invariant says what does: the tickets let one thread of a    *)
(* node through at a time, and a node that has a thread under the lock, or    *)
(* has promised a hand-over, has the word and no batch on its way.            *)
EXTENDS ShermanLock, TLAPS

(* The steps of a thread whose turn it is at its node's ticket lock. *)
Served == {"granted", "cas", "read", "write", "unlock", "write_1", "write_2", "version",
           "landing", "release"}

(* A thread that waits or is served has a ticket of its own that is not yet   *)
(* past; the served thread has the current one.                               *)
TicketInv ==
  /\ \A n \in Nodes : /\ ticket[n] = taken[n] /\ taken[n] <= cast.limit[n]
                      /\ current[n] <= ticket[n]
  /\ \A t \in Threads : pc[t] # "idle" => current[home[t]] <= my[t] /\ my[t] < ticket[home[t]]
  /\ \A t \in Threads : pc[t] \in Served => my[t] = current[home[t]]
  /\ \A t, u \in Threads :
       pc[t] # "idle" /\ pc[u] # "idle" /\ home[t] = home[u] /\ my[t] = my[u] => t = u

(* The word is a node's, and nothing is posted that would clear it. *)
Keeps(n) == lock \in Threads /\ home[lock] = n /\ batch.by = Nobody

WordInv ==
  /\ \A t \in Holding : Keeps(home[t])
  /\ \A n \in Nodes : hand_over[n] => Keeps(n)
  /\ batch.by # Nobody => lock \in Threads /\ home[lock] = home[batch.by]
  /\ \A t \in Threads : pc[t] \in {"cas", "version", "landing"} => ~hand_over[home[t]]

(* Threads with a change that is not in the page yet. *)
Storing == {t \in Threads : pc[t] \in {"write", "write_1", "write_2", "version"}}

(* Where the last change is: in the page, in a buffer under the lock, or in   *)
(* the batch.                                                                 *)
PageInv ==
  /\ page[1] <= changes /\ page[2] <= changes
  /\ \A t \in Storing : buffer[t] = changes
  /\ \A t \in Threads : pc[t] = "write_2" => page[1] = changes
  /\ batch.by # Nobody =>
       /\ batch.stage \in {1, 2, 3}
       /\ batch.stage \in {1, 2} => batch.data = changes
       /\ batch.stage \in {2, 3} => page[1] = changes
       /\ batch.stage = 3 => page[2] = changes
  /\ Storing = {} /\ batch.by = Nobody => page[1] = changes /\ page[2] = changes

(* A search starts from a page that has the changes made so far. *)
ReaderInv ==
  \A r \in Readers :
    /\ rpc[r] # "version" => rstart[r] <= page[1] /\ rstart[r] <= page[2]
    /\ rpc[r] \in {"page_2", "check", "accepted"} => rstart[r] <= rpage[r][1]
    /\ rpc[r] \in {"check", "accepted"} => rstart[r] <= rpage[r][2]

(* The steps between counting a thread in hand_time and deciding again. *)
Counted(n) == \E t \in Threads : home[t] = n /\ pc[t] \in {"cas", "read", "write", "unlock"}

(* hand_time of the node that keeps the lock counts the threads served since  *)
(* it took the word.                                                          *)
HandInv ==
  /\ streak <= MaxHandOver
  /\ \A n \in Nodes :
       /\ ~Counted(n) => hand_time[n] < MaxHandOver
       /\ ~Counted(n) /\ ~hand_over[n] => hand_time[n] = 0
       /\ hand_over[n] => streak = hand_time[n]
  /\ \A t \in Threads :
       /\ pc[t] = "cas" => hand_time[home[t]] = 1
       /\ pc[t] \in {"read", "write", "unlock"} => streak = hand_time[home[t]]

IInv == TypeOK /\ cast \in Setups /\ TicketInv /\ WordInv /\ PageInv /\ ReaderInv /\ HandInv

(* The tickets let one thread of a node through at a time. *)
LEMMA OneServed ==
  ASSUME IInv, NEW t \in Threads, NEW u \in Threads, pc[t] \in Served, pc[u] \in Served,
         home[t] = home[u]
  PROVE  t = u
<1>1. pc[t] # "idle" /\ pc[u] # "idle"
  BY Zenon DEF Served
<1>2. QED
  BY <1>1 DEF IInv, TicketInv

(* The word names the node of a thread under the lock. *)
LEMMA OneHolder ==
  ASSUME IInv, NEW t \in Holding, NEW u \in Holding
  PROVE  t = u
<1>1. home[t] = home[u]
  BY Zenon DEF IInv, WordInv, Keeps
<1>2. QED
  BY <1>1, OneServed, Zenon DEF Holding, Served

(* Without a posted batch, and under a thread that has changed nothing, the   *)
(* page has every change.                                                     *)
LEMMA WholePage ==
  ASSUME IInv, \/ lock = Nobody
               \/ \E t \in Threads : pc[t] \in {"read", "unlock"}
  PROVE  page[1] = changes /\ page[2] = changes
<1>1. batch.by = Nobody
  BY ShermanLockAssumption, Zenon DEF IInv, WordInv, Keeps, Holding
<1>2. Storing = {}
  BY OneHolder, ShermanLockAssumption DEF IInv, WordInv, Keeps, Storing, Holding
<1>3. QED
  BY <1>1, <1>2, Zenon DEF IInv, PageInv

-----------------------------------------------------------------------------
(* A step that takes no ticket and serves no further thread. *)
LEMMA TicketsStay ==
  ASSUME IInv, UNCHANGED <<cast, ticket, current, taken, my>>,
         \A u \in Threads : /\ pc'[u] # "idle" => pc[u] # "idle"
                            /\ pc'[u] \in Served => pc[u] \in Served
  PROVE  TicketInv'
<1>1. TicketInv
  BY Zenon DEF IInv
<1>2. QED
  BY <1>1, Zenon DEF TicketInv

(* A step that puts no further thread under the lock or on the way to it. *)
LEMMA WordStays ==
  ASSUME IInv, UNCHANGED <<lock, batch, hand_over>>, Holding' \subseteq Holding,
         \A u \in Threads : pc'[u] \in {"cas", "version", "landing"}
                            => pc[u] \in {"cas", "version", "landing"}
  PROVE  WordInv'
<1>1. WordInv /\ \A n : Keeps(n)' <=> Keeps(n)
  BY Zenon DEF IInv, Keeps
<1>2. QED
  BY <1>1, Zenon DEF WordInv

LEMMA InitIInv == Init => IInv
<1> SUFFICES ASSUME Init PROVE IInv
  BY Zenon
<1> USE ShermanLockAssumption DEF Init
<1>1. TypeOK
  BY DEF TypeOK, Steps, NoBatch
<1>2. TicketInv
  BY DEF TicketInv, Served
<1>3. WordInv
  BY Zenon DEF WordInv, Holding, NoBatch
<1>4. PageInv
  BY DEF PageInv, Storing, NoBatch
<1>5. ReaderInv
  BY Zenon DEF ReaderInv
<1>6. HandInv
  BY DEF HandInv, Counted
<1>7. QED
  BY <1>1, <1>2, <1>3, <1>4, <1>5, <1>6, Zenon DEF IInv

-----------------------------------------------------------------------------
(* From its ticket to the page read under the lock, a thread keeps the         *)
(* invariant.                                                                  *)

(* A thread takes a ticket. *)
LEMMA AcquireIInv ==
  ASSUME IInv, NEW t \in Threads, acquire_local_lock(t)
  PROVE  IInv'
<1> DEFINE n == home[t]
<1>1. n \in Nodes /\ ticket[n] < Wrap - 1 /\ ticket[n] \in Nat
  <2>1. n \in Nodes /\ cast \in Setups /\ ticket[n] \in Nat /\ taken[n] = ticket[n]
    BY ShermanLockAssumption DEF IInv, TypeOK, TicketInv
  <2>2. cast.limit[n] \in Nat /\ cast.limit[n] < Wrap /\ Wrap \in Nat
    BY <2>1, ShermanLockAssumption, TicketsSuffice, Zenon
  <2>3. taken[n] < cast.limit[n]
    BY Zenon DEF acquire_local_lock
  <2>4. QED
    BY <2>1, <2>2, <2>3
<1>2. /\ my' = [my EXCEPT ![t] = ticket[n]] /\ ticket' = [ticket EXCEPT ![n] = @ + 1]
      /\ taken' = [taken EXCEPT ![n] = @ + 1] /\ current' = current
      /\ pc[t] = "idle" /\ taken[n] < cast.limit[n]
      /\ pc' = [pc EXCEPT ![t] = IF ticket[n] = current[n] THEN "granted" ELSE "wait"]
      /\ UNCHANGED <<cast, hand_over, hand_time, buffer, memoryVars, changes, streak, readerVars>>
  <2>1. ticket[n] # Wrap - 1 /\ my \in [Threads -> 0..(Wrap - 1)] /\ current \in [Nodes -> 0..(Wrap - 1)]
    BY <1>1, ShermanLockAssumption DEF IInv, TypeOK
  <2>2. my'[t] = ticket[n] /\ [current EXCEPT ![n] = current[n]] = current
    BY <1>1, <2>1, Zenon DEF acquire_local_lock
  <2>3. QED
    BY <2>1, <2>2, Zenon DEF acquire_local_lock, Go
<1> USE ShermanLockAssumption DEF memoryVars, readerVars
<1>3. TypeOK'
  BY <1>1, <1>2 DEF IInv, TypeOK, Steps
<1>4. TicketInv'
  BY <1>1, <1>2 DEF IInv, TypeOK, TicketInv, Served
<1>5. WordInv'
  BY <1>2 DEF IInv, TypeOK, WordInv, Keeps, Holding
<1>6. PageInv'
  BY <1>2, Zenon DEF IInv, TypeOK, PageInv, Storing
<1>7. ReaderInv'
  BY <1>2, Zenon DEF IInv, ReaderInv
<1>8. HandInv'
  BY <1>2, Zenon DEF IInv, TypeOK, HandInv, Counted
<1>9. QED
  BY <1>2, <1>3, <1>4, <1>5, <1>6, <1>7, <1>8, Zenon DEF IInv

(* The turn of a waiting thread comes. *)
LEMMA WaitIInv ==
  ASSUME IInv, NEW t \in Threads, wait(t)
  PROVE  IInv'
<1> USE ShermanLockAssumption DEF wait, Go, localVars, memoryVars, readerVars
<1>1. TypeOK'
  BY Zenon DEF IInv, TypeOK, Steps
<1>2. TicketInv'
  BY DEF IInv, TypeOK, TicketInv, Served
<1>3. WordInv'
  BY DEF IInv, TypeOK, WordInv, Keeps, Holding
<1>4. PageInv'
  BY Zenon DEF IInv, TypeOK, PageInv, Storing
<1>5. ReaderInv'
  BY Zenon DEF IInv, TypeOK, ReaderInv
<1>6. HandInv'
  BY Zenon DEF IInv, TypeOK, HandInv, Counted
<1>7. QED
  BY <1>1, <1>2, <1>3, <1>4, <1>5, <1>6, Zenon DEF IInv

(* A node whose served thread is not between counting and deciding has none   *)
(* that is.                                                                   *)
LEMMA Uncounted ==
  ASSUME IInv, NEW t \in Threads,
         pc[t] \in {"granted", "write_1", "write_2", "version", "landing", "release"}
  PROVE  ~Counted(home[t])
  BY OneServed, Zenon DEF Counted, Served

(* The turn is counted, and the word is kept or to be taken. *)
LEMMA GrantedIInv ==
  ASSUME IInv, NEW t \in Threads, granted(t)
  PROVE  IInv'
<1> DEFINE n == home[t]
<1> USE ShermanLockAssumption DEF Go, memoryVars, readerVars
<1>1. n \in Nodes /\ ~Counted(n) /\ hand_time[n] \in Nat /\ streak \in Nat
  <2>1. n \in Nodes /\ hand_time[n] \in Nat /\ streak \in Nat
    BY DEF IInv, TypeOK
  <2>2. ~Counted(n)
    BY Uncounted, Zenon DEF granted
  <2>3. QED
    BY <2>1, <2>2, Zenon
<1>2. hand_time[n] < MaxHandOver
  BY <1>1, Zenon DEF IInv, HandInv
<1>3. hand_time' = [hand_time EXCEPT ![n] = @ + 1]
  <2>1. (hand_time[n] + 1) % 256 = hand_time[n] + 1
    BY <1>1, <1>2
  <2>2. QED
    BY <2>1, Zenon DEF granted
<1>4. TypeOK'
  BY <1>1, <1>2, <1>3 DEF granted, IInv, TypeOK, Steps
<1>5. TicketInv'
  BY DEF granted, IInv, TypeOK, TicketInv, Served
<1>6. WordInv'
  <2>1. /\ \A u \in Threads : pc'[u] = IF u = t THEN (IF hand_over[n] THEN "read" ELSE "cas") ELSE pc[u]
        /\ UNCHANGED <<hand_over, lock, batch>>
    BY Zenon DEF granted, IInv, TypeOK
  <2>2. WordInv /\ \A m : Keeps(m)' <=> Keeps(m)
    BY <2>1, Zenon DEF IInv, Keeps
  <2>3. \A u \in Holding' : u \in Holding \/ (u = t /\ hand_over[n])
    BY <2>1, Zenon DEF Holding
  <2>4. QED
    BY <1>1, <2>1, <2>2, <2>3, Zenon DEF WordInv
<1>7. PageInv'
  BY Zenon DEF granted, IInv, TypeOK, PageInv, Storing
<1>8. ReaderInv'
  BY Zenon DEF granted, IInv, TypeOK, ReaderInv
<1>9. HandInv'
  <2>1. CASE hand_over[n]
    <3>1. /\ streak = hand_time[n] /\ streak' = streak + 1
          /\ pc' = [pc EXCEPT ![t] = "read"] /\ hand_over' = hand_over
      BY <1>1, <2>1, Zenon DEF granted, IInv, HandInv
    <3>2. /\ \A m \in Nodes : hand_over[m] => m = n
          /\ \A u \in Threads : pc[u] \notin {"read", "write", "unlock"}
      BY <1>1, <2>1 DEF IInv, WordInv, Keeps, Holding, Counted
    <3>3. \A m \in Nodes : (m = n => Counted(m)') /\ (m # n => (Counted(m)' <=> Counted(m)))
      BY <3>1 DEF IInv, TypeOK, Counted
    <3>4. \A u \in Threads : pc[u] = "cas" => home[u] # n
      BY <1>1, Zenon DEF Counted
    <3>5. QED
      BY <1>1, <1>2, <1>3, <3>1, <3>2, <3>3, <3>4 DEF IInv, TypeOK, HandInv
  <2>2. CASE ~hand_over[n]
    <3>1. /\ hand_time[n] = 0 /\ streak' = streak
          /\ pc' = [pc EXCEPT ![t] = "cas"] /\ hand_over' = hand_over
      BY <1>1, <2>2, Zenon DEF granted, IInv, HandInv
    <3>2. \A u \in Threads : pc[u] \in {"cas", "read", "write", "unlock"} => home[u] # n
      BY <1>1, Zenon DEF Counted
    <3>3. \A m \in Nodes : (m = n => Counted(m)') /\ (m # n => (Counted(m)' <=> Counted(m)))
      BY <3>1 DEF IInv, TypeOK, Counted
    <3>4. QED
      BY <1>1, <1>2, <1>3, <2>2, <3>1, <3>2, <3>3 DEF IInv, TypeOK, HandInv
  <2>3. QED
    BY <2>1, <2>2, Zenon
<1>10. QED
  BY <1>4, <1>5, <1>6, <1>7, <1>8, <1>9, Zenon DEF granted, IInv

(* The word is taken: no other thread is under the lock. *)
LEMMA TryLockIInv ==
  ASSUME IInv, NEW t \in Threads, try_lock_addr(t)
  PROVE  IInv'
<1> USE ShermanLockAssumption DEF try_lock_addr, cas_dm_sync, Go, localVars, readerVars
<1>1. TypeOK'
  BY Zenon DEF IInv, TypeOK, Steps
<1>2. TicketInv'
  BY DEF IInv, TypeOK, TicketInv, Served
<1>3. WordInv'
  BY Zenon DEF IInv, TypeOK, WordInv, Keeps, Holding
<1>4. PageInv'
  BY Zenon DEF IInv, TypeOK, PageInv, Storing
<1>5. ReaderInv'
  BY Zenon DEF IInv, TypeOK, ReaderInv
<1>6. HandInv'
  <2>1. /\ \A m \in Nodes : ~hand_over[m]
        /\ \A u \in Threads : pc[u] \notin {"read", "write", "unlock"}
    BY Zenon DEF IInv, WordInv, Keeps, Holding
  <2>2. \A m \in Nodes : Counted(m)' <=> Counted(m)
    BY Zenon DEF IInv, TypeOK, Counted
  <2>3. QED
    BY <2>1, <2>2 DEF IInv, TypeOK, HandInv
<1>7. QED
  BY <1>1, <1>2, <1>3, <1>4, <1>5, <1>6, Zenon DEF IInv

(* The page is read whole and changed in the buffer, or left alone. *)
LEMMA ReadIInv ==
  ASSUME IInv, NEW t \in Threads, lock_and_read_page(t)
  PROVE  IInv'
<1> USE ShermanLockAssumption DEF Go, localVars, memoryVars, readerVars
<1>1. PICK where \in {"write", "unlock"} : pc' = [pc EXCEPT ![t] = where]
  BY Zenon DEF lock_and_read_page
<1>2. /\ pc[t] = "read" /\ UNCHANGED <<localVars, my, memoryVars, streak, readerVars>>
      /\ \/ where = "write" /\ buffer' = [buffer EXCEPT ![t] = page[1] + 1] /\ changes' = changes + 1
         \/ where = "unlock" /\ UNCHANGED <<buffer, changes>>
  BY <1>1, Zenon DEF lock_and_read_page, IInv, TypeOK
<1>3. TypeOK'
  BY <1>1, <1>2 DEF IInv, TypeOK, Steps
<1>4. TicketInv'
  BY <1>1, <1>2 DEF IInv, TypeOK, TicketInv, Served
<1>5. WordInv'
  BY <1>1, <1>2 DEF IInv, TypeOK, WordInv, Keeps, Holding
<1>6. PageInv'
  <2>1. page[1] = changes /\ page[2] = changes /\ page[1] \in Nat
    BY <1>2, WholePage, Zenon DEF IInv, TypeOK
  <2>2. Storing = {} /\ batch.by = Nobody
    BY <1>2, OneHolder DEF Storing, Holding, IInv, WordInv, Keeps
  <2>3. CASE where = "write"
    BY <1>1, <1>2, <2>1, <2>2, <2>3 DEF IInv, TypeOK, PageInv, Storing
  <2>4. CASE where = "unlock"
    BY <1>1, <1>2, <2>1, <2>2, <2>4, Zenon DEF IInv, TypeOK, PageInv, Storing
  <2>5. QED
    BY <2>3, <2>4, Zenon
<1>7. ReaderInv'
  BY <1>2, Zenon DEF IInv, TypeOK, ReaderInv
<1>8. HandInv'
  BY <1>1, <1>2, Zenon DEF IInv, TypeOK, HandInv, Counted
<1>9. QED
  BY <1>2, <1>3, <1>4, <1>5, <1>6, <1>7, <1>8, Zenon DEF IInv

-----------------------------------------------------------------------------
(* The batch that lands, the end of a turn and the searches keep it.           *)

(* The batch lands: a half of the page, or the version and the free word. *)
LEMMA LandIInv ==
  ASSUME IInv, land
  PROVE  IInv'
<1> USE ShermanLockAssumption DEF localVars, threadVars, readerVars
<1>1. /\ batch.by # Nobody
      /\ UNCHANGED <<localVars, threadVars, changes, streak, readerVars>>
  BY Zenon DEF land
<1>2. Holding = {} /\ Storing = {} /\ \A n \in Nodes : ~hand_over[n]
  <2>1. Holding = {} /\ \A n \in Nodes : ~hand_over[n]
    BY <1>1, Zenon DEF IInv, WordInv, Keeps
  <2>2. QED
    BY <2>1, Zenon DEF Storing, Holding
<1>3. TicketInv'
  BY <1>1, Zenon DEF IInv, TicketInv, Served
<1>4. HandInv'
  BY <1>1, Zenon DEF IInv, HandInv, Counted
<1>5. Holding' = Holding /\ Storing' = Storing
  BY <1>1, Zenon DEF Holding, Storing
<1>6. CASE batch.stage \in {1, 2}
  <2>1. /\ page' = [page EXCEPT ![batch.stage] = batch.data]
        /\ batch' = [batch EXCEPT !.stage = @ + 1]
        /\ UNCHANGED <<lock, version>>
    BY <1>6 DEF land
  <2>2. batch.data = changes /\ changes \in Nat /\ page \in Nat \X Nat
    BY <1>1, <1>6, Zenon DEF IInv, TypeOK, PageInv
  <2>3. /\ page' \in Nat \X Nat
        /\ page'[1] = (IF batch.stage = 1 THEN changes ELSE page[1])
        /\ page'[2] = (IF batch.stage = 2 THEN changes ELSE page[2])
    BY <1>6, <2>1, <2>2
  <2>4. /\ batch'.by = batch.by /\ batch'.stage = batch.stage + 1 /\ batch'.data = batch.data
        /\ batch' \in [by : Threads \cup {Nobody}, stage : 0..3, data : Nat, version : Nat]
    <3>1. batch \in [by : Threads \cup {Nobody}, stage : 0..3, data : Nat, version : Nat]
      BY Zenon DEF IInv, TypeOK
    <3>2. batch.stage + 1 \in 0..3
      BY <1>6
    <3>3. QED
      BY <2>1, <3>1, <3>2, Zenon
  <2>5. TypeOK'
    BY <1>1, <2>1, <2>3, <2>4, Zenon DEF IInv, TypeOK
  <2>6. WordInv'
    BY <1>1, <1>2, <1>5, <2>1, <2>4, Zenon DEF IInv, WordInv
  <2>7. PageInv'
    <3>1. /\ page[1] <= changes /\ page[2] <= changes
          /\ batch.stage = 2 => page[1] = changes
      BY <1>1, Zenon DEF IInv, PageInv
    <3>2. \A u \in Threads : pc'[u] # "write_2"
      BY <1>2, <1>5, Zenon DEF Storing
    <3>3. QED
      BY <1>1, <1>2, <1>5, <1>6, <2>2, <2>3, <2>4, <3>1, <3>2 DEF PageInv
  <2>8. ReaderInv'
    <3>1. page[1] <= page'[1] /\ page[2] <= page'[2] /\ page'[1] \in Nat /\ page'[2] \in Nat
      BY <2>2, <2>3 DEF IInv, PageInv
    <3>2. page[1] \in Nat /\ page[2] \in Nat /\ \A r \in Readers : rstart[r] \in Nat
      BY Zenon DEF IInv, TypeOK
    <3>3. QED
      BY <1>1, <3>1, <3>2 DEF IInv, ReaderInv
  <2>9. QED
    BY <1>1, <1>3, <1>4, <2>5, <2>6, <2>7, <2>8, Zenon DEF IInv
<1>7. CASE batch.stage = 3
  <2>1. lock' = Nobody /\ version' = batch.version /\ batch' = NoBatch /\ page' = page
    BY <1>7 DEF land
  <2>2. TypeOK'
    <3>1. /\ batch' \in [by : Threads \cup {Nobody}, stage : 0..3, data : Nat, version : Nat]
          /\ version' \in Nat /\ lock' \in Threads \cup {Nobody}
      BY <2>1 DEF IInv, TypeOK, NoBatch
    <3>2. QED
      BY <1>1, <2>1, <3>1, Zenon DEF IInv, TypeOK
  <2>3. WordInv'
    BY <1>1, <1>2, <1>5, <2>1, Zenon DEF IInv, WordInv, NoBatch
  <2>4. PageInv'
    BY <1>1, <1>2, <1>5, <1>7, <2>1, Zenon DEF IInv, PageInv, NoBatch
  <2>5. ReaderInv'
    BY <1>1, <2>1, Zenon DEF IInv, ReaderInv
  <2>6. QED
    BY <1>1, <1>3, <1>4, <2>2, <2>3, <2>4, <2>5, Zenon DEF IInv
<1>8. QED
  BY <1>6, <1>7, Zenon DEF land

(* A thread that has waited for its batch. *)
LEMMA LandedIInv ==
  ASSUME IInv, NEW t \in Threads, landed(t)
  PROVE  IInv'
<1> USE DEF localVars, memoryVars, readerVars
<1>m. pc' \in [Threads -> Steps] /\ \A u \in Threads : pc'[u] = IF u = t THEN "release" ELSE pc[u]
  <2>1. pc \in [Threads -> Steps] /\ "release" \in Steps
    BY Zenon DEF IInv, TypeOK, Steps
  <2>2. QED
    BY <2>1, Zenon DEF landed, Go
<1>0. /\ pc[t] = "landing"
      /\ UNCHANGED <<localVars, my, buffer, memoryVars, changes, streak, readerVars>>
  BY Zenon DEF landed
<1>1. TypeOK'
  BY <1>m, <1>0, Zenon DEF IInv, TypeOK
<1>2. TicketInv'
  BY <1>0, <1>m, TicketsStay, Zenon DEF Served
<1>3. WordInv'
  BY <1>0, <1>m, WordStays, Zenon DEF Holding
<1>4. PageInv'
  <2>1. Storing' = Storing /\ \A u \in Threads : pc'[u] = "write_2" => pc[u] = "write_2"
    BY <1>0, <1>m, Zenon DEF Storing
  <2>2. QED
    BY <1>0, <2>1, Zenon DEF IInv, PageInv
<1>5. ReaderInv'
  BY <1>0, Zenon DEF IInv, ReaderInv
<1>6. HandInv'
  <2>1. \A n : Counted(n)' <=> Counted(n)
    BY <1>0, <1>m, Zenon DEF Counted
  <2>2. QED
    BY <1>0, <1>m, <2>1, Zenon DEF IInv, HandInv
<1>7. QED
  BY <1>0, <1>1, <1>2, <1>3, <1>4, <1>5, <1>6, Zenon DEF IInv

(* The turn passes to the next ticket. *)
LEMMA ReleaseIInv ==
  ASSUME IInv, NEW t \in Threads, releases_local_lock(t)
  PROVE  IInv'
<1> DEFINE n == home[t]
<1> USE ShermanLockAssumption DEF Go, memoryVars, readerVars
<1>1. /\ n \in Nodes /\ pc[t] = "release" /\ my[t] = current[n] /\ my[t] < ticket[n]
      /\ ticket[n] \in 0..(Wrap - 1) /\ current[n] \in Nat /\ Wrap \in Nat
  <2>1. n \in Nodes /\ pc[t] = "release" /\ pc[t] \in Served
    BY Zenon DEF releases_local_lock, Served
  <2>2. my[t] = current[n] /\ my[t] < ticket[n]
    BY <2>1, Zenon DEF IInv, TicketInv
  <2>3. ticket[n] \in 0..(Wrap - 1) /\ current[n] \in Nat /\ Wrap \in Nat
    BY <2>1 DEF IInv, TypeOK
  <2>4. QED
    BY <2>1, <2>2, <2>3, Zenon
<1>2. (current[n] + 1) % Wrap = current[n] + 1 /\ current[n] + 1 \in 0..(Wrap - 1)
  BY <1>1
<1>3. /\ current' = [current EXCEPT ![n] = @ + 1] /\ pc' = [pc EXCEPT ![t] = "idle"]
      /\ my' = [my EXCEPT ![t] = 0] /\ buffer' = [buffer EXCEPT ![t] = 0]
      /\ UNCHANGED <<cast, ticket, hand_over, hand_time, taken, memoryVars, changes, streak, readerVars>>
  BY <1>2, Zenon DEF releases_local_lock
<1>m. /\ pc' \in [Threads -> Steps] /\ \A u \in Threads : pc'[u] = IF u = t THEN "idle" ELSE pc[u]
      /\ my' \in [Threads -> 0..(Wrap - 1)] /\ \A u \in Threads : my'[u] = IF u = t THEN 0 ELSE my[u]
      /\ current' \in [Nodes -> 0..(Wrap - 1)]
      /\ \A m \in Nodes : current'[m] = IF m = n THEN current[n] + 1 ELSE current[m]
      /\ buffer' \in [Threads -> Nat] /\ \A u \in Threads : buffer'[u] = IF u = t THEN 0 ELSE buffer[u]
  <2>1. /\ pc \in [Threads -> Steps] /\ my \in [Threads -> 0..(Wrap - 1)]
        /\ current \in [Nodes -> 0..(Wrap - 1)] /\ buffer \in [Threads -> Nat]
    BY Zenon DEF IInv, TypeOK
  <2>2. "idle" \in Steps /\ 0 \in 0..(Wrap - 1)
    BY DEF Steps
  <2>3. /\ pc' \in [Threads -> Steps] /\ my' \in [Threads -> 0..(Wrap - 1)]
        /\ current' \in [Nodes -> 0..(Wrap - 1)] /\ buffer' \in [Threads -> Nat]
    BY <1>2, <1>3, <2>1, <2>2, Zenon
  <2>4. QED
    BY <1>1, <1>3, <2>1, <2>3
<1>0. UNCHANGED <<cast, ticket, hand_over, hand_time, taken, memoryVars, changes, streak, readerVars>>
  BY <1>3, Zenon
<1>4. TypeOK'
  BY <1>0, <1>m, Zenon DEF IInv, TypeOK
<1>5. TicketInv'
  <2>1. \A u \in Threads : u # t /\ pc[u] # "idle" /\ home[u] = n => my[u] > current[n]
    <3>1. ASSUME NEW u \in Threads, u # t, pc[u] # "idle", home[u] = n
          PROVE  my[u] > current[n]
      <4>1. current[n] <= my[u] /\ my[u] # my[t]
        BY <1>1, <3>1, Zenon DEF IInv, TicketInv
      <4>2. my[u] \in Nat
        BY DEF IInv, TypeOK
      <4>3. QED
        BY <1>1, <4>1, <4>2
    <3>2. QED
      BY <3>1, Zenon
  <2>2. \A u \in Threads : u # t /\ home[u] = n => pc[u] \notin Served
    BY <1>1, OneServed, Zenon DEF Served
  <2>3. \A u \in Threads : my[u] \in Nat /\ my'[u] = (IF u = t THEN 0 ELSE my[u])
                           /\ pc'[u] = (IF u = t THEN "idle" ELSE pc[u])
    <3>1. \A u \in Threads : my[u] \in Nat
      BY DEF IInv, TypeOK
    <3>2. QED
      BY <1>m, <3>1, Zenon
  <2>4. \A m \in Nodes : current[m] \in Nat /\ ticket[m] \in Nat
                         /\ current'[m] = (IF m = n THEN current[n] + 1 ELSE current[m])
    <3>1. \A m \in Nodes : current[m] \in Nat /\ ticket[m] \in Nat
      BY DEF IInv, TypeOK
    <3>2. QED
      BY <1>m, <3>1, Zenon
  <2>5. \A u \in Threads : home[u] \in Nodes
    BY Zenon
  <2>6. \A m \in Nodes : /\ ticket'[m] = taken'[m] /\ taken'[m] <= cast'.limit[m]
                         /\ current'[m] <= ticket'[m]
    <3>1. \A m \in Nodes : ticket[m] = taken[m] /\ taken[m] <= cast.limit[m] /\ current[m] <= ticket[m]
      BY Zenon DEF IInv, TicketInv
    <3>2. QED
      BY <1>0, <1>1, <2>4, <3>1
  <2>7. \A u \in Threads : pc'[u] # "idle" => current'[home[u]] <= my'[u] /\ my'[u] < ticket'[home[u]]
    <3>1. ASSUME NEW u \in Threads, pc'[u] # "idle"
          PROVE  current'[home[u]] <= my'[u] /\ my'[u] < ticket'[home[u]]
      <4>1. u # t /\ pc[u] # "idle" /\ my'[u] = my[u] /\ my[u] \in Nat /\ ticket' = ticket
        BY <1>0, <2>3, <3>1, Zenon
      <4>2. current[home[u]] <= my[u] /\ my[u] < ticket[home[u]]
        BY <4>1, Zenon DEF IInv, TicketInv
      <4>3. QED
        BY <2>1, <2>4, <2>5, <4>1, <4>2
    <3>2. QED
      BY <3>1, Zenon
  <2>8. \A u \in Threads : pc'[u] \in Served => my'[u] = current'[home[u]]
    <3>1. ASSUME NEW u \in Threads, pc'[u] \in Served
          PROVE  my'[u] = current'[home[u]]
      <4>1. u # t /\ pc[u] \in Served /\ my'[u] = my[u]
        BY <2>3, <3>1, Zenon DEF Served
      <4>2. my[u] = current[home[u]] /\ home[u] # n
        BY <2>2, <4>1, Zenon DEF IInv, TicketInv
      <4>3. QED
        BY <2>4, <2>5, <4>1, <4>2, Zenon
    <3>2. QED
      BY <3>1, Zenon
  <2>9. QED
    <3>1. \A u, v \in Threads :
            pc'[u] # "idle" /\ pc'[v] # "idle" /\ home[u] = home[v] /\ my'[u] = my'[v] => u = v
      <4>1. \A u, v \in Threads :
              pc[u] # "idle" /\ pc[v] # "idle" /\ home[u] = home[v] /\ my[u] = my[v] => u = v
        BY Zenon DEF IInv, TicketInv
      <4>2. QED
        BY <2>3, <4>1, Zenon
    <3>2. QED
      BY <2>6, <2>7, <2>8, <3>1, Zenon DEF TicketInv
<1>6. WordInv'
  BY <1>0, <1>m, WordStays, Zenon DEF Holding
<1>7. PageInv'
  <2>1. Storing' = Storing /\ t \notin Storing
    BY <1>1, <1>m DEF Storing
  <2>2. \A u \in Threads : (pc'[u] = "write_2" => pc[u] = "write_2") /\ (u # t => buffer'[u] = buffer[u])
    BY <1>m, Zenon
  <2>3. \A u \in Storing : u \in Threads
    BY Zenon DEF Storing
  <2>4. QED
    BY <1>0, <2>1, <2>2, <2>3, Zenon DEF IInv, PageInv
<1>8. ReaderInv'
  BY <1>0, Zenon DEF IInv, ReaderInv
<1>9. HandInv'
  <2>1. \A m : Counted(m)' <=> Counted(m)
    BY <1>1, <1>m, Zenon DEF Counted
  <2>2. QED
    BY <1>0, <1>m, <2>1, Zenon DEF IInv, HandInv
<1>10. QED
  BY <1>0, <1>4, <1>5, <1>6, <1>7, <1>8, <1>9, Zenon DEF IInv

(* The steps of a search, which write nothing but its own state. *)
LEMMA SearchIInv ==
  ASSUME IInv, NEW r \in Readers, read_version(r) \/ read_sync(r) \/ check_version(r)
  PROVE  IInv'
<1> USE DEF localVars, threadVars, memoryVars, ReadTo
<1>1. UNCHANGED <<localVars, threadVars, memoryVars, changes, streak>>
  BY Zenon DEF read_version, read_sync, check_version
<1>2. TicketInv'
  BY <1>1, Zenon DEF IInv, TicketInv, Served
<1>3. WordInv'
  BY <1>1, Zenon DEF IInv, WordInv, Keeps, Holding
<1>4. PageInv'
  BY <1>1, Zenon DEF IInv, PageInv, Storing
<1>5. HandInv'
  BY <1>1, Zenon DEF IInv, HandInv, Counted
<1>6. TypeOK' /\ ReaderInv'
  <2>1. CASE read_version(r)
    <3>1. /\ rpc' = [rpc EXCEPT ![r] = "page_1"] /\ rversion' = [rversion EXCEPT ![r] = version]
          /\ rstart' = [rstart EXCEPT ![r] = changes] /\ rpage' = rpage /\ lock = Nobody
      BY <2>1, Zenon DEF read_version, read_dm
    <3>2. page[1] = changes /\ page[2] = changes
      BY <3>1, WholePage, Zenon
    <3>3. TypeOK'
      BY <1>1, <3>1, Zenon DEF IInv, TypeOK
    <3>4. ReaderInv'
      BY <1>1, <3>1, <3>2 DEF IInv, TypeOK, ReaderInv
    <3>5. QED
      BY <3>3, <3>4, Zenon
  <2>2. CASE read_sync(r)
    <3>1. PICK i \in {1, 2} :
            /\ rpc[r] = (IF i = 1 THEN "page_1" ELSE "page_2")
            /\ rpage' = [rpage EXCEPT ![r][i] = page[i]]
            /\ rpc' = [rpc EXCEPT ![r] = IF i = 1 THEN "page_2" ELSE "check"]
            /\ UNCHANGED <<rversion, rstart>>
      BY <2>2 DEF read_sync
    <3>2. /\ rpage \in [Readers -> Nat \X Nat] /\ page \in Nat \X Nat
          /\ rstart \in [Readers -> Nat]
      BY Zenon DEF IInv, TypeOK
    <3>3. /\ rpage' \in [Readers -> Nat \X Nat]
          /\ \A q \in Readers : q # r => rpage'[q] = rpage[q]
          /\ rpage'[r][i] = page[i] /\ \A j \in {1, 2} : j # i => rpage'[r][j] = rpage[r][j]
      BY <3>1, <3>2
    <3>4. TypeOK'
      BY <1>1, <3>1, <3>3, Zenon DEF IInv, TypeOK
    <3>5. ReaderInv'
      BY <1>1, <3>1, <3>2, <3>3 DEF IInv, TypeOK, ReaderInv
    <3>6. QED
      BY <3>4, <3>5, Zenon
  <2>3. CASE check_version(r)
    <3>1. PICK where \in {"version", "accepted"} : rpc' = [rpc EXCEPT ![r] = where]
      BY <2>3, Zenon DEF check_version
    <3>2. rpc[r] = "check" /\ UNCHANGED <<rversion, rpage, rstart>>
      BY <2>3, Zenon DEF check_version
    <3>3. QED
      BY <1>1, <3>1, <3>2, Zenon DEF IInv, TypeOK, ReaderInv
  <2>4. QED
    BY <2>1, <2>2, <2>3, Zenon
<1>7. QED
  BY <1>1, <1>2, <1>3, <1>4, <1>5, <1>6, Zenon DEF IInv

-----------------------------------------------------------------------------
(* The decision on a hand-over: hand_time still counts if the lock is kept,   *)
(* and starts again if it is not.                                             *)
LEMMA Decide ==
  ASSUME IInv, NEW t \in Threads, pc[t] \in {"write", "unlock"}, can_hand_over(home[t]),
         NEW where \in {"write_1", "version", "release", "landing"},
         pc' = [pc EXCEPT ![t] = where], streak' = streak
  PROVE  /\ HandOver(home[t]) \in BOOLEAN
         /\ hand_over' = [hand_over EXCEPT ![home[t]] = HandOver(home[t])]
         /\ hand_over' \in [Nodes -> BOOLEAN] /\ hand_time' \in [Nodes -> 0..MaxHandOver]
         /\ HandInv'
<1> DEFINE n == home[t]
<1> USE ShermanLockAssumption
<1>1. n \in Nodes /\ HandOver(n) \in BOOLEAN /\ (HandOver(n) => hand_time[n] < MaxHandOver)
  BY Zenon DEF HandOver, Pending
<1>2. /\ hand_over' = [hand_over EXCEPT ![n] = HandOver(n)]
      /\ hand_time' = [hand_time EXCEPT ![n] = IF HandOver(n) THEN @ ELSE 0]
  BY Zenon DEF can_hand_over
<1>3. hand_over' \in [Nodes -> BOOLEAN] /\ hand_time' \in [Nodes -> 0..MaxHandOver]
  BY <1>1, <1>2 DEF IInv, TypeOK
<1>4. streak = hand_time[n]
  BY Zenon DEF IInv, HandInv
<1>5. \A m \in Nodes : m # n => (Counted(m)' <=> Counted(m))
  BY Zenon DEF IInv, TypeOK, Counted
<1>6. /\ \A m \in Nodes : hand_over[m] => m = n
      /\ \A u \in Threads : pc[u] \in {"read", "write", "unlock"} => u = t
      /\ \A u \in Threads : pc[u] = "cas" => home[u] # n
  <2>1. t \in Holding /\ \A u \in Threads : pc[u] \in {"read", "write", "unlock"} => u \in Holding
    BY Zenon DEF Holding
  <2>2. \A m \in Nodes : hand_over[m] => m = n
    BY <2>1, Zenon DEF IInv, WordInv, Keeps
  <2>3. \A u \in Threads : pc[u] = "cas" => home[u] # n
    BY OneServed, Zenon DEF Served
  <2>4. QED
    BY <2>1, <2>2, <2>3, OneHolder, Zenon
<1>7. HandInv'
  <2>1. /\ \A u \in Threads : pc'[u] = IF u = t THEN where ELSE pc[u]
        /\ \A m \in Nodes : hand_over'[m] = IF m = n THEN HandOver(n) ELSE hand_over[m]
        /\ \A m \in Nodes : hand_time'[m] = IF m # n \/ HandOver(n) THEN hand_time[m] ELSE 0
    BY <1>2, Zenon DEF IInv, TypeOK
  <2>2. HandInv /\ \A m \in Nodes : hand_time[m] \in Nat
    BY DEF IInv, TypeOK
  <2>3. ASSUME NEW m \in Nodes
        PROVE  /\ ~Counted(m)' => hand_time'[m] < MaxHandOver
               /\ ~Counted(m)' /\ ~hand_over'[m] => hand_time'[m] = 0
               /\ hand_over'[m] => streak' = hand_time'[m]
    BY <1>1, <1>4, <1>5, <1>6, <2>1, <2>2 DEF HandInv
  <2>4. ASSUME NEW u \in Threads
        PROVE  /\ pc'[u] = "cas" => hand_time'[home[u]] = 1
               /\ pc'[u] \in {"read", "write", "unlock"} => streak' = hand_time'[home[u]]
    BY <1>6, <2>1, <2>2 DEF HandInv
  <2>5. QED
    BY <2>2, <2>3, <2>4, Zenon DEF HandInv
<1>8. QED
  BY <1>1, <1>2, <1>3, <1>7, Zenon

(* A store decides before it writes the page. *)
LEMMA WriteIInv ==
  ASSUME IInv, NEW t \in Threads, write_page_and_unlock(t)
  PROVE  IInv'
<1> DEFINE n == home[t]
<1> USE ShermanLockAssumption DEF Go, memoryVars, readerVars
<1>1. PICK where \in {"write_1", "version"} :
        pc' = [pc EXCEPT ![t] = where] /\ where = IF HandOver(n) THEN "write_1" ELSE "version"
  BY Zenon DEF write_page_and_unlock
<1>2. /\ pc[t] = "write"
      /\ UNCHANGED <<cast, ticket, current, taken, my, buffer, memoryVars, changes, streak, readerVars>>
  BY Zenon DEF write_page_and_unlock
<1>m. pc' \in [Threads -> Steps] /\ \A u \in Threads : pc'[u] = IF u = t THEN where ELSE pc[u]
  <2>1. pc \in [Threads -> Steps] /\ where \in Steps
    BY Zenon DEF IInv, TypeOK, Steps
  <2>2. QED
    BY <1>1, <2>1, Zenon
<1>3. /\ HandOver(n) \in BOOLEAN /\ hand_over' = [hand_over EXCEPT ![n] = HandOver(n)]
      /\ hand_over' \in [Nodes -> BOOLEAN] /\ hand_time' \in [Nodes -> 0..MaxHandOver]
      /\ HandInv'
  BY <1>1, <1>2, Decide, Zenon DEF write_page_and_unlock
<1>4. TypeOK'
  BY <1>2, <1>m, <1>3, Zenon DEF IInv, TypeOK
<1>5. TicketInv'
  BY <1>2, <1>m, TicketsStay, Zenon DEF Served
<1>6. WordInv'
  <2>1. Holding' = Holding /\ t \in Holding /\ \A m \in Nodes : Keeps(m)' <=> Keeps(m)
    <3>1. Holding' = Holding /\ t \in Holding
      BY <1>2, <1>m, Zenon DEF Holding
    <3>2. QED
      BY <1>2, <3>1, Zenon DEF Keeps
  <2>2. \A m \in Nodes : hand_over'[m] => Keeps(m)
    <3>1. Keeps(n) /\ (\A m \in Nodes : hand_over[m] => Keeps(m)) /\ hand_over \in [Nodes -> BOOLEAN]
      BY <2>1, Zenon DEF IInv, TypeOK, WordInv
    <3>2. QED
      BY <1>3, <3>1
  <2>3. ASSUME NEW u \in Threads, pc'[u] \in {"cas", "version", "landing"}
        PROVE  ~hand_over'[home[u]]
    <3>1. CASE u = t
      BY <1>1, <1>3, <2>3, <3>1, Zenon DEF IInv, TypeOK
    <3>2. CASE u # t
      <4>1. pc[u] \in {"cas", "version", "landing"} /\ home[u] \in Nodes
        BY <1>m, <2>3, <3>2, Zenon
      <4>2. home[u] # n
        BY <1>2, <3>2, <4>1, OneServed, Zenon DEF Served
      <4>3. ~hand_over[home[u]] /\ hand_over \in [Nodes -> BOOLEAN]
        BY <4>1, Zenon DEF IInv, TypeOK, WordInv
      <4>4. QED
        BY <1>3, <4>1, <4>2, <4>3, Zenon
    <3>3. QED
      BY <3>1, <3>2, Zenon
  <2>4. \A u \in Holding : home[u] \in Nodes
    BY Zenon DEF Holding
  <2>5. QED
    BY <1>2, <2>1, <2>2, <2>3, <2>4, Zenon DEF IInv, WordInv
<1>7. PageInv'
  BY <1>1, <1>2 DEF IInv, TypeOK, PageInv, Storing
<1>8. ReaderInv'
  BY <1>2, Zenon DEF IInv, ReaderInv
<1>9. QED
  BY <1>2, <1>3, <1>4, <1>5, <1>6, <1>7, <1>8, Zenon DEF IInv

(* A search or a key of another page leaves the page alone. *)
LEMMA UnlockIInv ==
  ASSUME IInv, NEW t \in Threads, NEW async \in BOOLEAN, unlock_addr(t, async)
  PROVE  IInv'
<1> DEFINE n == home[t]
<1> USE ShermanLockAssumption DEF Go, memoryVars, readerVars
<1>1. PICK where \in {"release", "landing"} :
        /\ pc' = [pc EXCEPT ![t] = where]
        /\ \/ HandOver(n) /\ where = "release" /\ UNCHANGED batch
           \/ ~HandOver(n) /\ batch' = [by |-> t, stage |-> 3, data |-> 0, version |-> version]
  BY Zenon DEF unlock_addr, write_dm
<1>2. /\ pc[t] = "unlock"
      /\ UNCHANGED <<cast, ticket, current, taken, my, buffer, lock, version, page, changes, streak, readerVars>>
  BY Zenon DEF unlock_addr
<1>m. pc' \in [Threads -> Steps] /\ \A u \in Threads : pc'[u] = IF u = t THEN where ELSE pc[u]
  <2>1. pc \in [Threads -> Steps] /\ where \in Steps
    BY Zenon DEF IInv, TypeOK, Steps
  <2>2. QED
    BY <1>1, <2>1, Zenon
<1>3. /\ HandOver(n) \in BOOLEAN /\ hand_over' = [hand_over EXCEPT ![n] = HandOver(n)]
      /\ hand_over' \in [Nodes -> BOOLEAN] /\ hand_time' \in [Nodes -> 0..MaxHandOver]
      /\ HandInv'
  BY <1>1, <1>2, Decide, Zenon DEF unlock_addr
<1>4. TypeOK'
  <2>1. batch' \in [by : Threads \cup {Nobody}, stage : 0..3, data : Nat, version : Nat]
    BY <1>1 DEF IInv, TypeOK
  <2>2. QED
    BY <1>2, <1>m, <1>3, <2>1, Zenon DEF IInv, TypeOK
<1>5. TicketInv'
  BY <1>2, <1>m, TicketsStay, Zenon DEF Served
<1>6. WordInv'
  <2>1. Keeps(n) /\ t \in Holding /\ \A u \in Holding : u = t
    BY <1>2, OneHolder, Zenon DEF IInv, WordInv, Holding
  <2>2. \A m \in Nodes : hand_over[m] => m = n
    BY <2>1, Zenon DEF IInv, WordInv, Keeps
  <2>3. Holding' = {}
    BY <1>m, <2>1, Zenon DEF Holding
  <2>4. ASSUME NEW u \in Threads, pc'[u] \in {"cas", "version", "landing"}
        PROVE  ~hand_over'[home[u]]
    <3>1. CASE u = t
      BY <1>1, <1>3, <2>4, <3>1 DEF IInv, TypeOK
    <3>2. CASE u # t
      <4>1. pc[u] \in {"cas", "version", "landing"} /\ home[u] \in Nodes
        BY <1>m, <2>4, <3>2, Zenon
      <4>2. home[u] # n
        BY <1>2, <3>2, <4>1, OneServed, Zenon DEF Served
      <4>3. ~hand_over[home[u]] /\ hand_over \in [Nodes -> BOOLEAN]
        BY <4>1, Zenon DEF IInv, TypeOK, WordInv
      <4>4. QED
        BY <1>3, <4>1, <4>2, <4>3, Zenon
    <3>3. QED
      BY <3>1, <3>2, Zenon
  <2>5. CASE HandOver(n)
    <3>1. \A m \in Nodes : hand_over'[m] => m = n
      BY <1>3, <2>2, Zenon DEF IInv, TypeOK
    <3>2. Keeps(n)' /\ batch'.by = Nobody
      BY <1>1, <1>2, <2>1, <2>5, Zenon DEF Keeps
    <3>3. QED
      BY <2>3, <2>4, <3>1, <3>2, Zenon DEF WordInv
  <2>6. CASE ~HandOver(n)
    <3>1. \A m \in Nodes : ~hand_over'[m]
      BY <1>3, <2>2, <2>6, Zenon DEF IInv, TypeOK
    <3>2. QED
      <4>1. batch'.by = t /\ lock' \in Threads /\ home[lock'] = n
        BY <1>1, <1>2, <2>1, <2>6 DEF Keeps
      <4>2. QED
        BY <2>3, <2>4, <3>1, <4>1, Zenon DEF WordInv
  <2>7. QED
    BY <1>3, <2>5, <2>6, Zenon
<1>7. PageInv'
  <2>1. page[1] = changes /\ page[2] = changes
    BY <1>2, WholePage, Zenon
  <2>2. Storing = {}
    <3>1. t \in Holding
      BY <1>2, Zenon DEF Holding
    <3>2. \A u \in Storing : u \in Holding
      BY Zenon DEF Storing, Holding
    <3>3. QED
      BY <1>2, <3>1, <3>2, OneHolder, Zenon DEF Storing
  <2>3. QED
    <3>1. Storing' = {} /\ \A u \in Threads : pc'[u] # "write_2"
      BY <1>m, <2>2, Zenon DEF Storing
    <3>2. batch' = batch \/ batch'.stage = 3
      BY <1>1
    <3>3. page' = page /\ changes' = changes /\ changes \in Nat
      BY <1>2, Zenon DEF IInv, TypeOK
    <3>4. PageInv
      BY Zenon DEF IInv
    <3>5. QED
      BY <2>1, <3>1, <3>2, <3>3, <3>4 DEF PageInv
<1>8. ReaderInv'
  BY <1>2, Zenon DEF IInv, ReaderInv
<1>9. QED
  BY <1>2, <1>3, <1>4, <1>5, <1>6, <1>7, <1>8, Zenon DEF IInv

(* Before a hand-over the page is written half by half. *)
LEMMA WriteSyncIInv ==
  ASSUME IInv, NEW t \in Threads, write_sync(t)
  PROVE  IInv'
<1> USE ShermanLockAssumption DEF Go, localVars, readerVars
<1>1. PICK i \in {1, 2} :
        /\ pc[t] = (IF i = 1 THEN "write_1" ELSE "write_2")
        /\ page' = [page EXCEPT ![i] = buffer[t]]
        /\ pc' = [pc EXCEPT ![t] = IF i = 1 THEN "write_2" ELSE "release"]
        /\ UNCHANGED <<localVars, my, buffer, lock, version, batch, changes, streak, readerVars>>
  BY DEF write_sync
<1>m. /\ pc' \in [Threads -> Steps]
      /\ \A u \in Threads : pc'[u] = IF u = t THEN (IF i = 1 THEN "write_2" ELSE "release") ELSE pc[u]
  <2>1. pc \in [Threads -> Steps] /\ "write_2" \in Steps /\ "release" \in Steps
    BY Zenon DEF IInv, TypeOK, Steps
  <2>2. QED
    BY <1>1, <2>1, Zenon
<1>0. UNCHANGED <<localVars, my, buffer, lock, version, batch, changes, streak, readerVars>>
  BY <1>1, Zenon
<1>2. t \in Holding /\ t \in Storing /\ buffer[t] = changes
  BY <1>1, Zenon DEF Holding, Storing, IInv, PageInv
<1>3. /\ page[1] \in Nat /\ page[2] \in Nat /\ changes \in Nat /\ page' \in Nat \X Nat
      /\ page'[1] = (IF i = 1 THEN changes ELSE page[1])
      /\ page'[2] = (IF i = 2 THEN changes ELSE page[2])
  BY <1>1, <1>2 DEF IInv, TypeOK
<1>4. TypeOK'
  BY <1>0, <1>m, <1>3, Zenon DEF IInv, TypeOK
<1>5. TicketInv'
  BY <1>0, <1>1, <1>m, TicketsStay, Zenon DEF Served
<1>6. WordInv'
  BY <1>0, <1>1, <1>m, WordStays, Zenon DEF Holding
<1>7. PageInv'
  <2>1. batch.by = Nobody /\ \A u \in Storing : u = t
    BY <1>2, OneHolder, Zenon DEF IInv, WordInv, Keeps, Storing, Holding
  <2>2. QED
    <3>1. page[1] <= changes /\ page[2] <= changes /\ (i = 2 => page[1] = changes)
      BY <1>1 DEF IInv, PageInv
    <3>2. /\ \A u \in Storing' : u = t /\ i = 1
          /\ \A u \in Threads : pc'[u] = "write_2" => i = 1
          /\ i = 1 => t \in Storing'
      BY <1>m, <2>1, Zenon DEF Storing
    <3>3. QED
      BY <1>0, <1>2, <1>3, <2>1, <3>1, <3>2 DEF PageInv
<1>8. ReaderInv'
  <2>1. page[1] <= page'[1] /\ page[2] <= page'[2] /\ page'[1] \in Nat /\ page'[2] \in Nat
    BY <1>3 DEF IInv, PageInv
  <2>2. page[1] \in Nat /\ page[2] \in Nat /\ \A r \in Readers : rstart[r] \in Nat
    BY Zenon DEF IInv, TypeOK
  <2>3. UNCHANGED readerVars /\ ReaderInv
    BY <1>0, Zenon DEF IInv
  <2>4. QED
    BY <2>1, <2>2, <2>3 DEF ReaderInv
<1>9. HandInv'
  <2>1. \A n : Counted(n)' <=> Counted(n)
    BY <1>0, <1>1, <1>m, Zenon DEF Counted
  <2>2. QED
    BY <1>0, <1>m, <2>1, Zenon DEF IInv, HandInv
<1>10. QED
  BY <1>0, <1>4, <1>5, <1>6, <1>7, <1>8, <1>9, Zenon DEF IInv

(* A store without a hand-over posts its page with the unlock behind it. *)
LEMMA WriteBatchIInv ==
  ASSUME IInv, NEW t \in Threads, NEW async \in BOOLEAN, write_batch(t, async)
  PROVE  IInv'
<1> USE ShermanLockAssumption DEF Go, localVars, readerVars
<1>1. PICK where \in {"release", "landing"} : pc' = [pc EXCEPT ![t] = where]
  BY Zenon DEF write_batch
<1>2. /\ pc[t] = "version"
      /\ batch' = [by |-> t, stage |-> 1, data |-> buffer[t], version |-> version + 1]
      /\ UNCHANGED <<localVars, my, buffer, lock, version, page, changes, streak, readerVars>>
  BY Zenon DEF write_batch, PostBatch, read_dm
<1>m. pc' \in [Threads -> Steps] /\ \A u \in Threads : pc'[u] = IF u = t THEN where ELSE pc[u]
  <2>1. pc \in [Threads -> Steps] /\ where \in Steps
    BY Zenon DEF IInv, TypeOK, Steps
  <2>2. QED
    BY <1>1, <2>1, Zenon
<1>3. t \in Holding /\ t \in Storing /\ buffer[t] = changes /\ \A u \in Holding : u = t
  BY <1>2, OneHolder, Zenon DEF Holding, Storing, IInv, PageInv
<1>4. TypeOK'
  <2>1. batch' \in [by : Threads \cup {Nobody}, stage : 0..3, data : Nat, version : Nat]
    BY <1>2 DEF IInv, TypeOK
  <2>2. QED
    BY <1>2, <1>m, <2>1, Zenon DEF IInv, TypeOK
<1>5. TicketInv'
  BY <1>2, <1>m, TicketsStay, Zenon DEF Served
<1>6. WordInv'
  <2>1. Holding' = {}
    BY <1>m, <1>3, Zenon DEF Holding
  <2>2. Keeps(home[t]) /\ ~hand_over[home[t]]
    BY <1>2, <1>3, Zenon DEF IInv, WordInv
  <2>3. \A n \in Nodes : ~hand_over[n]
    BY <2>2, Zenon DEF IInv, WordInv, Keeps
  <2>4. QED
    <3>1. lock' \in Threads /\ home[lock'] = home[t] /\ batch'.by = t
      BY <1>2, <2>2, Zenon DEF Keeps
    <3>2. QED
      BY <1>2, <2>1, <2>3, <3>1, Zenon DEF WordInv
<1>7. PageInv'
  <2>1. Storing' = {} /\ \A u \in Threads : pc'[u] # "write_2"
    <3>1. \A u \in Storing : u \in Holding
      BY Zenon DEF Storing, Holding
    <3>2. Storing' = {}
      BY <1>m, <1>3, <3>1, Zenon DEF Storing
    <3>3. QED
      BY <3>2, Zenon DEF Storing
  <2>2. QED
    <3>1. page[1] <= changes /\ page[2] <= changes
      BY Zenon DEF IInv, PageInv
    <3>2. /\ batch'.by = t /\ batch'.stage = 1 /\ batch'.data = changes
          /\ page' = page /\ changes' = changes
      BY <1>2, <1>3, Zenon
    <3>3. batch'.stage \notin {2, 3}
      BY <3>2
    <3>4. QED
      BY <2>1, <3>1, <3>2, <3>3, Zenon DEF PageInv
<1>8. ReaderInv'
  BY <1>2, Zenon DEF IInv, ReaderInv
<1>9. HandInv'
  <2>1. \A n : Counted(n)' <=> Counted(n)
    BY <1>2, <1>m, Zenon DEF Counted
  <2>2. QED
    BY <1>2, <1>m, <2>1, Zenon DEF IInv, HandInv
<1>10. QED
  BY <1>2, <1>4, <1>5, <1>6, <1>7, <1>8, <1>9, Zenon DEF IInv

-----------------------------------------------------------------------------

LEMMA NextIInv == IInv /\ [Next]_vars => IInv'
<1> SUFFICES ASSUME IInv, [Next]_vars PROVE IInv'
  BY Zenon
<1>1. CASE UNCHANGED vars
  BY <1>1 DEF vars, localVars, threadVars, memoryVars, readerVars, IInv, TypeOK, TicketInv,
     WordInv, Keeps, Holding, PageInv, Storing, ReaderInv, HandInv, Counted
<1>2. CASE Next
  BY <1>1, <1>2, AcquireIInv, WaitIInv, GrantedIInv, TryLockIInv, ReadIInv, WriteIInv,
     UnlockIInv, WriteSyncIInv, WriteBatchIInv, LandIInv, LandedIInv, ReleaseIInv, SearchIInv, Zenon
     DEF Next, Finished
<1>3. QED
  BY <1>1, <1>2, Zenon

LEMMA Invariance == Spec => []IInv
  BY InitIInv, NextIInv, PTL DEF Spec

-----------------------------------------------------------------------------
(* Acquired from the memory node or handed over, the page's lock is held by   *)
(* one thread of all compute nodes at a time (lock_and_read_page to           *)
(* write_page_and_unlock or unlock_addr), and the word is that thread's       *)
(* node's.                                                                    *)
THEOREM PageLockExcludes == Spec => []LockExclusion
<1>1. IInv => LockExclusion
  BY OneHolder, ShermanLockAssumption, Zenon DEF IInv, WordInv, Keeps, LockExclusion
<1>2. QED
  BY <1>1, Invariance, PTL

(* A thread that gets the lock, in whichever way, reads a whole page with     *)
(* every earlier change (assert(check_consistent())); the lock word is free   *)
(* only when all have landed; and a search sees the stores that ended before. *)
THEOREM StoresAreSeen == Spec => []NoStoreIsMissed
<1>1. IInv => NoStoreIsMissed
  <2> SUFFICES ASSUME IInv PROVE NoStoreIsMissed
    BY Zenon
  <2>1. page = <<page[1], page[2]>>
    BY DEF IInv, TypeOK
  <2>2. ASSUME NEW t \in Threads, pc[t] = "read" PROVE page = <<changes, changes>>
    BY <2>1, <2>2, WholePage, Zenon
  <2>3. ASSUME lock = Nobody PROVE page = <<changes, changes>>
    BY <2>1, <2>3, WholePage, Zenon
  <2>4. \A r \in Readers :
          rpc[r] = "accepted" => rpage[r][1] >= rstart[r] /\ rpage[r][2] >= rstart[r]
    BY Zenon DEF IInv, TypeOK, ReaderInv
  <2>5. QED
    BY <2>2, <2>3, <2>4, Zenon DEF NoStoreIsMissed
<1>2. QED
  BY <1>1, Invariance, PTL

(* A node keeps the lock for at most kMaxHandOverTime threads in a row        *)
(* (can_hand_over), hand_time never wraps, and a lock is let go although      *)
(* ticket and current say "no pending locks" only when there are none.        *)
THEOREM HandOverFair == Spec => []HandOverIsFair
<1>1. IInv => HandOverIsFair
  <2> SUFFICES ASSUME IInv PROVE HandOverIsFair
    BY Zenon
  <2>1. TypeOK /\ streak <= MaxHandOver
    BY Zenon DEF IInv, HandInv
  <2>2. NoPendingLocks
    <3> SUFFICES ASSUME NEW t \in Threads, pc[t] \in {"write", "unlock"}, ~Pending(home[t]),
                        NEW u \in Threads, home[u] = home[t], pc[u] # "idle"
                 PROVE  u = t
      BY Zenon DEF NoPendingLocks
    <3> DEFINE n == home[t]
    <3>1. /\ n \in Nodes /\ current[n] \in Nat /\ ticket[n] \in 0..(Wrap - 1) /\ Wrap \in Nat
          /\ my[u] \in Nat
      BY ShermanLockAssumption DEF IInv, TypeOK
    <3>2. my[t] = current[n] /\ current[n] < ticket[n] /\ current[n] <= my[u] /\ my[u] < ticket[n]
      BY Zenon DEF IInv, TicketInv, Served
    <3>3. (current[n] + 1) % Wrap = current[n] + 1
      BY <3>1, <3>2
    <3>4. my[u] = my[t]
      BY <3>1, <3>2, <3>3 DEF Pending
    <3>5. QED
      BY <3>4, Zenon DEF IInv, TicketInv
  <2>3. QED
    BY <2>1, <2>2, Zenon DEF HandOverIsFair
<1>2. QED
  BY <1>1, Invariance, PTL
=============================================================================
