------------------------ MODULE LocalLockTableProofs ------------------------
(* One turn per queue and one key per handover in a LocalLockNode, for any    *)
(* threads fewer than there are tickets, any keys and any operations.         *)
(*                                                                            *)
(* Tickets go around, so they say nothing by themselves: the inductive        *)
(* invariant counts the operations in a queue, which are as many as there are *)
(* tickets from current to ticket, and so never enough to go all the way.     *)
(* What Counting says of finite sets is shown last, so that the theorems      *)
(* about them do not burden every proof.                                      *)
EXTENDS LocalLockTable, TLAPS

Steps == {"idle", "claim", "buffer", "ticket", "wait", "granted", "conflict", "remote", "store",
          "release", "open", "own", "count", "other", "next", "leave", "close", "clear", "pass",
          "return"}
Tickets == 0..Wrap-1
Locals == [pc : Steps, side : Sides, key : Keys \cup {None}, val : Values \cup {None},
           my : Tickets, seen : Tickets, len : Tickets, turn : BOOLEAN]
Operation == [side : Sides, key : Keys, val : Values]

LocalsOK ==
  /\ th \in [Threads -> Locals] /\ todo \in [Threads -> Seq(Operation)]
  /\ winner \in [Sides -> Keys \cup {None}]
  /\ \A t \in Threads :
       /\ th[t].pc # "idle" => th[t].key \in Keys /\ todo[t] # <<>>
       /\ th[t].pc \in {"release", "open", "own", "count", "other", "next", "leave"} => th[t].turn
       /\ th[t].turn => th[t].pc \notin {"idle", "claim", "buffer", "ticket", "wait", "granted",
                                         "conflict"}

(* HasTurn and the queues, as predicates of a thread's locals. *)
OnTurn(r) ==
  r.pc \in {"granted", "conflict", "release", "open", "own", "count", "other", "next", "leave",
            "close", "clear", "pass"}
    \/ (r.turn /\ r.pc \in {"remote", "store"})

(* The operations in a queue: they have a ticket and have not passed the turn. *)
Queued(r) == r.pc = "wait" \/ OnTurn(r)
Queue(T, s) == {t \in Threads : T[t].side = s /\ Queued(T[t])}

(* The tickets from current to ticket are those of the queue, one each. *)
QueueInv ==
  /\ \A s \in Sides : Cardinality(Queue(th, s)) = Length(current[s], ticket[s])
  /\ \A t \in Threads : Queued(th[t]) =>
       Length(current[th[t].side], th[t].my) < Length(current[th[t].side], ticket[th[t].side])
  /\ \A t \in Threads : OnTurn(th[t]) => th[t].my = current[th[t].side]
  /\ \A t, u \in Threads :
       Queued(th[t]) /\ Queued(th[u]) /\ th[t].side = th[u].side /\ th[t].my = th[u].my => t = u

(* The operations on their turn whose key still owns the queue. *)
Owns(r) ==
  r.pc = "granted"
    \/ (r.turn /\ r.pc \in {"remote", "store", "release", "open", "own", "count", "other", "next"})

(* A handover is for the key that owns the queue, and that key won it. *)
KeyInv ==
  /\ \A s \in Sides : handover[s] => unique[s] \in Keys /\ winner[s] = unique[s]
  /\ \A t \in Threads : Owns(th[t]) => unique[th[t].side] = th[t].key
  /\ \A t \in Threads : th[t].pc \in {"open", "own", "count", "other", "next"}
                        => winner[th[t].side] = th[t].key

(* The window a release opens counts the releasing operation, and no more     *)
(* than its queue has.                                                        *)
SeenInv ==
  \A t \in Threads : th[t].pc \in {"open", "own", "count", "other"} =>
    /\ th[t].seen # th[t].my
    /\ Length(th[t].my, th[t].seen) <= Length(current[th[t].side], ticket[th[t].side])

(* A write that opens the windows; it sets its own window last. *)
Opening(r) == r.side = "write" /\ r.pc \in {"count", "other", "own"}

(* The writes in the queue that have not counted the window down. *)
Uncounted(T) == {t \in Queue(T, "write") : T[t].pc \notin {"close", "clear", "pass"}}

(* While window_start is set, a window is open, or somebody is about to open  *)
(* one or to clear it.                                                        *)
StartInv ==
  window_start => \/ \E s \in Sides : window[s] # 0
                  \/ \E u \in Threads : Opening(th[u]) \/ th[u].pc \in {"own", "close", "clear"}

(* A read that opens the windows sets its own first, and a write that opened  *)
(* them earlier may set it back to 0 before the read has counted the writes;  *)
(* that write, or one after it in the queue, will then close them.            *)
CountInv ==
  \A t \in Threads :
    th[t].side = "read" /\ th[t].pc = "count" /\ window_start /\ window["read"] = 0 =>
      \/ \E u \in Threads : Opening(th[u])
      \/ /\ window["write"] <= Cardinality(Uncounted(th))
         /\ \/ window["write"] # 0
            \/ \E u \in Threads : th[u].side = "write" /\ th[u].pc \in {"close", "clear"}

(* A read that counted no writes has its own window open, or a later write    *)
(* will open it.                                                              *)
OtherInv ==
  \A t \in Threads :
    th[t].side = "read" /\ th[t].pc = "other" /\ th[t].len = 0 =>
      /\ window_start /\ window["read"] = 0 =>
           \E u \in Threads : th[u].side = "write" /\ th[u].pc \in {"count", "other"}
      /\ \A u \in Threads : th[u].side = "write" /\ th[u].pc = "other" => th[u].len # 0

WindowInv == StartInv /\ CountInv /\ OtherInv

IInv == TypeOK /\ LocalsOK /\ QueueInv /\ KeyInv /\ SeenInv /\ WindowInv

(* What the proofs use of finite sets.  LocalLockTableProofs shows that it    *)
(* holds of the threads (CountingHolds).                                      *)
Counting ==
  /\ Cardinality({}) = 0
  /\ \A S \in SUBSET Threads :
       /\ Cardinality(S) \in Nat /\ Cardinality(S) <= Cardinality(Threads)
       /\ Cardinality(S) = 0 => S = {}
       /\ \A R \in SUBSET S : Cardinality(R) <= Cardinality(S)
       /\ \A x \in S : Cardinality(S \ {x}) = Cardinality(S) - 1
       /\ \A x \in Threads \ S : Cardinality(S \cup {x}) = Cardinality(S) + 1

USE DEF Sides, Tickets
-----------------------------------------------------------------------------
(* Arithmetic of tickets. *)
LEMMA TicketArithmetic ==
  /\ Wrap \in Nat \ {0}
  /\ \A x \in Tickets : (x + 1) % Wrap = IF x = Wrap - 1 THEN 0 ELSE x + 1
  /\ \A x, y \in Tickets : Length(x, y) = IF x <= y THEN y - x ELSE Wrap + y - x
<1>1. Wrap \in Nat \ {0}
  BY LocalLockTableAssumption, Zenon
<1>2. \A x \in Tickets : (x + 1) % Wrap = IF x = Wrap - 1 THEN 0 ELSE x + 1
  BY <1>1
<1>3. \A x, y \in Tickets : Length(x, y) = IF x <= y THEN y - x ELSE Wrap + y - x
  <2> SUFFICES ASSUME NEW x \in Tickets, NEW y \in Tickets
               PROVE  (Wrap + y - x) % Wrap = IF x <= y THEN y - x ELSE Wrap + y - x
    BY Zenon DEF Length
  <2>1. CASE x <= y
    BY <1>1, <2>1
  <2>2. CASE ~(x <= y)
    BY <1>1, <2>2
  <2>3. QED
    BY <2>1, <2>2, Zenon
<1>4. QED
  BY <1>1, <1>2, <1>3, Zenon

(* How far a ticket is from the current one. *)
LEMMA QueueArithmetic ==
  ASSUME NEW c \in Tickets, NEW x \in Tickets
  PROVE  /\ Length(c, x) \in Tickets /\ Length(c, x) \in Nat /\ (x + 1) % Wrap \in Tickets
         /\ Length(c, x) = 0 <=> x = c
         /\ \A y \in Tickets : Length(c, x) = Length(c, y) => x = y
         /\ x # c => Length((c + 1) % Wrap, x) = Length(c, x) - 1
         /\ Length(c, x) < Wrap - 1 => Length(c, (x + 1) % Wrap) = Length(c, x) + 1
<1> DEFINE e == (c + 1) % Wrap
           y == (x + 1) % Wrap
<1>1. /\ Wrap \in Nat /\ Wrap > 0 /\ e \in Tickets /\ y \in Tickets
      /\ e = IF c = Wrap - 1 THEN 0 ELSE c + 1
      /\ y = IF x = Wrap - 1 THEN 0 ELSE x + 1
  BY TicketArithmetic
<1> HIDE DEF e, y
<1>2. /\ \A z \in Tickets : Length(c, z) = IF c <= z THEN z - c ELSE Wrap + z - c
      /\ Length(e, x) = IF e <= x THEN x - e ELSE Wrap + x - e
  BY <1>1, TicketArithmetic, Zenon
<1>3. Length(c, x) \in Tickets /\ (Length(c, x) = 0 <=> x = c)
  BY <1>1, <1>2
<1>4. \A z \in Tickets : Length(c, x) = Length(c, z) => x = z
  BY <1>1, <1>2
<1>5. x # c => Length(e, x) = Length(c, x) - 1
  BY <1>1, <1>2
<1>6. Length(c, x) < Wrap - 1 => Length(c, y) = Length(c, x) + 1
  BY <1>1, <1>2
<1>7. QED
  BY <1>1, <1>3, <1>4, <1>5, <1>6 DEF e, y

LEMMA QueueIsCounted ==
  ASSUME Counting, NEW T, NEW s
  PROVE  Queue(T, s) \in SUBSET Threads /\ Cardinality(Queue(T, s)) \in Nat
BY Zenon DEF Queue, Counting

LEMMA UncountedIsCounted ==
  ASSUME Counting, NEW T
  PROVE  Uncounted(T) \in SUBSET Threads /\ Cardinality(Uncounted(T)) \in Nat
BY Zenon DEF Uncounted, Queue, Counting

(* The turn is the ticket's: one operation of a queue has it. *)
LEMMA OneTurn ==
  ASSUME QueueInv, LocalsOK, NEW t \in Threads, NEW u \in Threads, OnTurn(th[t]), OnTurn(th[u]),
         th[t].side = th[u].side
  PROVE  t = u
BY DEF QueueInv, Queued

(* A step that lets nobody in or out of a queue. *)
LEMMA QueueStays ==
  ASSUME QueueInv, UNCHANGED <<ticket, current>>,
         \A u \in Threads : /\ Queued(th'[u]) <=> Queued(th[u])
                            /\ Queued(th[u]) => th'[u].side = th[u].side /\ th'[u].my = th[u].my
                            /\ OnTurn(th'[u]) => OnTurn(th[u]) \/ th[u].my = current[th[u].side]
  PROVE  QueueInv'
<1>1. \A s \in Sides : Queue(th', s) = Queue(th, s)
  BY Zenon DEF Queue
<1>2. QED
  BY <1>1 DEF QueueInv, Queued

(* A step that leaves the key and the handover of the queues alone. *)
LEMMA KeyStays ==
  ASSUME KeyInv, UNCHANGED <<handover, unique, winner>>,
         \A u \in Threads :
           /\ Owns(th'[u]) => \/ Owns(th[u]) /\ th'[u].side = th[u].side /\ th'[u].key = th[u].key
                          \/ unique[th'[u].side] = th'[u].key
           /\ th'[u].pc \in {"open", "own", "count", "other", "next"} =>
                \/ /\ th[u].pc \in {"open", "own", "count", "other", "next"}
                   /\ th'[u].side = th[u].side /\ th'[u].key = th[u].key
                \/ winner[th'[u].side] = th'[u].key
  PROVE  KeyInv'
BY Zenon DEF KeyInv

(* The steps a window is opened, counted down and closed in. *)
WindowSteps == {"own", "count", "other", "close", "clear"}

(* A step outside of these, which takes no write out of the queue uncounted. *)
LEMMA WindowStays ==
  ASSUME Counting, WindowInv, UNCHANGED <<window, window_start>>,
         window["write"] \in Nat,
         \A u \in Threads :
           /\ th[u].pc \in WindowSteps \/ th'[u].pc \in WindowSteps => th'[u] = th[u]
           /\ Queued(th[u]) /\ th[u].pc # "pass" =>
                Queued(th'[u]) /\ th'[u].side = th[u].side /\ th'[u].pc # "pass"
  PROVE  WindowInv'
<1> USE DEF WindowSteps
<1>1. Cardinality(Uncounted(th)) <= Cardinality(Uncounted(th'))
  <2>1. Uncounted(th) \subseteq Uncounted(th')
    BY Zenon DEF Uncounted, Queue
  <2>2. QED
    BY <2>1, UncountedIsCounted, Zenon DEF Counting
<1>2. Cardinality(Uncounted(th)) \in Nat /\ Cardinality(Uncounted(th')) \in Nat
  BY UncountedIsCounted, Zenon
<1>3. \A u \in Threads : Opening(th'[u]) <=> Opening(th[u])
  BY Zenon DEF Opening
<1>4. QED
  BY <1>1, <1>2, <1>3 DEF WindowInv, StartInv, CountInv, OtherInv

-----------------------------------------------------------------------------
(* Go moves one thread to another step and leaves its other locals alone. *)
LEMMA GoEffect ==
  ASSUME LocalsOK, NEW t \in Threads, NEW p \in Steps, Go(t, p)
  PROVE  /\ th' \in [Threads -> Locals]
         /\ \A u \in Threads : u # t => th'[u] = th[u]
         /\ th'[t] = [th[t] EXCEPT !.pc = p]
         /\ th'[t].pc = p /\ th'[t].side = th[t].side /\ th'[t].key = th[t].key
         /\ th'[t].val = th[t].val /\ th'[t].my = th[t].my /\ th'[t].seen = th[t].seen
         /\ th'[t].len = th[t].len /\ th'[t].turn = th[t].turn
BY Zenon DEF Go, LocalsOK, Locals

(* A step in the middle of an operation. *)
LEMMA LocalsStay ==
  ASSUME LocalsOK, UNCHANGED <<todo, winner>>, th' \in [Threads -> Locals], NEW t \in Threads,
         \A u \in Threads : u # t => th'[u] = th[u],
         th[t].pc # "idle", th'[t].key = th[t].key,
         th'[t].pc \in {"release", "open", "own", "count", "other", "next", "leave"} => th'[t].turn,
         th'[t].turn => th'[t].pc \notin {"idle", "claim", "buffer", "ticket", "wait", "granted",
                                         "conflict"}
  PROVE  LocalsOK'
BY Zenon DEF LocalsOK

(* A step before or after the queue, or at the remote tree. *)
LEMMA QuietStep ==
  ASSUME Counting, IInv, TypeOK', LocalsOK', UNCHANGED <<queue, window, window_start, winner>>,
         NEW t \in Threads, \A u \in Threads : u # t => th'[u] = th[u],
         Queued(th'[t]) <=> Queued(th[t]), OnTurn(th'[t]) <=> OnTurn(th[t]),
         Queued(th[t]) => /\ th'[t].side = th[t].side /\ th'[t].my = th[t].my
                       /\ th'[t].key = th[t].key,
         Owns(th'[t]) => Owns(th[t]),
         {th[t].pc, th'[t].pc} \cap ({"open", "next", "pass"} \cup WindowSteps) = {}
  PROVE  IInv'
<1> USE DEF IInv
<1>1. UNCHANGED <<ticket, current, handover, unique>>
  BY Zenon DEF queue
<1>2. \A u \in Threads : /\ Queued(th'[u]) <=> Queued(th[u])
                         /\ OnTurn(th'[u]) <=> OnTurn(th[u])
                         /\ Owns(th'[u]) => Owns(th[u])
                         /\ Owns(th[u]) => Queued(th[u])
                         /\ Queued(th[u]) => /\ th'[u].side = th[u].side /\ th'[u].my = th[u].my
                                          /\ th'[u].key = th[u].key
  BY DEF Queued, OnTurn, Owns
<1>3. QueueInv'
  BY <1>1, <1>2, QueueStays, Zenon
<1>4. KeyInv'
  BY <1>1, <1>2, KeyStays, Zenon DEF WindowSteps
<1>5. SeenInv'
  BY <1>1, Zenon DEF SeenInv, WindowSteps
<1>6. WindowInv'
  <2>1. window["write"] \in Nat
    BY DEF TypeOK
  <2>2. QED
    BY <1>2, <2>1, WindowStays, Zenon
<1>7. QED
  BY <1>3, <1>4, <1>5, <1>6, Zenon

LEMMA BeginIInv ==
  ASSUME Counting, IInv, NEW t \in Threads, begin(t)
  PROVE  IInv'
<1> USE DEF IInv, begin
<1> DEFINE o == Head(todo[t])
           r == [Idle EXCEPT !.pc = "claim", !.side = o.side, !.key = o.key,
                             !.val = IF o.side = "write" THEN o.val ELSE None]
<1>1. o \in Operation
  BY DEF LocalsOK
<1>2. o.side \in Sides /\ o.key \in Keys /\ o.val \in Values
  BY <1>1, Zenon DEF Operation
<1> HIDE DEF o
<1>3. r \in Locals /\ r.pc = "claim" /\ r.key = o.key /\ r.turn = FALSE
  <2>1. 0 \in Tickets
    BY TicketArithmetic
  <2>2. QED
    BY <1>2, <2>1, Zenon DEF Idle, Locals, Steps
<1>4. th' = [th EXCEPT ![t] = r]
  BY Zenon DEF o
<1> HIDE DEF r
<1>5. th' \in [Threads -> Locals] /\ th'[t] = r /\ \A u \in Threads : u # t => th'[u] = th[u]
  BY <1>3, <1>4, Zenon DEF LocalsOK
<1>6. TypeOK' /\ LocalsOK'
  BY <1>2, <1>3, <1>5, Zenon DEF TypeOK, LocalsOK, queue
<1>7. ~Queued(th[t]) /\ ~Queued(th'[t]) /\ ~OnTurn(th[t]) /\ ~OnTurn(th'[t]) /\ ~Owns(th'[t])
  BY <1>3, <1>5, Zenon DEF Queued, OnTurn, Owns, LocalsOK
<1>8. QED
  BY <1>3, <1>5, <1>6, <1>7, QuietStep, Zenon DEF WindowSteps

LEMMA BufferIInv ==
  ASSUME Counting, IInv, NEW t \in Threads, buffer(t)
  PROVE  IInv'
<1> USE DEF IInv, buffer
<1>1. "ticket" \in Steps
  BY Zenon DEF Steps
<1>2. /\ th' \in [Threads -> Locals] /\ \A u \in Threads : u # t => th'[u] = th[u]
      /\ th'[t].pc = "ticket" /\ th'[t].key = th[t].key /\ th'[t].turn = th[t].turn
  BY <1>1, GoEffect, Zenon
<1>3. LocalsOK'
  BY <1>2, Zenon DEF LocalsOK
<1>4. TypeOK'
  <2>1. th[t].val \in Values \cup {None}
    BY Zenon DEF LocalsOK, Locals
  <2>2. QED
    BY <2>1, Zenon DEF TypeOK, queue
<1>5. ~Queued(th[t]) /\ ~Queued(th'[t]) /\ ~OnTurn(th[t]) /\ ~OnTurn(th'[t]) /\ ~Owns(th'[t])
  BY <1>2, Zenon DEF Queued, OnTurn, Owns
<1>6. QED
  BY <1>2, <1>3, <1>4, <1>5, QuietStep, Zenon DEF WindowSteps

LEMMA SearchIInv ==
  ASSUME Counting, IInv, NEW t \in Threads, search(t)
  PROVE  IInv'
<1> USE DEF IInv, search
<1> DEFINE p == IF th[t].turn THEN "release" ELSE "return"
<1>1. th[t] \in Locals /\ mem[th[t].key] \in Values \cup {None}
  BY Zenon DEF LocalsOK, TypeOK
<1>2. /\ th' \in [Threads -> Locals] /\ \A u \in Threads : u # t => th'[u] = th[u]
      /\ th'[t].pc = p /\ th'[t].key = th[t].key /\ th'[t].turn = th[t].turn
      /\ th'[t].side = th[t].side /\ th'[t].my = th[t].my
  BY <1>1, Zenon DEF LocalsOK, Locals, Steps
<1>3. LocalsOK'
  <2>1. th[t].turn \in BOOLEAN
    BY Zenon DEF LocalsOK, Locals
  <2>2. (th'[t].pc = "release" /\ th'[t].turn) \/ th'[t].pc = "return"
    BY <1>2, <2>1, Zenon
  <2>3. th[t].pc # "idle" /\ UNCHANGED <<todo, winner>>
    BY Zenon
  <2> HIDE DEF search
  <2>4. QED
    BY <1>2, <2>2, <2>3, LocalsStay, Zenon
<1>4. TypeOK'
  BY Zenon DEF TypeOK, queue
<1>5. (Queued(th'[t]) <=> Queued(th[t])) /\ (OnTurn(th'[t]) <=> OnTurn(th[t])) /\ (Owns(th'[t]) => Owns(th[t]))
  BY <1>2 DEF Queued, OnTurn, Owns
<1>6. QED
  BY <1>2, <1>3, <1>4, <1>5, QuietStep DEF WindowSteps

LEMMA CombineIInv ==
  ASSUME Counting, IInv, NEW t \in Threads, get_combining_value(t)
  PROVE  IInv'
<1> USE DEF IInv, get_combining_value
<1>1. th[t] \in Locals /\ wc_buffer \in Values \cup {None}
  BY Zenon DEF LocalsOK, TypeOK
<1>2. /\ th' \in [Threads -> Locals] /\ \A u \in Threads : u # t => th'[u] = th[u]
      /\ th'[t].pc = "store" /\ th'[t].key = th[t].key /\ th'[t].turn = th[t].turn
      /\ th'[t].side = th[t].side /\ th'[t].my = th[t].my
  BY <1>1, Zenon DEF LocalsOK, Locals, Steps
<1>3. LocalsOK'
  <2>1. th[t].turn \in BOOLEAN
    BY Zenon DEF LocalsOK, Locals
  <2>2. QED
    BY <1>2, <2>1, LocalsStay, Zenon
<1>4. TypeOK'
  BY Zenon DEF TypeOK, queue
<1>5. (Queued(th'[t]) <=> Queued(th[t])) /\ (OnTurn(th'[t]) <=> OnTurn(th[t])) /\ (Owns(th'[t]) => Owns(th[t]))
  BY <1>2, Zenon DEF Queued, OnTurn, Owns
<1>6. QED
  BY <1>2, <1>3, <1>4, <1>5, QuietStep, Zenon DEF WindowSteps

LEMMA StoreIInv ==
  ASSUME Counting, IInv, NEW t \in Threads, store(t)
  PROVE  IInv'
<1> USE DEF IInv, store
<1> DEFINE p == IF th[t].turn THEN "release" ELSE "return"
<1>1. p \in Steps /\ Go(t, p)
  BY Zenon DEF Steps
<1>2. /\ th' \in [Threads -> Locals] /\ \A u \in Threads : u # t => th'[u] = th[u]
      /\ th'[t].pc = p /\ th'[t].key = th[t].key /\ th'[t].turn = th[t].turn
      /\ th'[t].side = th[t].side /\ th'[t].my = th[t].my
  BY <1>1, GoEffect, Zenon
<1>3. LocalsOK'
  <2>1. th[t].turn \in BOOLEAN
    BY Zenon DEF LocalsOK, Locals
  <2>2. QED
    BY <1>2, <2>1, LocalsStay, Zenon
<1>4. TypeOK'
  <2>1. th[t].val \in Values \cup {None}
    BY Zenon DEF LocalsOK, Locals
  <2>2. QED
    BY <2>1, Zenon DEF TypeOK, queue
<1>5. (Queued(th'[t]) <=> Queued(th[t])) /\ (OnTurn(th'[t]) <=> OnTurn(th[t])) /\ (Owns(th'[t]) => Owns(th[t]))
  BY <1>2, Zenon DEF Queued, OnTurn, Owns
<1>6. QED
  BY <1>2, <1>3, <1>4, <1>5, QuietStep, Zenon DEF WindowSteps

LEMMA ReturnIInv ==
  ASSUME Counting, IInv, NEW t \in Threads, return(t)
  PROVE  IInv'
<1> USE DEF IInv, return
<1>1. Idle \in Locals /\ Idle.pc = "idle" /\ Idle.turn = FALSE
  <2>1. 0 \in Tickets
    BY TicketArithmetic
  <2>2. QED
    BY <2>1, Zenon DEF Idle, Locals, Steps
<1>2. th' \in [Threads -> Locals] /\ th'[t] = Idle /\ \A u \in Threads : u # t => th'[u] = th[u]
  BY <1>1, Zenon DEF LocalsOK
<1>3. LocalsOK'
  <2>1. Tail(todo[t]) \in Seq(Operation)
    BY DEF LocalsOK
  <2>2. /\ todo' \in [Threads -> Seq(Operation)]
        /\ \A u \in Threads : u # t => todo'[u] = todo[u]
    BY <2>1, Zenon DEF LocalsOK
  <2>3. QED
    BY <1>1, <1>2, <2>2, Zenon DEF LocalsOK
<1>4. TypeOK'
  BY Zenon DEF TypeOK, queue
<1>5. ~Queued(th[t]) /\ ~Queued(th'[t]) /\ ~OnTurn(th[t]) /\ ~OnTurn(th'[t]) /\ ~Owns(th'[t])
  BY <1>1, <1>2, Zenon DEF Queued, OnTurn, Owns
<1>6. QED
  BY <1>1, <1>2, <1>3, <1>4, <1>5, QuietStep, Zenon DEF WindowSteps

LEMMA ClaimIInv ==
  ASSUME Counting, IInv, NEW t \in Threads, claim(t)
  PROVE  IInv'
<1> USE DEF IInv, claim
<1> DEFINE s == th[t].side
           k == th[t].key
           p == IF unique'[s] # k THEN "remote" ELSE IF s = "write" THEN "buffer" ELSE "ticket"
<1>1. p \in Steps /\ Go(t, p) /\ s \in Sides /\ k \in Keys /\ ~th[t].turn
  BY Zenon DEF Steps, LocalsOK, Locals
<1>2. /\ th' \in [Threads -> Locals] /\ \A u \in Threads : u # t => th'[u] = th[u]
      /\ th'[t].pc = p /\ th'[t].key = th[t].key /\ th'[t].turn = th[t].turn
  BY <1>1, GoEffect, Zenon
<1>3. UNCHANGED <<ticket, current, handover, window, window_start, todo, winner>>
  BY Zenon
<1>4. /\ unique' \in [Sides -> Keys \cup {None}]
      /\ \A r \in Sides : unique'[r] = unique[r] \/ (r = s /\ unique[r] = None)
  BY <1>1, Zenon DEF TypeOK
<1>5. TypeOK'
  BY <1>3, <1>4, Zenon DEF TypeOK
<1>6. th[t].pc = "claim" /\ th'[t].pc \in {"remote", "buffer", "ticket"} /\ ~th'[t].turn
  BY <1>1, <1>2, Zenon
<1> HIDE DEF claim, s, k, p
<1>7. LocalsOK'
  BY <1>2, <1>3, <1>6, LocalsStay, Zenon
<1>8. ~Queued(th[t]) /\ ~Queued(th'[t]) /\ ~OnTurn(th'[t]) /\ ~Owns(th'[t])
  BY <1>6, <1>1, Zenon DEF Queued, OnTurn, Owns
<1>m. \A u \in Threads : /\ Queued(th'[u]) <=> Queued(th[u])
                         /\ OnTurn(th'[u]) => OnTurn(th[u])
                         /\ Queued(th[u]) => th'[u] = th[u]
  BY <1>2, <1>8, Zenon
<1>9. QueueInv'
  BY <1>3, <1>m, QueueStays, Zenon
<1>10. KeyInv'
  <2>1. \A u \in Threads : Owns(th'[u]) => Owns(th[u]) /\ u # t /\ th[u].key \in Keys /\ th[u].side \in Sides
    BY <1>2, <1>8, Zenon DEF LocalsOK, Locals, Owns
  <2>2. None \notin Keys
    BY LocalLockTableAssumption, Zenon
  <2>3. QED
    BY <1>2, <1>3, <1>4, <1>6, <2>1, <2>2 DEF KeyInv
<1>11. SeenInv'
  BY <1>2, <1>3, <1>6, Zenon DEF SeenInv
<1>12. WindowInv'
  <2>1. window["write"] \in Nat
    BY DEF TypeOK
  <2>2. QED
    BY <1>2, <1>3, <1>6, <1>m, <2>1, WindowStays, Zenon DEF WindowSteps
<1>13. QED
  BY <1>5, <1>7, <1>9, <1>10, <1>11, <1>12, Zenon

LEMMA WaitIInv ==
  ASSUME Counting, IInv, NEW t \in Threads, wait(t)
  PROVE  IInv'
<1> USE DEF IInv, wait
<1> DEFINE s == th[t].side
           p == IF unique[s] = th[t].key THEN "granted" ELSE "conflict"
<1>1. p \in Steps /\ Go(t, p) /\ s \in Sides /\ ~th[t].turn
  BY Zenon DEF Steps, LocalsOK, Locals
<1>2. /\ th' \in [Threads -> Locals] /\ \A u \in Threads : u # t => th'[u] = th[u]
      /\ th'[t].pc = p /\ th'[t].key = th[t].key /\ th'[t].turn = th[t].turn
      /\ th'[t].side = s /\ th'[t].my = th[t].my
  BY <1>1, GoEffect, Zenon
<1>3. UNCHANGED <<ticket, current, handover, unique, window, window_start, todo, winner>>
  BY Zenon DEF queue
<1>4. TypeOK'
  BY Zenon DEF TypeOK, queue
<1>5. /\ th[t].pc = "wait" /\ th[t].my = current[s] /\ ~th'[t].turn
      /\ th'[t].pc \in {"granted", "conflict"}
      /\ th'[t].pc = "granted" => unique[s] = th[t].key
  BY <1>1, <1>2, Zenon
<1> HIDE DEF wait, p
<1>6. LocalsOK'
  BY <1>2, <1>3, <1>5, LocalsStay, Zenon
<1>7. Queued(th[t]) /\ Queued(th'[t]) /\ ~OnTurn(th[t]) /\ (Owns(th'[t]) => unique[s] = th[t].key)
  BY <1>5, <1>1, Zenon DEF Queued, OnTurn, Owns
<1>m. \A u \in Threads :
        /\ Queued(th'[u]) <=> Queued(th[u])
        /\ OnTurn(th'[u]) => OnTurn(th[u]) \/ th[u].my = current[th[u].side]
        /\ Owns(th'[u]) => Owns(th[u]) \/ unique[th'[u].side] = th'[u].key
        /\ th'[u].side = th[u].side /\ th'[u].my = th[u].my /\ th'[u].key = th[u].key
  BY <1>2, <1>5, <1>7, Zenon
<1>8. QueueInv'
  BY <1>3, <1>m, QueueStays, Zenon
<1>9. KeyInv'
  BY <1>2, <1>3, <1>5, <1>m, KeyStays, Zenon
<1>10. SeenInv'
  BY <1>2, <1>3, <1>5, Zenon DEF SeenInv
<1>11. WindowInv'
  <2>1. window["write"] \in Nat
    BY DEF TypeOK
  <2>2. QED
    BY <1>2, <1>3, <1>5, <1>m, <2>1, WindowStays, Zenon DEF WindowSteps
<1>12. QED
  BY <1>4, <1>6, <1>8, <1>9, <1>10, <1>11, Zenon

-----------------------------------------------------------------------------
HIDE DEF Tickets

(* The steps of a release, and of a conflict, between getting the turn and    *)
(* passing it.                                                                *)
Opens == {"open", "own", "count", "other"}
Counts == {"conflict", "leave", "close", "clear"}

(* What such a step leaves alone. *)
LEMMA TurnStep ==
  ASSUME IInv, UNCHANGED <<queue, todo, winner>>, NEW t \in Threads,
         th' \in [Threads -> Locals], \A u \in Threads : u # t => th'[u] = th[u],
         th'[t].side = th[t].side, th'[t].key = th[t].key, th'[t].my = th[t].my,
         th'[t].seen = th[t].seen, th'[t].turn = th[t].turn,
         \/ th[t].pc \in Opens /\ th'[t].pc \in Opens \cup {"next"}
         \/ th[t].pc \in Counts /\ th'[t].pc \in {"close", "clear", "pass"}
  PROVE  LocalsOK' /\ QueueInv' /\ KeyInv' /\ SeenInv'
<1> USE DEF IInv, Opens, Counts
<1>1. LocalsOK'
  <2>1. th[t].turn \in BOOLEAN /\ (th[t].pc \in Opens => th[t].turn)
    BY Zenon DEF LocalsOK, Locals
  <2>2. QED
    BY <2>1, LocalsStay, Zenon
<1>2. /\ OnTurn(th[t]) /\ OnTurn(th'[t]) /\ Queued(th[t]) /\ Queued(th'[t])
      /\ Owns(th'[t]) => Owns(th[t])
  BY Zenon DEF OnTurn, Queued, Owns
<1>3. \A u \in Threads : /\ Queued(th'[u]) <=> Queued(th[u])
                         /\ OnTurn(th'[u]) <=> OnTurn(th[u])
                         /\ Owns(th'[u]) => Owns(th[u])
                         /\ th'[u].side = th[u].side /\ th'[u].my = th[u].my
                         /\ th'[u].key = th[u].key /\ th'[u].seen = th[u].seen
  BY <1>2, Zenon
<1>4. UNCHANGED <<ticket, current, handover, unique>>
  BY Zenon DEF queue
<1>5. QueueInv'
  BY <1>3, <1>4, QueueStays, Zenon
<1>6. KeyInv'
  BY <1>3, <1>4, KeyStays, Zenon
<1>7. SeenInv'
  BY <1>3, <1>4, Zenon DEF SeenInv
<1>8. QED
  BY <1>1, <1>5, <1>6, <1>7, Zenon

(* Nobody else of the queue of a thread on its turn is at a step of a turn. *)
LEMMA AloneOnTurn ==
  ASSUME IInv, NEW t \in Threads, th[t].pc \in Opens \cup Counts
  PROVE  /\ th[t].side \in Sides
         /\ \A u \in Threads : u # t /\ th[u].side = th[t].side =>
              th[u].pc \notin Opens \cup Counts \cup {"next", "pass"}
<1>1. th[t].side \in Sides /\ OnTurn(th[t])
  BY Zenon DEF IInv, LocalsOK, Locals, OnTurn, Opens, Counts
<1>2. \A u \in Threads : th[u].pc \in Opens \cup Counts \cup {"next", "pass"} => OnTurn(th[u])
  BY Zenon DEF OnTurn, Opens, Counts
<1>3. QED
  BY <1>1, <1>2, OneTurn, Zenon DEF IInv

(* Leaving a window, on the way out of the queue. *)
LEMMA CountDown ==
  ASSUME Counting, IInv, UNCHANGED window_start, NEW t \in Threads, th[t].pc \in {"conflict", "leave"},
         th' \in [Threads -> Locals], \A u \in Threads : u # t => th'[u] = th[u],
         th'[t].side = th[t].side,
         window' \in [Sides -> Tickets], window'[Other(th[t].side)] = window[Other(th[t].side)],
         \/ window'[th[t].side] = 0 /\ window[th[t].side] = 0 /\ th'[t].pc = "pass"
         \/ /\ window[th[t].side] # 0 /\ window'[th[t].side] = window[th[t].side] - 1
            /\ th'[t].pc = "close"
  PROVE  WindowInv'
<1> DEFINE s == th[t].side
<1> USE DEF IInv, WindowInv, Opens, Counts
<1>1. /\ s \in Sides /\ Other("read") = "write" /\ Other("write") = "read"
      /\ \A u \in Threads : u # t /\ th[u].side = s => th[u].pc \notin Opens \cup Counts \cup {"next", "pass"}
  BY AloneOnTurn, Zenon DEF Other
<1>2. StartInv'
  <2>1. CASE window[s] # 0
    BY <2>1, Zenon DEF StartInv
  <2>2. CASE window[s] = 0
    <3>1. \A r \in Sides : window'[r] = window[r]
      BY <1>1, <2>2, Zenon
    <3>2. QED
      BY <3>1, Zenon DEF StartInv, Opening
  <2>3. QED
    BY <2>1, <2>2, Zenon
<1>3. CountInv'
  <2> SUFFICES ASSUME NEW v \in Threads, th'[v].side = "read", th'[v].pc = "count", window_start,
                      window'["read"] = 0
               PROVE  /\ window'["write"] <= Cardinality(Uncounted(th'))
                      /\ \/ window'["write"] # 0
                         \/ \E u \in Threads : th'[u].side = "write" /\ th'[u].pc \in {"close", "clear"}
    BY Zenon DEF CountInv
  <2>1. v # t /\ th[v] = th'[v] /\ s = "write" /\ window["read"] = 0
    BY <1>1, Zenon
  <2>2. \A u \in Threads : ~Opening(th[u]) /\ ~(th[u].side = "write" /\ th[u].pc \in {"close", "clear"})
    BY <1>1, <2>1, Zenon DEF Opening
  <2>3. window["write"] <= Cardinality(Uncounted(th)) /\ window["write"] # 0
    BY <2>1, <2>2, Zenon DEF CountInv
  <2>4. Uncounted(th') = Uncounted(th) \ {t} /\ t \in Uncounted(th)
    BY <2>1, <2>3 DEF Uncounted, Queue, Queued, OnTurn
  <2>5. Cardinality(Uncounted(th)) \in Nat /\ Cardinality(Uncounted(th')) = Cardinality(Uncounted(th)) - 1
    BY <2>4, UncountedIsCounted DEF Counting
  <2>6. window["write"] \in Nat
    BY DEF TypeOK
  <2>7. QED
    BY <2>1, <2>3, <2>5, <2>6
<1>4. OtherInv'
  BY <1>1 DEF OtherInv
<1>5. QED
  BY <1>2, <1>3, <1>4, Zenon

LEMMA LeaveIInv ==
  ASSUME Counting, IInv, NEW t \in Threads, leave(t) \/ conflict(t)
  PROVE  IInv'
<1> USE DEF IInv
<1> DEFINE s == th[t].side
           p == IF window[s] = 0 THEN "pass" ELSE "close"
           w == IF window[s] = 0 THEN 0 ELSE window[s] - 1
<1>1. /\ th[t].pc \in {"leave", "conflict"} /\ Go(t, p) /\ window' = [window EXCEPT ![s] = w]
      /\ UNCHANGED <<queue, window_start, ret_value, wc_buffer, mem, todo, winner>>
  BY Zenon DEF leave, conflict
<1>2. mutex' \in [Sides -> Threads \cup {None}]
  BY DEF leave, conflict, TypeOK
<1>3. p \in Steps /\ s \in Sides /\ Other(s) \in Sides /\ Other(s) # s
  BY Zenon DEF Steps, LocalsOK, Locals, Other
<1>4. /\ th' \in [Threads -> Locals] /\ \A u \in Threads : u # t => th'[u] = th[u]
      /\ th'[t].pc = p /\ th'[t].key = th[t].key /\ th'[t].turn = th[t].turn
      /\ th'[t].side = s /\ th'[t].my = th[t].my /\ th'[t].seen = th[t].seen
  BY <1>1, <1>3, GoEffect, Zenon
<1>5. window' \in [Sides -> Tickets] /\ window'[Other(s)] = window[Other(s)] /\ window'[s] = w
  <2>1. Wrap \in Nat /\ window \in [Sides -> Tickets]
    BY TicketArithmetic, Zenon DEF TypeOK, Tickets
  <2>2. w \in Tickets
    BY <1>3, <2>1 DEF Tickets
  <2> HIDE DEF w
  <2>3. QED
    BY <1>1, <1>3, <2>1, <2>2, Zenon
<1>6. TypeOK'
  BY <1>1, <1>2, <1>5, Zenon DEF TypeOK, queue, Tickets
<1>7. LocalsOK' /\ QueueInv' /\ KeyInv' /\ SeenInv'
  BY <1>1, <1>4, TurnStep, Zenon DEF Counts
<1>8. WindowInv'
  BY <1>1, <1>4, <1>5, CountDown, Zenon
<1>9. QED
  BY <1>6, <1>7, <1>8, Zenon

LEMMA OpenIInv ==
  ASSUME Counting, IInv, NEW t \in Threads, open(t)
  PROVE  IInv'
<1> USE DEF IInv, open
<1> DEFINE s == th[t].side
           p == IF window_start THEN "next" ELSE IF s = "read" THEN "own" ELSE "count"
<1>1. p \in Steps /\ s \in Sides /\ th[t].pc = "open" /\ window["write"] \in Nat
  BY DEF Steps, LocalsOK, Locals, TypeOK
<1>2. /\ th' \in [Threads -> Locals] /\ \A u \in Threads : u # t => th'[u] = th[u]
      /\ th'[t].pc = p /\ th'[t].key = th[t].key /\ th'[t].turn = th[t].turn
      /\ th'[t].side = s /\ th'[t].my = th[t].my /\ th'[t].seen = th[t].seen
  BY <1>1, GoEffect, Zenon
<1>3. TypeOK'
  BY Zenon DEF TypeOK, queue
<1>4. LocalsOK' /\ QueueInv' /\ KeyInv' /\ SeenInv'
  BY <1>1, <1>2, TurnStep, Zenon DEF Opens
<1>5. WindowInv'
  <2>1. CASE window_start
    <3>1. UNCHANGED <<window, window_start>> /\ th'[t].pc = "next"
      BY <1>2, <2>1, Zenon
    <3>2. Queued(th'[t])
      BY <3>1, Zenon DEF Queued, OnTurn
    <3>3. QED
      BY <1>1, <1>2, <3>1, <3>2, WindowStays, Zenon DEF WindowSteps
  <2>2. CASE ~window_start
    <3>1. /\ UNCHANGED window
          /\ th'[t].pc = IF s = "read" THEN "own" ELSE "count"
      BY <1>2, <2>2, Zenon
    <3>2. StartInv'
      BY <1>1, <1>2, <3>1, Zenon DEF StartInv, Opening
    <3>3. \A v \in Threads : th'[v].side = "read" /\ th'[v].pc \in {"count", "other"} =>
            th'[v] = th[v] /\ s = "write" /\ th'[t].pc = "count"
      BY <1>1, <1>2, <3>1, AloneOnTurn DEF Opens, Counts
    <3>4. CountInv' /\ OtherInv'
      BY <1>1, <1>2, <3>1, <3>3 DEF CountInv, OtherInv, WindowInv, Opening
    <3>5. QED
      BY <3>2, <3>4, Zenon DEF WindowInv
  <2>3. QED
    BY <2>1, <2>2, Zenon
<1>6. QED
  BY <1>3, <1>4, <1>5, Zenon

LEMMA OwnIInv ==
  ASSUME Counting, IInv, NEW t \in Threads, own(t)
  PROVE  IInv'
<1> USE DEF IInv, own
<1> DEFINE s == th[t].side
           n == Length(th[t].my, th[t].seen)
           p == IF s = "read" THEN "count" ELSE "next"
<1>1. /\ p \in Steps /\ s \in Sides /\ th[t].pc = "own" /\ th[t].my \in Tickets /\ th[t].seen \in Tickets
      /\ window \in [Sides -> Tickets]
  BY Zenon DEF Steps, LocalsOK, Locals, TypeOK, Tickets
<1>2. n \in Tickets /\ n \in Nat /\ n # 0 /\ n <= Length(current[s], ticket[s])
  BY <1>1, QueueArithmetic DEF SeenInv
<1>3. /\ th' \in [Threads -> Locals] /\ \A u \in Threads : u # t => th'[u] = th[u]
      /\ th'[t].pc = p /\ th'[t].key = th[t].key /\ th'[t].turn = th[t].turn
      /\ th'[t].side = s /\ th'[t].my = th[t].my /\ th'[t].seen = th[t].seen
  BY <1>1, GoEffect, Zenon
<1>4. UNCHANGED window_start /\ window' = [window EXCEPT ![s] = n]
  BY Zenon
<1> HIDE DEF n
<1>5. TypeOK'
  BY <1>1, <1>2, <1>4 DEF TypeOK, queue, Tickets
<1>6. LocalsOK' /\ QueueInv' /\ KeyInv' /\ SeenInv'
  BY <1>1, <1>3, TurnStep, Zenon DEF Opens
<1> HIDE DEF own
<1>7. StartInv'
  BY <1>1, <1>2, <1>4, Zenon DEF StartInv
<1>8. \A v \in Threads : v # t /\ th[v].side = s => th[v].pc \notin Opens \cup Counts \cup {"next", "pass"}
  BY <1>1, AloneOnTurn, Zenon DEF Opens
<1>9. CountInv'
  <2> SUFFICES ASSUME NEW v \in Threads, th'[v].side = "read", th'[v].pc = "count", window'["read"] = 0
               PROVE  window'["write"] <= Cardinality(Uncounted(th')) /\ window'["write"] # 0
    BY Zenon DEF CountInv
  <2>1. s = "write" /\ window'["write"] = n
    BY <1>1, <1>2, <1>3, <1>4, <1>8, Zenon DEF Opens
  <2>2. Uncounted(th') = Queue(th, "write")
    <3>1. Queued(th[t]) /\ Queued(th'[t]) /\ th'[t].pc = "next"
      BY <1>1, <1>3, <2>1, Zenon DEF Queued, OnTurn
    <3>2. \A u \in Threads : u # t /\ th[u].side = "write" => th[u].pc \notin {"close", "clear", "pass"}
      BY <1>8, <2>1, Zenon DEF Counts
    <3>3. QED
      BY <1>3, <2>1, <3>1, <3>2, Zenon DEF Uncounted, Queue
  <2>3. QED
    BY <1>1, <1>2, <2>1, <2>2, Zenon DEF QueueInv
<1>10. OtherInv'
  <2>1. \A v \in Threads : th'[v].pc = "other" => v # t /\ th'[v] = th[v]
    BY <1>3, Zenon
  <2>2. \A v \in Threads : th'[v].pc = "other" /\ th'[v].side = "read" =>
          /\ s = "write" /\ window'["read"] = window["read"]
          /\ \A u \in Threads : th[u].side = "write" => th[u].pc \notin {"count", "other"}
    BY <1>1, <1>4, <1>8, <2>1, Zenon DEF Opens
  <2>3. QED
    BY <1>4, <2>1, <2>2, Zenon DEF OtherInv, WindowInv
<1>11. QED
  BY <1>5, <1>6, <1>7, <1>9, <1>10, Zenon DEF WindowInv

LEMMA CountIInv ==
  ASSUME Counting, IInv, NEW t \in Threads, count(t)
  PROVE  IInv'
<1> USE DEF IInv, count
<1> DEFINE s == th[t].side
           o == Other(s)
           n == Length(current[o], ticket[o])
           r == [th[t] EXCEPT !.pc = "other", !.len = n]
<1>1. /\ s \in Sides /\ o \in Sides /\ th[t].pc = "count" /\ th[t] \in Locals
      /\ current[o] \in Tickets /\ ticket[o] \in Tickets
  BY Zenon DEF LocalsOK, Locals, TypeOK, Tickets, Other
<1>2. n \in Tickets /\ n \in Nat
  BY <1>1, QueueArithmetic, Zenon
<1>3. th' = [th EXCEPT ![t] = r]
  BY Zenon DEF LocalsOK
<1>4. UNCHANGED <<queue, window, window_start, todo, winner>>
  BY Zenon
<1>5. TypeOK'
  BY <1>1, Zenon DEF TypeOK, queue
<1> HIDE DEF n, count
<1>6. /\ r \in Locals /\ r.pc = "other" /\ r.key = th[t].key /\ r.turn = th[t].turn
      /\ r.side = s /\ r.my = th[t].my /\ r.seen = th[t].seen /\ r.len = n
  BY <1>1, <1>2, Zenon DEF Locals, Steps
<1> HIDE DEF r
<1>7. /\ th' \in [Threads -> Locals] /\ \A u \in Threads : u # t => th'[u] = th[u]
      /\ th'[t].pc = "other" /\ th'[t].key = th[t].key /\ th'[t].turn = th[t].turn
      /\ th'[t].side = s /\ th'[t].my = th[t].my /\ th'[t].seen = th[t].seen /\ th'[t].len = n
  BY <1>3, <1>6, Zenon DEF LocalsOK
<1>8. LocalsOK' /\ QueueInv' /\ KeyInv' /\ SeenInv'
  BY <1>1, <1>4, <1>7, TurnStep, Zenon DEF Opens
<1>9. \A v \in Threads : v # t /\ th[v].side = s => th[v].pc \notin Opens \cup Counts \cup {"next", "pass"}
  BY <1>1, AloneOnTurn, Zenon DEF Opens
<1>10. StartInv'
  BY <1>1, <1>4, <1>7, Zenon DEF StartInv, WindowInv, Opening
<1>11. CASE s = "write"
  <2>1. CountInv'
    BY <1>7, <1>11, Zenon DEF CountInv, Opening
  <2>2. \A v \in Threads : th[v].side = "read" /\ th[v].pc = "other" => n # 0
    <3> SUFFICES ASSUME NEW v \in Threads, th[v].side = "read", th[v].pc = "other"
                 PROVE  n # 0
      BY Zenon
    <3>1. Queued(th[v]) /\ th[v].my \in Tickets /\ o = "read"
      BY <1>11, Zenon DEF Queued, OnTurn, LocalsOK, Locals, Other
    <3>2. Length(current[o], th[v].my) \in Nat /\ Length(current[o], th[v].my) < n
      BY <1>1, <3>1, QueueArithmetic DEF QueueInv, n
    <3>3. QED
      BY <1>2, <3>2
  <2>3. OtherInv'
    BY <1>7, <1>9, <1>11, <2>2, Zenon DEF OtherInv, Opens
  <2>4. QED
    BY <1>5, <1>8, <1>10, <2>1, <2>3, Zenon DEF WindowInv
<1>12. CASE s = "read"
  <2>1. \A v \in Threads : th'[v].side = "read" => th'[v].pc # "count" /\ (th'[v].pc = "other" => v = t)
    BY <1>7, <1>9, <1>12, Zenon DEF Opens
  <2>2. CountInv'
    BY <2>1, Zenon DEF CountInv
  <2>3. CASE n # 0
    BY <1>5, <1>7, <1>8, <1>10, <2>1, <2>2, <2>3, Zenon DEF WindowInv, OtherInv
  <2>4. CASE n = 0
    <3>1. Queue(th, "write") = {}
      <4>1. Cardinality(Queue(th, "write")) = 0
        BY <1>12, <2>4, Zenon DEF QueueInv, n, Other
      <4>2. QED
        BY <4>1, QueueIsCounted, Zenon DEF Counting
    <3>2. \A u \in Threads : th[u].side = "write" => th[u].pc \notin Opens \cup Counts
      BY <3>1, Zenon DEF Queue, Queued, OnTurn, Opens, Counts
    <3>3. Cardinality(Uncounted(th)) = 0
      BY <3>1, Zenon DEF Uncounted, Counting
    <3>4. ~(window_start /\ window["read"] = 0)
      <4>1. window["write"] \in Nat
        BY DEF TypeOK
      <4>2. QED
        BY <1>1, <1>12, <3>2, <3>3, <4>1 DEF WindowInv, CountInv, Opening, Opens, Counts
    <3>5. OtherInv'
      BY <1>4, <1>7, <1>12, <2>1, <3>2, <3>4, Zenon DEF OtherInv, Opens
    <3>6. QED
      BY <1>5, <1>8, <1>10, <2>2, <3>5, Zenon DEF WindowInv
  <2>5. QED
    BY <2>3, <2>4, Zenon
<1>13. QED
  BY <1>1, <1>11, <1>12, Zenon

-----------------------------------------------------------------------------
HIDE DEF Tickets

LEMMA OtherIInv ==
  ASSUME Counting, IInv, NEW t \in Threads, other(t)
  PROVE  IInv'
<1> USE DEF IInv, other
<1> DEFINE s == th[t].side
           o == Other(s)
           n == th[t].len
           p == IF s = "read" THEN "next" ELSE "own"
<1>1. /\ p \in Steps /\ s \in Sides /\ o \in Sides /\ th[t].pc = "other" /\ n \in Tickets
      /\ window \in [Sides -> Tickets]
  BY Zenon DEF Steps, LocalsOK, Locals, TypeOK, Tickets, Other
<1>2. /\ th' \in [Threads -> Locals] /\ \A u \in Threads : u # t => th'[u] = th[u]
      /\ th'[t].pc = p /\ th'[t].key = th[t].key /\ th'[t].turn = th[t].turn
      /\ th'[t].side = s /\ th'[t].my = th[t].my /\ th'[t].seen = th[t].seen
  BY <1>1, GoEffect, Zenon
<1>3. UNCHANGED window_start /\ window' = [window EXCEPT ![o] = n]
  BY Zenon
<1>4. TypeOK'
  BY <1>1, Zenon DEF TypeOK, queue, Tickets
<1>5. LocalsOK' /\ QueueInv' /\ KeyInv' /\ SeenInv'
  BY <1>1, <1>2, TurnStep, Zenon DEF Opens
<1> HIDE DEF n, other
<1>6. \A v \in Threads : v # t /\ th[v].side = s => th[v].pc \notin Opens \cup Counts \cup {"next", "pass"}
  BY <1>1, AloneOnTurn, Zenon DEF Opens
<1>7. CASE s = "write"
  <2>1. th'[t].pc = "own" /\ window'["read"] = n
    BY <1>1, <1>2, <1>3, <1>7, Zenon DEF Other
  <2>2. StartInv' /\ CountInv'
    BY <1>2, <1>7, <2>1, Zenon DEF StartInv, CountInv, Opening
  <2>3. \A v \in Threads : th'[v].side = "read" /\ th'[v].pc = "other" /\ th'[v].len = 0 => n # 0
    BY <1>1, <1>2, <1>7, Zenon DEF WindowInv, OtherInv, n
  <2>4. \A u \in Threads : th'[u].side = "write" => th'[u].pc # "other"
    BY <1>2, <1>6, <1>7, <2>1, Zenon DEF Opens
  <2>5. OtherInv'
    BY <2>1, <2>3, <2>4, Zenon DEF OtherInv
  <2>6. QED
    BY <1>4, <1>5, <2>2, <2>5, Zenon DEF WindowInv
<1>8. CASE s = "read"
  <2>1. th'[t].pc = "next" /\ window'["write"] = n /\ window'["read"] = window["read"]
    BY <1>1, <1>2, <1>3, <1>8, Zenon DEF Other
  <2>2. \A v \in Threads : th'[v].side = "read" => th'[v].pc \notin {"count", "other"}
    BY <1>2, <1>6, <1>8, <2>1, Zenon DEF Opens
  <2>3. CountInv' /\ OtherInv'
    BY <2>2, Zenon DEF CountInv, OtherInv
  <2>4. window_start /\ n = 0 /\ window["read"] = 0 =>
          \E u \in Threads : th[u].side = "write" /\ th[u].pc \in {"count", "other"}
    BY <1>1, <1>8, Zenon DEF WindowInv, OtherInv, n
  <2>5. StartInv'
    BY <1>2, <1>3, <1>8, <2>1, <2>4, Zenon DEF StartInv, Opening
  <2>6. QED
    BY <1>4, <1>5, <2>3, <2>5, Zenon DEF WindowInv
<1>9. QED
  BY <1>1, <1>7, <1>8, Zenon

LEMMA CloseIInv ==
  ASSUME Counting, IInv, NEW t \in Threads, close(t)
  PROVE  IInv'
<1> USE DEF IInv, close
<1> DEFINE s == th[t].side
           p == IF \A r \in Sides : window[r] = 0 THEN "clear" ELSE "pass"
<1>1. p \in Steps /\ s \in Sides /\ th[t].pc = "close" /\ Go(t, p)
  BY Zenon DEF Steps, LocalsOK, Locals
<1>2. /\ th' \in [Threads -> Locals] /\ \A u \in Threads : u # t => th'[u] = th[u]
      /\ th'[t].pc = p /\ th'[t].key = th[t].key /\ th'[t].turn = th[t].turn
      /\ th'[t].side = s /\ th'[t].my = th[t].my /\ th'[t].seen = th[t].seen
  BY <1>1, GoEffect, Zenon
<1>3. UNCHANGED <<window, window_start>>
  BY Zenon
<1>4. TypeOK'
  BY Zenon DEF TypeOK, queue
<1>5. LocalsOK' /\ QueueInv' /\ KeyInv' /\ SeenInv'
  BY <1>1, <1>2, TurnStep, Zenon DEF Counts
<1>6. \/ th'[t].pc = "clear" /\ \A r \in Sides : window[r] = 0
      \/ th'[t].pc = "pass" /\ \E r \in Sides : window[r] # 0
  BY <1>2, Zenon
<1> HIDE DEF close, p
<1>7. \A v \in Threads : v # t /\ th[v].side = s => th[v].pc \notin Opens \cup Counts \cup {"next", "pass"}
  BY <1>1, AloneOnTurn, Zenon DEF Counts
<1>8. StartInv'
  BY <1>3, <1>6, Zenon DEF StartInv
<1>9. CountInv'
  <2> SUFFICES ASSUME NEW v \in Threads, th'[v].side = "read", th'[v].pc = "count", window_start,
                      window["read"] = 0
               PROVE  /\ window["write"] <= Cardinality(Uncounted(th'))
                      /\ \/ window["write"] # 0
                         \/ \E u \in Threads : th'[u].side = "write" /\ th'[u].pc \in {"close", "clear"}
    BY <1>3, Zenon DEF CountInv
  <2>1. th[v] = th'[v] /\ s = "write"
    BY <1>1, <1>2, <1>6, <1>7, Zenon DEF Opens
  <2>2. \A u \in Threads : ~Opening(th[u])
    BY <1>1, <1>7, <2>1, Zenon DEF Opening, Opens
  <2>3. window["write"] <= Cardinality(Uncounted(th))
    BY <2>1, <2>2, Zenon DEF WindowInv, CountInv
  <2>4. Uncounted(th') = Uncounted(th)
    BY <1>1, <1>2, <1>6 DEF Uncounted, Queue
  <2>5. QED
    BY <1>2, <1>6, <2>1, <2>3, <2>4, Zenon
<1>10. OtherInv'
  <2>1. \A v \in Threads : th'[v].side = "read" /\ th'[v].pc = "other" => th'[v] = th[v] /\ s = "write"
    BY <1>1, <1>2, <1>6, <1>7, Zenon DEF Opens
  <2>2. s = "write" => \A u \in Threads : th[u].side = "write" => th[u].pc \notin {"count", "other"}
    BY <1>1, <1>7, Zenon DEF Opens
  <2>3. QED
    BY <1>2, <1>3, <1>6, <2>1, <2>2, Zenon DEF WindowInv, OtherInv
<1>11. QED
  BY <1>4, <1>5, <1>8, <1>9, <1>10, Zenon DEF WindowInv

LEMMA ClearIInv ==
  ASSUME Counting, IInv, NEW t \in Threads, clear(t)
  PROVE  IInv'
<1> USE DEF IInv, clear
<1>1. "pass" \in Steps /\ th[t].pc = "clear"
  BY Zenon DEF Steps
<1>2. /\ th' \in [Threads -> Locals] /\ \A u \in Threads : u # t => th'[u] = th[u]
      /\ th'[t].pc = "pass" /\ th'[t].key = th[t].key /\ th'[t].turn = th[t].turn
      /\ th'[t].side = th[t].side /\ th'[t].my = th[t].my /\ th'[t].seen = th[t].seen
  BY <1>1, GoEffect, Zenon
<1>3. TypeOK'
  BY Zenon DEF TypeOK, queue
<1>4. LocalsOK' /\ QueueInv' /\ KeyInv' /\ SeenInv'
  BY <1>1, <1>2, TurnStep, Zenon DEF Counts
<1>5. WindowInv'
  BY <1>2 DEF WindowInv, StartInv, CountInv, OtherInv
<1>6. QED
  BY <1>3, <1>4, <1>5, Zenon

LEMMA TakeTicketIInv ==
  ASSUME Counting, IInv, NEW t \in Threads, take_ticket(t)
  PROVE  IInv'
<1> USE DEF IInv, take_ticket
<1> DEFINE s == th[t].side
           c == current[s]
           k == ticket[s]
<1>1. /\ s \in Sides /\ c \in Tickets /\ k \in Tickets /\ th[t] \in Locals
      /\ ~th[t].turn /\ th[t].pc = "ticket"
  BY Zenon DEF LocalsOK, Locals, TypeOK, Tickets
<1>2. /\ th' \in [Threads -> Locals] /\ \A u \in Threads : u # t => th'[u] = th[u]
      /\ th'[t].pc = "wait" /\ th'[t].key = th[t].key /\ th'[t].turn = th[t].turn
      /\ th'[t].side = s /\ th'[t].my = k
  <2> DEFINE r == [th[t] EXCEPT !.my = k, !.pc = "wait"]
  <2>1. th' = [th EXCEPT ![t] = r]
    BY Zenon DEF LocalsOK
  <2> HIDE DEF k
  <2>2. r \in Locals /\ r.pc = "wait" /\ r.key = th[t].key /\ r.turn = th[t].turn /\ r.side = s /\ r.my = k
    BY <1>1, Zenon DEF Locals, Steps
  <2> HIDE DEF r, take_ticket
  <2>3. QED
    BY <2>1, <2>2, Zenon DEF LocalsOK
<1>3. UNCHANGED <<current, handover, unique, window, window_start, todo, winner>>
  BY Zenon
<1>4. /\ ticket' \in [Sides -> Tickets] /\ ticket'[s] = (k + 1) % Wrap
      /\ \A r \in Sides : r # s => ticket'[r] = ticket[r]
  BY <1>1, QueueArithmetic, Zenon DEF TypeOK, Tickets
<1>5. TypeOK'
  BY <1>4, Zenon DEF TypeOK, Tickets
<1> HIDE DEF take_ticket, s, c, k
<1>6. LocalsOK'
  BY <1>1, <1>2, <1>3, LocalsStay, Zenon
<1>7. ~Queued(th[t]) /\ Queued(th'[t]) /\ ~OnTurn(th'[t]) /\ ~Owns(th'[t])
  BY <1>1, <1>2, Zenon DEF Queued, OnTurn, Owns
<1>8. Queue(th', s) = Queue(th, s) \cup {t} /\ t \notin Queue(th, s)
  BY <1>2, <1>7, Zenon DEF Queue
<1>9. /\ Cardinality(Queue(th, s)) = Length(c, k) /\ Cardinality(Queue(th', s)) = Length(c, k) + 1
      /\ Length(c, k) < Wrap - 1
  <2>1. Cardinality(Queue(th, s)) = Length(c, k) /\ Length(c, k) \in Nat
    BY <1>1, QueueArithmetic, Zenon DEF QueueInv, c, k
  <2>2. Cardinality(Queue(th', s)) = Cardinality(Queue(th, s)) + 1
    BY <1>8, QueueIsCounted DEF Counting
  <2>3. Cardinality(Queue(th', s)) <= Cardinality(Threads)
    BY QueueIsCounted, Zenon DEF Counting
  <2>4. Cardinality(Threads) \in Nat /\ Cardinality(Threads) < Wrap /\ Wrap \in Nat
    BY LocalLockTableAssumption, Zenon DEF Counting
  <2>5. QED
    BY <2>1, <2>2, <2>3, <2>4
<1>10. Length(c, ticket'[s]) = Length(c, k) + 1 /\ Length(c, k) \in Nat
  BY <1>1, <1>4, <1>9, QueueArithmetic
<1>11. QueueInv'
  <2>1. \A r \in Sides : Cardinality(Queue(th', r)) = Length(current[r], ticket'[r])
    <3> SUFFICES ASSUME NEW r \in Sides, r # s
                 PROVE  Queue(th', r) = Queue(th, r) /\ ticket'[r] = ticket[r]
      BY <1>9, <1>10, Zenon DEF QueueInv, c
    <3>1. QED
      BY <1>2, <1>4, <1>7, Zenon DEF Queue
  <2>2. \A u \in Threads : Queued(th[u]) => u # t /\ th'[u] = th[u]
    BY <1>2, <1>7, Zenon
  <2>3. \A u \in Threads : Queued(th[u]) /\ th[u].side = s =>
          /\ Length(c, th[u].my) \in Nat /\ Length(c, th[u].my) < Length(c, k)
          /\ th[u].my # k
    <3> SUFFICES ASSUME NEW u \in Threads, Queued(th[u]), th[u].side = s
                 PROVE  Length(c, th[u].my) \in Nat /\ Length(c, th[u].my) < Length(c, k)
      BY <1>10
    <3>1. th[u].my \in Tickets
      BY Zenon DEF LocalsOK, Locals
    <3>2. QED
      BY <1>1, <3>1, QueueArithmetic, Zenon DEF QueueInv, c, k
  <2>4. \A u \in Threads : Queued(th'[u]) =>
          Length(current[th'[u].side], th'[u].my) < Length(current[th'[u].side], ticket'[th'[u].side])
    <3> SUFFICES ASSUME NEW u \in Threads, Queued(th'[u])
                 PROVE  Length(current[th'[u].side], th'[u].my) < Length(current[th'[u].side], ticket'[th'[u].side])
      BY Zenon
    <3>1. CASE u = t
      BY <1>2, <1>10, <3>1 DEF c
    <3>2. CASE u # t /\ th[u].side = s
      BY <1>2, <1>10, <2>3, <3>2 DEF c
    <3>3. CASE u # t /\ th[u].side # s
      BY <1>2, <1>4, <3>3, Zenon DEF QueueInv, LocalsOK, Locals
    <3>4. QED
      BY <3>1, <3>2, <3>3, Zenon
  <2>5. \A u \in Threads : OnTurn(th'[u]) => th'[u].my = current[th'[u].side]
    BY <1>2, <1>7, Zenon DEF QueueInv
  <2>6. \A u, v \in Threads :
          Queued(th'[u]) /\ Queued(th'[v]) /\ th'[u].side = th'[v].side /\ th'[u].my = th'[v].my => u = v
    BY <1>2, <2>3 DEF QueueInv
  <2>7. QED
    BY <1>3, <2>1, <2>4, <2>5, <2>6, Zenon DEF QueueInv
<1>12. KeyInv'
  BY <1>1, <1>2, <1>3, <1>7, KeyStays, Zenon
<1>13. SeenInv'
  <2> SUFFICES ASSUME NEW u \in Threads, th'[u].pc \in {"open", "own", "count", "other"}
               PROVE  /\ th'[u].seen # th'[u].my
                      /\ Length(th'[u].my, th'[u].seen) <= Length(current[th'[u].side], ticket'[th'[u].side])
    BY <1>3, Zenon DEF SeenInv, Length
  <2>1. th'[u] = th[u] /\ u # t /\ th[u] \in Locals
    BY <1>2, Zenon DEF LocalsOK
  <2>2. Length(th[u].my, th[u].seen) \in Nat
    <3>1. th[u].my \in Tickets /\ th[u].seen \in Tickets
      BY <2>1, Zenon DEF Locals
    <3>2. QED
      BY <3>1, QueueArithmetic, Zenon
  <2>3. QED
    BY <1>4, <1>10, <2>1, <2>2 DEF SeenInv, Locals, c, k
<1>14. WindowInv'
  <2>1. window["write"] \in Nat
    BY DEF TypeOK
  <2>2. QED
    BY <1>1, <1>2, <1>3, <1>7, <2>1, WindowStays, Zenon DEF WindowSteps
<1>15. QED
  BY <1>5, <1>6, <1>11, <1>12, <1>13, <1>14, Zenon

LEMMA GrantedIInv ==
  ASSUME Counting, IInv, NEW t \in Threads, granted(t)
  PROVE  IInv'
<1> USE DEF IInv, granted
<1> DEFINE s == th[t].side
           p == IF handover'[s] THEN "release" ELSE "remote"
<1>1. s \in Sides /\ th[t] \in Locals /\ th[t].pc = "granted"
  BY Zenon DEF LocalsOK, Locals
<1>2. handover' \in [Sides -> BOOLEAN] /\ \A r \in Sides : handover'[r] => handover[r]
  BY Zenon DEF TypeOK
<1>3. /\ th' \in [Threads -> Locals] /\ \A u \in Threads : u # t => th'[u] = th[u]
      /\ th'[t].pc \in {"release", "remote"} /\ th'[t].key = th[t].key /\ th'[t].turn
      /\ th'[t].side = s /\ th'[t].my = th[t].my
  <2> DEFINE r == [th[t] EXCEPT !.turn = TRUE, !.pc = p]
  <2>1. th' = [th EXCEPT ![t] = r]
    BY Zenon DEF LocalsOK
  <2>2. p \in {"release", "remote"}
    BY Zenon
  <2> HIDE DEF p
  <2>3. /\ r \in Locals /\ r.pc \in {"release", "remote"} /\ r.key = th[t].key /\ r.turn
        /\ r.side = s /\ r.my = th[t].my
    BY <1>1, <2>2, Zenon DEF Locals, Steps
  <2> HIDE DEF r, granted
  <2>4. QED
    BY <2>1, <2>3, Zenon DEF LocalsOK
<1>4. UNCHANGED <<ticket, current, unique, window, window_start, todo, winner>>
  BY Zenon
<1>5. TypeOK'
  BY <1>2, Zenon DEF TypeOK
<1> HIDE DEF granted, s, p
<1>6. LocalsOK'
  BY <1>1, <1>3, <1>4, LocalsStay, Zenon
<1>7. /\ Queued(th[t]) /\ Queued(th'[t]) /\ OnTurn(th[t]) /\ OnTurn(th'[t]) /\ Owns(th[t])
  BY <1>1, <1>3, Zenon DEF Queued, OnTurn, Owns
<1>8. \A u \in Threads : /\ Queued(th'[u]) <=> Queued(th[u])
                         /\ OnTurn(th'[u]) <=> OnTurn(th[u])
                         /\ Owns(th'[u]) => Owns(th[u])
                         /\ th'[u].side = th[u].side /\ th'[u].my = th[u].my /\ th'[u].key = th[u].key
  BY <1>3, <1>7, Zenon DEF s
<1>9. QueueInv'
  BY <1>4, <1>8, QueueStays, Zenon
<1>10. KeyInv'
  BY <1>2, <1>3, <1>4, <1>8 DEF KeyInv
<1>11. SeenInv'
  BY <1>3, <1>4, Zenon DEF SeenInv
<1>12. WindowInv'
  <2>1. window["write"] \in Nat
    BY DEF TypeOK
  <2>2. QED
    BY <1>1, <1>3, <1>4, <1>8, <2>1, WindowStays, Zenon DEF WindowSteps
<1>13. QED
  BY <1>5, <1>6, <1>9, <1>10, <1>11, <1>12, Zenon

LEMMA ReleaseIInv ==
  ASSUME Counting, IInv, NEW t \in Threads, release(t)
  PROVE  IInv'
<1> USE DEF IInv, release
<1> DEFINE s == th[t].side
           k == ticket[s]
           p == IF ~handover[s] THEN "open" ELSE "next"
           v == IF s = "read" THEN ret_value' ELSE th[t].val
<1>1. /\ s \in Sides /\ k \in Tickets /\ th[t] \in Locals /\ th[t].pc = "release" /\ th[t].turn
      /\ th[t].key \in Keys /\ {ret_value', v} \subseteq Values \cup {None}
  BY DEF LocalsOK, Locals, TypeOK, Tickets
<1>2. /\ th' \in [Threads -> Locals] /\ \A u \in Threads : u # t => th'[u] = th[u]
      /\ th'[t].pc = p /\ th'[t].key = th[t].key /\ th'[t].turn = th[t].turn
      /\ th'[t].side = s /\ th'[t].my = th[t].my /\ th'[t].seen = k
  <2> DEFINE r == [th[t] EXCEPT !.val = v, !.seen = k, !.pc = p]
  <2>1. th' = [th EXCEPT ![t] = r]
    BY Zenon DEF LocalsOK
  <2>2. p \in Steps
    BY Zenon DEF Steps
  <2> HIDE DEF p, k, v
  <2>3. /\ r \in Locals /\ r.pc = p /\ r.key = th[t].key /\ r.turn = th[t].turn
        /\ r.side = s /\ r.my = th[t].my /\ r.seen = k
    BY <1>1, <2>2, Zenon DEF Locals
  <2> HIDE DEF r, release
  <2>4. QED
    BY <2>1, <2>3, Zenon DEF LocalsOK
<1>3. UNCHANGED <<ticket, current, handover, unique, window, window_start, todo>>
  BY Zenon DEF queue
<1>4. TypeOK'
  BY <1>1, Zenon DEF TypeOK, queue
<1>5. /\ winner' \in [Sides -> Keys \cup {None}]
      /\ \A r \in Sides : winner'[r] = IF r = s /\ ~handover[s] THEN th[t].key ELSE winner[r]
  BY <1>1, Zenon DEF LocalsOK
<1>6. th'[t].pc \in {"open", "next"} /\ (th'[t].pc = "next" => handover[s])
  BY <1>2
<1> HIDE DEF release, s, k, p, v
<1>7. LocalsOK'
  BY <1>1, <1>2, <1>3, <1>5, <1>6, Zenon DEF LocalsOK
<1>8. Queued(th[t]) /\ Queued(th'[t]) /\ OnTurn(th[t]) /\ OnTurn(th'[t]) /\ Owns(th[t])
  BY <1>1, <1>6, Zenon DEF Queued, OnTurn, Owns
<1>9. \A u \in Threads : /\ Queued(th'[u]) <=> Queued(th[u])
                         /\ OnTurn(th'[u]) <=> OnTurn(th[u])
                         /\ Owns(th'[u]) => Owns(th[u])
                         /\ th'[u].side = th[u].side /\ th'[u].my = th[u].my /\ th'[u].key = th[u].key
  BY <1>2, <1>8, Zenon DEF s
<1>10. QueueInv'
  BY <1>3, <1>9, QueueStays, Zenon
<1>11. unique[s] = th[t].key
  BY <1>8, Zenon DEF KeyInv, s
<1>12. KeyInv'
  <2>1. \A r \in Sides : handover[r] => unique[r] \in Keys /\ winner'[r] = unique[r]
    BY <1>5, Zenon DEF KeyInv
  <2>2. \A u \in Threads : u # t /\ th[u].side = s => ~OnTurn(th[u])
    BY <1>8, OneTurn, Zenon DEF s
  <2>3. \A u \in Threads : th[u].pc \in {"open", "own", "count", "other", "next"} => OnTurn(th[u])
    BY Zenon DEF OnTurn
  <2>4. \A u \in Threads : th'[u].pc \in {"open", "own", "count", "other", "next"}
                           => winner'[th'[u].side] = th'[u].key
    BY <1>1, <1>2, <1>5, <1>6, <1>11, <2>1, <2>2, <2>3 DEF KeyInv, LocalsOK, Locals
  <2>5. \A u \in Threads : Owns(th'[u]) => unique[th'[u].side] = th'[u].key
    BY <1>9, Zenon DEF KeyInv
  <2>6. QED
    BY <1>3, <2>1, <2>4, <2>5, Zenon DEF KeyInv
<1>13. SeenInv'
  <2>1. th[t].my = current[s] /\ Length(current[s], th[t].my) < Length(current[s], k)
    BY <1>8, Zenon DEF QueueInv, s, k
  <2>2. th[t].my # k
    BY <1>1, <2>1, QueueArithmetic DEF Locals
  <2>3. Length(current[s], k) \in Nat
    BY <1>1, <2>1, QueueArithmetic, Zenon DEF Locals
  <2>4. QED
    BY <1>2, <1>3, <1>6, <2>1, <2>2, <2>3 DEF SeenInv, k
<1>14. WindowInv'
  <2>1. window["write"] \in Nat
    BY DEF TypeOK
  <2>2. QED
    BY <1>1, <1>2, <1>3, <1>6, <1>9, <2>1, WindowStays, Zenon DEF WindowSteps
<1>15. QED
  BY <1>4, <1>7, <1>10, <1>12, <1>13, <1>14, Zenon

LEMMA NextStepIInv ==
  ASSUME Counting, IInv, NEW t \in Threads, next(t)
  PROVE  IInv'
<1> USE DEF IInv, next
<1> DEFINE s == th[t].side
<1>1. /\ s \in Sides /\ th[t].pc = "next" /\ th[t].turn /\ th[t].key \in Keys
      /\ "leave" \in Steps
  BY Zenon DEF LocalsOK, Locals, Steps
<1>2. /\ th' \in [Threads -> Locals] /\ \A u \in Threads : u # t => th'[u] = th[u]
      /\ th'[t].pc = "leave" /\ th'[t].key = th[t].key /\ th'[t].turn = th[t].turn
      /\ th'[t].side = s /\ th'[t].my = th[t].my
  BY <1>1, GoEffect, Zenon
<1>3. UNCHANGED <<ticket, current, window, window_start, todo, winner>>
  BY Zenon
<1>4. /\ handover' \in [Sides -> BOOLEAN] /\ unique' \in [Sides -> Keys \cup {None}]
      /\ \A r \in Sides : r # s => handover'[r] = handover[r] /\ unique'[r] = unique[r]
      /\ handover'[s] => unique'[s] = unique[s]
  BY <1>1, Zenon DEF TypeOK
<1>5. TypeOK'
  BY <1>4, Zenon DEF TypeOK
<1> HIDE DEF next, s
<1>6. LocalsOK'
  BY <1>1, <1>2, <1>3, LocalsStay, Zenon
<1>7. /\ Queued(th[t]) /\ Queued(th'[t]) /\ OnTurn(th[t]) /\ OnTurn(th'[t])
      /\ Owns(th[t]) /\ ~Owns(th'[t])
  BY <1>1, <1>2, Zenon DEF Queued, OnTurn, Owns
<1>8. \A u \in Threads : /\ Queued(th'[u]) <=> Queued(th[u])
                         /\ OnTurn(th'[u]) <=> OnTurn(th[u])
                         /\ th'[u].side = th[u].side /\ th'[u].my = th[u].my /\ th'[u].key = th[u].key
  BY <1>2, <1>7, Zenon DEF s
<1>9. QueueInv'
  BY <1>3, <1>8, QueueStays, Zenon
<1>10. KeyInv'
  <2>1. unique[s] = th[t].key /\ winner[s] = th[t].key
    BY <1>1, <1>7, Zenon DEF KeyInv, s
  <2>2. \A u \in Threads : Owns(th'[u]) => Owns(th[u]) /\ u # t /\ th[u].side # s
    BY <1>2, <1>7, OneTurn DEF Owns, OnTurn, s
  <2>3. \A r \in Sides : handover'[r] => unique'[r] \in Keys /\ winner[r] = unique'[r]
    BY <1>1, <1>4, <2>1, Zenon DEF KeyInv
  <2>4. \A u \in Threads : Owns(th'[u]) => unique'[th'[u].side] = th'[u].key
    BY <1>4, <1>8, <2>2 DEF KeyInv, LocalsOK, Locals
  <2>5. \A u \in Threads : th'[u].pc \in {"open", "own", "count", "other", "next"}
                           => winner[th'[u].side] = th'[u].key
    BY <1>2, Zenon DEF KeyInv
  <2>6. QED
    BY <1>3, <2>3, <2>4, <2>5, Zenon DEF KeyInv
<1>11. SeenInv'
  BY <1>2, <1>3, Zenon DEF SeenInv
<1>12. WindowInv'
  <2>1. window["write"] \in Nat
    BY DEF TypeOK
  <2>2. QED
    BY <1>1, <1>2, <1>3, <1>8, <2>1, WindowStays, Zenon DEF WindowSteps
<1>13. QED
  BY <1>5, <1>6, <1>9, <1>10, <1>11, <1>12, Zenon

LEMMA PassIInv ==
  ASSUME Counting, IInv, NEW t \in Threads, pass(t)
  PROVE  IInv'
<1> USE DEF IInv, pass
<1> DEFINE s == th[t].side
           c == current[s]
           k == ticket[s]
           d == (c + 1) % Wrap
           p == IF th[t].turn THEN "return" ELSE "remote"
<1>1. /\ s \in Sides /\ c \in Tickets /\ k \in Tickets /\ d \in Tickets /\ th[t].pc = "pass"
      /\ p \in Steps /\ th[t].turn \in BOOLEAN
  BY QueueArithmetic, Zenon DEF LocalsOK, Locals, TypeOK, Tickets, Steps
<1>2. /\ th' \in [Threads -> Locals] /\ \A u \in Threads : u # t => th'[u] = th[u]
      /\ th'[t].pc = p /\ th'[t].key = th[t].key /\ th'[t].turn = th[t].turn
      /\ th'[t].side = s /\ th'[t].my = th[t].my
  BY <1>1, GoEffect, Zenon
<1>3. UNCHANGED <<ticket, handover, unique, window, window_start, todo, winner>>
  BY Zenon
<1>4. /\ current' \in [Sides -> Tickets] /\ current'[s] = d
      /\ \A r \in Sides : r # s => current'[r] = current[r]
  BY <1>1, Zenon DEF TypeOK, Tickets
<1>5. TypeOK'
  BY <1>4, Zenon DEF TypeOK, Tickets
<1>6. (th'[t].pc = "return" /\ th'[t].turn) \/ (th'[t].pc = "remote" /\ ~th'[t].turn)
  BY <1>1, <1>2, Zenon
<1> HIDE DEF pass, p
<1>7. LocalsOK'
  BY <1>1, <1>2, <1>3, <1>6, LocalsStay, Zenon
<1>8. /\ Queued(th[t]) /\ ~Queued(th'[t]) /\ OnTurn(th[t]) /\ ~OnTurn(th'[t]) /\ ~Owns(th'[t])
  BY <1>1, <1>6, Zenon DEF Queued, OnTurn, Owns
<1>9. th[t].my = c /\ Length(c, c) < Length(c, k)
  BY <1>8, Zenon DEF QueueInv
<1> HIDE DEF c, d, k, s
<1>10. k # c /\ Length(c, k) \in Nat /\ Length(d, k) = Length(c, k) - 1
  BY <1>1, <1>9, QueueArithmetic DEF d
<1>11. \A u \in Threads : u # t /\ th[u].side = s => ~OnTurn(th[u])
  BY <1>8, OneTurn, Zenon DEF s
<1>12. QueueInv'
  <2>1. \A r \in Sides : Cardinality(Queue(th', r)) = Length(current'[r], ticket[r])
    <3>1. Queue(th', s) = Queue(th, s) \ {t} /\ t \in Queue(th, s)
      BY <1>2, <1>8, Zenon DEF Queue, s
    <3>2. Cardinality(Queue(th', s)) = Length(d, k)
      <4>1. Cardinality(Queue(th, s)) = Length(c, k)
        BY <1>1, Zenon DEF QueueInv, c, k
      <4>2. Cardinality(Queue(th', s)) = Cardinality(Queue(th, s)) - 1
        BY <3>1, QueueIsCounted, Zenon DEF Counting
      <4>3. QED
        BY <1>10, <4>1, <4>2, Zenon
    <3>3. \A r \in Sides : r # s => Queue(th', r) = Queue(th, r)
      BY <1>2, Zenon DEF Queue, s
    <3>4. QED
      BY <1>4, <3>2, <3>3, Zenon DEF QueueInv, k
  <2>2. \A u \in Threads : Queued(th'[u]) => u # t /\ th'[u] = th[u] /\ Queued(th[u])
    BY <1>2, <1>8, Zenon
  <2>3. \A u \in Threads : Queued(th[u]) /\ u # t /\ th[u].side = s => Length(d, th[u].my) < Length(d, k)
    <3> SUFFICES ASSUME NEW u \in Threads, Queued(th[u]), u # t, th[u].side = s
                 PROVE  Length(d, th[u].my) < Length(d, k)
      BY Zenon
    <3>1. th[u].my \in Tickets /\ th[u].my # c /\ Length(c, th[u].my) < Length(c, k)
      BY <1>8, <1>9, Zenon DEF QueueInv, LocalsOK, Locals, s, c, k
    <3>2. Length(c, th[u].my) \in Nat /\ Length(d, th[u].my) = Length(c, th[u].my) - 1
      BY <1>1, <3>1, QueueArithmetic DEF d
    <3>3. QED
      BY <1>10, <3>1, <3>2
  <2>4. \A u \in Threads : Queued(th'[u]) =>
          Length(current'[th'[u].side], th'[u].my) < Length(current'[th'[u].side], ticket[th'[u].side])
    <3> SUFFICES ASSUME NEW u \in Threads, u # t, Queued(th[u])
                 PROVE  Length(current'[th[u].side], th[u].my) < Length(current'[th[u].side], ticket[th[u].side])
      BY <2>2, Zenon
    <3>1. CASE th[u].side = s
      BY <1>4, <2>3, <3>1, Zenon DEF k
    <3>2. CASE th[u].side # s
      BY <1>4, <3>2, Zenon DEF QueueInv, LocalsOK, Locals
    <3>3. QED
      BY <3>1, <3>2, Zenon
  <2>5. \A u \in Threads : OnTurn(th'[u]) => th'[u].my = current'[th'[u].side]
    <3> SUFFICES ASSUME NEW u \in Threads, u # t, OnTurn(th[u]) PROVE th[u].my = current'[th[u].side]
      BY <1>2, <1>8, Zenon
    <3>1. th[u].side \in Sides /\ th[u].side # s
      BY <1>11, Zenon DEF LocalsOK, Locals
    <3>2. QED
      BY <1>4, <3>1, Zenon DEF QueueInv
  <2>6. QED
    BY <1>3, <2>1, <2>2, <2>4, <2>5, Zenon DEF QueueInv
<1>13. KeyInv'
  BY <1>2, <1>3, <1>6, <1>8, KeyStays, Zenon
<1>14. SeenInv'
  <2>1. \A u \in Threads : th'[u].pc \in {"open", "own", "count", "other"}
                           => th'[u] = th[u] /\ th[u].side # s /\ th[u].side \in Sides
    BY <1>2, <1>6, <1>11 DEF OnTurn, LocalsOK, Locals
  <2>2. QED
    BY <1>3, <1>4, <2>1 DEF SeenInv
<1>15. WindowInv'
  <2>1. window["write"] \in Nat
    BY DEF TypeOK
  <2>2. QED
    BY <1>1, <1>2, <1>3, <1>6, <2>1, WindowStays, Zenon DEF WindowSteps
<1>16. QED
  BY <1>5, <1>7, <1>12, <1>13, <1>14, <1>15, Zenon

-----------------------------------------------------------------------------
LEMMA InitIInv ==
  ASSUME Counting, Init
  PROVE  IInv
<1> USE DEF Init
<1> USE DEF Tickets
<1>0. Wrap \in Nat \ {0} /\ 0 \in Tickets
  BY TicketArithmetic
<1>1. TypeOK
  BY <1>0, Zenon DEF TypeOK
<1>2. LocalsOK
  <2>1. Idle \in Locals
    BY <1>0, Zenon DEF Idle, Locals, Steps
  <2>2. th \in [Threads -> Locals] /\ \A t \in Threads : th[t].pc = "idle" /\ ~th[t].turn
    BY <2>1, Zenon DEF Idle
  <2>3. todo \in [Threads -> Seq(Operation)]
    BY LocalLockTableAssumption, Zenon DEF Operation
  <2>4. QED
    BY <2>2, <2>3, Zenon DEF LocalsOK
<1>3. \A t \in Threads : th[t].pc = "idle" /\ ~Queued(th[t]) /\ ~Owns(th[t])
  BY Zenon DEF Idle, Queued, OnTurn, Owns
<1>4. QueueInv
  <2>1. \A s \in Sides : Queue(th, s) = {}
    BY <1>3, Zenon DEF Queue
  <2>2. \A s \in Sides : Length(current[s], ticket[s]) = 0
    BY <1>0, TicketArithmetic
  <2>3. QED
    BY <1>3, <2>1, <2>2, Zenon DEF QueueInv, Queued, Counting
<1>5. KeyInv /\ SeenInv /\ WindowInv
  BY <1>3, Zenon DEF KeyInv, SeenInv, WindowInv, StartInv, CountInv, OtherInv
<1>6. QED
  BY <1>1, <1>2, <1>4, <1>5, Zenon DEF IInv

LEMMA NextIInv ==
  ASSUME Counting, IInv, [Next]_vars
  PROVE  IInv'
<1>1. ASSUME NEW t \in Threads, Step(t) PROVE IInv'
  BY <1>1, BeginIInv, ClaimIInv, BufferIInv, TakeTicketIInv, WaitIInv, GrantedIInv, LeaveIInv,
     SearchIInv, CombineIInv, StoreIInv, ReleaseIInv, OpenIInv, OwnIInv, CountIInv, OtherIInv,
     NextStepIInv, CloseIInv, ClearIInv, PassIInv, ReturnIInv, SMTT(30) DEF Step
<1>2. CASE UNCHANGED vars
  BY <1>2, Zenon DEF IInv, TypeOK, LocalsOK, QueueInv, KeyInv, SeenInv, WindowInv, StartInv, CountInv,
              OtherInv, vars, queue
<1>3. QED
  BY <1>1, <1>2, Zenon DEF Next, Done

-----------------------------------------------------------------------------
INSTANCE FiniteSetTheorems

LEMMA CountingHolds == Counting
<1>1. IsFiniteSet(Threads)
  BY LocalLockTableAssumption, Zenon
<1>2. Cardinality({}) = 0
  BY FS_EmptySet, Zenon
<1>3. ASSUME NEW S \in SUBSET Threads
      PROVE  IsFiniteSet(S) /\ Cardinality(S) \in Nat /\ Cardinality(S) <= Cardinality(Threads)
             /\ (Cardinality(S) = 0 => S = {})
  BY <1>1, FS_Subset, FS_CardinalityType, FS_EmptySet, Zenon
<1>4. ASSUME NEW S \in SUBSET Threads, NEW R \in SUBSET S
      PROVE  Cardinality(R) <= Cardinality(S)
  BY <1>3, FS_Subset, Zenon
<1>5. ASSUME NEW S \in SUBSET Threads, NEW x \in S
      PROVE  Cardinality(S \ {x}) = Cardinality(S) - 1
  BY <1>3, FS_RemoveElement, Zenon
<1>6. ASSUME NEW S \in SUBSET Threads, NEW x \in Threads \ S
      PROVE  Cardinality(S \cup {x}) = Cardinality(S) + 1
  BY <1>3, FS_AddElement, Zenon
<1>7. QED
  BY <1>2, <1>3, <1>4, <1>5, <1>6, Zenon DEF Counting

LEMMA Invariance == Spec => []IInv
<1>1. Init => IInv
  BY CountingHolds, InitIInv, Zenon
<1>2. IInv /\ [Next]_vars => IInv'
  BY CountingHolds, NextIInv, Zenon
<1>3. QED
  BY <1>1, <1>2, PTL DEF Spec

(* The lock node keeps its queues in order: its fields stay in range, one     *)
(* operation at a time has the turn of a queue, and when all operations have  *)
(* returned window_start is not left set over closed windows                  *)
(* (acquire_local_*_lock, release_local_*_lock).                              *)
THEOREM QueuesStaySound == Spec => []QueuesAreSound
<1>1. IInv => QueuesAreSound
  <2> SUFFICES ASSUME IInv PROVE QueuesAreSound
    BY Zenon
  <2>1. \A t \in Threads : HasTurn(t) => OnTurn(th[t])
    BY Zenon DEF HasTurn, OnTurn
  <2>2. OneTurnPerQueue
    BY <2>1, OneTurn, Zenon DEF OneTurnPerQueue, IInv
  <2>3. WindowCanReopen
    BY Zenon DEF WindowCanReopen, AtRest, IInv, WindowInv, StartInv, Opening
  <2>4. QED
    BY <2>2, <2>3, Zenon DEF QueuesAreSound, IInv
<1>2. QED
  BY <1>1, Invariance, PTL

(* An operation that is handed over takes the result of, or leaves its value  *)
(* to, an operation on its own key: keys of one hash never share a result.    *)
THEOREM KeysStayApart == Spec => []HandoverIsForTheSameKey
<1>1. IInv => HandoverIsForTheSameKey
  BY Zenon DEF HandoverIsForTheSameKey, HandedOver, IInv, KeyInv, Owns, LocalsOK, Locals
<1>2. QED
  BY <1>1, Invariance, PTL
=============================================================================
