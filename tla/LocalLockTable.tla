--------------------------- MODULE LocalLockTable ---------------------------
(* Read delegation and write combining (LocalLockTable.h of CHIME and of the  *)
(* SMART baseline): the operations of one compute node whose keys hash to the *)
(* same LocalLockNode queue up by ticket, one queue for reads and one for     *)
(* writes.  The head of a queue that is not handed over goes to the remote    *)
(* tree; the ones handed over take its result, or leave their value to it.    *)
(*                                                                            *)
(* A side is "read" or "write".  The remote tree is a map that is read and    *)
(* written atomically, as the trees implement it.                             *)
EXTENDS Integers, FiniteSets, Sequences

CONSTANTS
  Threads,  \* threads or coroutines of the compute node
  Keys, Values,
  Works,    \* what the threads may have to do: the operations of each, in order
  Wrap,     \* values of a ticket (uint8_t: 2^8)
  None

ASSUME LocalLockTableAssumption ==
  /\ Wrap \in Nat \ {0} /\ IsFiniteSet(Threads) /\ Cardinality(Threads) < Wrap
  /\ \A w \in Works : w \in [Threads -> Seq([side : {"read", "write"}, key : Keys, val : Values])]
  /\ None \notin Keys /\ None \notin Values /\ None \notin Threads

Sides == {"read", "write"}
Other(s) == IF s = "read" THEN "write" ELSE "read"

VARIABLES
  ticket, current,   \* of each side: the queue
  handover, window,  \* of each side: read_handover, write_handover, read_window, write_window
  unique,            \* of each side: unique_read_key, unique_write_key
  mutex,             \* of each side: the holder of r_lock, w_lock
  window_start, ret_value, wc_buffer,
  mem,               \* the remote tree
  todo, th,          \* of each thread: the operations it has left, its locals
  winner             \* of each side: the key of the last operation that went to the remote
                     \* tree on its turn

queue == <<ticket, current, handover, unique>>
vars == <<queue, window, mutex, window_start, ret_value, wc_buffer, mem, todo, th, winner>>

Idle == [pc |-> "idle", side |-> "read", key |-> None, val |-> None, my |-> 0, seen |-> 0,
         len |-> 0, turn |-> FALSE]

Init ==
  /\ ticket = [s \in Sides |-> 0] /\ current = [s \in Sides |-> 0]
  /\ handover = [s \in Sides |-> FALSE] /\ window = [s \in Sides |-> 0]
  /\ unique = [s \in Sides |-> None] /\ mutex = [s \in Sides |-> None]
  /\ window_start = FALSE /\ ret_value = None /\ wc_buffer = None
  /\ mem = [k \in Keys |-> None]
  /\ todo \in Works
  /\ th = [t \in Threads |-> Idle]
  /\ winner = [s \in Sides |-> None]

Go(t, pc) == th' = [th EXCEPT ![t].pc = pc]

-----------------------------------------------------------------------------
begin(t) ==
  /\ th[t].pc = "idle" /\ todo[t] # <<>>
  /\ LET o == Head(todo[t])
     IN  th' = [th EXCEPT ![t] = [Idle EXCEPT !.pc = "claim", !.side = o.side, !.key = o.key,
                                    !.val = IF o.side = "write" THEN o.val ELSE None]]
  /\ UNCHANGED <<queue, window, mutex, window_start, ret_value, wc_buffer, mem, todo, winner>>

\* Operations on another key with the same hash go on by themselves.
claim(t) ==
  LET s == th[t].side
      k == th[t].key
  IN  /\ th[t].pc = "claim"
      /\ unique' = [unique EXCEPT ![s] = IF @ = None THEN k ELSE @]
      /\ Go(t, IF unique'[s] # k THEN "remote" ELSE IF s = "write" THEN "buffer" ELSE "ticket")
      /\ UNCHANGED <<ticket, current, handover, window, mutex, window_start, ret_value, wc_buffer,
                     mem, todo, winner>>

\* The value overwrites that of the writers that wait.
buffer(t) ==
  /\ th[t].pc = "buffer"
  /\ wc_buffer' = th[t].val
  /\ Go(t, "ticket")
  /\ UNCHANGED <<queue, window, mutex, window_start, ret_value, mem, todo, winner>>

take_ticket(t) ==
  LET s == th[t].side
  IN  /\ th[t].pc = "ticket"
      /\ th' = [th EXCEPT ![t].my = ticket[s], ![t].pc = "wait"]
      /\ ticket' = [ticket EXCEPT ![s] = (@ + 1) % Wrap]
      /\ UNCHANGED <<current, handover, unique, window, mutex, window_start, ret_value, wc_buffer,
                     mem, todo, winner>>

EagerWait(t) ==
  /\ th[t].pc = "wait"
  /\ Go(t, IF unique[th[t].side] = th[t].key THEN "granted" ELSE "conflict")
  /\ UNCHANGED <<queue, window, mutex, window_start, ret_value, wc_buffer, mem, todo, winner>>

NoRecheckWait(t) ==
  /\ th[t].pc = "wait"
  /\ th[t].my = current[th[t].side]
  /\ Go(t, "granted")
  /\ UNCHANGED <<queue, window, mutex, window_start, ret_value, wc_buffer, mem, todo, winner>>

\* The key may have changed hands while t waited, or before it took its ticket.
wait(t) ==
  LET s == th[t].side
  IN  /\ th[t].pc = "wait"
      /\ th[t].my = current[s]
      /\ Go(t, IF unique[s] = th[t].key THEN "granted" ELSE "conflict")
      /\ UNCHANGED <<queue, window, mutex, window_start, ret_value, wc_buffer, mem, todo, winner>>

\* A handover is good for the operations of the window only.
granted(t) ==
  LET s == th[t].side
  IN  /\ th[t].pc = "granted"
      /\ handover' = [handover EXCEPT ![s] = @ /\ window[s] # 0]
      /\ th' = [th EXCEPT ![t].turn = TRUE, ![t].pc = IF handover'[s] THEN "release" ELSE "remote"]
      /\ UNCHANGED <<ticket, current, unique, window, mutex, window_start, ret_value, wc_buffer,
                     mem, todo, winner>>

ConflictRetries(t) ==
  /\ th[t].pc = "conflict"
  /\ Go(t, "wait")
  /\ UNCHANGED <<queue, window, mutex, window_start, ret_value, wc_buffer, mem, todo, winner>>

\* A conflict passes the turn on at once, without r_lock or w_lock.
conflict(t) ==
  LET s == th[t].side
  IN  /\ th[t].pc = "conflict"
      /\ window' = [window EXCEPT ![s] = IF @ = 0 THEN 0 ELSE @ - 1]
      /\ Go(t, IF window[s] = 0 THEN "pass" ELSE "close")
      /\ UNCHANGED <<queue, mutex, window_start, ret_value, wc_buffer, mem, todo, winner>>
-----------------------------------------------------------------------------
(* The remote tree, on a turn or past the queue.                              *)
search(t) ==
  /\ th[t].pc = "remote" /\ th[t].side = "read"
  /\ th' = [th EXCEPT ![t].val = mem[th[t].key], ![t].pc = IF th[t].turn THEN "release" ELSE "return"]
  /\ UNCHANGED <<queue, window, mutex, window_start, ret_value, wc_buffer, mem, todo, winner>>

get_combining_value(t) ==
  LET combine == unique["write"] = th[t].key
  IN  /\ th[t].pc = "remote" /\ th[t].side = "write"
      /\ th' = [th EXCEPT ![t].pc = "store", ![t].val = IF combine THEN wc_buffer ELSE @]
      /\ UNCHANGED <<queue, window, mutex, window_start, ret_value, wc_buffer, mem, todo, winner>>

store(t) ==
  /\ th[t].pc = "store"
  /\ mem' = [mem EXCEPT ![th[t].key] = th[t].val]
  /\ Go(t, IF th[t].turn THEN "release" ELSE "return")
  /\ UNCHANGED <<queue, window, mutex, window_start, ret_value, wc_buffer, todo, winner>>
-----------------------------------------------------------------------------
(* release_local_read_lock, release_local_write_lock.                         *)
release(t) ==
  LET s == th[t].side
      won == ~handover[s]
  IN  /\ th[t].pc = "release"
      /\ ret_value' = IF s = "read" /\ won THEN th[t].val ELSE ret_value
      /\ th' = [th EXCEPT ![t].val = IF s = "read" THEN ret_value' ELSE @,
                          ![t].seen = ticket[s],
                          ![t].pc = IF won THEN "open" ELSE "next"]
      /\ winner' = IF won THEN [winner EXCEPT ![s] = th[t].key] ELSE winner
      /\ UNCHANGED <<queue, window, mutex, window_start, wc_buffer, mem, todo>>

\* The first one to finish starts a window for both queues.
open(t) ==
  LET s == th[t].side
  IN  /\ th[t].pc = "open"
      /\ window_start' = TRUE
      /\ Go(t, IF window_start THEN "next" ELSE IF s = "read" THEN "own" ELSE "count")
      /\ UNCHANGED <<queue, window, mutex, ret_value, wc_buffer, mem, todo, winner>>

Length(from, to) == (Wrap + to - from) % Wrap

own(t) ==
  LET s == th[t].side
  IN  /\ th[t].pc = "own"
      /\ window' = [window EXCEPT ![s] = Length(th[t].my, th[t].seen)]
      /\ Go(t, IF s = "read" THEN "count" ELSE "next")
      /\ UNCHANGED <<queue, mutex, window_start, ret_value, wc_buffer, mem, todo, winner>>

\* The lock of the other side, and the length of its queue.
count(t) ==
  LET o == Other(th[t].side)
  IN  /\ th[t].pc = "count"
      /\ mutex[o] = None /\ mutex' = [mutex EXCEPT ![o] = t]
      /\ th' = [th EXCEPT ![t].pc = "other", ![t].len = Length(current[o], ticket[o])]
      /\ UNCHANGED <<queue, window, window_start, ret_value, wc_buffer, mem, todo, winner>>

other(t) ==
  LET o == Other(th[t].side)
  IN  /\ th[t].pc = "other"
      /\ window' = [window EXCEPT ![o] = th[t].len]
      /\ mutex' = [mutex EXCEPT ![o] = None]
      /\ Go(t, IF th[t].side = "read" THEN "next" ELSE "own")
      /\ UNCHANGED <<queue, window_start, ret_value, wc_buffer, mem, todo, winner>>

\* Hand over to whoever had queued when t looked, or start the next epoch.
next(t) ==
  LET s == th[t].side
  IN  /\ th[t].pc = "next"
      /\ handover' = [handover EXCEPT ![s] = th[t].seen # (th[t].my + 1) % Wrap]
      /\ unique' = IF handover'[s] THEN unique ELSE [unique EXCEPT ![s] = None]
      /\ Go(t, "leave")
      /\ UNCHANGED <<ticket, current, window, mutex, window_start, ret_value, wc_buffer, mem, todo, winner>>

UntestedLeave(t) ==
  LET s == th[t].side
  IN  /\ th[t].pc = "leave"
      /\ mutex[s] = None /\ mutex' = [mutex EXCEPT ![s] = t]
      /\ window' = [window EXCEPT ![s] = @ - 1]
      /\ Go(t, "close")
      /\ UNCHANGED <<queue, window_start, ret_value, wc_buffer, mem, todo, winner>>

leave(t) ==
  LET s == th[t].side
  IN  /\ th[t].pc = "leave"
      /\ mutex[s] = None /\ mutex' = [mutex EXCEPT ![s] = t]
      /\ window' = [window EXCEPT ![s] = IF @ = 0 THEN 0 ELSE @ - 1]
      /\ Go(t, IF window[s] = 0 THEN "pass" ELSE "close")
      /\ UNCHANGED <<queue, window_start, ret_value, wc_buffer, mem, todo, winner>>

ForgetfulClose(t) ==
  /\ th[t].pc = "close"
  /\ Go(t, "pass")
  /\ UNCHANGED <<queue, window, mutex, window_start, ret_value, wc_buffer, mem, todo, winner>>

\* The last operation of both windows ends them; the test and the store are two steps.
close(t) ==
  /\ th[t].pc = "close"
  /\ Go(t, IF \A s \in Sides : window[s] = 0 THEN "clear" ELSE "pass")
  /\ UNCHANGED <<queue, window, mutex, window_start, ret_value, wc_buffer, mem, todo, winner>>

clear(t) ==
  /\ th[t].pc = "clear"
  /\ window_start' = FALSE
  /\ Go(t, "pass")
  /\ UNCHANGED <<queue, window, mutex, ret_value, wc_buffer, mem, todo, winner>>

pass(t) ==
  LET s == th[t].side
  IN  /\ th[t].pc = "pass"
      /\ current' = [current EXCEPT ![s] = (@ + 1) % Wrap]
      /\ mutex' = [mutex EXCEPT ![s] = IF @ = t THEN None ELSE @]
      /\ Go(t, IF th[t].turn THEN "return" ELSE "remote")
      /\ UNCHANGED <<ticket, handover, unique, window, window_start, ret_value, wc_buffer, mem, todo, winner>>

return(t) ==
  /\ th[t].pc = "return"
  /\ todo' = [todo EXCEPT ![t] = Tail(@)]
  /\ th' = [th EXCEPT ![t] = Idle]
  /\ UNCHANGED <<queue, window, mutex, window_start, ret_value, wc_buffer, mem, winner>>

Step(t) ==
  \/ begin(t) \/ claim(t) \/ buffer(t) \/ take_ticket(t) \/ wait(t) \/ granted(t) \/ conflict(t)
  \/ search(t) \/ get_combining_value(t) \/ store(t)
  \/ release(t) \/ open(t) \/ own(t) \/ count(t) \/ other(t) \/ next(t) \/ leave(t)
  \/ close(t) \/ clear(t) \/ pass(t) \/ return(t)

AtRest == \A t \in Threads : th[t].pc = "idle" /\ todo[t] = <<>>
Done == AtRest /\ UNCHANGED vars

Next == (\E t \in Threads : Step(t)) \/ Done
Spec == Init /\ [][Next]_vars
\* Every thread runs, and a std::mutex that is free is eventually taken by each that wants it.
FairSpec == Spec /\ \A t \in Threads : SF_vars(Step(t))
-----------------------------------------------------------------------------
\* The shapes of the lock node and of the threads' locals.
TypeOK ==
  /\ ticket \in [Sides -> 0..Wrap-1] /\ current \in [Sides -> 0..Wrap-1]
  /\ window \in [Sides -> 0..Wrap-1] /\ handover \in [Sides -> BOOLEAN]
  /\ unique \in [Sides -> Keys \cup {None}] /\ mutex \in [Sides -> Threads \cup {None}]
  /\ window_start \in BOOLEAN /\ mem \in [Keys -> Values \cup {None}]
  /\ {ret_value, wc_buffer} \subseteq Values \cup {None}

HasTurn(t) ==
  th[t].pc \in {"granted", "conflict", "release", "open", "own", "count", "other", "next", "leave",
               "close", "clear", "pass"}
    \/ (th[t].turn /\ th[t].pc \in {"remote", "store"})

\* acquire and release give each queue to one operation at a time, whatever the
\* windows and the other queue do: this is what lets handover, ret_value and the
\* key be plain fields.
OneTurnPerQueue ==
  \A t, u \in Threads : (HasTurn(t) /\ HasTurn(u) /\ th[t].side = th[u].side) => t = u

HandedOver(t) == th[t].turn /\ th[t].pc = "release" /\ handover[th[t].side]

\* An operation that is handed over takes the result of, or leaves its value to, an
\* operation on its own key: the checks of unique_*_key keep keys of one hash apart.
HandoverIsForTheSameKey ==
  \A t \in Threads : HandedOver(t) => winner[th[t].side] = th[t].key

\* window_start does not outlive the windows: were it left set with both windows at 0, no
\* release could open a window again and nothing would be delegated or combined any more.
\* (A window itself may be left open: the conflict path moves a queue without its mutex.)
WindowCanReopen ==
  (AtRest /\ \A s \in Sides : window[s] = 0) => ~window_start

\* The lock node keeps its two queues in order: one operation at a time has the
\* turn of a queue, through windows that open, close and are counted down by
\* winners, losers and conflicting keys, and a closed window can open again
\* (acquire_local_*_lock, release_local_*_lock).
QueuesAreSound == TypeOK /\ OneTurnPerQueue /\ WindowCanReopen

\* Every operation returns: each path out of a queue advances it once, the path
\* for conflicting keys too, so no queue is left without a head.
EveryOperationReturns == <>AtRest
=============================================================================
