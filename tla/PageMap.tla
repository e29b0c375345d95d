------------------------------- MODULE PageMap -------------------------------
(* What the page table of one compute node promises the buffer manager: a     *)
(* map from the remote address of a tree page to the frame that caches it.    *)
(* An address without a frame may carry the mark of the one thread that is    *)
(* loading it.  Every step changes the entry of a single address.             *)
EXTENDS Naturals

CONSTANTS
  Keys,    \* remote addresses
  Pages,   \* frames of the buffer pool
  Null,    \* no entry
  IO_FLAG  \* the entry of an address somebody is loading

VARIABLE dir

Entries == Pages \cup {Null, IO_FLAG}

Init == dir = [k \in Keys |-> Null]

(* A thread that misses claims the address. *)
Claim(k) == dir[k] = Null /\ dir' = [dir EXCEPT ![k] = IO_FLAG]

(* The claim ends with the loaded frame. *)
Publish(k, p) == dir[k] = IO_FLAG /\ dir' = [dir EXCEPT ![k] = p]

(* A fresh copy of a page enters the map or takes the place of the old one. *)
Install(k, p) == dir[k] # IO_FLAG /\ dir' = [dir EXCEPT ![k] = p]

(* The claim is given up, or the frame is evicted or invalidated. *)
Forget(k) == dir[k] # Null /\ dir' = [dir EXCEPT ![k] = Null]

Next ==
  \E k \in Keys :
    \/ Claim(k)
    \/ \E p \in Pages : Publish(k, p) \/ Install(k, p)
    \/ Forget(k)

Spec == Init /\ [][Next]_dir
=============================================================================
