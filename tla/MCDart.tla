------------------------------- MODULE MCDart -------------------------------
(* DART on small instances: keys of three bytes, so that the skip table    *)
(* holds one-byte prefixes; nodes of two and of four slots in buckets of   *)
(* two.                                                                    *)
EXTENDS Dart

a == <<1, 1, 1>>
b == <<1, 1, 2>>
c == <<1, 2, 1>>
d == <<1, 3, 1>>
e == <<2, 1, 1>>
f == <<1, 4, 1>>

Ins(k) == [op |-> "insert", key |-> k, end |-> k]
Get(k) == [op |-> "search", key |-> k, end |-> k]
Upd(k) == [op |-> "update", key |-> k, end |-> k]
Rem(k) == [op |-> "remove", key |-> k, end |-> k]
Scan(k, l) == [op |-> "scan", key |-> k, end |-> l]

MCHash(prefix) == [bucket |-> 0, fp |-> IF prefix = <<1>> THEN 1 ELSE 2]

Base == [memories |-> {"m1"}, computes |-> {"c1"}, threads |-> 2, faulty |-> FALSE,
         room |-> 40, buckets |-> {0}, load |-> <<>>, run |-> <<>>]

MCSetups ==
  {(* Two compute nodes and the faults, with little to do.                 *)
   [Base EXCEPT !.computes = {"c1", "c2"}, !.threads = 1, !.faulty = TRUE,
                !.load = <<Ins(a)>>, !.run = <<Get(a)>>],
   (* Two threads whose inserts split a slot and upgrade the same node,    *)
   (* then update the same key.                                            *)
   [Base EXCEPT !.load = <<Ins(a), Ins(c), Ins(d), Ins(f)>>,
                !.run = <<Upd(a), Upd(a)>>],
   (* One thread that runs out of memory.                                  *)
   [Base EXCEPT !.threads = 1, !.room = 4, !.run = <<Upd(a), Scan(c, e), Scan(e, e)>>,
                !.load = <<Ins(a), Ins(c), Ins(d), Ins(e), Ins(b)>>],
   (* Two compute nodes that load the same file, then insert through a     *)
   (* shortcut.                                                            *)
   [Base EXCEPT !.computes = {"c1", "c2"}, !.threads = 1,
                !.load = <<Ins(a), Ins(c)>>, !.run = <<Ins(b)>>],
   (* Two memory machines.                                                 *)
   [Base EXCEPT !.memories = {"m1", "m2"},
                !.load = <<Ins(a), Ins(e)>>, !.run = <<Scan(a, e), Rem(a)>>]}
=============================================================================
