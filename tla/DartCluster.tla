---------------------------- MODULE DartCluster ----------------------------
(***************************************************************************)
(* The processes of a DART run and the sockets between them: the monitor   *)
(* (monitor.cc), the memory nodes (memory.cc) and the compute nodes        *)
(* (compute.cc).  Each process is a script of sends, reads and local       *)
(* steps; a compute node's load, prepare and run are left to the module    *)
(* that puts the threads' work there.  What the monitor exchanges with one *)
(* node in one loop body is one message.                                   *)
(*                                                                         *)
(* Faults: a node may fail to connect its queue pairs and leave; a compute *)
(* node dies when a memory node's skip-table server does not listen yet;   *)
(* a monitor's send to a node that left may report an error or not; a     *)
(* read of a closed and empty socket fails.                                *)
(***************************************************************************)
EXTENDS Integers, Sequences, SequencesExt, FiniteSets, TLC

VARIABLES cast,    \* the processes, the files and the flags of this run
          mon,     \* the monitor: stage, position in it, error, all_list
          step,    \* per node: its place in its script; 0 once it has left
          index,   \* per node: mem_ind or com_ind
          up,      \* per node: what it sent and the monitor has not read
          down     \* per node: what the monitor sent and it has not read

clusterVars == <<cast, mon, step, index, up, down>>

Nodes == cast.memories \cup cast.computes

Send(m) == [act |-> "send", msg |-> m]
Read(m) == [act |-> "read", msg |-> m]
Local(m) == [act |-> "local", msg |-> m]

(* main of memory.cc: enrol with the monitor, exchange the queue pairs'     *)
(* data, connect, and wait for the end.                                    *)
MemoryScript ==
  <<Send("type"), Read("params"), Local("serve"), Send("meta"), Read("meta"),
    Local("connect"), Send("200"), Read("999")>>

(* main of compute.cc, phase by phase.                                     *)
Enrol == <<Send("type"), Read("params"), Local("race")>>
Wire == <<Send("meta"), Read("meta"), Local("connect")>>
Ready == <<Send("200"), Read("200")>>
Load == <<Local("load"), Send("600"), Read("700")>>
Build == <<Local("prepare"), Send("800"), Read("900")>>
Run == <<Local("run"), Send("result"), Read("999")>>
ComputeScript == Enrol \o Wire \o Ready \o Load \o Build \o Run

(* main of monitor.cc after every node was accepted: for whom each loop    *)
(* runs.                                                                   *)
Loop(act, msg, who) == [act |-> act, msg |-> msg, who |-> who]
MonitorMeta ==
  <<Loop("read", "meta", cast.memories), Loop("read", "meta", cast.computes),
    Loop("send", "meta", cast.memories), Loop("send", "meta", cast.computes)>>
MonitorReady == <<Loop("read", "200", Nodes), Loop("send", "200", cast.computes)>>
MonitorLoad == <<Loop("read", "600", cast.computes), Loop("send", "700", cast.computes)>>
MonitorBuild == <<Loop("read", "800", cast.computes), Loop("send", "900", cast.computes)>>
MonitorEnd == <<Loop("read", "result", cast.computes), Loop("send", "999", Nodes)>>
MonitorScript == MonitorMeta \o MonitorReady \o MonitorLoad \o MonitorBuild \o MonitorEnd

(* A mutant of the next definition: a node that does not report 200 is     *)
(* not counted.                                                            *)
CountsLate(l) == l.msg \notin {"200", "result", "999"}

(* Whether an error in the loop counts, and whether errors end the run     *)
(* when the loop is over.                                                  *)
Counts(l) == l.msg \notin {"result", "999"}
Go(l) == l.msg \in {"200", "700", "900"} /\ l.act = "send"

Script(n) == IF n \in cast.memories THEN MemoryScript ELSE ComputeScript
At(n, act) == step[n] # 0 /\ step[n] <= Len(Script(n)) /\ Script(n)[step[n]].act = act
AtLocal(n, m) == At(n, "local") /\ Script(n)[step[n]].msg = m
Past(n, m) == step[n] > CHOOSE i \in DOMAIN Script(n) : Script(n)[i].msg = m

Accepted == Len(mon.list) = Cardinality(Nodes)
Closed == mon.stage > Len(MonitorScript)

----------------------------------------------------------------------------
(* The nodes.                                                              *)

Advance(n) == step' = [step EXCEPT ![n] = IF @ = Len(Script(n)) THEN 0 ELSE @ + 1]
Leave(n) == step' = [step EXCEPT ![n] = 0]

(* sock_send_u32 and tcp_send_rdma_connect_data.  The monitor reads every  *)
(* send of a node, or finds its socket closed, before it leaves: no send   *)
(* of a node meets a closed socket.                                        *)
NodeSend(n) ==
  /\ At(n, "send") /\ Advance(n)
  /\ up' = [up EXCEPT ![n] = Append(@, Script(n)[step[n]].msg)]
  /\ UNCHANGED <<cast, mon, index, down>>

(* sock_read_u32: blocks, unless the monitor has closed the socket.  Any   *)
(* value but the expected one makes the node leave.                        *)
NodeRead(n) ==
  /\ At(n, "read")
  /\ \/ /\ down[n] # <<>>
        /\ down' = [down EXCEPT ![n] = Tail(@)]
        /\ IF Head(down[n]) = Script(n)[step[n]].msg THEN Advance(n) ELSE Leave(n)
     \/ /\ down[n] = <<>> /\ Closed
        /\ Leave(n) /\ UNCHANGED down
  /\ UNCHANGED <<cast, mon, index, up>>

(* The memory node's skip-table server starts to listen.                   *)
serve(n) ==
  /\ AtLocal(n, "serve") /\ Advance(n)
  /\ UNCHANGED <<cast, mon, index, up, down>>

(* The compute node connects to every skip-table server; a refused         *)
(* connection fails an assertion.                                          *)
race_connect(n) ==
  /\ AtLocal(n, "race")
  /\ IF \A m \in cast.memories : Past(m, "serve") THEN Advance(n) ELSE Leave(n)
  /\ UNCHANGED <<cast, mon, index, up, down>>

(* The queue pairs are connected, or the node leaves.                      *)
connect(n) ==
  /\ AtLocal(n, "connect")
  /\ Advance(n) \/ (cast.faulty /\ Leave(n))
  /\ UNCHANGED <<cast, mon, index, up, down>>

NodeStep(n) == NodeSend(n) \/ NodeRead(n) \/ serve(n) \/ race_connect(n)

----------------------------------------------------------------------------
(* The monitor.                                                            *)

(* server_listen, the read of the type, and the parameters with the index. *)
Listen(n) ==
  /\ ~Accepted /\ n \notin Range(mon.list) /\ up[n] # <<>>
  /\ LET kind == IF n \in cast.memories THEN cast.memories ELSE cast.computes
     IN  index' = [index EXCEPT ![n] = Cardinality(kind \cap Range(mon.list))]
  /\ mon' = [mon EXCEPT !.list = Append(@, n)]
  /\ up' = [up EXCEPT ![n] = Tail(@)]
  /\ down' = [down EXCEPT ![n] = Append(@, "params")]
  /\ UNCHANGED <<cast, step>>

(* The nodes of the current loop, in the order they were accepted.         *)
Turn == SelectSeq(mon.list, LAMBDA n : n \in MonitorScript[mon.stage].who)

(* The loop goes on; after a loop that tells the computes to go on, an     *)
(* error ends the run.                                                     *)
NextInLoop(err) ==
  LET last == mon.i = Len(Turn)
      over == last /\ err /\ Go(MonitorScript[mon.stage])
  IN  mon' = [mon EXCEPT !.err = err,
                         !.i = IF last THEN 1 ELSE @ + 1,
                         !.stage = IF over THEN Len(MonitorScript) + 1
                                   ELSE IF last THEN @ + 1 ELSE @]

MonitorRead ==
  /\ Accepted /\ ~Closed /\ MonitorScript[mon.stage].act = "read"
  /\ LET l == MonitorScript[mon.stage]
         n == Turn[mon.i]
     IN  IF up[n] # <<>>
         THEN /\ NextInLoop(mon.err \/ (Counts(l) /\ Head(up[n]) # l.msg))
              /\ up' = [up EXCEPT ![n] = Tail(@)]
         ELSE /\ step[n] = 0
              /\ NextInLoop(mon.err \/ Counts(l))
              /\ UNCHANGED up
  /\ UNCHANGED <<cast, step, index, down>>

MonitorSend ==
  /\ Accepted /\ ~Closed /\ MonitorScript[mon.stage].act = "send"
  /\ LET l == MonitorScript[mon.stage]
         n == Turn[mon.i]
     IN  IF step[n] = 0
         THEN /\ \E failed \in BOOLEAN : NextInLoop(mon.err \/ (failed /\ Counts(l)))
              /\ UNCHANGED down
         ELSE /\ NextInLoop(mon.err)
              /\ down' = [down EXCEPT ![n] = Append(@, IF mon.err /\ Go(l) THEN "404" ELSE l.msg)]
  /\ UNCHANGED <<cast, step, index, up>>

Monitor == (\E n \in Nodes : Listen(n)) \/ MonitorRead \/ MonitorSend
=============================================================================
