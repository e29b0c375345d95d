--------------------------- MODULE BufferPoolProofs ---------------------------
(* The step of BufferPool that puts a frame into a cooling bucket, the         *)
(* induction, and the theorems.                                               *)
EXTENDS BufferPoolSteps

(* A sampler puts page v, which hung under p, into a cooling bucket; the      *)
(* frames E leave it for the sampler's local set.                             *)
Chills(v, p, E) ==
  /\ \A d \in Pages : table'[d] = IF table[d] \in E THEN Null ELSE table[d]
  /\ \A h \in Frames : pos_state'[h] = IF h = v THEN "cool" ELSE IF h \in E THEN "local" ELSE pos_state[h]
  /\ \A h \in Frames : page'[h] = IF h \in E THEN Null ELSE page[h]
  /\ \A h \in Frames : h \notin E => content'[h] = content[h]
  /\ \A h \in AllFrames : lock'[h] = IF h = p THEN "free" ELSE lock[h]
  /\ \A h : h \in Cool' <=> h = v \/ (h \in Cool /\ h \notin E)

SamplerMoves(t, E) ==
  /\ pc[t] = "sample_insert"
  /\ local' = [local EXCEPT ![t] = @ \cup E]
  /\ par' = [par EXCEPT ![t] = Null] /\ victim' = [victim EXCEPT ![t] = Null]
  /\ todo' = [todo EXCEPT ![t] = @ - 1]
  /\ pc' = [pc EXCEPT ![t] = IF todo[t] = 1 THEN ret[t] ELSE "sample"]
  /\ ret' = IF todo[t] = 1 THEN [ret EXCEPT ![t] = "lock"] ELSE ret
  /\ UNCHANGED <<dirty, children, parent_ptr, remote, current, op, goal, val, cur, seen, frame>>

InsertStep(t, E) ==
  SamplerMoves(t, E) /\ Chills(victim[t], par[t], E) /\ E \subseteq Cool

(* The page and its parent. *)
LEMMA InserterHolds ==
  ASSUME Sound, NEW t \in Threads, NEW E, InsertStep(t, E)
  PROVE  /\ victim[t] \in Frames /\ victim[t] \in AllFrames /\ Hot(victim[t])
         /\ parent_ptr[victim[t]] = Null /\ ~dirty[victim[t]] /\ victim[t] \in Unhung
         /\ (\A c \in Pages : children[victim[t]][c] = Null)
         /\ victim[t] \in Held[t] /\ lock[victim[t]] = "write" /\ victim[t] \notin Cool
         /\ victim[t] \notin local[t] /\ frame[t] = Null
         /\ par[t] \in AllFrames /\ par[t] # victim[t] /\ par[t] \in Held[t] /\ lock[par[t]] = "write"
         /\ par[t] \notin Cool /\ par[t] \notin local[t]
         /\ \A h \in AllFrames : h \in Held[t] <=> h \in {victim[t], par[t]} \/ h \in local[t]
<1>0. ThreadTypes /\ PoolTypes /\ Placed(t) /\ Sampled(t) /\ Latches /\ Positioned(t)
  BY Zenon DEF Sound, TypeOK, Places, Victims, Positions
<1>1. pc[t] = "sample_insert" /\ Latched(t)
  BY Zenon DEF InsertStep, SamplerMoves, Latched
<1>2. victim[t] # Null /\ par[t] \in AllFrames
  BY <1>0, <1>1, Zenon DEF Placed
<1>3. /\ victim[t] \in Frames /\ victim[t] \in Held[t] /\ Hot(victim[t]) /\ lock[victim[t]] = "write"
      /\ victim[t] \notin local[t] /\ frame[t] = Null
  BY <1>2, VictimIsHeld, Zenon
<1>4. /\ \A c \in Pages : children[victim[t]][c] = Null
      /\ parent_ptr[victim[t]] = Null /\ ~dirty[victim[t]] /\ par[t] # victim[t] /\ (par[t] # Root => Hot(par[t]))
  BY <1>0, <1>1, <1>2, Zenon DEF Sampled
<1>5. victim[t] \in AllFrames /\ victim[t] \in Unhung /\ par[t] \in Held[t]
  BY <1>1, <1>2, <1>3, Zenon DEF Unhung, Held, AllFrames
<1>6. victim[t] \notin Cool /\ par[t] \notin Cool /\ lock[par[t]] = "write"
  BY <1>0, <1>2, <1>3, <1>5, Zenon DEF Latches
<1>7. par[t] \notin local[t]
  <2>1. local[t] \subseteq Frames /\ Root \notin Frames
    BY <1>0, BufferPoolAssumption, Zenon DEF PoolTypes
  <2>2. \A h \in local[t] : h # Root /\ ~Hot(h)
    BY <1>0, <2>1, Zenon DEF Positioned, Hot
  <2> QED BY <1>4, <2>2, Zenon
<1>8. \A h \in AllFrames : h \in Held[t] <=> h \in {victim[t], par[t]} \/ h \in local[t]
  <2>1. Null \notin AllFrames
    BY BufferPoolAssumption, Zenon DEF AllFrames
  <2> QED BY <1>1, <1>3, <2>1, Zenon DEF Held
<1> QED BY <1>2, <1>3, <1>4, <1>5, <1>6, <1>7, <1>8, Zenon

(* The frames that make room. *)
LEMMA RoomIsCold ==
  ASSUME Sound, NEW t \in Threads, NEW E, InsertStep(t, E)
  PROVE  \A h \in E : /\ h \in Frames /\ h \in AllFrames /\ ~Hot(h) /\ h \in Cool /\ lock[h] = "write"
                      /\ h # victim[t] /\ h # par[t]
<1>1. E \subseteq Cool
  BY Zenon DEF InsertStep
<1>2. victim[t] \notin Cool /\ par[t] \notin Cool
  BY InserterHolds, Zenon
<1>3. \A h \in Cool : h \in Frames /\ ~Hot(h) /\ h \in AllFrames
  BY CoolingIsTidy, Zenon DEF Hot, AllFrames
<1>4. \A h \in Cool : lock[h] = "write"
  BY <1>3, Zenon DEF Sound, Latches
<1> QED BY <1>1, <1>2, <1>3, <1>4, Zenon

(* The sampler's own state. *)
LEMMA InserterKeeps ==
  ASSUME Sound, NEW t \in Threads, NEW E, InsertStep(t, E)
  PROVE  /\ OthersStay(t) /\ RolesStay(t) /\ KeepsAnswers(t) /\ Placed(t)' /\ Sampled(t)' /\ Answered(t)'
         /\ IoLatch'[t] = IoLatch[t] /\ Loading'[t] = Loading[t] /\ ThreadTypes'
         /\ Writing' = Writing /\ Stale' = Stale /\ \A h \in Frames : h \in Unhung /\ h # victim[t] => h \in Unhung'
<1>0. ThreadTypes /\ PoolTypes /\ Placed(t) /\ Answered(t)
  BY Zenon DEF Sound, TypeOK, Places, Served
<1>1. /\ pc[t] = "sample_insert"
      /\ local' = [local EXCEPT ![t] = @ \cup E]
      /\ par' = [par EXCEPT ![t] = Null] /\ victim' = [victim EXCEPT ![t] = Null]
      /\ todo' = [todo EXCEPT ![t] = @ - 1]
      /\ pc' = [pc EXCEPT ![t] = IF todo[t] = 1 THEN ret[t] ELSE "sample"]
      /\ ret' = IF todo[t] = 1 THEN [ret EXCEPT ![t] = "lock"] ELSE ret
      /\ UNCHANGED <<remote, current, op, goal, val, cur, seen, frame>>
  BY Zenon DEF InsertStep, SamplerMoves
<1>2. /\ par'[t] = Null /\ victim'[t] = Null /\ todo'[t] = todo[t] - 1
      /\ pc'[t] = (IF todo[t] = 1 THEN ret[t] ELSE "sample")
      /\ ret'[t] = (IF todo[t] = 1 THEN "lock" ELSE ret[t])
  BY <1>0, <1>1, Zenon DEF ThreadTypes
<1>3. ret[t] \in {"lock", "retry_empty"} /\ todo[t] \in 1..NumSample /\ NumSample \in Nat
  <2>1. todo[t] \in 0..NumSample /\ todo[t] >= 1 /\ ret[t] \in {"lock", "retry_empty"}
    BY <1>0, <1>1, Zenon DEF Placed, ThreadTypes, Sampling
  <2> QED BY <2>1, BufferPoolAssumption
<1>4. todo'[t] \in 0..NumSample /\ (todo[t] # 1 => todo'[t] >= 1)
  BY <1>2, <1>3
<1>5. /\ pc'[t] \in {"lock", "retry_empty", "sample"}
      /\ pc'[t] = "sample" => todo'[t] >= 1
      /\ ret'[t] = "retry_empty" => pc'[t] = "sample"
      /\ ret'[t] \in {"lock", "retry_empty"}
      /\ (pc'[t] = "retry_empty" \/ (pc'[t] = "sample" /\ ret'[t] = "retry_empty")) <=> ret[t] = "retry_empty"
  <2>1. CASE todo[t] = 1
    BY <1>2, <1>3, <2>1, Zenon
  <2>2. CASE todo[t] # 1
    BY <1>2, <1>3, <1>4, <2>2, Zenon
  <2> QED BY <2>1, <2>2, Zenon
<1>6. OthersStay(t)
  BY <1>0, <1>1, Zenon DEF ThreadTypes, PoolTypes, OthersStay
<1>7. RolesStay(t) /\ KeepsAnswers(t)
  BY <1>1, <1>6, OthersKeepRoles, SameAnswers, Zenon
<1>8. IoLatch'[t] = IoLatch[t] /\ Loading'[t] = Loading[t]
  <2>1. Serves(t) <=> ret[t] = "retry_empty"
    BY <1>1, Zenon DEF Serves, ServePCs, Sampling
  <2>2. Serves(t)' <=> ret[t] = "retry_empty"
    BY <1>5, Zenon DEF Serves, ServePCs, Sampling
  <2>3. Holds(t)' <=> Holds(t)
    BY <1>1, <1>5, <2>1, <2>2, Zenon DEF Holds
  <2> QED BY <1>1, <2>1, <2>2, <2>3, Zenon DEF IoLatch, Loading, Missing, Next_page
<1>9. Placed(t)' /\ Sampled(t)'
  <2>1. goal[t] \in Leaves /\ val[t] \in Values /\ frame[t] = Null
    BY <1>0, <1>1, Zenon DEF Placed
  <2>2. /\ pc'[t] # "exited" /\ pc'[t] # "idle" /\ pc'[t] \notin {"read", "swizzle"} /\ ~Latched(t)'
        /\ pc'[t] # "sample_parent" /\ pc'[t] \notin {"remote_read", "remote_write", "rpc", "invalidate"}
        /\ (pc'[t] \in Sampling => pc'[t] = "sample") /\ "sample" \in Sampling
    BY <1>5, Zenon DEF Latched, Sampling
  <2>3. Placed(t)'
    BY <1>1, <1>2, <1>5, <2>1, <2>2, Zenon DEF Placed, Latched
  <2> QED BY <1>2, <2>3, Zenon DEF Sampled
<1>10. Answered(t)'
  BY <1>0, <1>1, <1>5, <1>8, Zenon DEF Answered
<1>11. ThreadTypes'
  <2>1. pc' \in [Threads -> PCs]
    BY <1>0, <1>1, <1>3, Zenon DEF ThreadTypes, PCs
  <2>2. todo' \in [Threads -> 0..NumSample]
    BY <1>0, <1>1, <1>2, <1>4, Zenon DEF ThreadTypes
  <2>3. ret' \in [Threads -> {"lock", "retry_empty"}]
    BY <1>0, <1>1, Zenon DEF ThreadTypes
  <2> QED BY <1>0, <1>1, <2>1, <2>2, <2>3, Zenon DEF ThreadTypes
<1>12. Stale' = Stale /\ Writing' = Writing
  <2>1. Stale' = Stale
    BY <1>1, <1>5, <1>6, SameStale, Zenon
  <2>2. pc[t] # "sample_write" /\ pc'[t] # "sample_write"
    BY <1>1, <1>5, Zenon
  <2>3. Writing' = Writing
    BY <1>6, <2>2 DEF Writing, OthersStay
  <2> QED BY <2>1, <2>3, Zenon
<1>13. ASSUME NEW h \in Frames, h \in Unhung, h # victim[t] PROVE h \in Unhung'
  <2>1. PICK u \in Threads : victim[u] = h /\ Latched(u)
    BY <1>13, Zenon DEF Unhung
  <2>2. u # t
    BY <1>13, <2>1, Zenon
  <2> QED BY <1>6, <2>1, <2>2, Zenon DEF Unhung, Latched, OthersStay
<1> QED BY <1>6, <1>7, <1>8, <1>9, <1>10, <1>11, <1>12, <1>13, Zenon

LEMMA InsertKeepsTree ==
  ASSUME Sound, NEW t \in Threads, NEW E, InsertStep(t, E) PROVE Tree' /\ Table'
<1> DEFINE v == victim[t]
<1>0. Tree /\ Table /\ FrameTypes
  BY Zenon DEF Sound, TypeOK
<1>1. /\ \A d \in Pages : table'[d] = IF table[d] \in E THEN Null ELSE table[d]
      /\ \A h \in Frames : pos_state'[h] = IF h = v THEN "cool" ELSE IF h \in E THEN "local" ELSE pos_state[h]
      /\ \A h \in Frames : page'[h] = IF h \in E THEN Null ELSE page[h]
      /\ \A h : h \in Cool' <=> h = v \/ (h \in Cool /\ h \notin E)
  BY Zenon DEF InsertStep, Chills
<1>2. children' = children /\ parent_ptr' = parent_ptr /\ dirty' = dirty
  BY Zenon DEF InsertStep, SamplerMoves
<1>3. /\ v \in Frames /\ v # Null /\ Hot(v) /\ parent_ptr[v] = Null /\ ~dirty[v]
      /\ \A c \in Pages : children[v][c] = Null
  <2>1. /\ v \in Frames /\ Hot(v) /\ parent_ptr[v] = Null /\ ~dirty[v]
        /\ \A c \in Pages : children[v][c] = Null
    BY InserterHolds, Zenon
  <2> QED BY <2>1, BufferPoolAssumption, Zenon
<1>4. \A h \in E : h \in Frames /\ ~Hot(h)
  BY RoomIsCold, Zenon
<1>5. \A h \in Frames : h \in Unhung /\ h # v => h \in Unhung'
  BY InserterKeeps, Zenon
<1>6. Null \notin Frames
  BY BufferPoolAssumption, Zenon
<1> HIDE DEF v
<1>7. \A h \in Frames : Hot(h) /\ h # v => pos_state'[h] = "hot" /\ page'[h] = page[h] /\ h \notin E
  BY <1>1, <1>4, Zenon DEF Hot
<1>8. \A h \in Frames : pos_state'[h] = "hot" => Hot(h) /\ h # v
  BY <1>1, <1>4, Zenon DEF Hot
<1>9. ASSUME NEW f \in AllFrames, NEW d \in Pages, children'[f][d] # Null
      PROVE  /\ parent_ptr'[children'[f][d]] = f /\ page'[children'[f][d]] = d /\ Hot(children[f][d])'
             /\ (f # Root => Hot(f)') /\ Below(f, d)'
  <2>1. children[f][d] # Null /\ children'[f][d] = children[f][d]
    BY <1>2, <1>9, Zenon
  <2>2. children[f][d] \in Frames /\ (f # Root => f \in Frames) /\ f # Null
    BY <1>0, <2>1, BufferPoolAssumption DEF FrameTypes, AllFrames
  <2>3. /\ parent_ptr[children[f][d]] = f /\ page[children[f][d]] = d /\ Hot(children[f][d])
        /\ (f # Root => Hot(f)) /\ Below(f, d)
    BY <1>0, <2>1, Zenon DEF Tree
  <2>4. f # v /\ children[f][d] # v
    BY <1>3, <2>1, <2>2, <2>3, Zenon
  <2>5. page'[children[f][d]] = d /\ pos_state'[children[f][d]] = "hot"
    BY <1>7, <2>2, <2>3, <2>4, Zenon
  <2>6. f # Root => page'[f] = page[f] /\ pos_state'[f] = "hot"
    BY <1>7, <2>2, <2>3, <2>4, Zenon
  <2> QED BY <1>2, <2>1, <2>3, <2>5, <2>6, Zenon DEF Below, Hot
<1>10. ASSUME NEW h \in Frames, parent_ptr'[h] # Null
       PROVE  page'[h] \in Pages /\ children'[parent_ptr'[h]][page'[h]] = h
  <2>1. parent_ptr[h] # Null /\ h # v
    BY <1>2, <1>3, <1>10, Zenon
  <2>2. Hot(h)
    BY <2>1, ColdHangsNowhere, Zenon
  <2>3. page'[h] = page[h]
    BY <1>7, <2>1, <2>2, Zenon
  <2> QED BY <1>0, <1>2, <2>1, <2>3, Zenon DEF Tree
<1>11. Tree'
  BY <1>9, <1>10, Zenon DEF Tree, Hot
<1>12. ASSUME NEW h \in Frames, Hot(h)'
       PROVE  page'[h] \in Pages /\ table'[page'[h]] = h /\ (parent_ptr'[h] # Null \/ h \in Unhung')
  <2>1. Hot(h) /\ h # v
    BY <1>8, <1>12, Zenon DEF Hot
  <2>2. page'[h] = page[h] /\ h \notin E
    BY <1>7, <2>1, Zenon
  <2>3. page[h] \in Pages /\ table[page[h]] = h /\ (parent_ptr[h] # Null \/ h \in Unhung)
    BY <1>0, <2>1, Zenon DEF Table
  <2>4. table'[page[h]] = h
    BY <1>1, <2>2, <2>3, Zenon
  <2> QED BY <1>2, <1>5, <2>1, <2>2, <2>3, <2>4, Zenon
<1>13. ASSUME NEW d \in Pages, table'[d] \in Frames
       PROVE  page'[table'[d]] = d /\ (Hot(table[d])' \/ table'[d] \in Cool')
  <2>1. table'[d] = table[d] /\ table[d] \notin E
    BY <1>1, <1>6, <1>13, Zenon
  <2>2. page[table[d]] = d /\ (Hot(table[d]) \/ table[d] \in Cool)
    BY <1>0, <1>13, <2>1, Zenon DEF Table
  <2>3. page'[table[d]] = d
    BY <1>1, <1>13, <2>1, <2>2, Zenon
  <2>4. pos_state'[table[d]] = "hot" \/ table[d] \in Cool'
    BY <1>1, <1>7, <1>13, <2>1, <2>2, Zenon
  <2> QED BY <2>1, <2>3, <2>4, Zenon DEF Hot
<1>14. ASSUME NEW h \in Frames, dirty'[h] PROVE Hot(h)' /\ page'[h] \in Leaves
  <2>1. Hot(h) /\ page[h] \in Leaves /\ h # v
    BY <1>0, <1>2, <1>3, <1>14, Zenon DEF Table
  <2>2. pos_state'[h] = "hot" /\ page'[h] = page[h]
    BY <1>7, <2>1, Zenon
  <2> QED BY <2>1, <2>2, Zenon DEF Hot
<1>15. Table'
  BY <1>12, <1>13, <1>14, Zenon DEF Table, Hot
<1> QED BY <1>11, <1>15, Zenon

LEMMA InsertKeepsLatches ==
  ASSUME Sound, NEW t \in Threads, NEW E, InsertStep(t, E)
  PROVE  Latches' /\ NotTheirs(t, {victim[t], par[t]} \cup E) /\ Versioned'
<1> DEFINE v == victim[t]
           p == par[t]
           W == {v, p} \cup E
<1>0. Latches /\ Versioned /\ ThreadTypes /\ PoolTypes
  BY Zenon DEF Sound, TypeOK
<1>1. /\ \A h \in Frames : pos_state'[h] = IF h = v THEN "cool" ELSE IF h \in E THEN "local" ELSE pos_state[h]
      /\ \A h \in AllFrames : lock'[h] = IF h = p THEN "free" ELSE lock[h]
      /\ \A h : h \in Cool' <=> h = v \/ (h \in Cool /\ h \notin E)
      /\ E \subseteq Cool
  BY Zenon DEF InsertStep, Chills
<1>2. /\ v \in AllFrames /\ v \in Held[t] /\ lock[v] = "write" /\ v \notin Cool /\ v \notin local[t]
      /\ p \in AllFrames /\ p # v /\ p \in Held[t] /\ lock[p] = "write" /\ p \notin Cool /\ p \notin local[t]
      /\ frame[t] = Null
      /\ \A h \in AllFrames : h \in Held[t] <=> h \in {v, p} \/ h \in local[t]
  BY InserterHolds, Zenon
<1>3. \A h \in E : h \in AllFrames /\ h \in Cool /\ lock[h] = "write" /\ h # v /\ h # p
  BY RoomIsCold, Zenon
<1>4. RolesStay(t) /\ IoLatch'[t] = IoLatch[t] /\ Placed(t)'
  BY InserterKeeps, Zenon
<1>5. local'[t] = local[t] \cup E /\ frame'[t] = frame[t] /\ victim'[t] = Null /\ seen' = seen
  BY <1>0, Zenon DEF InsertStep, SamplerMoves, ThreadTypes, PoolTypes
<1>6. \A h \in AllFrames : h \in Held'[t] <=> h \in local[t] \/ h \in E
  <2>1. ~Latched(t)'
    BY <1>4, <1>5, Zenon DEF Placed, Latched
  <2>2. Null \notin AllFrames
    BY BufferPoolAssumption, Zenon DEF AllFrames
  <2> QED BY <1>2, <1>5, <2>1, <2>2, Zenon DEF Held
<1> HIDE DEF v, p
<1>7. W \in SUBSET AllFrames /\ \A h \in W : h \in Held[t] \/ h \in Cool
  BY <1>2, <1>3, Zenon
<1>8. NotTheirs(t, W)
  <2> HIDE DEF W
  <2> QED BY <1>0, <1>7, PrivateFrames
<1>9. IoLatch[t] \in AllFrames \cup {Null} /\ \A h \in W : lock[h] = "write" /\ IoLatch[t] # h
  <2>1. IoLatch[t] \in AllFrames \cup {Null}
    BY <1>0, Zenon DEF IoLatch, ThreadTypes
  <2>2. \A h \in W : lock[h] = "write" /\ h \in AllFrames
    BY <1>2, <1>3, Zenon
  <2>3. \A h \in AllFrames : lock[h] = "write" => IoLatch[t] # h
    BY <1>0, Zenon DEF Latches
  <2> QED BY <2>1, <2>2, <2>3, Zenon
<1>10. SameLatch(t, W)
  <2> SUFFICES ASSUME NEW h \in AllFrames, h # v, h # p, h \notin E
               PROVE  /\ lock'[h] = lock[h] /\ (h \in Cool' <=> h \in Cool)
                      /\ (h \in Held'[t] <=> h \in Held[t]) /\ (IoLatch'[t] = h <=> IoLatch[t] = h)
    BY Zenon DEF SameLatch
  <2>1. lock'[h] = lock[h] /\ (h \in Cool' <=> h \in Cool)
    BY <1>1, Zenon
  <2>2. h \in Held'[t] <=> h \in Held[t]
    BY <1>2, <1>6, Zenon
  <2> QED BY <1>4, <2>1, <2>2, Zenon
<1>11. OwnLatch(t, W)
  <2>1. ASSUME NEW h \in W
        PROVE  /\ lock'[h] = "write" <=> h \in Cool' \/ h \in Held'[t]
               /\ ~(h \in Cool' /\ h \in Held'[t])
    <3>1. CASE h = v
      BY <1>1, <1>2, <1>3, <1>6, <3>1, Zenon
    <3>2. CASE h = p
      BY <1>1, <1>2, <1>3, <1>6, <3>2, Zenon
    <3>3. CASE h \in E
      BY <1>1, <1>3, <1>6, <3>3, Zenon
    <3> QED BY <3>1, <3>2, <3>3, Zenon
  <2>2. ASSUME NEW h \in W PROVE lock'[h] # "IO" /\ IoLatch'[t] # h
    <3>1. lock[h] = "write" /\ IoLatch[t] # h /\ h \in AllFrames
      BY <1>7, <1>9, Zenon
    <3> QED BY <1>1, <1>4, <3>1, Zenon
  <2> QED BY <2>1, <2>2, Zenon DEF OwnLatch
<1>12. Latches'
  <2> HIDE DEF W
  <2> QED BY <1>0, <1>4, <1>8, <1>9, <1>10, <1>11, MovedLatches, Zenon
<1>13. Versioned'
  <2> SUFFICES ASSUME NEW u \in Threads, NEW h \in AllFrames, seen[u][h] # "none"
               PROVE  lock'[h] # "write" /\ (h # Root => pos_state'[h] = "hot")
    BY <1>5, Zenon DEF Versioned, Hot
  <2>1. lock[h] # "write" /\ (h # Root => Hot(h))
    BY <1>0, Zenon DEF Versioned
  <2>2. h # v /\ h \notin E
    BY <1>2, <1>3, <2>1, Zenon
  <2> QED BY <1>1, <2>1, <2>2, Zenon DEF Hot, AllFrames
<1> QED BY <1>8, <1>12, <1>13, Zenon DEF v, p

LEMMA InsertStepIsSound ==
  ASSUME Sound, NEW t \in Threads, NEW E, InsertStep(t, E), FrameTypes', PoolTypes', Cooled', Flags', Data'
  PROVE  Sound'
<1> DEFINE v == victim[t]
           p == par[t]
           W == {v, p} \cup E
<1>0. Versioned /\ ThreadTypes /\ PoolTypes /\ Headed(t) /\ Positioned(t)
  BY Zenon DEF Sound, TypeOK, OnTheWay, Positions
<1>1. /\ \A h \in Frames : pos_state'[h] = IF h = v THEN "cool" ELSE IF h \in E THEN "local" ELSE pos_state[h]
      /\ \A h \in Frames : page'[h] = IF h \in E THEN Null ELSE page[h]
      /\ \A h \in Frames : h \notin E => content'[h] = content[h]
  BY Zenon DEF InsertStep, Chills
<1>2. /\ children' = children /\ parent_ptr' = parent_ptr /\ dirty' = dirty /\ cur' = cur /\ goal' = goal
      /\ seen' = seen /\ frame' = frame /\ pc[t] = "sample_insert"
  BY Zenon DEF InsertStep, SamplerMoves
<1>3. /\ v \in Frames /\ v \in AllFrames /\ lock[v] = "write" /\ frame[t] = Null /\ Hot(v)
      /\ p \in AllFrames /\ lock[p] = "write" /\ v \notin local[t]
  BY InserterHolds, Zenon
<1>4. \A h \in E : h \in Frames /\ h \in AllFrames /\ lock[h] = "write" /\ ~Hot(h)
  BY RoomIsCold, Zenon
<1>5. /\ OthersStay(t) /\ KeepsAnswers(t) /\ Placed(t)' /\ Sampled(t)' /\ Answered(t)'
      /\ IoLatch'[t] = IoLatch[t] /\ ThreadTypes'
  BY InserterKeeps, Zenon
<1>6. Latches' /\ NotTheirs(t, W) /\ Versioned' /\ Tree' /\ Table'
  BY InsertKeepsLatches, InsertKeepsTree, Zenon
<1>7. local'[t] = local[t] \cup E /\ local[t] \subseteq Frames
  BY <1>0, Zenon DEF InsertStep, SamplerMoves, PoolTypes
<1> HIDE DEF v, p
<1>8. Step(t, W)
  <2>1. W \in SUBSET AllFrames /\ \A h \in W : lock[h] = "write"
    BY <1>3, <1>4, Zenon
  <2>2. Untouched(W)
    BY <1>1, <1>2, Zenon DEF Untouched
  <2> HIDE DEF W
  <2> QED BY <1>2, <1>5, <1>6, <2>1, <2>2, Zenon DEF Step
<1>9. Headed(t)'
  <2>1. cur[t] \in AllFrames /\ (cur[t] # Root => cur[t] \in Frames)
    BY <1>0, Zenon DEF ThreadTypes, AllFrames
  <2>2. cur[t] # Root /\ seen[t][cur[t]] # "none" => page'[cur[t]] = above[goal[t]]
    <3>1. cur[t] # Root /\ seen[t][cur[t]] # "none" => Hot(cur[t]) /\ page[cur[t]] = above[goal[t]]
      BY <1>0, <1>2, <2>1, Zenon DEF Headed, Versioned
    <3> QED BY <1>1, <1>4, <2>1, <3>1, Zenon
  <2>3. cur[t] # Root /\ IoLatch[t] # Null => pos_state'[cur[t]] = "hot" /\ page'[cur[t]] = above[goal[t]]
    <3>1. cur[t] # Root /\ IoLatch[t] # Null => Hot(cur[t]) /\ page[cur[t]] = above[goal[t]]
      BY <1>0, Zenon DEF Headed
    <3>2. IoLatch[t] # Null => cur[t] # v
      <4>1. IoLatch[t] # Null => lock[cur[t]] = "IO"
        <5>1. IoLatch[t] # Null => IoLatch[t] = cur[t]
          BY Zenon DEF IoLatch
        <5> QED BY <2>1, <5>1, Zenon DEF Sound, Latches
      <4> QED BY <1>3, <4>1, Zenon
    <3> QED BY <1>1, <1>4, <2>1, <3>1, <3>2, Zenon DEF Hot
  <2> QED BY <1>2, <1>5, <2>2, <2>3, Zenon DEF Headed, Hot
<1>10. Positions'
  <2>1. Positioned(t)'
    <3>1. \A h \in local'[t] : pos_state'[h] = "local"
      <4>1. ASSUME NEW h \in local[t] PROVE pos_state'[h] = "local"
        BY <1>0, <1>1, <1>3, <1>7, Zenon DEF Positioned
      <4>2. ASSUME NEW h \in E PROVE pos_state'[h] = "local"
        BY <1>1, <1>3, <1>4, Zenon
      <4> QED BY <1>7, <4>1, <4>2, Zenon
    <3> QED BY <1>2, <1>3, <3>1, Zenon DEF Positioned
  <2> HIDE DEF W
  <2> QED BY <1>8, <2>1, OthersKeepPositions, Zenon
<1>11. TypeOK' /\ Mine(t)'
  BY <1>5, <1>9, Zenon DEF TypeOK, Mine
<1> HIDE DEF W
<1> QED BY <1>6, <1>8, <1>10, <1>11, OthersFollow, Zenon DEF Sound

(* The bucket after an insertion. *)
LEMMA CoolingTakesIn ==
  ASSUME Sound, NEW v \in Frames, v \notin Cool, NEW b \in Buckets, NEW m, NEW E,
         m \in [Buckets -> Seq(Frames)], Tidy(m, pos_state', page'), Front(m, cooling', b, v),
         Fits(v, b, pos_state', page'), \A h : h \in Entries(m) <=> h \in Entries(cooling) /\ h \notin E,
         Len(m[b]) < CoolSize, \A e \in Buckets \ {b} : m[e] = cooling[e]
  PROVE  /\ cooling' \in [Buckets -> Seq(Frames)] /\ \A e \in Buckets : Len(cooling'[e]) <= CoolSize
         /\ Cooled' /\ \A h : h \in Cool' <=> h = v \/ (h \in Cool /\ h \notin E)
<1>1. Cool' = Entries(cooling') /\ Cool = Entries(cooling)
  BY Zenon DEF Cool, Entries
<1>2. v \notin Entries(m)
  BY <1>1, Zenon
<1>3. SameIn(Entries(m), pos_state', page', pos_state', page')
  BY Zenon DEF SameIn
<1>4. /\ cooling' \in [Buckets -> Seq(Frames)] /\ Tidy(cooling', pos_state', page')
      /\ Gains(m, cooling', b, v)
  BY <1>2, <1>3, InsertIsTidy, Zenon
<1>5. /\ Len(cooling'[b]) = Len(m[b]) + 1 /\ \A e \in Buckets \ {b} : cooling'[e] = m[e]
      /\ \A h : h \in Entries(cooling') <=> h \in Entries(m) \/ h = v
  BY <1>4, Zenon DEF Gains
<1>6. \A e \in Buckets : Len(cooling'[e]) <= CoolSize
  <2>1. Len(m[b]) \in Nat /\ CoolSize \in Nat
    <3>1. m[b] \in Seq(Frames)
      BY Zenon
    <3> QED BY <3>1, BufferPoolAssumption
  <2>2. Len(cooling'[b]) <= CoolSize
    BY <1>5, <2>1
  <2>3. \A e \in Buckets : Len(cooling[e]) <= CoolSize
    BY Zenon DEF Sound, TypeOK, PoolTypes
  <2> QED BY <1>5, <2>2, <2>3, Zenon
<1> QED BY <1>1, <1>4, <1>5, <1>6, Zenon DEF Cooled

LEMMA FrontOfRemoved ==
  ASSUME NEW c \in [Buckets -> Seq(Frames)], NEW m, NEW d, NEW b \in Buckets, NEW i, NEW v,
         m = [c EXCEPT ![b] = remove(@, i)], d = [c EXCEPT ![b] = <<v>> \o remove(@, i)]
  PROVE  Front(m, d, b, v)
  BY DEF Front

LEMMA hash_insertIsSound ==
  ASSUME Sound, NEW t \in Threads, hash_insert(t) PROVE Sound'
<1> DEFINE v == victim[t]
           p == par[t]
           b == hash[page[v]]
           full == Len(cooling[b]) = CoolSize
           last == evict_last(b)
           E == IF full THEN {last} ELSE {}
<1>0. /\ FrameTypes /\ PoolTypes /\ ThreadTypes /\ Placed(t) /\ Latches
  BY Zenon DEF Sound, TypeOK, Places
<1>1. /\ pc[t] = "sample_insert"
      /\ cooling' = [cooling EXCEPT ![b] = <<v>> \o (IF full THEN remove(@, CoolSize) ELSE @)]
      /\ table' = IF full THEN Uncache(last) ELSE table
      /\ local' = IF full THEN [local EXCEPT ![t] = @ \cup {last}] ELSE local
      /\ pos_state' = [f \in Frames |-> IF f = v THEN "cool"
                                        ELSE IF full /\ f = last THEN "local" ELSE pos_state[f]]
      /\ page' = [f \in Frames |-> IF f \in E THEN Null ELSE page[f]]
      /\ content' = [f \in Frames |-> IF f \in E THEN Null ELSE content[f]]
      /\ lock' = [lock EXCEPT ![p] = "free"]
  BY Zenon DEF hash_insert, Forget
<1>2. /\ par' = [par EXCEPT ![t] = Null] /\ victim' = [victim EXCEPT ![t] = Null]
      /\ todo' = [todo EXCEPT ![t] = @ - 1]
      /\ pc' = [pc EXCEPT ![t] = IF todo[t] = 1 THEN ret[t] ELSE "sample"]
      /\ ret' = IF todo[t] = 1 THEN [ret EXCEPT ![t] = "lock"] ELSE ret
      /\ UNCHANGED <<dirty, children, parent_ptr, remote, current, op, goal, val, cur, seen, frame>>
  BY Zenon DEF hash_insert, Go
<1>3. v # Null /\ p \in AllFrames
  BY <1>0, <1>1, Zenon DEF Placed, Latched
<1>4. v \in Frames /\ v \in Held[t] /\ page[v] \in Pages
  BY <1>3, VictimIsHeld, Zenon
<1>5. v \notin Cool /\ b \in Buckets
  <2>1. v \notin Cool
    BY <1>0, <1>4, Zenon DEF Latches
  <2> QED BY <1>4, <2>1, BufferPoolAssumption, Zenon DEF Pages
<1>6. /\ cooling \in [Buckets -> Seq(Frames)] /\ cooling[b] \in Seq(Frames)
      /\ Len(cooling[b]) <= CoolSize /\ CoolSize \in Nat \ {0}
  BY <1>0, <1>5, BufferPoolAssumption, Zenon DEF PoolTypes
<1>7. full => /\ cooling[b] # <<>> /\ last \in Cool /\ last \in Frames /\ ~Hot(last)
              /\ CoolSize \in 1..Len(cooling[b]) /\ last = cooling[b][CoolSize]
  <2> SUFFICES ASSUME full
               PROVE  /\ cooling[b] # <<>> /\ last \in Cool /\ last \in Frames /\ ~Hot(last)
                      /\ CoolSize \in 1..Len(cooling[b]) /\ last = cooling[b][CoolSize]
    BY Zenon
  <2>1. cooling[b] # <<>>
    BY <1>6
  <2>2. /\ Len(cooling[b]) \in 1..Len(cooling[b]) /\ last = cooling[b][Len(cooling[b])]
        /\ last \in Cool /\ last \in Frames /\ ~Hot(last)
    BY <1>5, <2>1, LastIsCool, Zenon
  <2> QED BY <2>1, <2>2, Zenon
<1>v. page[v] \in Pages /\ hash[page[v]] = b
  BY <1>4, Zenon
<1>u. full => table' = Uncache(last)
  BY <1>1, Zenon
<1> HIDE DEF v, p, b, last
<1>8. E \subseteq Cool /\ \A h : h \in E <=> full /\ h = last
  BY <1>7, Zenon
<1>9. /\ \A d \in Pages : table'[d] = IF table[d] \in E THEN Null ELSE table[d]
      /\ table' \in [Pages -> Frames \cup {Null, IO_FLAG}]
  <2>1. CASE full
    BY <1>0, <1>1, <1>8, <2>1, Zenon DEF Uncache, PoolTypes
  <2>2. CASE ~full
    BY <1>0, <1>1, <1>8, <2>2, Zenon DEF PoolTypes
  <2> QED BY <2>1, <2>2, Zenon
<1>10. local' = [local EXCEPT ![t] = @ \cup E] /\ local' \in [Threads -> SUBSET Frames]
  <2>1. CASE full
    BY <1>0, <1>1, <1>7, <2>1, Zenon DEF PoolTypes
  <2>2. CASE ~full
    BY <1>0, <1>1, <2>2 DEF PoolTypes
  <2> QED BY <2>1, <2>2, Zenon
<1>s. SamplerMoves(t, E)
  BY <1>1, <1>2, <1>10, Zenon DEF SamplerMoves
<1> HIDE DEF E
<1>11. /\ \A h \in Frames : pos_state'[h] = IF h = v THEN "cool" ELSE IF h \in E THEN "local" ELSE pos_state[h]
       /\ \A h \in Frames : page'[h] = IF h \in E THEN Null ELSE page[h]
       /\ \A h \in Frames : h \notin E => content'[h] = content[h]
       /\ \A h \in AllFrames : lock'[h] = IF h = p THEN "free" ELSE lock[h]
  <2>1. \A h \in Frames : pos_state'[h] = IF h = v THEN "cool" ELSE IF h \in E THEN "local" ELSE pos_state[h]
    BY <1>1, <1>8, Zenon
  <2>2. /\ \A h \in Frames : page'[h] = IF h \in E THEN Null ELSE page[h]
        /\ \A h \in Frames : h \notin E => content'[h] = content[h]
    BY <1>1, Zenon
  <2>3. \A h \in AllFrames : lock'[h] = IF h = p THEN "free" ELSE lock[h]
    BY <1>0, <1>1, Zenon DEF FrameTypes
  <2> QED BY <2>1, <2>2, <2>3, Zenon
<1>12. FrameTypes'
  <2>1. pos_state' \in [Frames -> PosStates]
    BY <1>0, <1>1, Zenon DEF FrameTypes, PosStates
  <2>2. page' \in [Frames -> Pages \cup {Null}] /\ content' \in [Frames -> Values \cup {Null, Torn}]
    BY <1>0, <1>1, Zenon DEF FrameTypes
  <2>3. lock' \in [AllFrames -> {"free", "IO", "write"}]
    BY <1>0, <1>1, Zenon DEF FrameTypes
  <2> QED BY <1>0, <1>2, <2>1, <2>2, <2>3, Zenon DEF FrameTypes
<1>13. Fits(v, b, pos_state', page')
  <2>1. v \notin E
    BY <1>5, <1>8, Zenon
  <2> QED BY <1>4, <1>v, <1>11, <2>1, Zenon DEF Fits
<1>14. /\ cooling' \in [Buckets -> Seq(Frames)] /\ \A e \in Buckets : Len(cooling'[e]) <= CoolSize
       /\ Cooled' /\ \A h : h \in Cool' <=> h = v \/ (h \in Cool /\ h \notin E)
  <2>0. Cool = Entries(cooling) /\ Tidy(cooling, pos_state, page) /\ \A h \in Cool : h \in Frames
    BY CoolingIsTidy, Zenon
  <2>1. \A h \in Cool : h \notin E => pos_state'[h] = pos_state[h] /\ page'[h] = page[h]
    BY <1>5, <1>11, <2>0, Zenon
  <2>2. CASE full
    <3> DEFINE m == [cooling EXCEPT ![b] = remove(@, CoolSize)]
    <3>1. Removed(cooling, m, b, CoolSize)
      BY Zenon DEF Removed
    <3>2. Front(m, cooling', b, v)
      <4>1. cooling' = [cooling EXCEPT ![b] = <<v>> \o remove(@, CoolSize)]
        BY <1>1, <2>2, Zenon
      <4> QED BY <1>5, <1>6, <4>1, FrontOfRemoved, Zenon
    <3> HIDE DEF m
    <3>3. SameIn(Entries(cooling) \ {cooling[b][CoolSize]}, pos_state, page, pos_state', page')
      BY <1>7, <1>8, <2>0, <2>1, <2>2, Zenon DEF SameIn
    <3>4. CoolSize \in 1..Len(cooling[b])
      BY <1>7, <2>2, Zenon
    <3>5. /\ m \in [Buckets -> Seq(Frames)] /\ Tidy(m, pos_state', page')
          /\ Loses(cooling, m, b, cooling[b][CoolSize])
      BY <1>5, <1>6, <2>0, <3>1, <3>3, <3>4, RemoveIsTidy, Zenon
    <3>6. /\ Len(m[b]) = Len(cooling[b]) - 1 /\ \A e \in Buckets \ {b} : m[e] = cooling[e]
          /\ \A h : h \in Entries(m) <=> h \in Entries(cooling) /\ h # cooling[b][CoolSize]
      BY <3>5, Zenon DEF Loses
    <3>7. Len(m[b]) < CoolSize
      BY <1>6, <2>2, <3>6
    <3>8. \A h : h \in Entries(m) <=> h \in Entries(cooling) /\ h \notin E
      BY <1>7, <1>8, <2>2, <3>6, Zenon
    <3> QED BY <1>4, <1>5, <1>13, <3>2, <3>5, <3>6, <3>7, <3>8, CoolingTakesIn, Zenon
  <2>3. CASE ~full
    <3>1. Front(cooling, cooling', b, v)
      BY <1>1, <2>3, Zenon DEF Front
    <3>2. SameIn(Entries(cooling), pos_state, page, pos_state', page')
      BY <1>8, <2>0, <2>1, <2>3, Zenon DEF SameIn
    <3>3. Tidy(cooling, pos_state', page')
      BY <1>6, <2>0, <3>2, TidyStays, Zenon
    <3>4. Len(cooling[b]) < CoolSize
      BY <1>6, <2>3
    <3>5. \A h : h \in Entries(cooling) <=> h \in Entries(cooling) /\ h \notin E
      BY <1>8, <2>3, Zenon
    <3> QED BY <1>4, <1>5, <1>6, <1>13, <3>1, <3>3, <3>4, <3>5, CoolingTakesIn, Zenon
  <2> QED BY <2>2, <2>3, Zenon
<1>15. PoolTypes'
  BY <1>0, <1>2, <1>9, <1>10, <1>14, Zenon DEF PoolTypes
<1>16. InsertStep(t, E)
  BY <1>8, <1>9, <1>s, <1>11, <1>14, Zenon DEF InsertStep, Chills, v, p
<1>17. Flags' /\ Data'
  <2>1. /\ RolesStay(t) /\ Loading'[t] = Loading[t] /\ Writing' = Writing /\ Stale' = Stale
    BY <1>16, InserterKeeps, Zenon
  <2>2. dirty' = dirty /\ remote' = remote /\ current' = current
    BY <1>2, Zenon
  <2>3. CASE full
    BY <1>7, <1>u, <1>8, <1>11, <2>1, <2>2, <2>3, UncacheKeeps, Zenon
  <2>4. CASE ~full
    <3>1. content' = content
      BY <1>0, <1>1, <1>8, <2>4, Zenon DEF FrameTypes
    <3> QED BY <1>1, <2>1, <2>2, <2>4, <3>1, SameFlags, SameData, Zenon DEF Sound
  <2> QED BY <2>3, <2>4, Zenon
<1> QED BY <1>12, <1>14, <1>15, <1>16, <1>17, InsertStepIsSound, Zenon

-----------------------------------------------------------------------------
(* The steps of the process of BufferPool's Next, by thread. *)
Steps(t) ==
  \/ \E l \in Updated, v \in Values : begin(t, "update", l, v)
  \/ \E l \in Leaves : begin(t, "lookup", l, InitValue)
  \/ restart(t) \/ descend(t) \/ new_get_mem_node(t) \/ upgradeToIOLock(t)
  \/ lookup(t) \/ update(t)
  \/ \E f \in Frames : sample_page(t, f) \/ allocate(t, f) \/ get_local_page_set(t, f)
  \/ sample_next(t) \/ unswizzle(t) \/ sample_write(t) \/ hash_insert(t)
  \/ insert_io_flag(t) \/ cache_get_restart(t) \/ promote(t)
  \/ (\E b \in Buckets : evict(t, b)) \/ evict_nothing(t) \/ no_page(t) \/ cold_to_hot_fail(t)
  \/ remote_to_cache(t) \/ cold_to_hot(t)
  \/ admission_read(t) \/ admission_write(t)
  \/ rpc(t) \/ check_and_remove(t) \/ drop_flag(t)

LEMMA NextIsAStep ==
  ASSUME Next
  PROVE  (\E t \in Threads : Steps(t) \/ exit(t)) \/ reset \/ UNCHANGED vars
  BY Zenon DEF Next, Steps, Exited

LEMMA StepsAreSound ==
  ASSUME Sound, NEW t \in Threads, Steps(t) PROVE Sound'
<1>1. CASE \/ \E l \in Updated, v \in Values : begin(t, "update", l, v)
           \/ \E l \in Leaves : begin(t, "lookup", l, InitValue)
  BY <1>1, BufferPoolAssumption, beginIsSound, Zenon
<1>2. CASE restart(t) \/ descend(t) \/ new_get_mem_node(t) \/ upgradeToIOLock(t)
  BY <1>2, restartIsSound, descendIsSound, new_get_mem_nodeIsSound, upgradeToIOLockIsSound, Zenon
<1>3. CASE lookup(t) \/ update(t)
  BY <1>3, lookupIsSound, updateIsSound, Zenon
<1>4. CASE \E f \in Frames : sample_page(t, f) \/ allocate(t, f) \/ get_local_page_set(t, f)
  BY <1>4, sample_pageIsSound, allocateIsSound, get_local_page_setIsSound, Zenon
<1>5. CASE sample_next(t) \/ unswizzle(t) \/ sample_write(t) \/ hash_insert(t)
  BY <1>5, sample_nextIsSound, unswizzleIsSound, sample_writeIsSound, hash_insertIsSound, Zenon
<1>6. CASE insert_io_flag(t) \/ cache_get_restart(t) \/ promote(t)
  BY <1>6, insert_io_flagIsSound, cache_get_restartIsSound, promoteIsSound, Zenon
<1>7. CASE (\E b \in Buckets : evict(t, b)) \/ evict_nothing(t) \/ no_page(t) \/ cold_to_hot_fail(t)
  BY <1>7, evictIsSound, evict_nothingIsSound, no_pageIsSound, cold_to_hot_failIsSound, Zenon
<1>8. CASE remote_to_cache(t) \/ cold_to_hot(t)
  BY <1>8, remote_to_cacheIsSound, cold_to_hotIsSound, Zenon
<1>9. CASE admission_read(t) \/ admission_write(t)
  BY <1>9, admission_readIsSound, admission_writeIsSound, Zenon
<1>10. CASE rpc(t) \/ check_and_remove(t) \/ drop_flag(t)
  BY <1>10, rpcIsSound, check_and_removeIsSound, drop_flagIsSound, Zenon
<1> QED BY <1>1, <1>2, <1>3, <1>4, <1>5, <1>6, <1>7, <1>8, <1>9, <1>10, Zenon DEF Steps

(* A step moves its thread only, from a place that is not the end; it goes    *)
(* back to idle only by a return.                                             *)
LEMMA StepsMove ==
  ASSUME TypeOK, NEW t \in Threads, Steps(t)
  PROVE  /\ pc[t] # "exited"
         /\ \A u \in Threads \ {t} : pc'[u] = pc[u]
         /\ pc'[t] = "idle" => lookup(t) \/ update(t) \/ drop_flag(t)
<1>0. pc \in [Threads -> PCs] /\ ret[t] \in {"lock", "retry_empty"}
  BY Zenon DEF TypeOK, ThreadTypes
<1> DEFINE Moves(where) == pc[t] # "exited" /\ where # "idle" /\ pc' = [pc EXCEPT ![t] = where]
<1> DEFINE Goes == \E where : Moves(where)
<1>a. ASSUME Goes
      PROVE  pc[t] # "exited" /\ pc'[t] # "idle" /\ \A u \in Threads \ {t} : pc'[u] = pc[u]
  BY <1>0, <1>a, Zenon
<1>1. CASE \/ \E l \in Updated, v \in Values : begin(t, "update", l, v)
           \/ \E l \in Leaves : begin(t, "lookup", l, InitValue)
  <2>1. Moves("descend")
    BY <1>1, Zenon DEF begin, Again, Go
  <2> QED BY <2>1, <1>a, Zenon
<1>2. CASE restart(t) \/ descend(t)
  <2>1. Moves("descend")
    BY <1>2, Zenon DEF restart, descend, Again, Into, Go
  <2> QED BY <2>1, <1>a, Zenon
<1>3. CASE new_get_mem_node(t) \/ upgradeToIOLock(t)
  <2>1. Moves("sample") \/ Moves("lock") \/ Moves("cache_get") \/ Moves("descend")
    BY <1>3, Zenon DEF new_get_mem_node, upgradeToIOLock, Into, Go
  <2> QED BY <2>1, <1>a, Zenon
<1>4. CASE lookup(t) \/ update(t)
  BY <1>0, <1>4, Zenon DEF lookup, update, Return, Go
<1>5. CASE drop_flag(t)
  BY <1>0, <1>5, Zenon DEF drop_flag, Return, Go
<1>6. CASE \E f \in Frames : sample_page(t, f) \/ allocate(t, f) \/ get_local_page_set(t, f)
  <2>1. Moves("sample_parent") \/ Moves("read")
    BY <1>6, Zenon DEF sample_page, allocate, get_local_page_set, Hold, Go
  <2> QED BY <2>1, <1>a, Zenon
<1>7. CASE sample_next(t) \/ unswizzle(t) \/ sample_write(t)
  <2>1. Moves("sample") \/ Moves("sample_write") \/ Moves("sample_insert")
    BY <1>7, Zenon DEF sample_next, unswizzle, sample_write, Go
  <2> QED BY <2>1, <1>a, Zenon
<1>8. CASE hash_insert(t)
  <2>1. Moves(IF todo[t] = 1 THEN ret[t] ELSE "sample")
    BY <1>0, <1>8, Zenon DEF hash_insert, Go
  <2> QED BY <2>1, <1>a, Zenon
<1>9. CASE insert_io_flag(t) \/ cache_get_restart(t) \/ promote(t)
  <2>1. Moves("empty") \/ Moves("rpc") \/ Moves("remote_read") \/ Moves("descend")
    BY <1>9, Zenon DEF insert_io_flag, cache_get_restart, promote, Again, Swizzle, Into, Go
  <2> QED BY <2>1, <1>a, Zenon
<1>10. CASE (\E b \in Buckets : evict(t, b)) \/ evict_nothing(t) \/ no_page(t) \/ cold_to_hot_fail(t)
  <2>1. Moves("read") \/ Moves("sample") \/ Moves("fail") \/ Moves("descend")
    BY <1>10, Zenon DEF evict, evict_nothing, no_page, cold_to_hot_fail, Hold, Again, Go
  <2> QED BY <2>1, <1>a, Zenon
<1>11. CASE remote_to_cache(t) \/ cold_to_hot(t)
  <2>1. Moves("swizzle") \/ Moves("descend")
    BY <1>11, Zenon DEF remote_to_cache, cold_to_hot, Swizzle, Into, Go
  <2> QED BY <2>1, <1>a, Zenon
<1>12. CASE admission_read(t) \/ admission_write(t) \/ rpc(t) \/ check_and_remove(t)
  <2>1. Moves("drop_flag") \/ Moves("remote_write") \/ Moves("invalidate")
    BY <1>12, Zenon DEF admission_read, admission_write, rpc, check_and_remove, Go
  <2> QED BY <2>1, <1>a, Zenon
<1> QED BY <1>1, <1>2, <1>3, <1>4, <1>5, <1>6, <1>7, <1>8, <1>9, <1>10, <1>11, <1>12, Zenon DEF Steps

LEMMA GoneStays ==
  ASSUME TypeOK, Gone, Next PROVE TypeOK' /\ Gone'
<1>1. \A t \in Threads : pc[t] = "exited"
  BY Zenon DEF Gone
<1>2. CASE \E t \in Threads : Steps(t) \/ exit(t)
  BY <1>1, <1>2, StepsMove, Zenon DEF exit
<1>3. CASE UNCHANGED vars
  <2>1. /\ lock' = lock /\ page' = page /\ pos_state' = pos_state /\ dirty' = dirty /\ content' = content
        /\ children' = children /\ parent_ptr' = parent_ptr /\ table' = table /\ cooling' = cooling
        /\ local' = local /\ remote' = remote /\ current' = current /\ pc' = pc /\ ret' = ret
        /\ todo' = todo /\ op' = op /\ goal' = goal /\ val' = val /\ cur' = cur /\ par' = par
        /\ seen' = seen /\ frame' = frame /\ victim' = victim
    BY <1>3, Zenon DEF vars, frameVars, poolVars, threadVars
  <2> QED BY <2>1, Zenon DEF TypeOK, FrameTypes, PoolTypes, ThreadTypes, Gone
<1>4. CASE reset
  <2>1. EmptyTables' /\ current' = current /\ UNCHANGED threadVars /\ \A t \in Threads : pc[t] = "idle"
    BY <1>4, EmptyPoolIsEmpty, Zenon DEF reset
  <2>2. \A t \in Threads : FALSE
    BY <1>1, <2>1, Zenon
  <2>3. ThreadTypes'
    BY <2>1, Zenon DEF TypeOK, ThreadTypes, threadVars
  <2>4. \A f \in Frames : ~dirty[f]
    BY Zenon DEF Gone
  <2>5. remote' = [l \in Leaves |-> remote[l]]
    BY <1>4, <2>4 DEF reset, flush_all
  <2>6. Stored'
    BY <2>1, <2>5, Zenon DEF TypeOK, PoolTypes, Stored
  <2>7. FrameTypes' /\ PoolTypes'
    BY <2>1, <2>6, EmptyTablesAreTyped, PTL
  <2> QED BY <2>1, <2>2, <2>3, <2>7, Zenon DEF TypeOK, Gone, EmptyTables
<1> QED BY <1>2, <1>3, <1>4, NextIsAStep, Zenon

LEMMA InvariantStays ==
  ASSUME IInv, [Next]_vars PROVE IInv'
<1>1. CASE UNCHANGED vars
  BY <1>1, SameSound, Zenon
<1>2. CASE Next /\ TypeOK /\ Gone
  BY <1>2, GoneStays, Zenon DEF IInv
<1>3. CASE Next /\ Sound
  <2>1. CASE \E t \in Threads : Steps(t)
    BY <1>3, <2>1, StepsAreSound, Zenon DEF IInv
  <2>2. CASE \E t \in Threads : exit(t)
    BY <1>3, <2>2, exitLeavesNothing, Zenon DEF IInv, Sound
  <2>3. CASE reset
    BY <1>3, <2>3, resetIsSound, Zenon DEF IInv
  <2> QED BY <1>1, <1>3, <2>1, <2>2, <2>3, NextIsAStep, Zenon
<1> QED BY <1>1, <1>2, <1>3, Zenon DEF IInv

LEMMA InvariantHolds == Spec => []IInv
<1>1. Init => IInv
  BY InitIsFresh, FreshIsSound, Zenon DEF IInv
<1>2. IInv /\ [Next]_vars => IInv'
  BY InvariantStays, Zenon
<1> QED BY <1>1, <1>2, PTL DEF Spec

-----------------------------------------------------------------------------
(* What follows from the invariant. *)
LEMMA CleanCooling ==
  ASSUME Sound PROVE CoolingIsClean
<1> SUFFICES ASSUME NEW f \in Cool
             PROVE  /\ lock[f] = "write" /\ ~dirty[f] /\ parent_ptr[f] = Null /\ Swizzled(f) = {}
                    /\ \A l \in Leaves : table[l] = f =>
                         \/ remote[l] = content[f]
                         \/ \E t \in Threads : pc[t] = "invalidate" /\ goal[t] = l
  BY Zenon DEF CoolingIsClean
<1>1. f \in Frames /\ f \in AllFrames /\ ~Hot(f)
  BY CoolingIsTidy, Zenon DEF AllFrames, Hot
<1>2. /\ parent_ptr[f] = Null /\ ~dirty[f] /\ f \notin Writing /\ \A c \in Pages : children[f][c] = Null
  BY <1>1, ColdHangsNowhere, Zenon
<1>3. lock[f] = "write"
  BY <1>1, Zenon DEF Sound, Latches
<1>4. Swizzled(f) = {}
  BY <1>2, Zenon DEF Swizzled
<1>5. \A l \in Leaves : table[l] = f => remote[l] = content[f] \/ l \in Stale
  BY <1>1, <1>2, Zenon DEF Sound, Data
<1> QED BY <1>2, <1>3, <1>4, <1>5, Zenon DEF Stale

(* Nobody is ever given an old value of a leaf: the frame the page table has, *)
(* or remote memory when it has none, holds the last value written, whether   *)
(* update, an operation on a leaf that is not admitted or a pushdown wrote    *)
(* it, and a cooling page can be dropped without a write (evict_last).        *)
THEOREM PoolStaysCoherent == Spec => []Coherent
<1>1. Sound => Coherent
  BY CleanCooling, Zenon DEF Coherent, Sound, Data, Stale
<1>2. Gone => Coherent
  BY Zenon DEF Gone, Coherent, CoolingIsClean, Running
<1>3. IInv => Coherent
  BY <1>1, <1>2, Zenon DEF IInv
<1> QED BY <1>3, InvariantHolds, PTL

LEMMA ReturnsCurrent ==
  ASSUME Sound, NEW t \in Threads, op[t] = "lookup", lookup(t) \/ update(t) \/ drop_flag(t)
  PROVE  Result(t) = current[goal[t]]
<1>1. CASE lookup(t)
  <2>1. pc[t] = "descend" /\ ~AtInner(t) /\ Good(t, cur[t])
    BY <1>1, Zenon DEF lookup
  <2>2. seen[t][cur[t]] # "none"
    BY <2>1, Zenon DEF Good, Sound, TypeOK, ThreadTypes
  <2>3. cur[t] \in Frames /\ Hot(cur[t]) /\ page[cur[t]] = goal[t] /\ goal[t] \in Leaves
    BY <2>1, <2>2, LeafIsTheGoal, Zenon
  <2>4. table[goal[t]] = cur[t] /\ goal[t] \notin Stale
    BY <2>3, HotLeafIsFree, Zenon
  <2>5. content[cur[t]] = current[goal[t]]
    BY <2>3, <2>4, Zenon DEF Sound, Data
  <2> QED BY <2>1, <2>5, Zenon DEF Result
<1>2. CASE update(t)
  BY <1>2, Zenon DEF update
<1>3. CASE drop_flag(t)
  BY <1>3, Zenon DEF drop_flag, Result, Sound, Served, Answered
<1> QED BY <1>1, <1>2, <1>3, Zenon

(* A lookup that returns gives the value of the last finished write to its    *)
(* leaf, read optimistically from a cached leaf (validated against parent and *)
(* leaf), from remote memory, or by the memory node.                          *)
THEOREM LookupsReturnCurrent == Spec => LookupReturnsCurrent
<1> DEFINE A == \A t \in Threads :
                  pc[t] # "idle" /\ pc'[t] = "idle" /\ op[t] = "lookup" => Result(t) = current[goal[t]]
<1>1. IInv /\ [Next]_vars => [A]_vars
  <2> SUFFICES ASSUME IInv, Next,
                      NEW t \in Threads, pc[t] # "idle", pc'[t] = "idle", op[t] = "lookup"
               PROVE  Result(t) = current[goal[t]]
    BY Zenon
  <2>1. CASE TypeOK /\ Gone
    BY <2>1, GoneStays, Zenon DEF Gone
  <2>2. CASE Sound
    <3>1. TypeOK
      BY <2>2, Zenon DEF Sound
    <3>2. PICK u \in Threads : Steps(u) \/ exit(u)
      <4>1. ~reset /\ ~UNCHANGED vars
        BY Zenon DEF reset, vars, threadVars
      <4> QED BY <4>1, NextIsAStep, Zenon
    <3>3. Steps(u)
      BY <3>2, Zenon DEF exit
    <3>4. u = t /\ (lookup(t) \/ update(t) \/ drop_flag(t))
      BY <3>1, <3>3, StepsMove, Zenon
    <3> QED BY <2>2, <3>4, ReturnsCurrent, Zenon
  <2> QED BY <2>1, <2>2, Zenon DEF IInv
<1> QED BY <1>1, InvariantHolds, PTL DEF Spec, LookupReturnsCurrent

-----------------------------------------------------------------------------
(* The owners of a frame and of an IO flag are counted. *)
INSTANCE FiniteSetTheorems

LEMMA AtMostOne ==
  ASSUME NEW S, \A x, y \in S : x = y
  PROVE  Cardinality(S) \in {0, 1} /\ (Cardinality(S) = 0 <=> S = {})
<1>1. CASE S = {}
  BY <1>1, FS_EmptySet, Zenon
<1>2. CASE S # {}
  <2>1. PICK x : x \in S
    BY <1>2, Zenon
  <2>2. S = {x}
    BY <2>1, Zenon
  <2>3. Cardinality(S) = 1
    BY <2>2, FS_Singleton, Zenon
  <2> QED BY <1>2, <2>3
<1> QED BY <1>1, <1>2, Zenon

LEMMA NotBoth ==
  ASSUME NEW A, NEW B, NEW c, \A x, y \in A : x = y, \A x, y \in B : x = y,
         c \in {0, 1}, A = {} \/ B = {}, c = 1 => A = {} /\ B = {}
  PROVE  Cardinality(A) + c + Cardinality(B) <= 1
<1>1. /\ Cardinality(A) \in {0, 1} /\ (Cardinality(A) = 0 <=> A = {})
      /\ Cardinality(B) \in {0, 1} /\ (Cardinality(B) = 0 <=> B = {})
  BY AtMostOne, Zenon
<1> QED BY <1>1

(* The threads that serve a page and those that hold an IO latch. *)
LEMMA ServingIsLoading ==
  ASSUME Sound, NEW c \in Pages, NEW t \in Threads PROVE t \in Serving(c) <=> Loading[t] = c
<1>1. c # Null
  BY BufferPoolAssumption, Zenon DEF Pages
<1> QED BY <1>1, Zenon DEF Serving, Loading, Serves, ServePCs

LEMMA IoHoldersHold ==
  ASSUME Sound, NEW f \in AllFrames, NEW t \in Threads PROVE t \in IoHolders(f) <=> IoLatch[t] = f
<1>1. f # Null
  BY BufferPoolAssumption, Zenon DEF AllFrames
<1>2. ASSUME Serves(t) PROVE \E c \in Pages : t \in Serving(c)
  <2>1. pc[t] # "idle"
    BY <1>2, Zenon DEF Serves, ServePCs, Sampling
  <2>2. Missing(t) \in Pages
    BY <2>1, MissingIsAPage, Zenon
  <2> QED BY <1>2, <2>2, Zenon DEF Serving, Serves, ServePCs
<1>3. ASSUME NEW c \in Pages, t \in Serving(c) PROVE Serves(t)
  BY <1>3, Zenon DEF Serving, Serves, ServePCs
<1> QED BY <1>1, <1>2, <1>3, Zenon DEF IoHolders, IoLatch, Holds

LEMMA OneOwner ==
  ASSUME Sound PROVE FramesHaveOneOwner
<1> SUFFICES ASSUME NEW f \in AllFrames
             PROVE  LET writers == {t \in Threads : f \in {frame[t], victim[t]} \cup local[t]}
                                     \cup {t \in Threads : pc[t] \in {"sample_write", "sample_insert"} /\ par[t] = f}
                    IN  /\ Cardinality(writers) + (IF f \in Cool THEN 1 ELSE 0) + Cardinality(IoHolders(f)) <= 1
                        /\ lock[f] = "write" <=> writers # {} \/ f \in Cool
                        /\ lock[f] = "IO" <=> IoHolders(f) # {}
  BY Zenon DEF FramesHaveOneOwner
<1> DEFINE W == {t \in Threads : f \in {frame[t], victim[t]} \cup local[t]}
                  \cup {t \in Threads : pc[t] \in {"sample_write", "sample_insert"} /\ par[t] = f}
           I == IoHolders(f)
           k == IF f \in Cool THEN 1 ELSE 0
<1>1. \A t : t \in W <=> t \in Threads /\ f \in Held[t]
  BY Zenon DEF Held, Latched
<1>2. \A t : t \in I <=> t \in Threads /\ IoLatch[t] = f
  <2>1. \A t \in I : t \in Threads
    BY Zenon DEF IoHolders
  <2> QED BY <2>1, IoHoldersHold, Zenon
<1>3. Latches /\ f # Null
  BY BufferPoolAssumption, Zenon DEF Sound, AllFrames
<1> HIDE DEF W, I
<1>4. \A t, u \in W : t = u
  BY <1>1, <1>3, Zenon DEF Latches
<1>5. ASSUME NEW t \in I, NEW u \in I PROVE t = u
  <2>1. t \in Threads /\ u \in Threads /\ IoLatch[t] = f /\ IoLatch[u] = f
    BY <1>2, Zenon
  <2> QED BY <1>3, <2>1, ZenonT(40) DEF Latches
<1>6. lock[f] = "write" <=> W # {} \/ f \in Cool
  BY <1>1, <1>3, Zenon DEF Latches
<1>7. lock[f] = "IO" <=> I # {}
  <2>1. lock[f] = "IO" <=> \E t \in Threads : IoLatch[t] = f
    BY <1>3, Zenon DEF Latches
  <2>2. I # {} <=> \E t \in Threads : IoLatch[t] = f
    BY <1>2, Zenon
  <2> QED BY <2>1, <2>2, Zenon
<1>8. k \in {0, 1} /\ (W = {} \/ I = {})
  BY <1>6, <1>7, Zenon
<1>9. k = 1 => W = {} /\ I = {}
  <2>1. k = 1 => f \in Cool
    BY SMT
  <2>2. f \in Cool => W = {}
    BY <1>1, <1>3, Zenon DEF Latches
  <2> QED BY <1>6, <1>7, <2>1, <2>2, Zenon
<1> HIDE DEF k
<1>10. Cardinality(W) + k + Cardinality(I) <= 1
  BY <1>4, <1>5, <1>8, <1>9, NotBoth, Zenon
<1> QED BY <1>6, <1>7, <1>10, Zenon DEF W, I, k

LEMMA OneLoader ==
  ASSUME Sound PROVE IoFlagHasOneOwner
<1> SUFFICES ASSUME NEW c \in Pages
             PROVE  Cardinality(Serving(c)) <= 1 /\ (table[c] = IO_FLAG <=> Serving(c) # {})
  BY Zenon DEF IoFlagHasOneOwner
<1>1. Flags /\ c # Null
  BY BufferPoolAssumption, Zenon DEF Sound, Pages
<1>2. \A t : t \in Serving(c) <=> t \in Threads /\ Loading[t] = c
  <2>1. \A t \in Serving(c) : t \in Threads
    BY Zenon DEF Serving
  <2> QED BY <2>1, ServingIsLoading, Zenon
<1>3. ASSUME NEW t \in Serving(c), NEW u \in Serving(c) PROVE t = u
  <2>1. t \in Threads /\ u \in Threads /\ Loading[t] = c /\ Loading[u] = c
    BY <1>2, Zenon
  <2> QED BY <1>1, <2>1, Zenon DEF Flags
<1>4. Cardinality(Serving(c)) \in {0, 1}
  BY <1>3, AtMostOne, Zenon
<1>5. table[c] = IO_FLAG <=> Serving(c) # {}
  <2>1. table[c] = IO_FLAG <=> \E t \in Threads : Loading[t] = c
    BY <1>1, Zenon DEF Flags
  <2>2. Serving(c) # {} <=> \E t \in Threads : Loading[t] = c
    BY <1>2, Zenon
  <2> QED BY <2>1, <2>2, Zenon
<1> QED BY <1>4, <1>5

LEMMA MutualSwizzling ==
  ASSUME Sound PROVE SwizzlingIsMutual
<1>0. Tree /\ Table
  BY Zenon DEF Sound
<1> SUFFICES ASSUME NEW f \in AllFrames, NEW c \in Pages, NEW g \in Frames
             PROVE  /\ children[f][c] = g => /\ parent_ptr[g] = f /\ page[g] = c
                                             /\ pos_state[g] = "hot" /\ table[c] = g
                                             /\ f = Root \/ pos_state[f] = "hot"
                    /\ parent_ptr[g] = f => children[f][page[g]] = g
  BY Zenon DEF SwizzlingIsMutual
<1>1. g # Null /\ f # Null
  BY BufferPoolAssumption, Zenon DEF AllFrames
<1>2. ASSUME children[f][c] = g
      PROVE  parent_ptr[g] = f /\ page[g] = c /\ Hot(g) /\ (f = Root \/ Hot(f))
  BY <1>0, <1>1, <1>2, Zenon DEF Tree
<1>3. Hot(g) => table[page[g]] = g
  BY <1>0, Zenon DEF Table
<1>4. parent_ptr[g] = f => children[f][page[g]] = g
  BY <1>0, <1>1, Zenon DEF Tree
<1> QED BY <1>2, <1>3, <1>4, Zenon DEF Hot

(* Whatever path a load, a sampling or an eviction takes (cold_to_hot,        *)
(* sample_page, random_evict_to_remote, their error exits and the exit of the *)
(* process included), every frame, latch and IO flag has the one owner who    *)
(* will release it, cooling buckets stay within num_entries, and parents and  *)
(* swizzled children point at each other: for any number of threads, frames   *)
(* and buckets.                                                               *)
THEOREM PoolStaysWhole == Spec => []PoolIsWhole
<1>1. Sound => PoolIsWhole
  BY OneOwner, OneLoader, MutualSwizzling, Zenon DEF Sound, PoolIsWhole
<1>2. TypeOK /\ Gone => PoolIsWhole
  <2> SUFFICES ASSUME TypeOK, Gone PROVE PoolIsWhole
    BY Zenon
  <2>1. ~Running
    BY Zenon DEF Gone, Running
  <2>2. SwizzlingIsMutual
    BY BufferPoolAssumption, Zenon DEF Gone, SwizzlingIsMutual, AllFrames
  <2> QED BY <2>1, <2>2, Zenon DEF PoolIsWhole, FramesHaveOneOwner, IoFlagHasOneOwner
<1>3. IInv => PoolIsWhole
  BY <1>1, <1>2, Zenon DEF IInv
<1> QED BY <1>3, InvariantHolds, PTL
=============================================================================
