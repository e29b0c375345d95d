---------------------------- MODULE BufferPoolSteps ---------------------------
(* That the steps of BufferPool that take a frame or put one into the tree     *)
(* preserve its inductive invariant, and that a new pool has it.               *)
EXTENDS BufferPoolInv

(* A thread that serves a page gets frame f to load it into. *)
TakeStep(t, f) ==
  /\ pc[t] \in {"empty", "retry_empty"} /\ f \in Frames
  /\ pc' = [pc EXCEPT ![t] = "read"] /\ frame' = [frame EXCEPT ![t] = f]
  /\ UNCHANGED <<ret, todo, op, goal, val, cur, par, seen, victim, remote, current>>
  /\ \A u \in Threads \ {t} : local'[u] = local[u]
  /\ \A h \in Frames : Hot(h) => page'[h] = page[h] /\ pos_state'[h] = "hot"

LEMMA TakerKeeps ==
  ASSUME Sound, NEW t \in Threads, NEW f, TakeStep(t, f)
  PROVE  /\ OthersStay(t) /\ RolesStay(t) /\ KeepsAnswers(t) /\ ThreadTypes' /\ Mine(t)'
         /\ IoLatch'[t] = IoLatch[t] /\ Loading'[t] = Loading[t]
         /\ Unhung' = Unhung /\ Writing' = Writing /\ Stale' = Stale
         /\ frame'[t] = f /\ frame[t] = Null
         /\ \A h \in AllFrames : h \in Held[t] <=> h \in local[t]
         /\ \A h \in AllFrames : h \in Held'[t] <=> h = f \/ h \in local'[t]
<1>0. ThreadTypes /\ Placed(t) /\ Headed(t) /\ Answered(t) /\ Versioned
  BY Zenon DEF Sound, TypeOK, Places, OnTheWay, Served
<1>1. /\ pc[t] \in {"empty", "retry_empty"} /\ f \in Frames
      /\ UNCHANGED <<ret, todo, op, goal, val, cur, par, seen, victim, remote, current>>
      /\ \A h \in Frames : Hot(h) => page'[h] = page[h] /\ pos_state'[h] = "hot"
  BY Zenon DEF TakeStep
<1>2. /\ pc'[t] = "read" /\ frame'[t] = f /\ OthersStay(t)
  BY <1>0, ZenonT(40) DEF TakeStep, ThreadTypes, OthersStay
<1>3. frame[t] = Null /\ victim[t] = Null /\ ret[t] = "lock" /\ f # Null /\ goal[t] \in Leaves
  <2>1. frame[t] = Null /\ victim[t] = Null /\ ret[t] # "retry_empty" /\ goal[t] \in Leaves
    BY <1>0, <1>1, Zenon DEF Placed, Sampling
  <2> QED BY <1>0, <1>1, <2>1, BufferPoolAssumption, Zenon DEF ThreadTypes
<1>4. RolesStay(t) /\ KeepsAnswers(t)
  BY <1>1, <1>2, OthersKeepRoles, SameAnswers, Zenon
<1>5. ThreadTypes'
  BY <1>0, <1>1, Zenon DEF TakeStep, ThreadTypes, PCs
<1>6. IoLatch'[t] = cur[t] /\ IoLatch[t] = cur[t] /\ Loading'[t] = Loading[t]
  BY <1>1, <1>2, ServerKeepsRoles, Zenon DEF ServePCs
<1>7. Mine(t)'
  <2>1. Placed(t)' /\ Sampled(t)'
    BY <1>0, <1>1, <1>2, <1>3, Zenon DEF Placed, Sampled, Latched, Sampling
  <2>2. Headed(t)'
    <3>1. cur[t] # Root => Hot(cur[t]) /\ page[cur[t]] = above[goal[t]] /\ cur[t] \in Frames
      <4>1. cur[t] \in AllFrames /\ cur[t] # Null
        BY <1>0, BufferPoolAssumption, ZenonT(40) DEF ThreadTypes, AllFrames
      <4>2. cur[t] # Root => Hot(cur[t]) /\ page[cur[t]] = above[goal[t]]
        BY <1>0, <1>6, <4>1, Zenon DEF Headed
      <4> QED BY <4>1, <4>2, Zenon DEF AllFrames
    <3>2. cur[t] # Root => page'[cur[t]] = above[goal[t]] /\ pos_state'[cur[t]] = "hot"
      BY <1>1, <3>1, Zenon
    <3> QED BY <1>1, <3>2, Zenon DEF Headed, Hot
  <2>3. Answered(t)'
    BY <1>0, <1>1, <1>2, <1>6, Zenon DEF Answered
  <2> QED BY <2>1, <2>2, <2>3, Zenon DEF Mine
<1>8. ~Latched(t) /\ ~Latched(t)'
  BY <1>1, <1>2, Zenon DEF Latched
<1>9. Unhung' = Unhung /\ Writing' = Writing /\ Stale' = Stale
  BY <1>1, <1>2, <1>8, SameUnhung, SameStale, Zenon
<1>10. Null \notin AllFrames
  BY BufferPoolAssumption, Zenon DEF AllFrames
<1>11. \A h \in AllFrames : h \in Held[t] <=> h \in local[t]
  BY <1>3, <1>8, <1>10, Zenon DEF Held
<1>12. \A h \in AllFrames : h \in Held'[t] <=> h = f \/ h \in local'[t]
  BY <1>1, <1>2, <1>3, <1>8, <1>10, Zenon DEF Held
<1> QED BY <1>2, <1>3, <1>4, <1>5, <1>6, <1>7, <1>9, <1>11, <1>12, Zenon

(* A frame that is not hot hangs nowhere, and has no child. *)
LEMMA ColdHangsNowhere ==
  ASSUME Sound, NEW f \in Frames, ~Hot(f)
  PROVE  /\ parent_ptr[f] = Null /\ \A c \in Pages : children[f][c] = Null
         /\ \A h \in AllFrames, c \in Pages : children[h][c] # f
         /\ ~dirty[f] /\ f \notin Writing /\ f \notin Unhung
         /\ \A u \in Threads : victim[u] # f /\ IoLatch[u] # f /\ seen[u][f] = "none"
         /\ \A u \in Threads : Latched(u) => par[u] # f
<1>0. Tree /\ Table /\ Victims /\ OnTheWay /\ Versioned /\ FrameTypes /\ ThreadTypes /\ Places
  BY Zenon DEF Sound, TypeOK
<1>1. f # Null /\ f # Root /\ f \in AllFrames
  BY BufferPoolAssumption, Zenon DEF AllFrames
<1>2. \A c \in Pages : children[f][c] = Null
  BY <1>0, <1>1 DEF Tree
<1>3. \A h \in AllFrames, c \in Pages : children[h][c] # f
  BY <1>0, <1>1 DEF Tree
<1>4. parent_ptr[f] = Null
  BY <1>0, <1>3, BufferPoolAssumption DEF Tree, FrameTypes
<1>5. \A u \in Threads : victim[u] # f
  BY <1>0, <1>1, Zenon DEF Victims, Sampled
<1>6. \A u \in Threads : IoLatch[u] # f
  BY <1>0, <1>1, Zenon DEF OnTheWay, Headed, IoLatch
<1>7. \A u \in Threads : Latched(u) => par[u] # f
  <2>1. \A u \in Threads : Latched(u) => victim[u] # Null
    BY <1>0, Zenon DEF Places, Placed, Latched
  <2> QED BY <1>0, <1>1, <2>1, Zenon DEF Victims, Sampled
<1>8. \A u \in Threads : seen[u][f] = "none"
  BY <1>0, <1>1, Zenon DEF Versioned
<1> QED BY <1>0, <1>2, <1>3, <1>4, <1>5, <1>6, <1>7, <1>8, Zenon DEF Table, Writing, Unhung

(* A part is preserved by a step that changes it only at frames that are cold *)
(* before and after.                                                          *)
ColdStep ==
  \A h \in Frames :
    /\ Hot(h) <=> pos_state'[h] = "hot"
    /\ Hot(h) => /\ page'[h] = page[h] /\ parent_ptr'[h] = parent_ptr[h]
                 /\ children'[h] = children[h] /\ dirty'[h] = dirty[h]
    /\ ~Hot(h) => /\ parent_ptr'[h] = parent_ptr[h] /\ ~dirty'[h]
                  /\ \A c \in Pages : children'[h][c] = children[h][c]

LEMMA ColdStepKeepsTree ==
  ASSUME Sound, ColdStep, children'[Root] = children[Root] PROVE Tree'
<1>0. Tree /\ FrameTypes
  BY Zenon DEF Sound, TypeOK
<1>1. \A h \in AllFrames, c \in Pages : children'[h][c] = children[h][c]
  BY Zenon DEF ColdStep, AllFrames
<1>2. \A h \in Frames : parent_ptr'[h] = parent_ptr[h] /\ (Hot(h) => page'[h] = page[h] /\ pos_state'[h] = "hot")
  BY Zenon DEF ColdStep
<1>3. ASSUME NEW f \in AllFrames, NEW c \in Pages, children[f][c] # Null
      PROVE  /\ children[f][c] \in Frames /\ parent_ptr[children[f][c]] = f /\ page[children[f][c]] = c
             /\ Hot(children[f][c]) /\ (f # Root => Hot(f)) /\ Below(f, c)
  BY <1>0, <1>3 DEF Tree, FrameTypes
<1>4. ASSUME NEW f \in AllFrames, NEW c \in Pages, children'[f][c] # Null
      PROVE  /\ parent_ptr'[children'[f][c]] = f /\ page'[children'[f][c]] = c /\ Hot(children[f][c])'
             /\ (f # Root => Hot(f)') /\ Below(f, c)'
  <2>1. children'[f][c] = children[f][c] /\ children[f][c] # Null
    BY <1>1, <1>4, Zenon
  <2>2. /\ children[f][c] \in Frames /\ parent_ptr[children[f][c]] = f /\ page[children[f][c]] = c
        /\ Hot(children[f][c]) /\ (f # Root => Hot(f)) /\ Below(f, c)
    BY <1>3, <2>1, Zenon
  <2>3. f # Root => f \in Frames
    BY Zenon DEF AllFrames
  <2>4. (f # Root => Hot(f)') /\ Below(f, c)'
    BY <1>2, <2>2, <2>3, Zenon DEF Below, Hot
  <2> QED BY <1>2, <2>1, <2>2, <2>4, Zenon DEF Hot
<1>5. ASSUME NEW g \in Frames, parent_ptr'[g] # Null
      PROVE  page'[g] \in Pages /\ children'[parent_ptr'[g]][page'[g]] = g
  <2>1. parent_ptr[g] # Null /\ parent_ptr'[g] = parent_ptr[g] /\ parent_ptr[g] \in AllFrames
    BY <1>0, <1>2, <1>5, Zenon DEF FrameTypes
  <2>2. page[g] \in Pages /\ children[parent_ptr[g]][page[g]] = g
    BY <1>0, <2>1, Zenon DEF Tree
  <2>3. Hot(g)
    BY <2>1, ColdHangsNowhere, Zenon
  <2> QED BY <1>1, <1>2, <2>1, <2>2, <2>3, ZenonT(40)
<1> QED BY <1>4, <1>5, Zenon DEF Tree, Hot

(* What is in a cooling bucket. *)
LEMMA CoolingIsTidy ==
  ASSUME Sound
  PROVE  /\ Cool = Entries(cooling) /\ Tidy(cooling, pos_state, page) /\ cooling \in [Buckets -> Seq(Frames)]
         /\ \A f \in Cool : f \in Frames /\ pos_state[f] = "cool" /\ page[f] \in Pages
<1>1. Cooled /\ cooling \in [Buckets -> Seq(Frames)] /\ Cool = Entries(cooling)
  BY Zenon DEF Sound, TypeOK, PoolTypes, Cool, Entries
<1>2. ASSUME NEW f \in Cool PROVE f \in Frames /\ pos_state[f] = "cool" /\ page[f] \in Pages
  <2>1. PICK b \in Buckets : \E i \in 1..Len(cooling[b]) : cooling[b][i] = f
    BY <1>1, EntriesOfBuckets, Zenon
  <2>2. PICK i \in 1..Len(cooling[b]) : cooling[b][i] = f
    BY <2>1, Zenon
  <2>3. cooling[b] \in Seq(Frames)
    BY <1>1, Zenon
  <2>4. cooling[b][i] \in Frames
    BY <2>3, SMT
  <2> QED BY <1>1, <2>2, <2>4, Zenon DEF Cooled, Tidy
<1> QED BY <1>1, <1>2, Zenon DEF Cooled

LEMMA TidyStays ==
  ASSUME NEW c \in [Buckets -> Seq(Frames)], NEW state, NEW of, NEW state2, NEW of2,
         Tidy(c, state, of), SameIn(Entries(c), state, of, state2, of2)
  PROVE  Tidy(c, state2, of2)
<1> SUFFICES ASSUME NEW b \in Buckets, NEW i \in 1..Len(c[b])
             PROVE  /\ state2[c[b][i]] = "cool" /\ of2[c[b][i]] \in Pages /\ hash[of2[c[b][i]]] = b
                    /\ \A j \in 1..Len(c[b]) : c[b][i] = c[b][j] => i = j
  BY Zenon DEF Tidy
<1>1. c[b][i] \in Entries(c)
  BY EntriesOfBuckets, Zenon
<1>2. state2[c[b][i]] = state[c[b][i]] /\ of2[c[b][i]] = of[c[b][i]]
  BY <1>1, Zenon DEF SameIn
<1> QED BY <1>2, ZenonT(40) DEF Tidy

(* A step keeps the positions of the frames that others have in hand. *)
LEMMA OthersKeepPositions ==
  ASSUME Sound, NEW t \in Threads, NEW W, Step(t, W), Positioned(t)' PROVE Positions'
<1> SUFFICES ASSUME NEW u \in Threads \ {t} PROVE Positioned(u)'
  BY Zenon DEF Positions
<1>0. Positioned(u) /\ local[u] \subseteq Frames /\ frame[u] \in Frames \cup {Null}
  BY Zenon DEF Sound, TypeOK, PoolTypes, ThreadTypes, Positions
<1>1. local'[u] = local[u] /\ frame'[u] = frame[u]
  BY Zenon DEF Step, OthersStay
<1>2. \A h \in Frames : h = frame[u] \/ h \in local[u] => h \notin W
  BY Zenon DEF Step, NotTheirs, Held, AllFrames
<1>3. \A h \in Frames : h = frame[u] \/ h \in local[u] => pos_state'[h] = pos_state[h]
  BY <1>2, Zenon DEF Step, Untouched
<1> QED BY <1>0, <1>1, <1>3, Zenon DEF Positioned

LEMMA ColdStepKeepsTable ==
  ASSUME Sound, ColdStep, Unhung' = Unhung,
         \A g \in Frames : Hot(g) => table'[page[g]] = table[page[g]],
         \A c \in Pages : table'[c] \in Frames =>
           page'[table'[c]] = c /\ (pos_state'[table'[c]] = "hot" \/ table'[c] \in Cool')
  PROVE  Table'
<1>0. Table
  BY Zenon DEF Sound
<1>1. \A g \in Frames : Hot(g)' => /\ Hot(g) /\ page'[g] = page[g] /\ parent_ptr'[g] = parent_ptr[g]
                                   /\ dirty'[g] = dirty[g] /\ table'[page[g]] = table[page[g]]
  BY Zenon DEF ColdStep, Hot
<1>2. \A g \in Frames : Hot(g)' =>
        page'[g] \in Pages /\ table'[page'[g]] = g /\ (parent_ptr'[g] # Null \/ g \in Unhung')
  BY <1>0, <1>1, Zenon DEF Table
<1>3. \A g \in Frames : dirty'[g] => Hot(g)' /\ page'[g] \in Leaves
  <2> SUFFICES ASSUME NEW g \in Frames, dirty'[g] PROVE Hot(g)' /\ page'[g] \in Leaves
    BY Zenon
  <2>1. Hot(g)
    BY Zenon DEF ColdStep
  <2>2. pos_state'[g] = "hot" /\ page'[g] = page[g] /\ dirty[g]
    BY <2>1, Zenon DEF ColdStep
  <2> QED BY <1>0, <2>2, Zenon DEF Table, Hot
<1> QED BY <1>2, <1>3, Zenon DEF Table, Hot

LEMMA allocateIsSound ==
  ASSUME Sound, NEW t \in Threads, NEW f \in Frames, allocate(t, f) PROVE Sound'
<1>0. /\ TypeOK /\ FrameTypes /\ PoolTypes /\ ThreadTypes /\ Latches /\ Versioned /\ Positions
      /\ Cooled /\ Table
  BY Zenon DEF Sound, TypeOK
<1>1. /\ pc[t] = "empty" /\ pos_state[f] = "raw" /\ pc' = [pc EXCEPT ![t] = "read"]
      /\ frame' = [frame EXCEPT ![t] = f] /\ lock' = [lock EXCEPT ![f] = "write"]
      /\ pos_state' = [pos_state EXCEPT ![f] = "remote"]
      /\ UNCHANGED <<page, dirty, content, children, parent_ptr, table, cooling, local, remote, current>>
      /\ UNCHANGED <<ret, todo, op, goal, val, cur, par, seen, victim>>
  BY Zenon DEF allocate, Hold, Go, poolVars
<1>s. /\ page' = page /\ dirty' = dirty /\ content' = content /\ children' = children
      /\ parent_ptr' = parent_ptr /\ table' = table /\ cooling' = cooling /\ local' = local /\ seen' = seen
  BY <1>1, Zenon
<1>p. /\ \A h \in Frames : pos_state'[h] = IF h = f THEN "remote" ELSE pos_state[h]
      /\ \A h \in AllFrames : lock'[h] = IF h = f THEN "write" ELSE lock[h]
  BY <1>0, <1>1, Zenon DEF FrameTypes
<1>2. ~Hot(f) /\ f \in AllFrames
  BY <1>1, Zenon DEF Hot, AllFrames
<1>3. ColdStep
  BY <1>s, <1>p, <1>2, ColdHangsNowhere, Zenon DEF ColdStep, Hot
<1>4. TakeStep(t, f)
  <2>1. \A h \in Frames : Hot(h) => page'[h] = page[h] /\ pos_state'[h] = "hot"
    BY <1>3, Zenon DEF ColdStep
  <2> QED BY <1>1, <2>1, Zenon DEF TakeStep
<1>5. /\ OthersStay(t) /\ RolesStay(t) /\ KeepsAnswers(t) /\ ThreadTypes' /\ Mine(t)'
      /\ IoLatch'[t] = IoLatch[t] /\ Loading'[t] = Loading[t]
      /\ Unhung' = Unhung /\ Writing' = Writing /\ Stale' = Stale /\ frame'[t] = f
      /\ \A h \in AllFrames : h \in Held[t] <=> h \in local[t]
      /\ \A h \in AllFrames : h \in Held'[t] <=> h = f \/ h \in local'[t]
  BY <1>4, TakerKeeps, Zenon
<1>6. f \notin Cool /\ \A u \in Threads : f \notin local[u] /\ frame[u] # f
  <2>1. f \notin Cool
    BY <1>1, CoolingIsTidy, Zenon
  <2>2. \A u \in Threads : f \notin local[u] /\ frame[u] # f
    BY <1>0, <1>1, BufferPoolAssumption, Zenon DEF Positions, Positioned
  <2> QED BY <2>1, <2>2, Zenon
<1>7. lock[f] = "free"
  <2>1. \A u \in Threads : f \notin Held[u] /\ IoLatch[u] # f
    <3>1. \A u \in Threads : victim[u] # f /\ IoLatch[u] # f /\ (Latched(u) => par[u] # f)
      BY <1>2, ColdHangsNowhere, Zenon
    <3> QED BY <1>6, <3>1, Zenon DEF Held
  <2>2. lock[f] # "write" /\ lock[f] # "IO" /\ lock[f] \in {"free", "IO", "write"}
    BY <1>0, <1>2, <1>6, <2>1, Zenon DEF Latches, FrameTypes
  <2> QED BY <2>2, Zenon
<1>8. Step(t, {f})
  <2>1. NotTheirs(t, {f})
    BY <1>0, <1>2, <1>7, PrivateFrames
  <2>2. Untouched({f})
    BY <1>s, <1>p, Zenon DEF Untouched
  <2> QED BY <1>s, <1>2, <1>5, <2>1, <2>2, Zenon DEF Step
<1>9. TypeOK'
  <2>1. lock' \in [AllFrames -> {"free", "IO", "write"}] /\ pos_state' \in [Frames -> PosStates]
    BY <1>0, <1>1, Zenon DEF FrameTypes, PosStates
  <2> QED BY <1>0, <1>1, <1>5, <2>1, SamePoolTypes, Zenon DEF TypeOK, FrameTypes
<1>10. Cool' = Cool /\ Latches'
  BY <1>0, <1>1, <1>s, <1>2, <1>5, <1>7, SameCool, TakeWriteLatch, Zenon
<1>11. Flags' /\ Data'
  BY <1>1, <1>s, <1>5, SameFlags, SameData, Zenon DEF Sound
<1>12. Tree'
  BY <1>s, <1>3, ColdStepKeepsTree, Zenon
<1>13. Table'
  BY <1>0, <1>s, <1>3, <1>5, <1>10, ColdStepKeepsTable, Zenon DEF Table, ColdStep
<1>14. Cooled'
  <2>1. SameIn(Entries(cooling), pos_state, page, pos_state', page')
    BY <1>s, <1>p, <1>6, CoolingIsTidy, Zenon DEF SameIn
  <2>2. Tidy(cooling, pos_state', page')
    BY <2>1, CoolingIsTidy, TidyStays, Zenon
  <2> QED BY <1>s, <2>2, Zenon DEF Cooled
<1>15. Positions'
  <2>1. Positioned(t) /\ local[t] \subseteq Frames
    BY <1>0, Zenon DEF Positions, PoolTypes
  <2>2. Positioned(t)'
    BY <1>s, <1>p, <1>5, <1>6, <2>1, Zenon DEF Positioned
  <2> QED BY <1>8, <2>2, OthersKeepPositions, Zenon
<1>16. Versioned'
  <2>1. \A u \in Threads : seen[u][f] = "none"
    BY <1>2, ColdHangsNowhere, Zenon
  <2> QED BY <1>0, <1>s, <1>p, <2>1, Zenon DEF Versioned, Hot, AllFrames
<1> QED BY <1>5, <1>8, <1>9, <1>10, <1>11, <1>12, <1>13, <1>14, <1>15, <1>16, OthersFollow, Zenon DEF Sound

(* Write-latching a frame that is latched already. *)
LEMMA SameLock ==
  ASSUME FrameTypes, NEW f \in AllFrames, lock[f] = "write", lock' = [lock EXCEPT ![f] = "write"]
  PROVE  lock' = lock
  BY DEF FrameTypes

LEMMA get_local_page_setIsSound ==
  ASSUME Sound, NEW t \in Threads, NEW f \in Frames, get_local_page_set(t, f) PROVE Sound'
<1>0. /\ TypeOK /\ FrameTypes /\ PoolTypes /\ ThreadTypes /\ Latches /\ Positions
  BY Zenon DEF Sound, TypeOK
<1>1. /\ pc[t] \in {"empty", "retry_empty"} /\ f \in local[t] /\ pc' = [pc EXCEPT ![t] = "read"]
      /\ local' = [local EXCEPT ![t] = @ \ {f}]
      /\ frame' = [frame EXCEPT ![t] = f] /\ lock' = [lock EXCEPT ![f] = "write"]
      /\ SameFrames /\ UNCHANGED <<table, cooling, remote, current>>
      /\ UNCHANGED <<ret, todo, op, goal, val, cur, par, seen, victim>>
  BY Zenon DEF get_local_page_set, Hold, Go, SameFrames
<1>2. local'[t] = local[t] \ {f} /\ \A u \in Threads \ {t} : local'[u] = local[u]
  BY <1>0, <1>1, Zenon DEF PoolTypes
<1>3. TakeStep(t, f)
  BY <1>1, <1>2, Zenon DEF TakeStep, SameFrames, Hot
<1>4. /\ OthersStay(t) /\ RolesStay(t) /\ KeepsAnswers(t) /\ ThreadTypes' /\ Mine(t)'
      /\ IoLatch'[t] = IoLatch[t] /\ Loading'[t] = Loading[t]
      /\ Unhung' = Unhung /\ Writing' = Writing /\ Stale' = Stale /\ frame'[t] = f
      /\ \A h \in AllFrames : h \in Held[t] <=> h \in local[t]
      /\ \A h \in AllFrames : h \in Held'[t] <=> h = f \/ h \in local'[t]
  BY <1>3, TakerKeeps, Zenon
<1>5. f \in AllFrames /\ lock' = lock
  <2>1. f \in AllFrames /\ f \in Held[t]
    BY <1>1, <1>4, Zenon DEF AllFrames
  <2>2. lock[f] = "write"
    BY <1>0, <2>1, Zenon DEF Latches
  <2> QED BY <1>0, <1>1, <2>1, <2>2, SameLock, Zenon
<1>6. Held'[t] = Held[t]
  <2>1. Held[t] \subseteq AllFrames /\ Held'[t] \subseteq AllFrames
    BY Zenon DEF Held
  <2>2. \A h \in AllFrames : h \in Held[t] <=> h \in Held'[t]
    BY <1>1, <1>2, <1>4, Zenon
  <2> QED BY <2>1, <2>2, Zenon
<1>7. TypeOK'
  <2>1. PoolTypes'
    <3>1. local' \in [Threads -> SUBSET Frames]
      BY <1>0, <1>1, Zenon DEF PoolTypes
    <3> QED BY <1>0, <1>1, <3>1, Zenon DEF PoolTypes
  <2> QED BY <1>0, <1>1, <1>4, <1>5, <2>1, SameFrameTypes, Zenon DEF TypeOK, SameFrames
<1>8. QuietStep(t)
  BY <1>1, <1>4, Zenon DEF QuietStep
<1>9. Positions'
  <2>1. Positioned(t) /\ pos_state' = pos_state
    BY <1>0, <1>1, Zenon DEF Positions, SameFrames
  <2>2. Positioned(t)'
    BY <1>1, <1>2, <1>4, <2>1, Zenon DEF Positioned
  <2>3. Step(t, {})
    BY <1>8, Zenon DEF QuietStep, Step, SameFrames, Untouched, NotTheirs
  <2> QED BY <2>2, <2>3, OthersKeepPositions, Zenon
<1>10. Latches' /\ Table' /\ Versioned' /\ Flags' /\ Data'
  BY <1>1, <1>4, <1>5, <1>6, SameCool, SameLatches, SameTable, SameVersioned, SameFlags, SameData, Zenon
     DEF Sound, SameFrames
<1> QED BY <1>4, <1>7, <1>8, <1>9, <1>10, QuietStepIsSound, Zenon

(* The page of a cooling frame leaves the page table: remote memory has it. *)
LEMMA UncacheKeeps ==
  ASSUME Sound, NEW t \in Threads, RolesStay(t), Loading'[t] = Loading[t], NEW f \in Cool, table' = Uncache(f),
         \A h \in Frames \ {f} : content'[h] = content[h],
         \A h \in Frames : dirty'[h] = dirty[h],
         UNCHANGED <<remote, current, Stale>>, Writing \subseteq Writing'
  PROVE  Flags' /\ Data'
<1>0. Flags /\ Data /\ Table
  BY Zenon DEF Sound
<1>1. f \in Frames /\ ~Hot(f)
  BY CoolingIsTidy, Zenon DEF Hot
<1>2. \A c \in Pages : table'[c] = IF table[c] = f THEN Null ELSE table[c]
  BY Zenon DEF Uncache
<1>3. Null # IO_FLAG /\ f # IO_FLAG /\ Null \notin Frames
  BY <1>1, BufferPoolAssumption, Zenon
<1>4. Flags'
  <2>1. \A u \in Threads : Loading'[u] = Loading[u] /\ (Loading[u] # Null => Loading[u] \in Pages)
    BY LoadingIsAPage, Zenon DEF RolesStay
  <2>2. \A c \in Pages : table'[c] = IO_FLAG <=> table[c] = IO_FLAG
    BY <1>2, <1>3, Zenon
  <2>3. ASSUME NEW u \in Threads, Loading'[u] # Null PROVE table'[Loading'[u]] = IO_FLAG
    BY <1>0, <2>1, <2>2, <2>3, Zenon DEF Flags
  <2>4. ASSUME NEW c \in Pages, table'[c] = IO_FLAG PROVE \E u \in Threads : Loading'[u] = c
    <3>1. table[c] = IO_FLAG
      BY <2>2, <2>4, Zenon
    <3>2. PICK u \in Threads : Loading[u] = c
      BY <1>0, <3>1, Zenon DEF Flags
    <3> QED BY <2>1, <3>2, Zenon
  <2>5. ASSUME NEW u \in Threads, NEW w \in Threads, Loading'[u] # Null, Loading'[u] = Loading'[w] PROVE u = w
    BY <1>0, <2>1, <2>5, ZenonT(40) DEF Flags
  <2> QED BY <2>3, <2>4, <2>5, Zenon DEF Flags
<1>5. Data'
  <2> SUFFICES ASSUME NEW l \in Leaves
               PROVE  /\ table'[l] \in Frames => content'[table'[l]] = current[l] \/ l \in Stale
                      /\ table'[l] \in Frames /\ ~dirty'[table'[l]] =>
                           remote[l] = content'[table'[l]] \/ l \in Stale \/ table'[l] \in Writing'
                      /\ table'[l] = Null => remote[l] = current[l]
                      /\ l \in Stale => remote[l] = current[l]
    BY Zenon DEF Data
  <2>1. l \in Pages
    BY Zenon DEF Pages
  <2>2. CASE table[l] = f
    <3>1. table'[l] = Null
      BY <1>2, <2>1, <2>2, Zenon
    <3>2. ~dirty[f] /\ f \notin Writing
      BY <1>1, ColdHangsNowhere, Zenon
    <3>3. remote[l] = current[l]
      BY <1>0, <1>1, <2>2, <3>2, Zenon DEF Data
    <3> QED BY <1>3, <3>1, <3>3, Zenon
  <2>3. CASE table[l] # f
    <3>1. table'[l] = table[l]
      BY <1>2, <2>1, <2>3, Zenon
    <3>2. table[l] \in Frames => content'[table[l]] = content[table[l]] /\ dirty'[table[l]] = dirty[table[l]]
      BY <2>3, Zenon
    <3> QED BY <1>0, <3>1, <3>2, Zenon DEF Data
  <2> QED BY <2>2, <2>3, Zenon
<1> QED BY <1>4, <1>5, Zenon

(* Latches change hands only between a thread, the cooling table and nobody. *)
SameLatch(t, W) ==
  \A h \in AllFrames \ W :
    /\ lock'[h] = lock[h] /\ (h \in Cool' <=> h \in Cool)
    /\ (h \in Held'[t] <=> h \in Held[t]) /\ (IoLatch'[t] = h <=> IoLatch[t] = h)

OwnLatch(t, W) ==
  \A h \in W :
    /\ lock'[h] = "write" <=> h \in Cool' \/ h \in Held'[t]
    /\ lock'[h] = "IO" <=> IoLatch'[t] = h
    /\ ~(h \in Cool' /\ h \in Held'[t])

LEMMA MovedLatches ==
  ASSUME Latches, NEW t \in Threads, NEW W, NotTheirs(t, W), RolesStay(t),
         SameLatch(t, W), OwnLatch(t, W), IoLatch'[t] \in AllFrames \cup {Null}
  PROVE  Latches'
<1>1. \A u \in Threads \ {t} : Held'[u] = Held[u] /\ IoLatch'[u] = IoLatch[u]
  BY Zenon DEF RolesStay
<1>2. \A u \in Threads : Held[u] \subseteq AllFrames /\ Held'[u] \subseteq AllFrames
  BY Zenon DEF Held
<1>3. ASSUME NEW h \in AllFrames
      PROVE  lock'[h] = "write" <=> (h \in Cool' \/ \E u \in Threads : h \in Held'[u])
  <2>1. CASE h \in W
    <3>1. lock'[h] = "write" <=> h \in Cool' \/ h \in Held'[t]
      BY <2>1, Zenon DEF OwnLatch
    <3>2. \A u \in Threads \ {t} : h \notin Held'[u]
      BY <1>1, <2>1, Zenon DEF NotTheirs
    <3> QED BY <3>1, <3>2, Zenon
  <2>2. CASE h \notin W
    <3>1. lock'[h] = lock[h] /\ (h \in Cool' <=> h \in Cool) /\ (h \in Held'[t] <=> h \in Held[t])
      BY <2>2, Zenon DEF SameLatch
    <3>2. \A u \in Threads : h \in Held'[u] <=> h \in Held[u]
      BY <1>1, <3>1, Zenon
    <3>3. lock[h] = "write" <=> (h \in Cool \/ \E u \in Threads : h \in Held[u])
      BY Zenon DEF Latches
    <3> QED BY <3>1, <3>2, <3>3, Zenon
  <2> QED BY <2>1, <2>2, Zenon
<1>4. ASSUME NEW h \in AllFrames PROVE lock'[h] = "IO" <=> \E u \in Threads : IoLatch'[u] = h
  <2>1. CASE h \in W
    <3>1. lock'[h] = "IO" <=> IoLatch'[t] = h
      BY <2>1, Zenon DEF OwnLatch
    <3>2. \A u \in Threads \ {t} : IoLatch'[u] # h
      BY <1>1, <2>1, Zenon DEF NotTheirs
    <3> QED BY <3>1, <3>2, Zenon
  <2>2. CASE h \notin W
    <3>1. lock'[h] = lock[h] /\ (IoLatch'[t] = h <=> IoLatch[t] = h)
      BY <2>2, Zenon DEF SameLatch
    <3>2. \A u \in Threads : IoLatch'[u] = h <=> IoLatch[u] = h
      BY <1>1, <3>1, Zenon
    <3>3. lock[h] = "IO" <=> \E u \in Threads : IoLatch[u] = h
      BY Zenon DEF Latches
    <3> QED BY <3>1, <3>2, <3>3, Zenon
  <2> QED BY <2>1, <2>2, Zenon
<1>5. ASSUME NEW u \in Threads \ {t}, NEW h \in AllFrames
      PROVE  /\ ~(h \in Held'[t] /\ h \in Held'[u])
             /\ ~(IoLatch'[t] = h /\ IoLatch'[u] = h)
  <2>1. CASE h \in W
    BY <1>1, <2>1, Zenon DEF NotTheirs
  <2>2. CASE h \notin W
    <3>1. (h \in Held'[t] <=> h \in Held[t]) /\ (IoLatch'[t] = h <=> IoLatch[t] = h)
      BY <2>2, Zenon DEF SameLatch
    <3>2. h # Null
      BY BufferPoolAssumption, Zenon DEF AllFrames
    <3>3. ~(h \in Held[t] /\ h \in Held[u])
      BY Zenon DEF Latches
    <3>4. IoLatch[t] # Null /\ IoLatch[t] = IoLatch[u] => t = u
      BY Zenon DEF Latches
    <3> QED BY <1>1, <3>1, <3>2, <3>3, <3>4, Zenon
  <2> QED BY <2>1, <2>2, Zenon
<1>6. ASSUME NEW u \in Threads, NEW h \in Held'[u] PROVE h \notin Cool'
  <2>0. h \in AllFrames
    BY <1>2, Zenon
  <2>1. CASE h \in W
    <3>1. u = t
      BY <1>1, <1>6, <2>1, Zenon DEF NotTheirs
    <3> QED BY <1>6, <2>1, <3>1, Zenon DEF OwnLatch
  <2>2. CASE h \notin W
    <3>1. (h \in Cool' <=> h \in Cool) /\ (h \in Held'[t] <=> h \in Held[t])
      BY <2>0, <2>2, Zenon DEF SameLatch
    <3>2. h \in Held[u]
      BY <1>1, <1>6, <3>1, Zenon
    <3> QED BY <3>1, <3>2, Zenon DEF Latches
  <2> QED BY <2>1, <2>2, Zenon
<1>7. \A u, w \in Threads : \A h \in Held'[u] : h \in Held'[w] => u = w
  <2> SUFFICES ASSUME NEW u \in Threads, NEW w \in Threads, NEW h \in Held'[u], h \in Held'[w], u # w PROVE FALSE
    BY Zenon
  <2>1. h \in AllFrames
    BY <1>2, Zenon
  <2>2. CASE u = t \/ w = t
    BY <1>5, <2>1, <2>2, Zenon
  <2>3. CASE u # t /\ w # t
    BY <1>1, <2>3, Zenon DEF Latches
  <2> QED BY <2>2, <2>3, Zenon
<1>8. \A u, w \in Threads : IoLatch'[u] # Null /\ IoLatch'[u] = IoLatch'[w] => u = w
  <2> SUFFICES ASSUME NEW u \in Threads, NEW w \in Threads, IoLatch'[u] # Null, IoLatch'[u] = IoLatch'[w], u # w PROVE FALSE
    BY Zenon
  <2>2. CASE u = t \/ w = t
    <3>1. IoLatch'[t] \in AllFrames
      BY <2>2, Zenon
    <3> QED BY <1>5, <2>2, <3>1, Zenon
  <2>3. CASE u # t /\ w # t
    <3>1. IoLatch[u] # Null /\ IoLatch[u] = IoLatch[w]
      BY <1>1, <2>3, Zenon
    <3> QED BY <3>1, Zenon DEF Latches
  <2> QED BY <2>2, <2>3, Zenon
<1> QED BY <1>3, <1>4, <1>6, <1>7, <1>8, Zenon DEF Latches

LEMMA LastEntry ==
  ASSUME NEW s \in Seq(Frames), s # <<>> PROVE Len(s) \in 1..Len(s) /\ s[Len(s)] \in Frames
  BY SMT

(* A bucket gives up its last entry. *)
LEMMA LastIsCool ==
  ASSUME Sound, NEW b \in Buckets, cooling[b] # <<>>
  PROVE  /\ Len(cooling[b]) \in 1..Len(cooling[b]) /\ evict_last(b) = cooling[b][Len(cooling[b])]
         /\ evict_last(b) \in Cool /\ evict_last(b) \in Frames /\ ~Hot(evict_last(b))
         /\ lock[evict_last(b)] = "write" /\ evict_last(b) \in AllFrames /\ evict_last(b) # Root
         /\ \A u \in Threads : evict_last(b) \notin Held[u] /\ evict_last(b) \notin local[u] /\ frame[u] # evict_last(b)
<1> DEFINE f == evict_last(b)
<1>1. /\ Len(cooling[b]) \in 1..Len(cooling[b]) /\ f = cooling[b][Len(cooling[b])] /\ f \in Frames
  <2>1. cooling[b] \in Seq(Frames)
    BY Zenon DEF Sound, TypeOK, PoolTypes
  <2> QED BY <2>1, LastEntry, Zenon DEF evict_last
<1>2. f \in Cool
  <2>1. cooling \in [Buckets -> Seq(Frames)] /\ Cool = Entries(cooling)
    BY CoolingIsTidy, Zenon
  <2>2. \E i \in 1..Len(cooling[b]) : cooling[b][i] = f
    BY <1>1, Zenon
  <2> QED BY <2>1, <2>2, EntriesOfBuckets, Zenon
<1> HIDE DEF f
<1>3. ~Hot(f) /\ f \in AllFrames /\ f # Root
  BY <1>1, <1>2, CoolingIsTidy, BufferPoolAssumption, Zenon DEF Hot, AllFrames
<1>4. lock[f] = "write" /\ \A u \in Threads : f \notin Held[u]
  BY <1>2, <1>3, Zenon DEF Sound, Latches
<1>5. \A u \in Threads : f \notin local[u] /\ frame[u] # f
  BY <1>3, <1>4, Zenon DEF Held
<1> QED BY <1>1, <1>2, <1>3, <1>4, <1>5, Zenon DEF f

(* An entry leaves the cooling table. *)
LEMMA CoolingGivesUp ==
  ASSUME Sound, NEW b \in Buckets, NEW i \in 1..Len(cooling[b]), Removed(cooling, cooling', b, i),
         SameIn(Entries(cooling) \ {cooling[b][i]}, pos_state, page, pos_state', page')
  PROVE  /\ cooling' \in [Buckets -> Seq(Frames)] /\ Cooled'
         /\ Len(cooling'[b]) = Len(cooling[b]) - 1 /\ \A e \in Buckets \ {b} : cooling'[e] = cooling[e]
         /\ \A h : h \in Cool' <=> h \in Cool /\ h # cooling[b][i]
<1>1. Tidy(cooling, pos_state, page) /\ cooling \in [Buckets -> Seq(Frames)]
  BY CoolingIsTidy, Zenon
<1>2. /\ cooling' \in [Buckets -> Seq(Frames)] /\ Tidy(cooling', pos_state', page')
      /\ Loses(cooling, cooling', b, cooling[b][i])
  BY <1>1, RemoveIsTidy, Zenon
<1>3. Cool' = Entries(cooling') /\ Cool = Entries(cooling)
  BY Zenon DEF Cool, Entries
<1> QED BY <1>2, <1>3, Zenon DEF Cooled, Loses

LEMMA evictIsSound ==
  ASSUME Sound, NEW t \in Threads, NEW b \in Buckets, evict(t, b) PROVE Sound'
<1> DEFINE f == evict_last(b)
<1>0. /\ TypeOK /\ FrameTypes /\ PoolTypes /\ ThreadTypes /\ Latches /\ Versioned /\ Positions /\ Table
  BY Zenon DEF Sound, TypeOK
<1>1. /\ pc[t] = "empty" /\ cooling[b] # <<>> /\ local[t] = {} /\ pc' = [pc EXCEPT ![t] = "read"]
      /\ cooling' = [cooling EXCEPT ![b] = remove(@, Len(@))] /\ table' = Uncache(f)
      /\ frame' = [frame EXCEPT ![t] = f] /\ lock' = [lock EXCEPT ![f] = "write"]
      /\ page' = [h \in Frames |-> IF h \in {f} THEN Null ELSE page[h]]
      /\ content' = [h \in Frames |-> IF h \in {f} THEN Null ELSE content[h]]
      /\ UNCHANGED <<pos_state, dirty, children, parent_ptr, local, remote, current>>
      /\ UNCHANGED <<ret, todo, op, goal, val, cur, par, seen, victim>>
  BY Zenon DEF evict, Hold, Go, Forget
<1>2. /\ Len(cooling[b]) \in 1..Len(cooling[b]) /\ f = cooling[b][Len(cooling[b])]
      /\ f \in Cool /\ f \in Frames /\ ~Hot(f) /\ lock[f] = "write" /\ f \in AllFrames /\ f # Root
      /\ \A u \in Threads : f \notin Held[u] /\ f \notin local[u] /\ frame[u] # f
  BY <1>1, LastIsCool, Zenon
<1>3. Removed(cooling, cooling', b, Len(cooling[b]))
  BY <1>1, Zenon DEF Removed
<1> HIDE DEF f
<1>s. /\ pos_state' = pos_state /\ dirty' = dirty /\ children' = children
      /\ parent_ptr' = parent_ptr /\ local' = local /\ seen' = seen
  BY <1>1, Zenon
<1>p. /\ \A h \in Frames : page'[h] = (IF h = f THEN Null ELSE page[h])
      /\ \A h \in Frames : content'[h] = (IF h = f THEN Null ELSE content[h])
      /\ \A c \in Pages : table'[c] = (IF table[c] = f THEN Null ELSE table[c])
  BY <1>1, Zenon DEF Uncache
<1>l. lock' = lock
  BY <1>0, <1>1, <1>2, SameLock, Zenon
<1>4. ColdStep
  BY <1>s, <1>p, <1>2, ColdHangsNowhere, Zenon DEF ColdStep, Hot
<1>5. TakeStep(t, f)
  <2>1. \A h \in Frames : Hot(h) => page'[h] = page[h] /\ pos_state'[h] = "hot"
    BY <1>4, Zenon DEF ColdStep
  <2> QED BY <1>1, <1>2, <2>1, Zenon DEF TakeStep
<1>6. /\ OthersStay(t) /\ RolesStay(t) /\ KeepsAnswers(t) /\ ThreadTypes' /\ Mine(t)'
      /\ IoLatch'[t] = IoLatch[t] /\ Loading'[t] = Loading[t]
      /\ Unhung' = Unhung /\ Writing' = Writing /\ Stale' = Stale /\ frame'[t] = f
      /\ \A h \in AllFrames : h \in Held[t] <=> h \in local[t]
      /\ \A h \in AllFrames : h \in Held'[t] <=> h = f \/ h \in local'[t]
  BY <1>5, TakerKeeps, Zenon
<1>7. Step(t, {f})
  <2>1. NotTheirs(t, {f})
    BY <1>0, <1>2, PrivateFrames
  <2>2. Untouched({f})
    BY <1>s, <1>p, Zenon DEF Untouched
  <2> QED BY <1>s, <1>2, <1>6, <2>1, <2>2, Zenon DEF Step
<1>8. /\ cooling' \in [Buckets -> Seq(Frames)] /\ Cooled'
      /\ Len(cooling'[b]) = Len(cooling[b]) - 1 /\ \A e \in Buckets \ {b} : cooling'[e] = cooling[e]
      /\ \A h : h \in Cool' <=> h \in Cool /\ h # f
  <2>1. SameIn(Entries(cooling) \ {cooling[b][Len(cooling[b])]}, pos_state, page, pos_state', page')
    BY <1>s, <1>p, <1>2, CoolingIsTidy, Zenon DEF SameIn
  <2> QED BY <1>2, <1>3, <2>1, CoolingGivesUp, ZenonT(40)
<1>9. TypeOK'
  <2>1. FrameTypes'
    <3>1. page' \in [Frames -> Pages \cup {Null}] /\ content' \in [Frames -> Values \cup {Null, Torn}]
      BY <1>0, <1>1, Zenon DEF FrameTypes
    <3> QED BY <1>0, <1>s, <1>l, <3>1, Zenon DEF FrameTypes
  <2>2. table' \in [Pages -> Frames \cup {Null, IO_FLAG}]
    BY <1>0, <1>1, Zenon DEF PoolTypes, Uncache
  <2>3. \A e \in Buckets : Len(cooling'[e]) <= CoolSize
    <3>1. \A e \in Buckets : Len(cooling[e]) <= CoolSize /\ cooling[e] \in Seq(Frames)
      BY <1>0, Zenon DEF PoolTypes
    <3>2. Len(cooling[b]) \in Nat /\ CoolSize \in Nat
      BY <3>1, BufferPoolAssumption
    <3>3. Len(cooling[b]) - 1 <= CoolSize
      BY <3>1, <3>2
    <3> QED BY <1>8, <3>1, <3>3, Zenon
  <2>4. PoolTypes'
    BY <1>0, <1>1, <1>8, <2>2, <2>3, Zenon DEF PoolTypes
  <2> QED BY <1>6, <2>1, <2>4, Zenon DEF TypeOK
<1>10. Latches'
  <2>1. NotTheirs(t, {f})
    BY <1>7, Zenon DEF Step
  <2>2. SameLatch(t, {f})
    BY <1>s, <1>l, <1>6, <1>8, Zenon DEF SameLatch
  <2>3. \A u \in Threads : IoLatch[u] # f
    BY <1>2, ColdHangsNowhere, Zenon
  <2>4. OwnLatch(t, {f})
    BY <1>l, <1>2, <1>6, <1>8, <2>3, Zenon DEF OwnLatch
  <2>5. IoLatch[t] \in AllFrames \cup {Null}
    BY <1>0, Zenon DEF IoLatch, ThreadTypes
  <2> QED BY <1>0, <1>6, <2>1, <2>2, <2>4, <2>5, MovedLatches, Zenon
<1>11. Flags' /\ Data'
  BY <1>1, <1>s, <1>p, <1>2, <1>6, UncacheKeeps, Zenon
<1>12. Tree'
  BY <1>s, <1>4, ColdStepKeepsTree, Zenon
<1>13. Table'
  <2>1. \A g \in Frames : Hot(g) => table'[page[g]] = table[page[g]]
    <3>1. \A g \in Frames : Hot(g) => page[g] \in Pages /\ table[page[g]] = g /\ g # f
      BY <1>0, <1>2, Zenon DEF Table
    <3> QED BY <1>p, <3>1, Zenon
  <2>2. ASSUME NEW c \in Pages, table'[c] \in Frames
        PROVE  page'[table'[c]] = c /\ (pos_state'[table'[c]] = "hot" \/ table'[c] \in Cool')
    <3>1. table'[c] = table[c] /\ table[c] # f
      BY <1>p, <2>2, BufferPoolAssumption, Zenon
    <3>2. page[table[c]] = c /\ (Hot(table[c]) \/ table[c] \in Cool)
      BY <1>0, <2>2, <3>1, Zenon DEF Table
    <3> QED BY <1>s, <1>p, <1>8, <2>2, <3>1, <3>2, Zenon DEF Hot
  <2> QED BY <1>4, <1>6, <2>1, <2>2, ColdStepKeepsTable, Zenon
<1>14. Positions'
  <2>1. pos_state[f] = "cool"
    BY <1>2, CoolingIsTidy, Zenon
  <2>2. Positioned(t)'
    BY <1>1, <1>s, <1>6, <2>1, Zenon DEF Positioned
  <2> QED BY <1>7, <2>2, OthersKeepPositions, Zenon
<1>15. Versioned'
  BY <1>0, <1>s, <1>l, SameVersioned, Zenon
<1> QED BY <1>6, <1>7, <1>8, <1>9, <1>10, <1>11, <1>12, <1>13, <1>14, <1>15, OthersFollow, Zenon DEF Sound

(* The frame a thread loads a page into. *)
LEMMA FrameInHand ==
  ASSUME Sound, NEW t \in Threads, frame[t] # Null
  PROVE  /\ frame[t] \in Frames /\ frame[t] \in AllFrames /\ ~Hot(frame[t]) /\ frame[t] # Root
         /\ frame[t] \in Held[t] /\ lock[frame[t]] = "write" /\ frame[t] \notin Cool
         /\ frame[t] \notin local[t] /\ victim[t] = Null
         /\ \A c \in Pages : table[c] # frame[t]
<1>0. ThreadTypes /\ Placed(t) /\ Positioned(t) /\ Latches /\ Table
  BY Zenon DEF Sound, TypeOK, Places, Positions
<1>1. frame[t] \in Frames /\ frame[t] \in AllFrames /\ ~Hot(frame[t]) /\ frame[t] \notin local[t]
  BY <1>0, Zenon DEF ThreadTypes, AllFrames, Positioned, Hot
<1>2. frame[t] \in Held[t]
  BY <1>1, Zenon DEF Held
<1>3. lock[frame[t]] = "write" /\ frame[t] \notin Cool
  BY <1>0, <1>1, <1>2, Zenon DEF Latches
<1>4. \A c \in Pages : table[c] # frame[t]
  BY <1>0, <1>1, <1>3, Zenon DEF Table
<1>5. victim[t] = Null /\ frame[t] # Root
  BY <1>0, <1>1, BufferPoolAssumption, Zenon DEF Placed
<1> QED BY <1>1, <1>2, <1>3, <1>4, <1>5, Zenon

LEMMA remote_to_cacheIsSound ==
  ASSUME Sound, NEW t \in Threads, remote_to_cache(t) PROVE Sound'
<1> DEFINE f == frame[t]
           c == Missing(t)
<1>0. /\ TypeOK /\ FrameTypes /\ PoolTypes /\ ThreadTypes /\ Latches /\ Versioned /\ Positions /\ Table
      /\ Placed(t) /\ Headed(t) /\ Answered(t) /\ Data
  BY Zenon DEF Sound, TypeOK, Places, OnTheWay, Served
<1>1. /\ pc[t] = "read" /\ pc' = [pc EXCEPT ![t] = "swizzle"]
      /\ page' = [page EXCEPT ![f] = c]
      /\ content' = [content EXCEPT ![f] = IF c \in Leaves THEN remote[c] ELSE Null]
      /\ dirty' = [dirty EXCEPT ![f] = FALSE]
      /\ children' = [children EXCEPT ![f] = [d \in Pages |-> Null]]
      /\ parent_ptr' = [parent_ptr EXCEPT ![f] = Null]
      /\ pos_state' = [pos_state EXCEPT ![f] = "remote"]
      /\ UNCHANGED <<lock, table, cooling, local, remote, current>>
      /\ UNCHANGED <<ret, todo, op, goal, val, cur, par, seen, frame, victim>>
  BY Zenon DEF remote_to_cache, Go, poolVars
<1>2. f # Null
  BY <1>0, <1>1, Zenon DEF Placed
<1>3. /\ f \in Frames /\ f \in AllFrames /\ ~Hot(f) /\ f # Root
      /\ f \in Held[t] /\ lock[f] = "write" /\ f \notin Cool
      /\ f \notin local[t] /\ victim[t] = Null /\ \A d \in Pages : table[d] # f
  BY <1>2, FrameInHand, Zenon
<1>4. c \in Pages /\ cur[t] \in AllFrames /\ goal[t] \in Leaves
  BY <1>1, MissingIsAPage, Zenon
<1>f. frame'[t] = f /\ Missing(t)' = c
  BY <1>1, Zenon DEF Missing, Next_page
<1> HIDE DEF f, c
<1>s. /\ lock' = lock /\ table' = table /\ cooling' = cooling /\ local' = local /\ remote' = remote
      /\ current' = current /\ seen' = seen /\ frame' = frame
  BY <1>1, Zenon
<1>v. IF c \in Leaves THEN remote[c] \in Values \cup {Torn} ELSE TRUE
  BY <1>0, Zenon DEF PoolTypes
<1>p. /\ \A h \in Frames : page'[h] = (IF h = f THEN c ELSE page[h])
      /\ \A h \in Frames : content'[h] = (IF h = f THEN IF c \in Leaves THEN remote[c] ELSE Null ELSE content[h])
      /\ \A h \in Frames : dirty'[h] = (IF h = f THEN FALSE ELSE dirty[h])
      /\ \A h \in Frames : parent_ptr'[h] = (IF h = f THEN Null ELSE parent_ptr[h])
      /\ \A h \in Frames : pos_state'[h] = (IF h = f THEN "remote" ELSE pos_state[h])
      /\ \A h \in AllFrames : children'[h] = (IF h = f THEN [d \in Pages |-> Null] ELSE children[h])
  BY <1>0, <1>1, Zenon DEF FrameTypes
<1>5. ColdStep
  <2>1. parent_ptr[f] = Null /\ ~dirty[f] /\ \A d \in Pages : children[f][d] = Null
    BY <1>3, ColdHangsNowhere, Zenon
  <2>2. \A d \in Pages : children'[f][d] = Null
    BY <1>p, <1>3, ZenonT(40)
  <2>3. \A h \in Frames : h \in AllFrames
    BY Zenon DEF AllFrames
  <2> SUFFICES ASSUME NEW h \in Frames
               PROVE  /\ Hot(h) <=> pos_state'[h] = "hot"
                      /\ Hot(h) => /\ page'[h] = page[h] /\ parent_ptr'[h] = parent_ptr[h]
                                   /\ children'[h] = children[h] /\ dirty'[h] = dirty[h]
                      /\ ~Hot(h) => /\ parent_ptr'[h] = parent_ptr[h] /\ ~dirty'[h]
                                    /\ \A d \in Pages : children'[h][d] = children[h][d]
    BY Zenon DEF ColdStep
  <2>4. CASE h = f
    BY <1>p, <1>3, <2>1, <2>2, <2>4, Zenon
  <2>5. CASE h # f
    <3>1. /\ page'[h] = page[h] /\ parent_ptr'[h] = parent_ptr[h] /\ dirty'[h] = dirty[h]
          /\ children'[h] = children[h] /\ pos_state'[h] = pos_state[h]
      BY <1>p, <2>3, <2>5, Zenon
    <3>2. ~Hot(h) => ~dirty[h]
      BY ColdHangsNowhere, Zenon
    <3> QED BY <3>1, <3>2, Zenon DEF Hot
  <2> QED BY <2>4, <2>5, Zenon
<1>6. pc'[t] = "swizzle" /\ OthersStay(t)
  BY <1>0, <1>1, Zenon DEF ThreadTypes, OthersStay
<1>7. /\ RolesStay(t) /\ KeepsAnswers(t) /\ IoLatch'[t] = cur[t] /\ IoLatch[t] = cur[t]
      /\ Loading'[t] = c /\ Loading[t] = c
  BY <1>1, <1>6, OthersKeepRoles, SameAnswers, ServerKeepsRoles, Zenon DEF ServePCs, c
<1>8. ~Latched(t) /\ ~Latched(t)'
  BY <1>1, <1>6, Zenon DEF Latched
<1>9. Held'[t] = Held[t] /\ Unhung' = Unhung /\ Writing' = Writing /\ Stale' = Stale /\ Cool' = Cool
  <2>1. Held'[t] = Held[t]
    BY <1>1, <1>8, Zenon DEF Held
  <2> QED BY <1>1, <1>6, <1>8, <2>1, SameUnhung, SameStale, SameCool, Zenon
<1>10. Mine(t)'
  <2>1. Placed(t)' /\ Sampled(t)'
    BY <1>0, <1>1, <1>3, <1>6, Zenon DEF Placed, Sampled, Latched, Sampling
  <2>2. Headed(t)'
    <3>1. cur[t] # Root => Hot(cur[t]) /\ page[cur[t]] = above[goal[t]] /\ cur[t] \in Frames
      <4>1. cur[t] # Null
        BY <1>4, BufferPoolAssumption, Zenon DEF AllFrames
      <4> QED BY <1>0, <1>4, <1>7, <4>1, Zenon DEF Headed, AllFrames
    <3>2. cur[t] # Root => page'[cur[t]] = above[goal[t]] /\ pos_state'[cur[t]] = "hot"
      BY <1>5, <3>1, Zenon DEF ColdStep
    <3> QED BY <1>1, <3>2, Zenon DEF Headed, Hot
  <2>3. Answered(t)'
    <3>1. c \in Leaves => remote'[c] = current'[c]
      BY <1>0, <1>1, <1>s, <1>7, Zenon DEF Answered
    <3>2. page'[f] = c /\ ~dirty'[f] /\ (c \in Leaves => content'[f] = remote'[c])
      BY <1>s, <1>p, <1>3, Zenon
    <3> QED BY <1>f, <1>6, <1>7, <3>1, <3>2, Zenon DEF Answered
  <2> QED BY <2>1, <2>2, <2>3, Zenon DEF Mine
<1>11. Step(t, {f})
  <2>1. NotTheirs(t, {f})
    BY <1>0, <1>3, PrivateFrames
  <2>2. Untouched({f})
    BY <1>s, <1>p, Zenon DEF Untouched
  <2> QED BY <1>s, <1>3, <1>6, <1>7, <2>1, <2>2, Zenon DEF Step
<1>12. TypeOK'
  <2>1. page' \in [Frames -> Pages \cup {Null}] /\ dirty' \in [Frames -> BOOLEAN]
    BY <1>0, <1>1, <1>4, Zenon DEF FrameTypes
  <2>2. content' \in [Frames -> Values \cup {Null, Torn}]
    BY <1>0, <1>1, <1>v, Zenon DEF FrameTypes
  <2>3. children' \in [AllFrames -> [Pages -> Frames \cup {Null}]]
    BY <1>0, <1>1, Zenon DEF FrameTypes
  <2>4. parent_ptr' \in [Frames -> AllFrames \cup {Null}] /\ pos_state' \in [Frames -> PosStates]
    BY <1>0, <1>1, Zenon DEF FrameTypes, PosStates
  <2>5. ThreadTypes'
    BY <1>0, <1>1, Zenon DEF ThreadTypes, PCs
  <2> QED BY <1>0, <1>1, <2>1, <2>2, <2>3, <2>4, <2>5, SamePoolTypes, Zenon DEF TypeOK, FrameTypes
<1>13. Latches' /\ Flags' /\ Versioned'
  <2>1. Latches' /\ Flags'
    BY <1>s, <1>7, <1>9, SameLatches, SameFlags, Zenon DEF Sound
  <2>2. \A u \in Threads, h \in AllFrames : h # Root /\ seen[u][h] # "none" => pos_state'[h] = "hot"
    BY <1>0, <1>5, Zenon DEF Versioned, AllFrames, ColdStep
  <2> QED BY <1>0, <1>s, <2>1, <2>2, Zenon DEF Versioned, Hot
<1>14. Data'
  <2>1. \A l \in Leaves : l \in Pages
    BY Zenon DEF Pages
  <2>2. \A l \in Leaves : table[l] \in Frames =>
          content'[table[l]] = content[table[l]] /\ dirty'[table[l]] = dirty[table[l]]
    BY <1>p, <1>3, <2>1, Zenon
  <2> QED BY <1>0, <1>s, <1>9, <2>2, Zenon DEF Data
<1>15. Tree'
  BY <1>p, <1>3, <1>5, ColdStepKeepsTree, Zenon DEF AllFrames
<1>16. Table'
  <2>1. \A d \in Pages : table[d] \in Frames =>
          page'[table[d]] = d /\ (pos_state'[table[d]] = "hot" \/ table[d] \in Cool')
    BY <1>0, <1>p, <1>3, <1>9, ZenonT(40) DEF Table, Hot
  <2> QED BY <1>s, <1>5, <1>9, <2>1, ColdStepKeepsTable, Zenon
<1>17. Cooled'
  <2>1. SameIn(Entries(cooling), pos_state, page, pos_state', page')
    BY <1>p, <1>3, CoolingIsTidy, Zenon DEF SameIn
  <2>2. Tidy(cooling, pos_state', page')
    BY <2>1, CoolingIsTidy, TidyStays, Zenon
  <2> QED BY <1>s, <2>2, Zenon DEF Cooled
<1>18. Positions'
  <2>1. Positioned(t) /\ local[t] \subseteq Frames
    BY <1>0, Zenon DEF Positions, PoolTypes
  <2>2. Positioned(t)'
    BY <1>s, <1>f, <1>p, <1>3, <2>1, ZenonT(40) DEF Positioned
  <2> QED BY <1>11, <2>2, OthersKeepPositions, Zenon
<1> QED BY <1>10, <1>11, <1>12, <1>13, <1>14, <1>15, <1>16, <1>17, <1>18, OthersFollow, Zenon DEF Sound

-----------------------------------------------------------------------------
(* A thread hangs frame g, which nobody else has, under the page it is at. *)
SwizzleStep(t, g) ==
  /\ pc[t] \in {"cache_get", "swizzle"} /\ g \in Frames /\ ~Hot(g) /\ page[g] = Missing(t)
  /\ lock[g] = "write" /\ NotTheirs(t, {g}) /\ g \notin local[t]
  /\ Swizzle(t, g)
  /\ UNCHANGED <<page, dirty, content, local, remote, current, ret, todo, op, goal, val, victim>>
  /\ frame'[t] = Null /\ \A u \in Threads \ {t} : frame'[u] = frame[u]
  /\ frame' \in [Threads -> Frames \cup {Null}] /\ frame[t] \in {g, Null}
  /\ table' \in [Pages -> Frames \cup {Null, IO_FLAG}]
  /\ \A d \in Pages : table'[d] = IF d = Missing(t) THEN g ELSE table[d]
  /\ table[Missing(t)] \in {g, IO_FLAG}
  /\ table[Missing(t)] = IO_FLAG => Loading[t] = Missing(t)
  /\ Missing(t) \in Leaves => /\ content[g] = current[Missing(t)] \/ Missing(t) \in Stale
                              /\ remote[Missing(t)] = content[g] \/ Missing(t) \in Stale
  /\ cooling' \in [Buckets -> Seq(Frames)] /\ \A b \in Buckets : Len(cooling'[b]) <= CoolSize
  /\ Cooled' /\ \A h : h \in Cool' <=> h \in Cool /\ h # g

(* The page the frame is hung under: on the way, IO-latched and without that  *)
(* child.                                                                     *)
LEMMA SwizzlePlace ==
  ASSUME Sound, NEW t \in Threads, NEW g, SwizzleStep(t, g)
  PROVE  /\ g \in Frames /\ g \in AllFrames /\ g # Root /\ g # Null /\ cur[t] \in AllFrames /\ cur[t] # g
         /\ Missing(t) \in Pages /\ goal[t] \in Leaves /\ Missing(t) \in {above[goal[t]], goal[t]}
         /\ IoLatch[t] = cur[t] /\ lock[cur[t]] = "IO" /\ (cur[t] # Root => Hot(cur[t])) /\ Below(cur[t], Missing(t))
         /\ children[cur[t]][Missing(t)] = Null
         /\ victim[t] = Null /\ ret[t] = "lock" /\ val[t] \in Values
<1>0. /\ ThreadTypes /\ FrameTypes /\ Placed(t) /\ Headed(t) /\ Latches /\ Tree /\ Table
  BY Zenon DEF Sound, TypeOK, Places, OnTheWay
<1>1. /\ pc[t] \in {"cache_get", "swizzle"} /\ g \in Frames /\ ~Hot(g) /\ page[g] = Missing(t)
      /\ table[Missing(t)] \in {g, IO_FLAG}
  BY Zenon DEF SwizzleStep
<1>2. cur[t] \in AllFrames /\ goal[t] \in Leaves /\ Missing(t) \in Pages
  BY <1>1, MissingIsAPage, Zenon
<1>3. g \in AllFrames /\ g # Root /\ g # Null /\ cur[t] # Null
  BY <1>1, <1>2, BufferPoolAssumption, Zenon DEF AllFrames
<1>4. IoLatch[t] = cur[t]
  BY <1>1, Zenon DEF IoLatch, Holds, Serves, ServePCs
<1>5. lock[cur[t]] = "IO"
  BY <1>0, <1>2, <1>4, Zenon DEF Latches
<1>6. cur[t] # Root => Hot(cur[t]) /\ page[cur[t]] = above[goal[t]]
  BY <1>0, <1>3, <1>4, Zenon DEF Headed
<1>7. Below(cur[t], Missing(t)) /\ Missing(t) \in {above[goal[t]], goal[t]}
  BY <1>2, <1>6, BufferPoolAssumption, Zenon DEF Below, Missing, Next_page
<1>8. children[cur[t]][Missing(t)] = Null
  <2> SUFFICES ASSUME children[cur[t]][Missing(t)] # Null PROVE FALSE
    BY Zenon
  <2> DEFINE x == children[cur[t]][Missing(t)]
  <2>1. x \in Frames /\ page[x] = Missing(t) /\ Hot(x)
    BY <1>0, <1>2 DEF FrameTypes, Tree
  <2>2. table[Missing(t)] = x
    BY <1>0, <2>1, Zenon DEF Table
  <2> HIDE DEF x
  <2> QED BY <1>1, <2>1, <2>2, BufferPoolAssumption, Zenon
<1>9. victim[t] = Null /\ ret[t] = "lock" /\ val[t] \in Values
  BY <1>0, <1>1, Zenon DEF Placed, Sampling, ThreadTypes
<1>10. cur[t] # g
  BY <1>1, <1>3, <1>6, Zenon
<1> QED BY <1>1, <1>2, <1>3, <1>4, <1>5, <1>6, <1>7, <1>8, <1>9, <1>10, Zenon

(* What the step changes, frame by frame. *)
Hung(g, k, c) ==
  /\ \A h \in AllFrames, d \in Pages : children'[h][d] = IF h = k /\ d = c THEN g ELSE children[h][d]
  /\ \A h \in AllFrames : h # k => children'[h] = children[h]
  /\ \A h \in Frames : parent_ptr'[h] = IF h = g THEN k ELSE parent_ptr[h]
  /\ \A h \in Frames : pos_state'[h] = IF h = g THEN "hot" ELSE pos_state[h]
  /\ \A h \in AllFrames : lock'[h] = IF h = g \/ h = k THEN "free" ELSE lock[h]

LEMMA SwizzleEffect ==
  ASSUME Sound, NEW t \in Threads, NEW g, SwizzleStep(t, g)
  PROVE  Hung(g, cur[t], Missing(t)) /\ FrameTypes'
<1>0. FrameTypes
  BY Zenon DEF Sound, TypeOK
<1>1. /\ children' = [children EXCEPT ![cur[t]][Missing(t)] = g]
      /\ parent_ptr' = [parent_ptr EXCEPT ![g] = cur[t]]
      /\ pos_state' = [pos_state EXCEPT ![g] = "hot"]
      /\ lock' = [lock EXCEPT ![g] = "free", ![cur[t]] = "free"]
      /\ UNCHANGED <<page, dirty, content>>
  BY Zenon DEF SwizzleStep, Swizzle
<1>2. g \in Frames /\ g \in AllFrames /\ cur[t] \in AllFrames /\ Missing(t) \in Pages
  BY SwizzlePlace, Zenon
<1>3. children \in [AllFrames -> [Pages -> Frames \cup {Null}]]
  BY <1>0, Zenon DEF FrameTypes
<1>4. children' \in [AllFrames -> [Pages -> Frames \cup {Null}]]
  BY <1>1, <1>2, <1>3
<1>5. \A h \in AllFrames, d \in Pages :
        children'[h][d] = IF h = cur[t] /\ d = Missing(t) THEN g ELSE children[h][d]
  BY <1>1, <1>2, <1>3
<1>6. \A h \in AllFrames : h # cur[t] => children'[h] = children[h]
  BY <1>1, <1>3, Zenon
<1>7. /\ \A h \in Frames : parent_ptr'[h] = IF h = g THEN cur[t] ELSE parent_ptr[h]
      /\ \A h \in Frames : pos_state'[h] = IF h = g THEN "hot" ELSE pos_state[h]
  BY <1>0, <1>1, Zenon DEF FrameTypes
<1>8. \A h \in AllFrames : lock'[h] = IF h = g \/ h = cur[t] THEN "free" ELSE lock[h]
  BY <1>0, <1>1, <1>2 DEF FrameTypes
<1>9. FrameTypes'
  <2>1. parent_ptr' \in [Frames -> AllFrames \cup {Null}] /\ pos_state' \in [Frames -> PosStates]
    BY <1>0, <1>1, <1>2, Zenon DEF FrameTypes, PosStates
  <2>2. lock' \in [AllFrames -> {"free", "IO", "write"}]
    BY <1>0, <1>1, <1>2, Zenon DEF FrameTypes
  <2> QED BY <1>0, <1>1, <1>4, <2>1, <2>2, Zenon DEF FrameTypes
<1> QED BY <1>5, <1>6, <1>7, <1>8, <1>9, Zenon DEF Hung

LEMMA SwizzleKeepsTree ==
  ASSUME Sound, NEW t \in Threads, NEW g, SwizzleStep(t, g) PROVE Tree'
<1> DEFINE k == cur[t]
           c == Missing(t)
<1>0. Tree /\ FrameTypes
  BY Zenon DEF Sound, TypeOK
<1>1. /\ g \in Frames /\ k \in AllFrames /\ k # g /\ c \in Pages /\ g # Root
      /\ (k # Root => Hot(k)) /\ Below(k, c) /\ children[k][c] = Null
  BY SwizzlePlace, ZenonT(40)
<1>2. ~Hot(g) /\ page[g] = c /\ page' = page
  BY Zenon DEF SwizzleStep
<1>3. /\ \A h \in AllFrames, d \in Pages : children'[h][d] = IF h = k /\ d = c THEN g ELSE children[h][d]
      /\ \A h \in Frames : parent_ptr'[h] = IF h = g THEN k ELSE parent_ptr[h]
      /\ \A h \in Frames : pos_state'[h] = IF h = g THEN "hot" ELSE pos_state[h]
  <2>1. Hung(g, k, c)
    BY SwizzleEffect, Zenon
  <2> HIDE DEF k, c
  <2> QED BY <2>1, Zenon DEF Hung
<1> HIDE DEF k, c
<1>4. \A h \in Frames : Hot(h) => Hot(h)' /\ h # g
  BY <1>2, <1>3, Zenon DEF Hot
<1>5. \A h, d : Below(h, d)' = Below(h, d)
  BY <1>2, Zenon DEF Below
<1>6. ASSUME NEW f \in AllFrames, NEW d \in Pages, children'[f][d] # Null
      PROVE  /\ parent_ptr'[children'[f][d]] = f /\ page'[children'[f][d]] = d /\ Hot(children[f][d])'
             /\ (f # Root => Hot(f)') /\ Below(f, d)'
  <2>1. f # Root => f \in Frames
    BY Zenon DEF AllFrames
  <2>2. CASE f = k /\ d = c
    <3>1. children'[f][d] = g /\ parent_ptr'[g] = k /\ pos_state'[g] = "hot"
      BY <1>1, <1>3, <2>2, Zenon
    <3> QED BY <1>1, <1>2, <1>4, <1>5, <2>1, <2>2, <3>1, Zenon DEF Hot
  <2>3. CASE ~(f = k /\ d = c)
    <3>1. children'[f][d] = children[f][d] /\ children[f][d] # Null
      BY <1>3, <1>6, <2>3, Zenon
    <3>2. children[f][d] \in Frames
      BY <1>0, <3>1 DEF FrameTypes
    <3>3. /\ parent_ptr[children[f][d]] = f /\ page[children[f][d]] = d /\ Hot(children[f][d])
          /\ (f # Root => Hot(f)) /\ Below(f, d)
      BY <1>0, <3>1, Zenon DEF Tree
    <3>4. parent_ptr'[children[f][d]] = f /\ pos_state'[children[f][d]] = "hot"
      BY <1>3, <1>4, <3>2, <3>3, Zenon DEF Hot
    <3> QED BY <1>2, <1>4, <1>5, <2>1, <3>1, <3>3, <3>4, Zenon DEF Hot
  <2> QED BY <2>2, <2>3, Zenon
<1>7. ASSUME NEW h \in Frames, parent_ptr'[h] # Null
      PROVE  page'[h] \in Pages /\ children'[parent_ptr'[h]][page'[h]] = h
  <2>1. CASE h = g
    BY <1>1, <1>2, <1>3, <2>1, Zenon
  <2>2. CASE h # g
    <3>1. parent_ptr'[h] = parent_ptr[h] /\ parent_ptr[h] \in AllFrames
      BY <1>0, <1>3, <1>7, <2>2, Zenon DEF FrameTypes
    <3>2. page[h] \in Pages /\ children[parent_ptr[h]][page[h]] = h
      BY <1>0, <1>7, <3>1, Zenon DEF Tree
    <3>3. h # Null
      BY BufferPoolAssumption, Zenon
    <3>4. ~(parent_ptr[h] = k /\ page[h] = c)
      BY <1>1, <3>2, <3>3, Zenon
    <3>5. children'[parent_ptr[h]][page[h]] = h
      BY <1>3, <3>1, <3>2, <3>4, Zenon
    <3> QED BY <1>2, <3>1, <3>2, <3>5, Zenon
  <2> QED BY <2>1, <2>2, Zenon
<1> QED BY <1>6, <1>7, Zenon DEF Tree, Hot

LEMMA LoadsTheMissing ==
  ASSUME NEW t \in Threads PROVE Loading[t] \in {Missing(t), Null}
  BY Zenon DEF Loading

(* What the step changes of the thread. *)
Arrived(t, g, k) ==
  /\ \A h \in AllFrames : h \in Held'[t] <=> h \in local[t]
  /\ \A h \in AllFrames : h \in Held[t] <=> h = frame[t] \/ h \in local[t]
  /\ \A u \in Threads \ {t} : seen'[u] = seen[u]
  /\ \A h \in AllFrames : seen'[t][h] = IF h = g THEN "plain" ELSE IF h = k THEN seen[t][k] ELSE "none"

LEMMA SwizzlerKeeps ==
  ASSUME Sound, NEW t \in Threads, NEW g, SwizzleStep(t, g)
  PROVE  /\ OthersStay(t) /\ RolesStay(t) /\ KeepsAnswers(t) /\ ThreadTypes' /\ Mine(t)'
         /\ IoLatch'[t] = Null /\ Loading'[t] = Null
         /\ Unhung' = Unhung /\ Writing' = Writing /\ Stale' = Stale /\ Arrived(t, g, cur[t])
<1> DEFINE k == cur[t]
<1>0. ThreadTypes /\ Placed(t)
  BY Zenon DEF Sound, TypeOK, Places
<1>1. /\ pc[t] \in {"cache_get", "swizzle"} /\ page[g] = Missing(t) /\ frame'[t] = Null
      /\ \A u \in Threads \ {t} : frame'[u] = frame[u]
      /\ pc' = [pc EXCEPT ![t] = "descend"] /\ par' = [par EXCEPT ![t] = k] /\ cur' = [cur EXCEPT ![t] = g]
      /\ seen' = [seen EXCEPT ![t] = [h \in AllFrames |->
                    IF h = g THEN "plain" ELSE IF h = k THEN seen[t][k] ELSE "none"]]
      /\ UNCHANGED <<page, local, remote, current, ret, todo, op, goal, val, victim>>
      /\ frame' \in [Threads -> Frames \cup {Null}]
  BY Zenon DEF SwizzleStep, Swizzle, Into, Go
<1>2. /\ g \in AllFrames /\ g # Root /\ g # Null /\ k \in AllFrames
      /\ goal[t] \in Leaves /\ Missing(t) \in {above[goal[t]], goal[t]}
      /\ victim[t] = Null /\ ret[t] = "lock" /\ val[t] \in Values
  BY SwizzlePlace, Zenon
<1>3. pc'[t] = "descend" /\ par'[t] = k /\ cur'[t] = g /\ OthersStay(t)
  BY <1>0, <1>1, Zenon DEF ThreadTypes, OthersStay
<1>4. /\ \A u \in Threads \ {t} : seen'[u] = seen[u]
      /\ \A h \in AllFrames : seen'[t][h] = IF h = g THEN "plain" ELSE IF h = k THEN seen[t][k] ELSE "none"
  BY <1>0, <1>1, Zenon DEF ThreadTypes
<1>5. RolesStay(t) /\ KeepsAnswers(t)
  BY <1>1, <1>3, OthersKeepRoles, SameAnswers, Zenon
<1>6. IoLatch'[t] = Null /\ Loading'[t] = Null
  BY <1>3, FreeHasNoRolePrime, Zenon DEF Free
<1>7. ~Latched(t) /\ ~Latched(t)'
  BY <1>1, <1>3, Zenon DEF Latched
<1>8. Unhung' = Unhung /\ Writing' = Writing /\ Stale' = Stale
  BY <1>1, <1>3, <1>7, SameUnhung, SameStale, Zenon
<1>9. ThreadTypes'
  <2>1. seen[t][k] \in Versions
    BY <1>0, <1>2, Zenon DEF ThreadTypes
  <2>2. seen' \in [Threads -> [AllFrames -> Versions]]
    BY <1>0, <1>1, <2>1, Zenon DEF ThreadTypes, Versions
  <2> QED BY <1>0, <1>1, <1>2, <2>2, Zenon DEF ThreadTypes, PCs
<1>10. Null \notin AllFrames /\ Null \notin Leaves
  BY BufferPoolAssumption, Zenon DEF AllFrames
<1>11. Mine(t)'
  <2>1. Placed(t)' /\ Sampled(t)'
    BY <1>1, <1>2, <1>3, Zenon DEF Placed, Sampled, Latched, Sampling
  <2>2. Headed(t)'
    BY <1>1, <1>2, <1>3, <1>6, Zenon DEF Headed
  <2>3. Answered(t)'
    BY <1>3, <1>6, <1>10, Zenon DEF Answered
  <2> QED BY <2>1, <2>2, <2>3, Zenon DEF Mine
<1>12. /\ \A h \in AllFrames : h \in Held'[t] <=> h \in local[t]
       /\ \A h \in AllFrames : h \in Held[t] <=> h = frame[t] \/ h \in local[t]
  BY <1>1, <1>2, <1>7, <1>10, Zenon DEF Held
<1>13. Arrived(t, g, k)
  BY <1>4, <1>12, Zenon DEF Arrived
<1> QED BY <1>3, <1>5, <1>6, <1>8, <1>9, <1>11, <1>13, Zenon

LEMMA SwizzleKeepsPool ==
  ASSUME Sound, NEW t \in Threads, NEW g, SwizzleStep(t, g) PROVE Table' /\ Flags' /\ Data'
<1> DEFINE k == cur[t]
           c == Missing(t)
<1>0. Table /\ Flags /\ Data
  BY Zenon DEF Sound
<1>1. g \in Frames /\ k \in AllFrames /\ c \in Pages /\ k # Null
  <2>1. g \in Frames /\ k \in AllFrames /\ c \in Pages
    BY SwizzlePlace, Zenon
  <2> QED BY <2>1, BufferPoolAssumption, Zenon DEF AllFrames
<1>2. /\ ~Hot(g) /\ page[g] = c /\ page' = page /\ dirty' = dirty /\ content' = content /\ remote' = remote
      /\ current' = current /\ table[c] \in {g, IO_FLAG} /\ (table[c] = IO_FLAG => Loading[t] = c)
      /\ \A d \in Pages : table'[d] = IF d = c THEN g ELSE table[d]
      /\ \A h : h \in Cool' <=> h \in Cool /\ h # g
  BY Zenon DEF SwizzleStep
<1>3. c \in Leaves => /\ content[g] = current[c] \/ c \in Stale
                      /\ remote[c] = content[g] \/ c \in Stale
  BY Zenon DEF SwizzleStep
<1>4. /\ \A h \in Frames : parent_ptr'[h] = IF h = g THEN k ELSE parent_ptr[h]
      /\ \A h \in Frames : pos_state'[h] = IF h = g THEN "hot" ELSE pos_state[h]
  <2>1. Hung(g, k, c)
    BY SwizzleEffect, Zenon
  <2> HIDE DEF k, c
  <2> QED BY <2>1, Zenon DEF Hung
<1>5. /\ RolesStay(t) /\ Loading'[t] = Null /\ Unhung' = Unhung /\ Writing' = Writing /\ Stale' = Stale
  BY SwizzlerKeeps, Zenon
<1>6. \A u \in Threads : Loading[u] \in Pages \cup {Null}
  BY LoadingIsAPage, Zenon
<1>7. ~dirty[g]
  BY <1>1, <1>2, ColdHangsNowhere, Zenon
<1>8. Null # IO_FLAG /\ IO_FLAG \notin Frames /\ Null \notin Frames /\ Null \notin Pages
  BY BufferPoolAssumption, Zenon DEF Pages
<1> HIDE DEF k, c
<1>9. \A h \in Frames : Hot(h)' <=> h = g \/ Hot(h)
  BY <1>4, Zenon DEF Hot
<1>10. Table'
  <2>1. ASSUME NEW h \in Frames, Hot(h)'
        PROVE  page'[h] \in Pages /\ table'[page'[h]] = h /\ (parent_ptr'[h] # Null \/ h \in Unhung')
    <3>1. CASE h = g
      BY <1>1, <1>2, <1>4, <3>1, Zenon
    <3>2. CASE h # g
      <4>1. Hot(h)
        BY <1>9, <2>1, <3>2, Zenon
      <4>2. page[h] \in Pages /\ table[page[h]] = h /\ (parent_ptr[h] # Null \/ h \in Unhung)
        BY <1>0, <4>1, Zenon DEF Table
      <4>3. page[h] # c
        BY <1>2, <1>8, <3>2, <4>2, ZenonT(40)
      <4> QED BY <1>2, <1>4, <1>5, <3>2, <4>2, <4>3, Zenon
    <3> QED BY <3>1, <3>2, Zenon
  <2>2. ASSUME NEW d \in Pages, table'[d] \in Frames
        PROVE  page'[table'[d]] = d /\ (Hot(table[d])' \/ table'[d] \in Cool')
    <3>1. CASE d = c
      BY <1>1, <1>2, <1>4, <3>1, Zenon DEF Hot
    <3>2. CASE d # c
      <4>1. table'[d] = table[d]
        BY <1>2, <3>2, Zenon
      <4>2. page[table[d]] = d /\ (Hot(table[d]) \/ table[d] \in Cool)
        BY <1>0, <2>2, <4>1, Zenon DEF Table
      <4>3. table[d] # g
        BY <1>2, <3>2, <4>2, Zenon
      <4>4. pos_state'[table[d]] = pos_state[table[d]]
        BY <1>4, <2>2, <4>1, <4>3, Zenon
      <4> QED BY <1>2, <4>1, <4>2, <4>3, <4>4, Zenon DEF Hot
    <3> QED BY <3>1, <3>2, Zenon
  <2>3. \A h \in Frames : dirty'[h] => Hot(h)' /\ page'[h] \in Leaves
    BY <1>0, <1>2, <1>9, Zenon DEF Table
  <2> QED BY <2>1, <2>2, <2>3, Zenon DEF Table, Hot
<1>11. Flags'
  <2>1. ASSUME NEW u \in Threads \ {t} PROVE Loading'[u] = Loading[u] /\ Loading[u] # c
    <3>1. Loading'[u] = Loading[u]
      BY <1>5, Zenon DEF RolesStay
    <3>2. Loading[u] = c => table[c] = IO_FLAG
      BY <1>0, <1>1, <1>8, ZenonT(40) DEF Flags
    <3>3. Loading[t] = c => Loading[u] # c
      BY <1>0, <1>1, <1>8, ZenonT(40) DEF Flags
    <3> QED BY <1>2, <3>1, <3>2, <3>3, Zenon
  <2>2. ASSUME NEW u \in Threads, Loading'[u] # Null PROVE table'[Loading'[u]] = IO_FLAG
    <3>1. Loading'[u] = Loading[u] /\ Loading[u] # c /\ Loading[u] # Null
      BY <1>5, <2>1, <2>2, Zenon
    <3>2. table[Loading[u]] = IO_FLAG /\ Loading[u] \in Pages
      BY <1>0, <1>6, <3>1, Zenon DEF Flags
    <3> QED BY <1>2, <3>1, <3>2, Zenon
  <2>3. ASSUME NEW d \in Pages, table'[d] = IO_FLAG PROVE \E u \in Threads : Loading'[u] = d
    <3>1. d # c /\ table[d] = IO_FLAG
      BY <1>1, <1>2, <1>8, <2>3, Zenon
    <3>2. PICK u \in Threads : Loading[u] = d
      BY <1>0, <3>1, Zenon DEF Flags
    <3>3. u # t
      <4>1. Loading[t] \in {c, Null}
        BY LoadsTheMissing, Zenon DEF c
      <4> QED BY <1>8, <3>1, <3>2, <4>1, Zenon
    <3> QED BY <2>1, <3>2, <3>3, Zenon
  <2>4. ASSUME NEW u \in Threads, NEW w \in Threads, Loading'[u] # Null, Loading'[u] = Loading'[w] PROVE u = w
    <3>1. u # t /\ w # t
      BY <1>5, <2>4, Zenon
    <3>2. Loading[u] # Null /\ Loading[u] = Loading[w]
      BY <2>1, <2>4, <3>1, Zenon
    <3> QED BY <1>0, <3>2, Zenon DEF Flags
  <2> QED BY <2>2, <2>3, <2>4, Zenon DEF Flags
<1>12. Data'
  <2> SUFFICES ASSUME NEW l \in Leaves
               PROVE  /\ table'[l] \in Frames => content[table'[l]] = current[l] \/ l \in Stale
                      /\ table'[l] \in Frames /\ ~dirty[table'[l]] =>
                           remote[l] = content[table'[l]] \/ l \in Stale \/ table'[l] \in Writing
                      /\ table'[l] = Null => remote[l] = current[l]
                      /\ l \in Stale => remote[l] = current[l]
    BY <1>2, <1>5, Zenon DEF Data
  <2>1. l \in Pages
    BY Zenon DEF Pages
  <2>2. l \in Stale => remote[l] = current[l]
    BY <1>0, Zenon DEF Data
  <2>3. CASE l = c
    BY <1>1, <1>2, <1>3, <1>8, <2>2, <2>3, Zenon
  <2>4. CASE l # c
    <3>1. table'[l] = table[l]
      BY <1>2, <2>1, <2>4, Zenon
    <3> QED BY <1>0, <3>1, Zenon DEF Data
  <2> QED BY <2>3, <2>4, Zenon
<1> QED BY <1>10, <1>11, <1>12, Zenon

LEMMA SwizzleStepIsSound ==
  ASSUME Sound, NEW t \in Threads, NEW g, SwizzleStep(t, g) PROVE Sound'
<1> DEFINE k == cur[t]
           c == Missing(t)
           W == {g, k}
<1>0. PoolTypes /\ Latches /\ Versioned /\ Positioned(t)
  BY Zenon DEF Sound, TypeOK, Positions
<1>1. /\ g \in Frames /\ g \in AllFrames /\ g # Root /\ k \in AllFrames /\ k # g
      /\ IoLatch[t] = k /\ lock[k] = "IO" /\ (k # Root => Hot(k))
  BY SwizzlePlace, ZenonT(40)
<1>2. /\ NotTheirs(t, {g}) /\ g \notin local[t] /\ ~Hot(g) /\ lock[g] = "write" /\ frame'[t] = Null
      /\ frame[t] \in {g, Null} /\ page' = page /\ dirty' = dirty /\ content' = content /\ local' = local
      /\ remote' = remote /\ current' = current /\ Cooled' /\ \A h : h \in Cool' <=> h \in Cool /\ h # g
  BY Zenon DEF SwizzleStep
<1>3. /\ cooling' \in [Buckets -> Seq(Frames)] /\ \A b \in Buckets : Len(cooling'[b]) <= CoolSize
      /\ table' \in [Pages -> Frames \cup {Null, IO_FLAG}]
  BY Zenon DEF SwizzleStep
<1>4. Hung(g, k, c) /\ FrameTypes'
  BY SwizzleEffect, Zenon
<1>5. /\ OthersStay(t) /\ RolesStay(t) /\ KeepsAnswers(t) /\ ThreadTypes' /\ Mine(t)' /\ IoLatch'[t] = Null
      /\ Arrived(t, g, k)
  BY SwizzlerKeeps, Zenon
<1> HIDE DEF k, c
<1>h. /\ \A h \in AllFrames : h \in Held'[t] <=> h \in local[t]
      /\ \A h \in AllFrames : h \in Held[t] <=> h = frame[t] \/ h \in local[t]
  BY <1>5, Zenon DEF Arrived
<1>s. /\ \A u \in Threads \ {t} : seen'[u] = seen[u]
      /\ \A h \in AllFrames : seen'[t][h] = IF h = g THEN "plain" ELSE IF h = k THEN seen[t][k] ELSE "none"
  BY <1>5, Zenon DEF Arrived
<1>6. /\ \A h \in AllFrames : h # k => children'[h] = children[h]
      /\ \A h \in Frames : parent_ptr'[h] = IF h = g THEN k ELSE parent_ptr[h]
      /\ \A h \in Frames : pos_state'[h] = IF h = g THEN "hot" ELSE pos_state[h]
      /\ \A h \in AllFrames : lock'[h] = IF h = g \/ h = k THEN "free" ELSE lock[h]
  BY <1>4, Zenon DEF Hung
<1>7. NotTheirs(t, W)
  <2>1. \A u \in Threads \ {t} : k \notin Held[u] /\ IoLatch[u] # k
    <3>1. NotTheirs(t, {k})
      BY <1>0, <1>1, PrivateFrames
    <3> QED BY <3>1, Zenon DEF NotTheirs
  <2> QED BY <1>2, <2>1, Zenon DEF NotTheirs
<1>8. Untouched(W)
  BY <1>2, <1>6, Zenon DEF Untouched
<1>9. Step(t, W)
  BY <1>1, <1>2, <1>5, <1>s, <1>7, <1>8, Zenon DEF Step
<1>10. TypeOK'
  BY <1>0, <1>2, <1>3, <1>4, <1>5, Zenon DEF TypeOK, PoolTypes
<1>11. Latches'
  <2>1. Null \notin AllFrames
    BY BufferPoolAssumption, Zenon DEF AllFrames
  <2>2. k \notin Cool /\ k \notin Held[t]
    BY <1>0, <1>1, Zenon DEF Latches
  <2>3. SameLatch(t, W)
    <3> SUFFICES ASSUME NEW h \in AllFrames, h # g, h # k
                 PROVE  /\ lock'[h] = lock[h] /\ (h \in Cool' <=> h \in Cool)
                        /\ (h \in Held'[t] <=> h \in Held[t]) /\ (IoLatch'[t] = h <=> IoLatch[t] = h)
      BY Zenon DEF SameLatch
    <3>1. h # Null
      BY <2>1, Zenon
    <3>2. h \in Held'[t] <=> h \in Held[t]
      BY <1>2, <1>h, <3>1, Zenon
    <3>3. lock'[h] = lock[h] /\ (h \in Cool' <=> h \in Cool)
      BY <1>2, <1>6, Zenon
    <3> QED BY <1>1, <1>5, <3>1, <3>2, <3>3, Zenon
  <2>4. OwnLatch(t, W)
    <3>1. lock'[g] = "free" /\ g \notin Cool' /\ g \notin Held'[t] /\ IoLatch'[t] # g
      BY <1>1, <1>2, <1>5, <1>h, <1>6, <2>1, ZenonT(40)
    <3>2. lock'[k] = "free" /\ k \notin Cool' /\ k \notin Held'[t] /\ IoLatch'[t] # k
      BY <1>1, <1>2, <1>5, <1>h, <1>6, <2>1, <2>2, ZenonT(40)
    <3> QED BY <3>1, <3>2, Zenon DEF OwnLatch
  <2> QED BY <1>0, <1>5, <1>7, <2>3, <2>4, MovedLatches, Zenon
<1>12. Versioned'
  <2>1. \A h \in AllFrames : lock[h] # "write" => lock'[h] # "write"
    BY <1>6, Zenon
  <2>2. \A h \in Frames : Hot(h) => pos_state'[h] = "hot"
    BY <1>6, Zenon DEF Hot
  <2>3. ASSUME NEW h \in AllFrames, seen'[t][h] # "none" PROVE lock'[h] # "write" /\ (h # Root => Hot(h)')
    <3>1. h \in W
      BY <1>s, <2>3, Zenon
    <3> QED BY <1>1, <1>6, <2>2, <3>1, Zenon DEF Hot, AllFrames
  <2>4. ASSUME NEW u \in Threads \ {t}, NEW h \in AllFrames, seen'[u][h] # "none"
        PROVE  lock'[h] # "write" /\ (h # Root => Hot(h)')
    <3>1. lock[h] # "write" /\ (h # Root => Hot(h))
      BY <1>0, <1>s, <2>4, Zenon DEF Versioned
    <3> QED BY <2>1, <2>2, <3>1, Zenon DEF Hot, AllFrames
  <2> QED BY <2>3, <2>4, Zenon DEF Versioned, Hot
<1>13. Positions'
  <2>1. Positioned(t)'
    <3>1. local[t] \subseteq Frames
      BY <1>0, Zenon DEF PoolTypes
    <3> QED BY <1>0, <1>2, <1>6, <3>1, Zenon DEF Positioned
  <2> QED BY <1>9, <2>1, OthersKeepPositions, Zenon
<1>14. Tree' /\ Table' /\ Flags' /\ Data'
  BY SwizzleKeepsTree, SwizzleKeepsPool, Zenon
<1> QED BY <1>2, <1>5, <1>9, <1>10, <1>11, <1>12, <1>13, <1>14, OthersFollow, Zenon DEF Sound

LEMMA cold_to_hotIsSound ==
  ASSUME Sound, NEW t \in Threads, cold_to_hot(t) PROVE Sound'
<1> DEFINE g == frame[t]
           c == Missing(t)
<1>0. /\ PoolTypes /\ ThreadTypes /\ Placed(t) /\ Answered(t) /\ Flags /\ Cooled /\ Latches
  BY Zenon DEF Sound, TypeOK, Places, Served
<1>1. /\ pc[t] = "swizzle" /\ table' = [table EXCEPT ![c] = g] /\ Swizzle(t, g)
      /\ frame' = [frame EXCEPT ![t] = Null]
      /\ UNCHANGED <<page, dirty, content, cooling, local, remote, current, ret, todo, op, goal, val, victim>>
  BY Zenon DEF cold_to_hot
<1>2. g # Null
  BY <1>0, <1>1, Zenon DEF Placed
<1>3. /\ g \in Frames /\ g \in AllFrames /\ ~Hot(g) /\ g \in Held[t] /\ lock[g] = "write" /\ g \notin Cool
      /\ g \notin local[t]
  BY <1>2, FrameInHand, Zenon
<1>4. c \in Pages /\ Loading[t] = c /\ c # Null
  <2>1. c \in Pages
    BY <1>1, MissingIsAPage, Zenon
  <2> QED BY <1>1, <2>1, BufferPoolAssumption, Zenon DEF Loading, Serves, ServePCs, Pages
<1>5. table[c] = IO_FLAG
  BY <1>0, <1>4, Zenon DEF Flags
<1>6. /\ page[g] = c /\ (c \in Leaves => content[g] = remote[c] /\ remote[c] = current[c])
  BY <1>0, <1>1, <1>4, Zenon DEF Answered
<1> HIDE DEF g, c
<1>7. NotTheirs(t, {g})
  BY <1>0, <1>3, PrivateFrames
<1>8. /\ frame'[t] = Null /\ \A u \in Threads \ {t} : frame'[u] = frame[u]
      /\ frame' \in [Threads -> Frames \cup {Null}]
  BY <1>0, <1>1, Zenon DEF ThreadTypes
<1>9. /\ table' \in [Pages -> Frames \cup {Null, IO_FLAG}]
      /\ \A d \in Pages : table'[d] = IF d = c THEN g ELSE table[d]
  BY <1>0, <1>1, <1>3, Zenon DEF PoolTypes
<1>10. /\ cooling' \in [Buckets -> Seq(Frames)] /\ \A b \in Buckets : Len(cooling'[b]) <= CoolSize
       /\ \A h : h \in Cool' <=> h \in Cool /\ h # g
  BY <1>0, <1>1, <1>3, SameCool, Zenon DEF PoolTypes
<1>11. Cooled'
  <2>1. /\ \A h \in Frames : pos_state'[h] = IF h = g THEN "hot" ELSE pos_state[h]
    BY <1>1, Zenon DEF Swizzle, Sound, TypeOK, FrameTypes
  <2>2. SameIn(Entries(cooling), pos_state, page, pos_state', page')
    BY <1>1, <1>3, <2>1, CoolingIsTidy, Zenon DEF SameIn
  <2>3. Tidy(cooling, pos_state', page') /\ cooling' = cooling
    BY <1>1, <2>2, CoolingIsTidy, TidyStays, Zenon
  <2> QED BY <2>3, Zenon DEF Cooled
<1>12. SwizzleStep(t, g)
  BY <1>1, <1>3, <1>4, <1>5, <1>6, <1>7, <1>8, <1>9, <1>10, <1>11, Zenon DEF SwizzleStep, g, c
<1> QED BY <1>12, SwizzleStepIsSound, Zenon

LEMMA promoteIsSound ==
  ASSUME Sound, NEW t \in Threads, promote(t) PROVE Sound'
<1> DEFINE c == Missing(t)
           g == table[c]
           b == hash[c]
<1>0. /\ PoolTypes /\ FrameTypes /\ ThreadTypes /\ Placed(t) /\ Data /\ Table /\ Latches
  BY Zenon DEF Sound, TypeOK, Places
<1>1. /\ pc[t] = "cache_get" /\ g \in Frames /\ pos_state[g] = "cool" /\ Swizzle(t, g)
      /\ UNCHANGED <<page, dirty, content, table, local, remote, current, ret, todo, op, goal, val, frame, victim>>
  BY Zenon DEF promote
<1>2. PICK i \in 1..Len(cooling[b]) : cooling[b][i] = g /\ Removed(cooling, cooling', b, i)
  BY Zenon DEF promote, Removed
<1>3. c \in Pages /\ b \in Buckets
  <2>1. c \in Pages
    BY <1>1, MissingIsAPage, Zenon
  <2> QED BY <2>1, BufferPoolAssumption, Zenon DEF Pages
<1>4. frame[t] = Null
  BY <1>0, <1>1, Zenon DEF Placed
<1>5. pos_state' = [pos_state EXCEPT ![g] = "hot"]
  BY <1>1, Zenon DEF Swizzle
<1> HIDE DEF b, c, g
<1>6. ~Hot(g) /\ page[g] = c
  BY <1>0, <1>1, <1>3, Zenon DEF Hot, Table, g
<1>7. g \in Cool
  <2>1. cooling \in [Buckets -> Seq(Frames)] /\ Cool = Entries(cooling)
    BY CoolingIsTidy, Zenon
  <2>2. \E j \in 1..Len(cooling[b]) : cooling[b][j] = g
    BY <1>2, Zenon
  <2> QED BY <1>3, <2>1, <2>2, EntriesOfBuckets, Zenon
<1>8. g \in AllFrames /\ lock[g] = "write" /\ NotTheirs(t, {g}) /\ g \notin local[t]
  <2>1. g \in AllFrames
    BY <1>1, Zenon DEF AllFrames
  <2>2. lock[g] = "write" /\ g \notin Held[t]
    BY <1>0, <1>7, <2>1, Zenon DEF Latches
  <2>3. NotTheirs(t, {g})
    BY <1>0, <1>7, <2>1, PrivateFrames
  <2> QED BY <2>1, <2>2, <2>3, Zenon DEF Held
<1>9. /\ cooling' \in [Buckets -> Seq(Frames)] /\ Cooled'
      /\ Len(cooling'[b]) = Len(cooling[b]) - 1 /\ \A e \in Buckets \ {b} : cooling'[e] = cooling[e]
      /\ \A h : h \in Cool' <=> h \in Cool /\ h # g
  <2>1. \A h \in Frames : pos_state'[h] = IF h = g THEN "hot" ELSE pos_state[h]
    BY <1>0, <1>5, Zenon DEF FrameTypes
  <2>2. SameIn(Entries(cooling) \ {cooling[b][i]}, pos_state, page, pos_state', page')
    BY <1>1, <1>2, <2>1, CoolingIsTidy, Zenon DEF SameIn
  <2> QED BY <1>2, <1>3, <2>2, CoolingGivesUp, Zenon
<1>10. \A e \in Buckets : Len(cooling'[e]) <= CoolSize
  <2>1. \A e \in Buckets : Len(cooling[e]) <= CoolSize /\ cooling[e] \in Seq(Frames)
    BY <1>0, Zenon DEF PoolTypes
  <2>2. Len(cooling[b]) \in Nat /\ CoolSize \in Nat
    BY <1>3, <2>1, BufferPoolAssumption
  <2>3. Len(cooling[b]) - 1 <= CoolSize
    BY <1>3, <2>1, <2>2
  <2> QED BY <1>9, <2>1, <2>3, Zenon
<1>11. c \in Leaves => /\ content[g] = current[c] \/ c \in Stale
                       /\ remote[c] = content[g] \/ c \in Stale
  <2>1. ~dirty[g] /\ g \notin Writing
    BY <1>1, <1>6, ColdHangsNowhere, Zenon
  <2> QED BY <1>0, <1>1, <2>1, Zenon DEF Data, g
<1>12. /\ table' \in [Pages -> Frames \cup {Null, IO_FLAG}] /\ g # IO_FLAG
       /\ \A d \in Pages : table'[d] = IF d = c THEN g ELSE table[d]
  BY <1>0, <1>1, BufferPoolAssumption, Zenon DEF PoolTypes, g
<1>13. /\ frame'[t] = Null /\ \A u \in Threads \ {t} : frame'[u] = frame[u]
       /\ frame' \in [Threads -> Frames \cup {Null}]
  BY <1>0, <1>1, <1>4, Zenon DEF ThreadTypes
<1>14. SwizzleStep(t, g)
  <2>1. table[c] = g
    BY Zenon DEF g
  <2> QED
    BY <1>1, <1>4, <1>6, <1>8, <1>9, <1>10, <1>11, <1>12, <1>13, <2>1, Zenon DEF SwizzleStep, c
<1> QED BY <1>14, SwizzleStepIsSound, Zenon

-----------------------------------------------------------------------------
(* The invariant holds in a new pool, at the start and after a reset, and the *)
(* end of the process leaves an empty one.                                    *)
EmptyTables ==
  /\ lock = [f \in AllFrames |-> "free"] /\ page = [f \in Frames |-> Null]
  /\ pos_state = [f \in Frames |-> "raw"] /\ dirty = [f \in Frames |-> FALSE]
  /\ content = [f \in Frames |-> Null]
  /\ children = [f \in AllFrames |-> [c \in Pages |-> Null]]
  /\ parent_ptr = [f \in Frames |-> Null]
  /\ table = [c \in Pages |-> Null] /\ cooling = [b \in Buckets |-> <<>>]
  /\ local = [t \in Threads |-> {}]

Fresh ==
  /\ EmptyTables /\ ThreadTypes /\ Places
  /\ \A t \in Threads : pc[t] = "idle"
  /\ current \in [Leaves -> Values] /\ remote = current

Stored == current \in [Leaves -> Values] /\ remote \in [Leaves -> Values \cup {Torn}]

LEMMA EmptyTablesAreTyped == EmptyTables /\ Stored => FrameTypes /\ PoolTypes
<1> SUFFICES ASSUME EmptyTables, Stored PROVE FrameTypes /\ PoolTypes
  BY Zenon
<1>1. FrameTypes
  BY Zenon DEF EmptyTables, FrameTypes, PosStates
<1>2. <<>> \in Seq(Frames) /\ Len(<<>>) <= CoolSize
  BY BufferPoolAssumption
<1>3. cooling \in [Buckets -> Seq(Frames)] /\ \A b \in Buckets : Len(cooling[b]) <= CoolSize
  BY <1>2, Zenon DEF EmptyTables
<1> QED BY <1>1, <1>3, Zenon DEF EmptyTables, PoolTypes, Stored

LEMMA FreshIsSound == Fresh => Sound
<1> SUFFICES ASSUME Fresh PROVE Sound
  BY Zenon
<1>0. EmptyTables /\ ThreadTypes /\ Places /\ current \in [Leaves -> Values] /\ remote = current
  BY Zenon DEF Fresh
<1>1. ASSUME NEW t \in Threads
      PROVE  pc[t] = "idle" /\ frame[t] = Null /\ victim[t] = Null /\ local[t] = {} /\ ret[t] = "lock"
  <2>1. pc[t] = "idle" /\ Placed(t) /\ local[t] = {} /\ ret[t] \in {"lock", "retry_empty"}
    BY <1>0, Zenon DEF Fresh, Places, EmptyTables, ThreadTypes
  <2> QED BY <2>1, Zenon DEF Placed, Sampling
<1>2. \A t \in Threads : IoLatch[t] = Null /\ Loading[t] = Null
  BY <1>1, FreeHasNoRole, Zenon DEF Free
<1>3. \A t \in Threads : Held[t] = {}
  BY <1>1, BufferPoolAssumption DEF Held, AllFrames, Latched
<1>4. Unhung = {} /\ Writing = {} /\ Stale = {}
  BY <1>1, Zenon DEF Unhung, Writing, Stale, Latched
<1>5. \A b \in Buckets : Len(cooling[b]) = 0
  BY <1>0 DEF EmptyTables
<1>6. Cool = {}
  <2>1. cooling \in [Buckets -> Seq(Frames)] /\ Cool = Entries(cooling)
    BY <1>0, EmptyTablesAreTyped, Zenon DEF Stored, PoolTypes, Cool, Entries
  <2> QED BY <1>5, <2>1, EntriesOfBuckets
<1>7. TypeOK
  BY <1>0, EmptyTablesAreTyped, Zenon DEF Stored, TypeOK
<1>8. Cooled /\ Positions
  <2>1. Cooled
    BY <1>5 DEF Cooled, Tidy
  <2> QED BY <1>1, <2>1, Zenon DEF Positions, Positioned
<1>9. Latches
  <2>1. \A f \in AllFrames : lock[f] = "free" /\ f # Null
    BY <1>0, BufferPoolAssumption, Zenon DEF EmptyTables, AllFrames
  <2> QED BY <1>2, <1>3, <1>6, <2>1, Zenon DEF Latches
<1>10. Tree
  <2>1. \A f \in AllFrames, c \in Pages : children[f][c] = Null
    BY <1>0, Zenon DEF EmptyTables
  <2>2. \A g \in Frames : parent_ptr[g] = Null
    BY <1>0, Zenon DEF EmptyTables
  <2> QED BY <2>1, <2>2, Zenon DEF Tree
<1>11. Table
  <2>1. \A g \in Frames : ~Hot(g) /\ ~dirty[g]
    BY <1>0, Zenon DEF EmptyTables, Hot
  <2>2. \A c \in Pages : table[c] \notin Frames
    BY <1>0, BufferPoolAssumption, Zenon DEF EmptyTables
  <2> QED BY <2>1, <2>2, Zenon DEF Table
<1>12. Victims
  BY <1>1, Zenon DEF Victims, Sampled
<1>13. \A t \in Threads, f \in AllFrames : seen[t][f] = "none"
  BY <1>0, <1>1, Zenon DEF Places, Placed
<1>14. Versioned /\ OnTheWay
  BY <1>0, <1>2, <1>13, Zenon DEF Versioned, OnTheWay, Headed, ThreadTypes
<1>15. Flags
  BY <1>0, <1>2, BufferPoolAssumption, Zenon DEF Flags, EmptyTables
<1>16. Data
  BY <1>0, <1>4, BufferPoolAssumption, Zenon DEF Data, EmptyTables, Pages
<1>17. Served
  BY <1>1, <1>2, BufferPoolAssumption, Zenon DEF Served, Answered
<1> QED BY <1>0, <1>7, <1>8, <1>9, <1>10, <1>11, <1>12, <1>14, <1>15, <1>16, <1>17, Zenon DEF Sound

LEMMA InitIsFresh == ASSUME Init PROVE Fresh
<1>1. EmptyTables
  BY Zenon DEF Init, EmptyTables
<1>2. ThreadTypes
  <2>1. 0 \in 0..NumSample
    BY BufferPoolAssumption
  <2> QED BY <2>1, BufferPoolAssumption, Zenon DEF Init, ThreadTypes, PCs, AllFrames, Versions
<1>3. Places
  <2> SUFFICES ASSUME NEW t \in Threads PROVE Placed(t)
    BY Zenon DEF Places
  <2>1. /\ pc[t] = "idle" /\ frame[t] = Null /\ victim[t] = Null /\ ret[t] = "lock" /\ val[t] \in Values
        /\ \A f \in AllFrames : seen[t][f] = "none"
    BY BufferPoolAssumption, Zenon DEF Init
  <2> QED BY <2>1, Zenon DEF Placed, Latched, Sampling
<1>4. current \in [Leaves -> Values] /\ remote = current /\ \A t \in Threads : pc[t] = "idle"
  BY BufferPoolAssumption, Zenon DEF Init
<1> QED BY <1>1, <1>2, <1>3, <1>4, Zenon DEF Fresh

LEMMA EmptyPoolIsEmpty == ASSUME EmptyPool PROVE EmptyTables'
  BY Zenon DEF EmptyPool, allocator_reset, hash_table_reset, page_table_reset, EmptyTables

(* flush_all writes every dirty leaf: when no thread works on a leaf, remote  *)
(* memory then has the last value of each.                                    *)
LEMMA FlushedIsCurrent ==
  ASSUME Sound, flush_all, \A t \in Threads : pc[t] = "idle" PROVE remote' = current
<1>0. PoolTypes /\ FrameTypes /\ Table /\ Data /\ Flags
  BY Zenon DEF Sound, TypeOK
<1>1. Stale = {} /\ Writing = {} /\ \A t \in Threads : Loading[t] = Null
  BY FreeHasNoRole, Zenon DEF Stale, Writing, Free
<1>2. ASSUME NEW l \in Leaves PROVE remote'[l] = current[l]
  <2> DEFINE fs == {f \in Frames : page[f] = l /\ dirty[f]}
  <2>1. remote'[l] = IF fs = {} THEN remote[l] ELSE content[CHOOSE f \in fs : TRUE]
    BY Zenon DEF flush_all
  <2>2. l \in Pages /\ l # Null /\ table[l] \in Frames \cup {Null, IO_FLAG}
    BY <1>0, BufferPoolAssumption, Zenon DEF Pages, PoolTypes
  <2>3. table[l] # IO_FLAG
    BY <1>0, <1>1, <2>2, Zenon DEF Flags
  <2>4. CASE fs = {}
    <3>1. CASE table[l] = Null
      BY <1>0, <2>1, <2>4, <3>1, Zenon DEF Data
    <3>2. CASE table[l] \in Frames
      <4>1. ~dirty[table[l]]
        BY <1>0, <2>2, <2>4, <3>2, Zenon DEF Table
      <4> QED BY <1>0, <1>1, <2>1, <2>4, <3>2, <4>1, Zenon DEF Data
    <3> QED BY <2>2, <2>3, <3>1, <3>2, Zenon
  <2>5. CASE fs # {}
    <3> DEFINE f == CHOOSE f \in fs : TRUE
    <3>1. f \in fs
      BY <2>5, Zenon
    <3>2. f \in Frames /\ page[f] = l /\ dirty[f]
      BY <3>1, Zenon
    <3>3. remote'[l] = content[f]
      BY <2>1, <2>5, Zenon
    <3> HIDE DEF f, fs
    <3>4. table[l] = f
      BY <1>0, <3>2, Zenon DEF Table
    <3> QED BY <1>0, <1>1, <3>2, <3>3, <3>4, Zenon DEF Data
  <2> QED BY <2>4, <2>5, Zenon
<1>3. remote' = [l \in Leaves |-> remote'[l]] /\ current = [l \in Leaves |-> current[l]]
  <2>1. current = [l \in Leaves |-> current[l]]
    BY <1>0, Zenon DEF PoolTypes
  <2> QED BY <2>1 DEF flush_all
<1> QED BY <1>2, <1>3

LEMMA resetIsSound ==
  ASSUME Sound, reset PROVE Sound'
<1>0. PoolTypes /\ ThreadTypes /\ Places
  BY Zenon DEF Sound, TypeOK
<1>1. /\ \A t \in Threads : pc[t] = "idle"
      /\ flush_all /\ EmptyPool /\ current' = current /\ pc' = pc /\ ret' = ret /\ todo' = todo /\ op' = op /\ goal' = goal /\ val' = val /\ cur' = cur /\ par' = par
      /\ seen' = seen /\ frame' = frame /\ victim' = victim
  BY Zenon DEF reset, threadVars
<1>2. EmptyTables'
  BY <1>1, EmptyPoolIsEmpty, Zenon
<1>3. ThreadTypes'
  BY <1>0, <1>1, Zenon DEF ThreadTypes
<1>4. Places'
  <2> SUFFICES ASSUME NEW t \in Threads PROVE Placed(t)'
    BY Zenon DEF Places
  <2>1. Placed(t) /\ pc[t] = "idle"
    BY <1>0, <1>1, Zenon DEF Places
  <2> QED BY <1>1, <2>1, Zenon DEF Placed, Latched, Sampling
<1>5. current' \in [Leaves -> Values] /\ remote' = current'
  BY <1>0, <1>1, FlushedIsCurrent, Zenon DEF PoolTypes
<1>6. Fresh'
  BY <1>1, <1>2, <1>3, <1>4, <1>5, Zenon DEF Fresh
<1> QED BY <1>6, FreshIsSound, PTL

LEMMA exitLeavesNothing ==
  ASSUME TypeOK, NEW t \in Threads, exit(t) PROVE TypeOK' /\ Gone'
<1>0. PoolTypes /\ ThreadTypes
  BY Zenon DEF TypeOK
<1>1. EmptyTables' /\ pc' = [u \in Threads |-> "exited"]
  BY EmptyPoolIsEmpty, Zenon DEF exit
<1>2. /\ remote' = remote /\ current' = current /\ ret' = ret /\ todo' = todo /\ op' = op /\ goal' = goal
      /\ val' = val /\ cur' = cur /\ par' = par /\ seen' = seen /\ frame' = frame /\ victim' = victim
  BY Zenon DEF exit
<1>3. ThreadTypes'
  BY <1>0, <1>1, <1>2, Zenon DEF ThreadTypes, PCs
<1>4. Stored'
  BY <1>0, <1>2, Zenon DEF PoolTypes, Stored
<1>5. FrameTypes' /\ PoolTypes'
  BY <1>1, <1>4, EmptyTablesAreTyped, PTL
<1> QED BY <1>1, <1>3, <1>5, Zenon DEF TypeOK, Gone, EmptyTables
=============================================================================
