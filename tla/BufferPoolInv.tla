---------------------------- MODULE BufferPoolInv ----------------------------
(* The inductive invariant of BufferPool, what its parts rest on, that the     *)
(* tree operations, sampling, the ends of a load and the serving of a page     *)
(* preserve it, and how the cooling table keeps its entries apart.             *)
EXTENDS BufferPool, TLAPS

(* The process has exited and left an empty pool. *)
Gone ==
  /\ \A t \in Threads : pc[t] = "exited"
  /\ dirty = [f \in Frames |-> FALSE]
  /\ children = [f \in AllFrames |-> [c \in Pages |-> Null]]
  /\ parent_ptr = [f \in Frames |-> Null]

(* What a thread is doing: it serves a page that the page table flags, holds  *)
(* the IO latch of the page it is at, or has latched its victim's parent.     *)
ServePCs == {"empty", "retry_empty", "read", "swizzle", "fail", "remote_read",
             "remote_write", "rpc", "invalidate", "drop_flag"}

Serves(t) == pc[t] \in ServePCs \/ (pc[t] \in Sampling /\ ret[t] = "retry_empty")

Holds(t) == pc[t] = "cache_get" \/ Serves(t)

Latched(t) == pc[t] \in {"sample_write", "sample_insert"}

(* The frames a thread has write-latched. *)
Held ==
  [t \in Threads |-> {f \in AllFrames :
     f = frame[t] \/ f = victim[t] \/ f \in local[t] \/ (Latched(t) /\ par[t] = f)}]

(* The frame whose IO latch a thread holds, and the page it serves. *)
IoLatch == [t \in Threads |-> IF Holds(t) THEN cur[t] ELSE Null]

Loading == [t \in Threads |-> IF Serves(t) THEN Missing(t) ELSE Null]

(* Pages that are unswizzled but not yet in a cooling bucket; those of them   *)
(* that are being written to remote memory.                                   *)
Unhung == {f \in Frames : \E t \in Threads : victim[t] = f /\ Latched(t)}

Writing == {f \in Frames : \E t \in Threads : victim[t] = f /\ pc[t] = "sample_write"}

(* Leaves that a pushdown has written and not yet dropped from the page table. *)
Stale == {l \in Leaves : \E t \in Threads : pc[t] = "invalidate" /\ goal[t] = l}

Hot(f) == pos_state[f] = "hot"

(* Page c hangs below the page of frame f. *)
Below(f, c) ==
  IF f = Root THEN c \in Inners
  ELSE page[f] \in Inners /\ c \in Leaves /\ above[c] = page[f]

-----------------------------------------------------------------------------
(* The parts of the invariant. *)

(* What the place of a thread says about its other variables. *)
Placed(t) ==
  /\ pc[t] # "exited"
  /\ pc[t] # "idle" => goal[t] \in Leaves
  /\ val[t] \in Values
  /\ frame[t] # Null <=> pc[t] \in {"read", "swizzle"}
  /\ victim[t] # Null <=> pc[t] \in {"sample_parent", "sample_write", "sample_insert"}
  /\ Latched(t) => par[t] \in AllFrames
  /\ pc[t] \in Sampling => todo[t] >= 1
  /\ ret[t] = "retry_empty" => pc[t] \in Sampling
  /\ pc[t] = "idle" => \A f \in AllFrames : seen[t][f] = "none"
  /\ pc[t] \in {"remote_read", "remote_write"} => cur[t] # Root
  /\ pc[t] \in {"rpc", "invalidate"} => cur[t] = Root
  /\ pc[t] \in {"remote_write", "invalidate"} => op[t] = "update"

Places == \A t \in Threads : Placed(t)

(* A cooling bucket holds cool pages that hash to it, each once. *)
Tidy(c, state, of) ==
  \A b \in Buckets : \A i \in 1..Len(c[b]) :
    /\ state[c[b][i]] = "cool" /\ of[c[b][i]] \in Pages /\ hash[of[c[b][i]]] = b
    /\ \A j \in 1..Len(c[b]) : c[b][i] = c[b][j] => i = j

Cooled == Tidy(cooling, pos_state, page)

(* A frame in hand or in a local set is not under the tree. *)
Positioned(t) ==
  /\ \A f \in local[t] : pos_state[f] = "local"
  /\ frame[t] # Null => /\ pos_state[frame[t]] \in {"remote", "local", "cool"}
                        /\ frame[t] \notin local[t]

Positions == \A t \in Threads : Positioned(t)

(* A latch is that of its one owner. *)
Latches ==
  /\ \A f \in AllFrames : lock[f] = "write" <=> (f \in Cool \/ \E t \in Threads : f \in Held[t])
  /\ \A f \in AllFrames : lock[f] = "IO" <=> \E t \in Threads : IoLatch[t] = f
  /\ \A t, u \in Threads : \A f \in Held[t] : f \in Held[u] => t = u
  /\ \A t, u \in Threads : IoLatch[t] # Null /\ IoLatch[t] = IoLatch[u] => t = u
  /\ \A t \in Threads : \A f \in Held[t] : f \notin Cool

(* Swizzled pages hang where the tree has them. *)
Tree ==
  /\ \A f \in AllFrames, c \in Pages : children[f][c] # Null =>
       /\ parent_ptr[children[f][c]] = f /\ page[children[f][c]] = c /\ Hot(children[f][c])
       /\ f # Root => Hot(f)
       /\ Below(f, c)
  /\ \A g \in Frames :
       parent_ptr[g] # Null => page[g] \in Pages /\ children[parent_ptr[g]][page[g]] = g

(* The page table knows the pages of the tree and the cooling ones. *)
Table ==
  /\ \A g \in Frames : Hot(g) =>
       page[g] \in Pages /\ table[page[g]] = g /\ (parent_ptr[g] # Null \/ g \in Unhung)
  /\ \A c \in Pages : table[c] \in Frames =>
       page[table[c]] = c /\ (Hot(table[c]) \/ table[c] \in Cool)
  /\ \A g \in Frames : dirty[g] => Hot(g) /\ page[g] \in Leaves

(* A page being cooled is hot, has no child and, unswizzled, is clean while   *)
(* the page it hung from is latched.                                          *)
Sampled(t) ==
  victim[t] # Null =>
    /\ Hot(victim[t]) /\ \A c \in Pages : children[victim[t]][c] = Null
    /\ ~Latched(t) => parent_ptr[victim[t]] # Null
    /\ Latched(t) => /\ parent_ptr[victim[t]] = Null /\ ~dirty[victim[t]]
                     /\ par[t] # victim[t] /\ (par[t] # Root => Hot(par[t]))
                     /\ Below(par[t], page[victim[t]])

Victims == \A t \in Threads : Sampled(t)

(* A good version is that of a hot page that nobody has latched for writing. *)
Versioned ==
  \A t \in Threads, f \in AllFrames :
    seen[t][f] # "none" => lock[f] # "write" /\ (f # Root => Hot(f))

(* The page a thread is at, if its version is good or its IO latch is held,   *)
(* is on the way to the goal.                                                 *)
Headed(t) ==
  /\ cur[t] # Root /\ seen[t][cur[t]] # "none" =>
       page[cur[t]] = above[goal[t]] \/ (pc[t] = "descend" /\ page[cur[t]] = goal[t])
  /\ cur[t] # Root /\ IoLatch[t] # Null => Hot(cur[t]) /\ page[cur[t]] = above[goal[t]]

OnTheWay == \A t \in Threads : Headed(t)

(* An IO flag is one thread's. *)
Flags ==
  /\ \A t \in Threads : Loading[t] # Null => table[Loading[t]] = IO_FLAG
  /\ \A c \in Pages : table[c] = IO_FLAG => \E t \in Threads : Loading[t] = c
  /\ \A t, u \in Threads : Loading[t] # Null /\ Loading[t] = Loading[u] => t = u

(* Where the value of a leaf is, while nobody works on it. *)
Data ==
  \A l \in Leaves :
    /\ table[l] \in Frames => content[table[l]] = current[l] \/ l \in Stale
    /\ table[l] \in Frames /\ ~dirty[table[l]] =>
         remote[l] = content[table[l]] \/ l \in Stale \/ table[l] \in Writing
    /\ table[l] = Null => remote[l] = current[l]
    /\ l \in Stale => remote[l] = current[l]

(* ... and while a thread serves it. *)
Answered(t) ==
  /\ Loading[t] \in Leaves /\ pc[t] # "remote_write" => remote[Loading[t]] = current[Loading[t]]
  /\ pc[t] = "swizzle" => /\ page[frame[t]] = Loading[t] /\ ~dirty[frame[t]]
                          /\ Loading[t] \in Leaves => content[frame[t]] = remote[Loading[t]]
  /\ pc[t] = "drop_flag" /\ op[t] = "lookup" => val[t] = current[goal[t]]

Served == \A t \in Threads : Answered(t)

Sound ==
  /\ TypeOK /\ Places /\ Cooled /\ Positions /\ Latches /\ Tree /\ Table /\ Victims
  /\ Versioned /\ OnTheWay /\ Flags /\ Data /\ Served

(* The inductive invariant. *)
IInv == Sound \/ (TypeOK /\ Gone)

-----------------------------------------------------------------------------

(* A part is preserved by a step that leaves alone what the part is about. *)
LEMMA SameCooled ==
  ASSUME Cooled, UNCHANGED <<cooling, page, pos_state>> PROVE Cooled'
  BY Zenon DEF Cooled

LEMMA SamePositions ==
  ASSUME Positions, UNCHANGED <<local, frame, pos_state>> PROVE Positions'
  BY Zenon DEF Positions, Positioned

LEMMA SameTree ==
  ASSUME Tree, UNCHANGED <<children, parent_ptr, page, pos_state>> PROVE Tree'
  BY DEF Tree, Hot, Below

LEMMA SameTable ==
  ASSUME Table, UNCHANGED <<page, pos_state, table, parent_ptr, Unhung, Cool, dirty>> PROVE Table'
  BY Zenon DEF Table, Hot

LEMMA SameVersioned ==
  ASSUME Versioned, UNCHANGED <<seen, lock, pos_state>> PROVE Versioned'
  BY Zenon DEF Versioned, Hot

LEMMA SameData ==
  ASSUME Data, UNCHANGED <<table, content, dirty, current, remote, Stale, Writing>> PROVE Data'
  BY Zenon DEF Data

LEMMA SameCool == ASSUME UNCHANGED cooling PROVE Cool' = Cool
  BY Zenon DEF Cool

(* The steps of a thread leave the variables of the others alone, but for the *)
(* versions a write latch spoils.                                             *)
OthersStay(t) ==
  \A u \in Threads \ {t} :
    /\ pc'[u] = pc[u] /\ ret'[u] = ret[u] /\ todo'[u] = todo[u]
    /\ op'[u] = op[u] /\ goal'[u] = goal[u] /\ val'[u] = val[u]
    /\ cur'[u] = cur[u] /\ par'[u] = par[u]
    /\ frame'[u] = frame[u] /\ victim'[u] = victim[u] /\ local'[u] = local[u]

RolesStay(t) ==
  \A u \in Threads \ {t} :
    Held'[u] = Held[u] /\ IoLatch'[u] = IoLatch[u] /\ Loading'[u] = Loading[u]

LEMMA OthersKeepRoles ==
  ASSUME NEW t \in Threads, OthersStay(t) PROVE RolesStay(t)
<1> SUFFICES ASSUME NEW u \in Threads \ {t}
             PROVE  Held'[u] = Held[u] /\ IoLatch'[u] = IoLatch[u] /\ Loading'[u] = Loading[u]
  BY Zenon DEF RolesStay
<1>1. Held'[u] = Held[u]
  BY DEF OthersStay, Held, Latched
<1>2. IoLatch'[u] = IoLatch[u]
  BY Zenon DEF OthersStay, IoLatch, Holds, Serves
<1>3. Loading'[u] = Loading[u]
  BY Zenon DEF OthersStay, Loading, Serves, Missing, Next_page
<1> QED BY <1>1, <1>2, <1>3, Zenon

LEMMA OthersStayPlaced ==
  ASSUME NEW t \in Threads, OthersStay(t), Places, Placed(t)',
         \A u \in Threads \ {t} : \A f \in AllFrames : seen'[u][f] \in {seen[u][f], "none"}
  PROVE  Places'
  BY DEF Places, Placed, Latched, OthersStay

(* What a thread that is not the sampler of an unswizzled page and not the    *)
(* sender of a pushdown, before and after its step, leaves alone.             *)
LEMMA SameUnhung ==
  ASSUME NEW t \in Threads, OthersStay(t), ~Latched(t), ~Latched(t)'
  PROVE  Unhung' = Unhung /\ Writing' = Writing
  BY DEF OthersStay, Unhung, Writing, Latched

LEMMA SameStale ==
  ASSUME NEW t \in Threads, OthersStay(t), pc[t] # "invalidate", pc'[t] # "invalidate"
  PROVE  Stale' = Stale
  BY DEF OthersStay, Stale

LEMMA SameLatches ==
  ASSUME NEW t \in Threads, Latches, RolesStay(t), UNCHANGED <<lock, Cool>>,
         Held'[t] = Held[t], IoLatch'[t] = IoLatch[t]
  PROVE  Latches'
<1>1. \A u \in Threads : Held'[u] = Held[u] /\ IoLatch'[u] = IoLatch[u]
  BY Zenon DEF RolesStay
<1> QED BY <1>1 DEF Latches

LEMMA SameFlags ==
  ASSUME NEW t \in Threads, Flags, RolesStay(t), UNCHANGED table, Loading'[t] = Loading[t]
  PROVE  Flags'
<1>1. \A u \in Threads : Loading'[u] = Loading[u]
  BY Zenon DEF RolesStay
<1> QED BY <1>1, Zenon DEF Flags

(* Steps between these places change nothing that is shared. *)
Calm == {"idle", "descend", "lock", "sample", "empty", "retry_empty", "fail"}

SameShared ==
  /\ lock' = lock /\ page' = page /\ pos_state' = pos_state /\ dirty' = dirty
  /\ content' = content /\ children' = children /\ parent_ptr' = parent_ptr
  /\ table' = table /\ cooling' = cooling /\ local' = local
  /\ remote' = remote /\ current' = current /\ frame' = frame /\ victim' = victim

CalmStep(t) ==
  /\ OthersStay(t) /\ pc[t] \in Calm /\ pc'[t] \in Calm /\ SameShared
  /\ \A u \in Threads \ {t} : seen'[u] = seen[u]

LEMMA CalmStepIsSound ==
  ASSUME Sound, NEW t \in Threads, CalmStep(t), TypeOK', Placed(t)',
         IoLatch'[t] = IoLatch[t], Loading'[t] = Loading[t],
         \A f \in AllFrames : seen'[t][f] # "none" => lock[f] # "write" /\ (f # Root => Hot(f)),
         cur'[t] # Root /\ seen'[t][cur'[t]] # "none" =>
           page[cur'[t]] = above[goal'[t]] \/ (pc'[t] = "descend" /\ page[cur'[t]] = goal'[t]),
         IoLatch[t] # Null => cur'[t] = cur[t] /\ goal'[t] = goal[t]
  PROVE  Sound'
<1> USE DEF CalmStep, SameShared
<1>0. /\ Places /\ Cooled /\ Positions /\ Latches /\ Tree /\ Table /\ Victims
      /\ Versioned /\ OnTheWay /\ Flags /\ Data /\ Served
  BY Zenon DEF Sound
<1>1. RolesStay(t) /\ Cool' = Cool
  BY OthersKeepRoles, SameCool, Zenon
<1>2. Unhung' = Unhung /\ Writing' = Writing /\ Stale' = Stale
  BY SameUnhung, SameStale, Zenon DEF Latched, Calm
<1>3. Held'[t] = Held[t]
  BY Zenon DEF Held, Latched, Calm
<1>4. Places'
  BY <1>0, OthersStayPlaced, Zenon
<1>5. Victims'
  <2>1. victim[t] = Null
    BY <1>0, Zenon DEF Places, Placed, Calm
  <2>2. Sampled(t)'
    BY <2>1, Zenon DEF Sampled
  <2>3. ASSUME NEW u \in Threads \ {t} PROVE Sampled(u)'
    <3>1. Sampled(u) /\ pc'[u] = pc[u] /\ par'[u] = par[u] /\ (Latched(u)' <=> Latched(u))
      BY <1>0, Zenon DEF Victims, OthersStay, Latched
    <3>2. \A f, c : (Hot(f)' <=> Hot(f)) /\ (Below(f, c)' <=> Below(f, c))
      BY Zenon DEF Hot, Below
    <3> QED BY <3>1, <3>2, Zenon DEF Sampled
  <2> QED BY <2>2, <2>3, Zenon DEF Victims
<1>6. Versioned'
  <2>1. ASSUME NEW u \in Threads, NEW f \in AllFrames, seen'[u][f] # "none"
        PROVE  lock[f] # "write" /\ (f # Root => Hot(f))
    <3>1. CASE u = t
      BY <2>1, <3>1, Zenon
    <3>2. CASE u # t
      BY <1>0, <2>1, <3>2, Zenon DEF Versioned
    <3> QED BY <3>1, <3>2, Zenon
  <2> QED BY <2>1, Zenon DEF Versioned, Hot
<1>7. OnTheWay'
  <2>1. Headed(t)'
    BY <1>0, Zenon DEF OnTheWay, Headed, Hot
  <2>2. ASSUME NEW u \in Threads \ {t} PROVE Headed(u)'
    <3>1. Headed(u) /\ pc'[u] = pc[u] /\ cur'[u] = cur[u] /\ goal'[u] = goal[u] /\ IoLatch'[u] = IoLatch[u]
      BY <1>0, <1>1, Zenon DEF OnTheWay, RolesStay, OthersStay
    <3> QED BY <3>1, Zenon DEF Headed, Hot
  <2> QED BY <2>1, <2>2, Zenon DEF OnTheWay
<1>8. Served'
  BY <1>0, <1>1 DEF Served, Answered, RolesStay, OthersStay, Calm
<1>9. Latches' /\ Flags'
  BY <1>0, <1>1, <1>3, SameLatches, SameFlags, Zenon
<1>10. Cooled' /\ Positions' /\ Tree' /\ Table' /\ Data'
  BY <1>0, <1>1, <1>2, SameCooled, SamePositions, SameTree, SameTable, SameData, Zenon
<1> QED BY <1>4, <1>5, <1>6, <1>7, <1>8, <1>9, <1>10, Zenon DEF Sound

LEMMA ReadIsAVersion ==
  ASSUME FrameTypes, NEW f \in AllFrames
  PROVE  Read(f) \in Versions /\ (Read(f) # "none" => lock[f] # "write")
<1>1. lock[f] \in {"free", "IO", "write"}
  BY Zenon DEF FrameTypes
<1> QED BY <1>1, Zenon DEF Read, Versions

LEMMA SameFrameTypes ==
  ASSUME FrameTypes, UNCHANGED <<lock, page, pos_state, dirty, content, children, parent_ptr>>
  PROVE  FrameTypes'
  BY Zenon DEF FrameTypes

LEMMA SamePoolTypes ==
  ASSUME PoolTypes, UNCHANGED <<table, cooling, local, remote, current>>
  PROVE  PoolTypes'
  BY Zenon DEF PoolTypes

(* A thread that neither samples for a load nor serves one holds no IO latch. *)
Free(t) == pc[t] \in {"idle", "descend", "lock"} \/ (pc[t] \in Sampling /\ ret[t] = "lock")

LEMMA FreeHasNoRole ==
  ASSUME NEW t \in Threads, Free(t) PROVE IoLatch[t] = Null /\ Loading[t] = Null
  BY Zenon DEF Free, IoLatch, Loading, Holds, Serves, ServePCs, Sampling

LEMMA FreeHasNoRolePrime ==
  ASSUME NEW t \in Threads, Free(t)' PROVE IoLatch'[t] = Null /\ Loading'[t] = Null
  BY Zenon DEF Free, IoLatch, Loading, Holds, Serves, ServePCs, Sampling

(* goto restart, from a place where nothing is held. *)
LEMMA AgainIsSound ==
  ASSUME Sound, NEW t \in Threads, Free(t), pc[t] \in Calm, Again(t, seen),
         OthersStay(t), ThreadTypes', goal'[t] \in Leaves, val'[t] \in Values,
         SameShared, ret' = ret
  PROVE  Sound'
<1>0. TypeOK /\ Placed(t) /\ FrameTypes /\ PoolTypes /\ ThreadTypes
  BY Zenon DEF Sound, TypeOK, Places
<1>1. /\ pc'[t] = "descend" /\ cur'[t] = Root /\ par'[t] = Null
      /\ seen'[t] = OnlyRoot(Read(Root)) /\ \A u \in Threads \ {t} : seen'[u] = seen[u]
  BY <1>0 DEF Again, Go, ThreadTypes
<1>2. CalmStep(t)
  BY <1>1, Zenon DEF CalmStep, Calm
<1>3. TypeOK'
  BY <1>0, SameFrameTypes, SamePoolTypes, Zenon DEF TypeOK, SameShared
<1>4. ret[t] = "lock" /\ frame[t] = Null /\ victim[t] = Null
  BY <1>0, Zenon DEF Placed, Free, Calm, Sampling, ThreadTypes
<1>5. Placed(t)' /\ Free(t)'
  BY <1>1, <1>4, Zenon DEF Placed, Latched, Sampling, Free, SameShared
<1>6. \A f \in AllFrames : seen'[t][f] # "none" => lock[f] # "write" /\ (f # Root => Hot(f))
  BY <1>0, <1>1, ReadIsAVersion DEF OnlyRoot, AllFrames
<1> QED BY <1>1, <1>2, <1>3, <1>5, <1>6, FreeHasNoRole, FreeHasNoRolePrime, CalmStepIsSound, Zenon

LEMMA ChildIsHot ==
  ASSUME Tree, NEW f \in AllFrames, NEW c \in Pages, children[f][c] # Null
  PROVE  page[children[f][c]] = c /\ Hot(children[f][c]) /\ Below(f, c)
  BY Zenon DEF Tree

(* On to a swizzled child: it is the next page on the way. *)
LEMMA IntoIsSound ==
  ASSUME Sound, NEW t \in Threads, pc[t] \in {"descend", "lock"},
         NEW f \in AllFrames, f = cur[t],
         NEW g \in Frames, g = children[f][Missing(t)],
         Into(t, f, g, Read(g)),
         SameShared, UNCHANGED <<ret, todo, op, goal, val>>
  PROVE  Sound'
<1>0. TypeOK /\ Placed(t) /\ FrameTypes /\ PoolTypes /\ ThreadTypes /\ Tree /\ Versioned
  BY Zenon DEF Sound, TypeOK, Places
<1>1. goal[t] \in Leaves /\ Missing(t) \in Pages
  BY <1>0, BufferPoolAssumption, Zenon DEF Placed, ThreadTypes, Missing, Next_page, Pages
<1>2. page[g] = Missing(t) /\ Hot(g) /\ Below(f, Missing(t))
  <2>1. children[f][Missing(t)] # Null
    BY BufferPoolAssumption, Zenon
  <2> QED BY <1>0, <1>1, <2>1, ChildIsHot, Zenon
<1>3. page[g] \in {above[goal[t]], goal[t]}
  BY <1>2, Zenon DEF Missing, Next_page
<1>4. g \in AllFrames /\ Read(g) \in Versions /\ (Read(g) # "none" => lock[g] # "write")
  BY <1>0, ReadIsAVersion, Zenon DEF AllFrames
<1>5. /\ pc'[t] = "descend" /\ cur'[t] = g /\ par'[t] = f /\ goal'[t] = goal[t]
      /\ seen'[t] = [h \in AllFrames |->
           IF h = g THEN Read(g) ELSE IF h = f THEN seen[t][f] ELSE "none"]
      /\ \A u \in Threads \ {t} :
           pc'[u] = pc[u] /\ cur'[u] = cur[u] /\ par'[u] = par[u] /\ seen'[u] = seen[u]
  BY <1>0, Zenon DEF Into, Go, ThreadTypes
<1>6. OthersStay(t) /\ CalmStep(t)
  BY <1>5, Zenon DEF CalmStep, Calm, OthersStay, SameShared
<1>7. TypeOK'
  <2>1. seen[t][f] \in Versions
    BY <1>0, Zenon DEF ThreadTypes
  <2>2. ThreadTypes'
    BY <1>0, <1>4, <2>1, Zenon DEF Into, Go, ThreadTypes, PCs, Versions, SameShared
  <2> QED BY <1>0, <2>2, SameFrameTypes, SamePoolTypes, Zenon DEF TypeOK, SameShared
<1>8. ret[t] = "lock" /\ frame[t] = Null /\ victim[t] = Null /\ val[t] \in Values
  BY <1>0, Zenon DEF Placed, Sampling, ThreadTypes
<1>9. Placed(t)' /\ Free(t) /\ Free(t)'
  BY <1>1, <1>5, <1>8, ZenonT(40) DEF Placed, Latched, Sampling, Free, SameShared
<1>10. \A h \in AllFrames : seen'[t][h] # "none" => lock[h] # "write" /\ (h # Root => Hot(h))
  <2>1. ASSUME NEW h \in AllFrames, seen'[t][h] # "none"
        PROVE  lock[h] # "write" /\ (h # Root => Hot(h))
    <3>1. seen'[t][h] = IF h = g THEN Read(g) ELSE IF h = f THEN seen[t][f] ELSE "none"
      BY <1>5, Zenon
    <3>2. CASE h = g
      BY <1>2, <1>4, <2>1, <3>1, <3>2, Zenon
    <3>3. CASE h # g
      <4>1. seen[t][h] # "none"
        BY <2>1, <3>1, <3>3, Zenon
      <4> QED BY <1>0, <4>1, Zenon DEF Versioned
    <3> QED BY <3>2, <3>3, Zenon
  <2> QED BY <2>1, Zenon
<1>11. IoLatch'[t] = Null /\ Loading'[t] = Null /\ IoLatch[t] = Null /\ Loading[t] = Null
  BY <1>9, FreeHasNoRole, FreeHasNoRolePrime, Zenon
<1>12. page[cur'[t]] = above[goal'[t]] \/ (pc'[t] = "descend" /\ page[cur'[t]] = goal'[t])
  BY <1>3, <1>5, Zenon
<1> QED BY <1>6, <1>7, <1>9, <1>10, <1>11, <1>12, CalmStepIsSound, Zenon

LEMMA beginIsSound ==
  ASSUME Sound, NEW t \in Threads, NEW o \in {"lookup", "update"}, NEW l \in Leaves, NEW v \in Values,
         begin(t, o, l, v)
  PROVE  Sound'
<1>0. FrameTypes /\ ThreadTypes
  BY Zenon DEF Sound, TypeOK
<1>1. ThreadTypes'
  <2>1. Read(Root) \in Versions /\ Root \in AllFrames
    BY <1>0, ReadIsAVersion, Zenon DEF AllFrames
  <2> QED BY <1>0, <2>1, Zenon DEF begin, Again, Go, ThreadTypes, OnlyRoot, Versions, PCs
<1>2. OthersStay(t) /\ goal'[t] \in Leaves /\ val'[t] \in Values
  BY <1>0, Zenon DEF begin, Again, Go, ThreadTypes, OthersStay, poolVars
<1> QED BY <1>1, <1>2, AgainIsSound, Zenon DEF begin, frameVars, poolVars, SameShared, Free, Calm

LEMMA restartIsSound ==
  ASSUME Sound, NEW t \in Threads, restart(t) PROVE Sound'
<1>0. FrameTypes /\ ThreadTypes /\ Placed(t)
  BY Zenon DEF Sound, TypeOK, Places
<1>1. /\ pc[t] \in {"descend", "lock"} /\ Again(t, seen)
      /\ SameShared /\ UNCHANGED <<ret, todo, op, goal, val>>
  BY Zenon DEF restart, frameVars, poolVars, SameShared
<1>2. ThreadTypes'
  <2>1. Read(Root) \in Versions /\ Root \in AllFrames
    BY <1>0, ReadIsAVersion, Zenon DEF AllFrames
  <2> QED BY <1>0, <1>1, <2>1, Zenon DEF Again, Go, ThreadTypes, OnlyRoot, Versions, PCs, SameShared
<1>3. OthersStay(t) /\ goal'[t] \in Leaves /\ val'[t] \in Values
  BY <1>0, <1>1, Zenon DEF Again, Go, ThreadTypes, OthersStay, Placed, SameShared
<1> QED BY <1>1, <1>2, <1>3, AgainIsSound, Zenon DEF Free, Calm

(* The child of the page a thread is at. *)
LEMMA MissingIsAPage ==
  ASSUME Sound, NEW t \in Threads, pc[t] # "idle"
  PROVE  /\ cur[t] \in AllFrames /\ goal[t] \in Leaves /\ Missing(t) \in Pages
         /\ children[cur[t]][Missing(t)] \in Frames \cup {Null}
<1>0. FrameTypes /\ ThreadTypes /\ Placed(t)
  BY Zenon DEF Sound, TypeOK, Places
<1>1. cur[t] \in AllFrames /\ goal[t] \in Leaves
  BY <1>0, Zenon DEF Placed, ThreadTypes
<1>2. Missing(t) \in Pages
  BY <1>1, BufferPoolAssumption, Zenon DEF Missing, Next_page, Pages
<1> QED BY <1>0, <1>1, <1>2 DEF FrameTypes

LEMMA descendIsSound ==
  ASSUME Sound, NEW t \in Threads, descend(t) PROVE Sound'
<1>1. /\ pc[t] = "descend" /\ children[cur[t]][Missing(t)] # Null
      /\ Into(t, cur[t], children[cur[t]][Missing(t)], Read(children[cur[t]][Missing(t)]))
      /\ SameShared /\ UNCHANGED <<ret, todo, op, goal, val>>
  BY Zenon DEF descend, frameVars, poolVars, SameShared
<1> QED BY <1>1, IntoIsSound, MissingIsAPage, Zenon

LEMMA new_get_mem_nodeIsSound ==
  ASSUME Sound, NEW t \in Threads, new_get_mem_node(t) PROVE Sound'
<1>0. TypeOK /\ FrameTypes /\ PoolTypes /\ ThreadTypes /\ Placed(t) /\ Versioned /\ OnTheWay
  BY Zenon DEF Sound, TypeOK, Places
<1>1. /\ pc[t] = "descend" /\ ret[t] = "lock" /\ goal[t] \in Leaves /\ AtInner(t)
      /\ frame[t] = Null /\ victim[t] = Null /\ val[t] \in Values
  BY <1>0, Zenon DEF new_get_mem_node, Placed, Sampling, ThreadTypes
<1>3. SameShared /\ UNCHANGED <<op, goal, val, cur, par, seen>>
  BY Zenon DEF new_get_mem_node, frameVars, poolVars, SameShared
<1>a. \/ pc' = [pc EXCEPT ![t] = "lock"] /\ ret' = ret /\ todo' = todo
      \/ /\ pc' = [pc EXCEPT ![t] = "sample"] /\ ret' = [ret EXCEPT ![t] = "lock"]
         /\ todo' = [todo EXCEPT ![t] = NumSample]
  BY Zenon DEF new_get_mem_node, Go
<1>2. /\ pc'[t] \in {"lock", "sample"} /\ ret'[t] = "lock" /\ (pc'[t] = "sample" => todo'[t] = NumSample)
      /\ \A u \in Threads \ {t} : pc'[u] = pc[u] /\ ret'[u] = ret[u] /\ todo'[u] = todo[u]
  BY <1>0, <1>1, <1>a, Zenon DEF ThreadTypes
<1>b. ThreadTypes'
  <2>1. NumSample \in 0..NumSample /\ {"lock", "sample"} \subseteq PCs
    BY BufferPoolAssumption DEF PCs
  <2>2. CASE pc' = [pc EXCEPT ![t] = "lock"] /\ ret' = ret /\ todo' = todo
    BY <1>0, <1>3, <2>1, <2>2, Zenon DEF ThreadTypes, SameShared
  <2>3. CASE /\ pc' = [pc EXCEPT ![t] = "sample"] /\ ret' = [ret EXCEPT ![t] = "lock"]
             /\ todo' = [todo EXCEPT ![t] = NumSample]
    BY <1>0, <1>3, <2>1, <2>3, Zenon DEF ThreadTypes, SameShared
  <2> QED BY <1>a, <2>2, <2>3, Zenon
<1>4. CalmStep(t)
  BY <1>1, <1>2, <1>3, Zenon DEF CalmStep, Calm, OthersStay, SameShared
<1>5. Placed(t)' /\ Free(t) /\ Free(t)'
  BY <1>1, <1>2, <1>3, BufferPoolAssumption DEF Placed, Latched, Sampling, Free, SameShared
<1>6. TypeOK'
  BY <1>0, <1>b, <1>3, SameFrameTypes, SamePoolTypes, Zenon DEF TypeOK, SameShared
<1>7. cur[t] # Root /\ seen[t][cur[t]] # "none" => page[cur[t]] = above[goal[t]]
  BY <1>0, <1>1, BufferPoolAssumption, ZenonT(40) DEF OnTheWay, Headed, AtInner, ThreadTypes, AllFrames
<1> QED
  BY <1>0, <1>3, <1>4, <1>5, <1>6, <1>7, FreeHasNoRole, FreeHasNoRolePrime, CalmStepIsSound, Zenon DEF Versioned

LEMMA lookupIsSound ==
  ASSUME Sound, NEW t \in Threads, lookup(t) PROVE Sound'
<1>0. TypeOK /\ FrameTypes /\ PoolTypes /\ ThreadTypes /\ Placed(t)
  BY Zenon DEF Sound, TypeOK, Places
<1>1. pc[t] = "descend" /\ ret[t] = "lock" /\ frame[t] = Null /\ victim[t] = Null
  BY <1>0, Zenon DEF lookup, Placed, Sampling, ThreadTypes
<1>2. SameShared /\ UNCHANGED <<ret, todo>>
  BY Zenon DEF lookup, frameVars, poolVars, SameShared
<1>3. /\ pc'[t] = "idle" /\ cur'[t] = Root /\ seen'[t] = OnlyRoot("none") /\ val'[t] \in Values
      /\ \A u \in Threads \ {t} : seen'[u] = seen[u]
      /\ OthersStay(t)
  BY <1>0, <1>2, BufferPoolAssumption DEF lookup, Return, Go, ThreadTypes, OthersStay, SameShared
<1>4. ThreadTypes'
  BY <1>0, <1>2, BufferPoolAssumption, Zenon DEF lookup, Return, Go, ThreadTypes, OnlyRoot, AllFrames, Versions, PCs
<1>5. TypeOK'
  BY <1>0, <1>2, <1>4, SameFrameTypes, SamePoolTypes, Zenon DEF TypeOK, SameShared
<1>6. CalmStep(t)
  BY <1>1, <1>2, <1>3, Zenon DEF CalmStep, Calm
<1>7. Placed(t)' /\ Free(t) /\ Free(t)'
  BY <1>1, <1>2, <1>3, Zenon DEF Placed, Latched, Sampling, Free, OnlyRoot, SameShared
<1> QED BY <1>3, <1>5, <1>6, <1>7, FreeHasNoRole, FreeHasNoRolePrime, CalmStepIsSound, Zenon DEF OnlyRoot

LEMMA evict_nothingIsSound ==
  ASSUME Sound, NEW t \in Threads, evict_nothing(t) PROVE Sound'
<1>0. TypeOK /\ FrameTypes /\ PoolTypes /\ ThreadTypes /\ Placed(t) /\ Versioned /\ OnTheWay
  BY Zenon DEF Sound, TypeOK, Places
<1>1. /\ pc[t] = "empty" /\ pc' = [pc EXCEPT ![t] = "sample"]
      /\ ret' = [ret EXCEPT ![t] = "retry_empty"] /\ todo' = [todo EXCEPT ![t] = NumSample]
      /\ SameShared /\ UNCHANGED <<op, goal, val, cur, par, seen>>
  BY Zenon DEF evict_nothing, Go, frameVars, poolVars, SameShared
<1>2. pc'[t] = "sample" /\ ret'[t] = "retry_empty" /\ todo'[t] = NumSample /\ OthersStay(t)
  BY <1>0, <1>1, Zenon DEF ThreadTypes, OthersStay, SameShared
<1>3. TypeOK'
  <2>1. NumSample \in 0..NumSample
    BY BufferPoolAssumption
  <2>2. ThreadTypes'
    BY <1>0, <1>1, <2>1, Zenon DEF ThreadTypes, PCs, SameShared
  <2> QED BY <1>0, <1>1, <2>2, SameFrameTypes, SamePoolTypes, Zenon DEF TypeOK, SameShared
<1>4. Placed(t)' /\ CalmStep(t)
  BY <1>0, <1>1, <1>2, BufferPoolAssumption DEF Placed, Latched, Sampling, CalmStep, Calm, SameShared
<1>5. IoLatch'[t] = IoLatch[t] /\ Loading'[t] = Loading[t]
  BY <1>1, <1>2, Zenon DEF IoLatch, Loading, Holds, Serves, ServePCs, Sampling, Missing, Next_page
<1>6. IoLatch[t] # Null
  BY <1>0, <1>1, BufferPoolAssumption DEF IoLatch, Holds, Serves, ServePCs, ThreadTypes, AllFrames
<1> QED BY <1>0, <1>1, <1>2, <1>3, <1>4, <1>5, <1>6, CalmStepIsSound, Zenon DEF OnTheWay, Headed, Versioned

LEMMA no_pageIsSound ==
  ASSUME Sound, NEW t \in Threads, no_page(t) PROVE Sound'
<1>0. TypeOK /\ FrameTypes /\ PoolTypes /\ ThreadTypes /\ Placed(t) /\ Versioned /\ OnTheWay
  BY Zenon DEF Sound, TypeOK, Places
<1>1. /\ pc[t] = "retry_empty" /\ pc' = [pc EXCEPT ![t] = "fail"]
      /\ SameShared /\ UNCHANGED <<ret, todo, op, goal, val, cur, par, seen>>
  BY Zenon DEF no_page, Go, frameVars, poolVars, SameShared
<1>2. pc'[t] = "fail" /\ OthersStay(t)
  BY <1>0, <1>1, Zenon DEF ThreadTypes, OthersStay, SameShared
<1>3. TypeOK'
  <2>1. ThreadTypes'
    BY <1>0, <1>1, Zenon DEF ThreadTypes, PCs, SameShared
  <2> QED BY <1>0, <1>1, <2>1, SameFrameTypes, SamePoolTypes, Zenon DEF TypeOK, SameShared
<1>4. Placed(t)' /\ CalmStep(t)
  BY <1>0, <1>1, <1>2, Zenon DEF Placed, Latched, Sampling, CalmStep, Calm, SameShared
<1>5. IoLatch'[t] = IoLatch[t] /\ Loading'[t] = Loading[t]
  BY <1>1, <1>2, Zenon DEF IoLatch, Loading, Holds, Serves, ServePCs, Missing, Next_page
<1>6. IoLatch[t] # Null
  BY <1>0, <1>1, BufferPoolAssumption DEF IoLatch, Holds, Serves, ServePCs, ThreadTypes, AllFrames
<1> QED BY <1>0, <1>1, <1>2, <1>3, <1>4, <1>5, <1>6, CalmStepIsSound, Zenon DEF OnTheWay, Headed, Versioned

-----------------------------------------------------------------------------
(* A leaf that is hot or being loaded has a cached parent, so that no pushdown *)
(* is under way for it.                                                       *)
LEMMA HotLeafHasParent ==
  ASSUME Sound, NEW g \in Frames, Hot(g), page[g] \in Leaves
  PROVE  table[above[page[g]]] \in Frames
<1>0. Tree /\ Table /\ Victims /\ FrameTypes /\ ThreadTypes /\ Places
  BY Zenon DEF Sound, TypeOK
<1>1. PICK p \in AllFrames : Below(p, page[g]) /\ (p # Root => Hot(p))
  <2>1. CASE parent_ptr[g] # Null
    BY <1>0, <2>1, BufferPoolAssumption DEF Tree, FrameTypes
  <2>2. CASE g \in Unhung
    <3>1. PICK t \in Threads : victim[t] = g /\ Latched(t)
      BY <2>2, Zenon DEF Unhung
    <3>2. g # Null
      BY BufferPoolAssumption, Zenon
    <3> QED BY <1>0, <3>1, <3>2, Zenon DEF Victims, Sampled, Places, Placed
  <2> QED BY <1>0, <2>1, <2>2, Zenon DEF Table
<1>2. p \in Frames /\ page[p] = above[page[g]] /\ Hot(p)
  BY <1>1, BufferPoolAssumption, Zenon DEF Below, AllFrames
<1> QED BY <1>0, <1>1, <1>2, ZenonT(40) DEF Table

LEMMA LoadedLeafHasParent ==
  ASSUME Sound, NEW t \in Threads, Loading[t] \in Leaves
  PROVE  /\ cur[t] \in Frames /\ goal[t] = Loading[t] /\ table[above[goal[t]]] = cur[t]
         /\ pc[t] # "idle"
<1>0. OnTheWay /\ Table /\ ThreadTypes /\ Placed(t)
  BY Zenon DEF Sound, TypeOK, Places
<1>1. Serves(t) /\ Missing(t) \in Leaves /\ Loading[t] = Missing(t)
  BY BufferPoolAssumption, Zenon DEF Loading
<1>2. goal[t] \in Leaves /\ pc[t] # "idle"
  BY <1>0, <1>1, Zenon DEF Placed, Serves, ServePCs, Sampling
<1>3. cur[t] \in Frames /\ goal[t] = Loading[t]
  BY <1>0, <1>1, <1>2, BufferPoolAssumption, Zenon DEF Missing, Next_page, ThreadTypes, AllFrames
<1>4. IoLatch[t] # Null /\ cur[t] # Root
  BY <1>1, <1>3, BufferPoolAssumption, Zenon DEF IoLatch, Holds
<1> QED BY <1>0, <1>2, <1>3, <1>4, Zenon DEF OnTheWay, Headed, Table

LEMMA StaleParentIsFlagged ==
  ASSUME Sound, NEW l \in Stale PROVE table[above[l]] = IO_FLAG
<1>0. Flags /\ Places
  BY Zenon DEF Sound
<1>1. PICK t \in Threads : pc[t] = "invalidate" /\ goal[t] = l
  BY Zenon DEF Stale
<1>2. cur[t] = Root /\ goal[t] \in Leaves
  BY <1>0, <1>1, Zenon DEF Places, Placed
<1>3. Loading[t] = above[l] /\ above[l] # Null
  BY <1>1, <1>2, BufferPoolAssumption, ZenonT(40) DEF Loading, Serves, ServePCs, Missing, Next_page
<1> QED BY <1>0, <1>3, Zenon DEF Flags

(* The memory node has the last value of the leaves below a page that is       *)
(* served at the root: none of them is cached dirty or being loaded.          *)
LEMMA PushedDownLeafIsRemote ==
  ASSUME Sound, NEW l \in Leaves, table[above[l]] = IO_FLAG PROVE remote[l] = current[l]
<1>0. Data /\ Table /\ Flags /\ PoolTypes /\ ThreadTypes /\ Latches /\ Cooled
  BY Zenon DEF Sound, TypeOK
<1>1. CASE table[l] \in Frames
  <2>1. ~Hot(table[l])
    BY <1>0, <1>1, HotLeafHasParent, BufferPoolAssumption DEF Table, Pages
  <2>2. table[l] \notin Writing
    <3> SUFFICES ASSUME NEW t \in Threads, victim[t] = table[l] PROVE Hot(table[l])
      BY <2>1, Zenon DEF Writing
    <3>1. victim[t] # Null
      BY <1>1, BufferPoolAssumption, Zenon
    <3> QED BY <3>1, Zenon DEF Sound, Victims, Sampled
  <2> QED BY <1>0, <1>1, <2>1, <2>2, Zenon DEF Data, Table
<1>2. CASE table[l] = IO_FLAG
  <2>1. PICK t \in Threads : Loading[t] = l
    BY <1>0, <1>2, Zenon DEF Flags, Pages
  <2> QED BY <2>1, LoadedLeafHasParent, BufferPoolAssumption, Zenon
<1> QED BY <1>0, <1>1, <1>2, Zenon DEF Data, PoolTypes, Pages

-----------------------------------------------------------------------------
(* Taking and dropping a latch. *)
LEMMA TakeIoLatch ==
  ASSUME FrameTypes, Latches, NEW t \in Threads, RolesStay(t), Cool' = Cool, Held'[t] = Held[t],
         NEW f \in AllFrames, lock[f] = "free", lock' = [lock EXCEPT ![f] = "IO"],
         IoLatch[t] = Null, IoLatch'[t] = f
  PROVE  Latches'
<1>1. \A u \in Threads : Held'[u] = Held[u]
  BY Zenon DEF RolesStay
<1>2. \A h \in AllFrames : lock'[h] = IF h = f THEN "IO" ELSE lock[h]
  BY Zenon DEF FrameTypes
<1>3. f # Null /\ \A h \in AllFrames : h # Null
  BY BufferPoolAssumption, Zenon DEF AllFrames
<1>4. \A u \in Threads : IoLatch'[u] = (IF u = t THEN f ELSE IoLatch[u])
  BY Zenon DEF RolesStay
<1> QED BY <1>1, <1>2, <1>3, <1>4 DEF Latches

LEMMA DropIoLatch ==
  ASSUME FrameTypes, Latches, NEW t \in Threads, RolesStay(t), Cool' = Cool, Held'[t] = Held[t],
         NEW f \in AllFrames, lock' = [lock EXCEPT ![f] = "free"],
         IoLatch[t] = f, IoLatch'[t] = Null
  PROVE  Latches'
<1>1. \A u \in Threads : Held'[u] = Held[u]
  BY Zenon DEF RolesStay
<1>2. \A h \in AllFrames : lock'[h] = IF h = f THEN "free" ELSE lock[h]
  BY Zenon DEF FrameTypes
<1>3. f # Null /\ \A h \in AllFrames : h # Null
  BY BufferPoolAssumption, Zenon DEF AllFrames
<1>4. \A u \in Threads : IoLatch'[u] = (IF u = t THEN Null ELSE IoLatch[u])
  BY Zenon DEF RolesStay
<1>5. lock[f] = "IO"
  BY Zenon DEF Latches
<1> QED BY <1>1, <1>2, <1>3, <1>4, <1>5 DEF Latches

LEMMA TakeWriteLatch ==
  ASSUME FrameTypes, Latches, NEW t \in Threads, RolesStay(t), Cool' = Cool,
         IoLatch'[t] = IoLatch[t],
         NEW f \in AllFrames, lock[f] = "free", lock' = [lock EXCEPT ![f] = "write"],
         \A h \in AllFrames : h \in Held'[t] <=> h \in Held[t] \/ h = f
  PROVE  Latches'
<1>1. \A u \in Threads : IoLatch'[u] = IoLatch[u]
  BY Zenon DEF RolesStay
<1>2. \A h \in AllFrames : lock'[h] = IF h = f THEN "write" ELSE lock[h]
  BY Zenon DEF FrameTypes
<1>3. \A u \in Threads : Held[u] \subseteq AllFrames /\ Held'[u] \subseteq AllFrames
  BY Zenon DEF Held
<1>4. \A u \in Threads, h \in AllFrames : h \in Held'[u] <=> h \in Held[u] \/ (u = t /\ h = f)
  BY Zenon DEF RolesStay
<1>5. f \notin Cool /\ \A u \in Threads : f \notin Held[u] /\ IoLatch[u] # f
  BY Zenon DEF Latches
<1> QED BY <1>1, <1>2, <1>3, <1>4, <1>5 DEF Latches

LEMMA DropWriteLatch ==
  ASSUME FrameTypes, Latches, NEW t \in Threads, RolesStay(t), Cool' = Cool,
         IoLatch'[t] = IoLatch[t],
         NEW f \in Held[t], lock' = [lock EXCEPT ![f] = "free"],
         \A h \in AllFrames : h \in Held'[t] <=> h \in Held[t] /\ h # f
  PROVE  Latches'
<1>1. \A u \in Threads : IoLatch'[u] = IoLatch[u]
  BY Zenon DEF RolesStay
<1>2. f \in AllFrames /\ \A u \in Threads : Held[u] \subseteq AllFrames /\ Held'[u] \subseteq AllFrames
  BY Zenon DEF Held
<1>3. \A h \in AllFrames : lock'[h] = IF h = f THEN "free" ELSE lock[h]
  BY Zenon DEF FrameTypes
<1>4. lock[f] = "write" /\ f \notin Cool /\ \A u \in Threads \ {t} : f \notin Held[u]
  BY <1>2, Zenon DEF Latches
<1>5. \A u \in Threads, h \in AllFrames : h \in Held'[u] <=> h \in Held[u] /\ h # f
  BY <1>4, Zenon DEF RolesStay
<1> QED BY <1>1, <1>2, <1>3, <1>4, <1>5 DEF Latches

-----------------------------------------------------------------------------
(* A step writes to frames that its thread owns, that are cooling or that     *)
(* nobody has latched: never to those of another thread.                      *)
Untouched(W) ==
  /\ \A f \in AllFrames \ W : children'[f] = children[f]
  /\ \A f \in Frames \ W :
       /\ page'[f] = page[f] /\ pos_state'[f] = pos_state[f] /\ parent_ptr'[f] = parent_ptr[f]
       /\ dirty'[f] = dirty[f] /\ content'[f] = content[f]

NotTheirs(t, W) ==
  \A u \in Threads \ {t}, f \in W : f \notin Held[u] /\ IoLatch[u] # f

LEMMA PrivateFrames ==
  ASSUME Latches, NEW t \in Threads, NEW W \in SUBSET AllFrames,
         \A f \in W : f \in Held[t] \/ f \in Cool \/ f = IoLatch[t] \/ lock[f] = "free"
  PROVE  NotTheirs(t, W)
<1>1. \A f \in AllFrames : f # Null
  BY BufferPoolAssumption, Zenon DEF AllFrames
<1> QED BY <1>1 DEF Latches, NotTheirs

LEMMA OthersAreSampled ==
  ASSUME Victims, Places, ThreadTypes, NEW t \in Threads, OthersStay(t),
         NEW W \in SUBSET AllFrames, Untouched(W), NotTheirs(t, W)
  PROVE  \A u \in Threads \ {t} : Sampled(u)'
<1> SUFFICES ASSUME NEW u \in Threads \ {t}, victim[u] # Null PROVE Sampled(u)'
  BY ZenonT(40) DEF Sampled, OthersStay
<1>1. Sampled(u) /\ victim[u] \in Frames /\ (Latched(u) => par[u] \in AllFrames)
  BY DEF Victims, ThreadTypes, Places, Placed
<1>2. victim[u] \notin W /\ (Latched(u) => par[u] \notin W)
  BY <1>1, Zenon DEF NotTheirs, Held, AllFrames
<1> QED BY <1>1, <1>2 DEF Sampled, Untouched, OthersStay, Latched, Hot, Below, AllFrames

LEMMA OthersAreHeaded ==
  ASSUME OnTheWay, Versioned, Latches, ThreadTypes, NEW t \in Threads, OthersStay(t), RolesStay(t),
         NEW W \in SUBSET AllFrames, Untouched(W), NotTheirs(t, W),
         \A u \in Threads \ {t} : \A f \in AllFrames : seen'[u][f] \in {seen[u][f], "none"},
         \A f \in W \ {Root} : lock[f] = "write" \/ page'[f] = page[f]
  PROVE  \A u \in Threads \ {t} : Headed(u)'
<1> SUFFICES ASSUME NEW u \in Threads \ {t}, cur[u] # Root PROVE Headed(u)'
  BY DEF Headed, OthersStay
<1>1. Headed(u) /\ cur[u] \in Frames /\ cur[u] \in AllFrames
  BY Zenon DEF OnTheWay, ThreadTypes, AllFrames
<1>2. seen'[u][cur[u]] # "none" => page'[cur[u]] = page[cur[u]]
  BY <1>1 DEF Versioned, Untouched
<1>3. IoLatch[u] # Null => cur[u] \notin W
  BY <1>1, Zenon DEF NotTheirs, IoLatch
<1>4. /\ pc'[u] = pc[u] /\ goal'[u] = goal[u] /\ cur'[u] = cur[u] /\ IoLatch'[u] = IoLatch[u]
      /\ seen'[u][cur[u]] \in {seen[u][cur[u]], "none"}
  BY <1>1, Zenon DEF RolesStay, OthersStay
<1>5. cur[u] \notin W => page'[cur[u]] = page[cur[u]] /\ pos_state'[cur[u]] = pos_state[cur[u]]
  BY <1>1, Zenon DEF Untouched
<1> QED BY <1>1, <1>2, <1>3, <1>4, <1>5, ZenonT(40) DEF Headed, Hot

LEMMA OthersAreAnswered ==
  ASSUME Served, Places, ThreadTypes, NEW t \in Threads, OthersStay(t), RolesStay(t),
         NEW W \in SUBSET AllFrames, Untouched(W), NotTheirs(t, W),
         \A u \in Threads \ {t} :
           /\ Loading[u] \in Leaves => /\ remote'[Loading[u]] = remote[Loading[u]]
                                       /\ current'[Loading[u]] = current[Loading[u]]
           /\ pc[u] = "drop_flag" => current'[goal[u]] = current[goal[u]]
  PROVE  \A u \in Threads \ {t} : Answered(u)'
<1> SUFFICES ASSUME NEW u \in Threads \ {t} PROVE Answered(u)'
  BY Zenon
<1>1. Answered(u) /\ (pc[u] = "swizzle" => frame[u] \in Frames)
  BY DEF Served, ThreadTypes, Places, Placed
<1>2. pc[u] = "swizzle" => frame[u] \notin W
  BY <1>1, Zenon DEF NotTheirs, Held, AllFrames
<1>3. /\ pc'[u] = pc[u] /\ op'[u] = op[u] /\ val'[u] = val[u] /\ goal'[u] = goal[u]
      /\ frame'[u] = frame[u] /\ Loading'[u] = Loading[u]
  BY Zenon DEF RolesStay, OthersStay
<1>4. pc[u] = "swizzle" => /\ page'[frame[u]] = page[frame[u]] /\ dirty'[frame[u]] = dirty[frame[u]]
                           /\ content'[frame[u]] = content[frame[u]]
  BY <1>1, <1>2, Zenon DEF Untouched
<1> QED BY <1>1, <1>3, <1>4, ZenonT(40) DEF Answered

(* What a step must not change of the leaves that other threads work on. *)
KeepsAnswers(t) ==
  \A u \in Threads \ {t} :
    /\ Loading[u] \in Leaves => /\ remote'[Loading[u]] = remote[Loading[u]]
                                /\ current'[Loading[u]] = current[Loading[u]]
    /\ pc[u] = "drop_flag" => current'[goal[u]] = current[goal[u]]

(* A step of thread t that writes to the frames W. *)
Step(t, W) ==
  /\ OthersStay(t) /\ W \in SUBSET AllFrames /\ Untouched(W) /\ NotTheirs(t, W) /\ KeepsAnswers(t)
  /\ \A u \in Threads \ {t} : \A f \in AllFrames : seen'[u][f] \in {seen[u][f], "none"}
  /\ \A f \in W \ {Root} : lock[f] = "write" \/ page'[f] = page[f]

(* What the invariant says of one thread. *)
Mine(t) == Placed(t) /\ Sampled(t) /\ Headed(t) /\ Answered(t)

LEMMA OthersFollow ==
  ASSUME Sound, NEW t \in Threads, NEW W, Step(t, W), Mine(t)'
  PROVE  Places' /\ Victims' /\ OnTheWay' /\ Served'
<1>0. /\ ThreadTypes /\ Places /\ Latches /\ Victims /\ Versioned /\ OnTheWay /\ Served
  BY Zenon DEF Sound, TypeOK
<1>1. RolesStay(t)
  BY OthersKeepRoles, Zenon DEF Step
<1>2. Places'
  BY <1>0, OthersStayPlaced, Zenon DEF Step, Mine
<1>3. Victims'
  <2>1. \A u \in Threads \ {t} : Sampled(u)'
    BY <1>0, OthersAreSampled, Zenon DEF Step
  <2> QED BY <2>1, Zenon DEF Victims, Mine
<1>4. OnTheWay'
  <2>1. \A u \in Threads \ {t} : Headed(u)'
    BY <1>0, <1>1, OthersAreHeaded, Zenon DEF Step
  <2> QED BY <2>1, Zenon DEF OnTheWay, Mine
<1>5. Served'
  <2>1. \A u \in Threads \ {t} : Answered(u)'
    BY <1>0, <1>1, OthersAreAnswered, Zenon DEF Step, KeepsAnswers
  <2> QED BY <2>1, Zenon DEF Served, Mine
<1> QED BY <1>2, <1>3, <1>4, <1>5, Zenon

(* A step that leaves the pages and the cooling table alone. *)
SameFrames ==
  /\ page' = page /\ pos_state' = pos_state /\ dirty' = dirty
  /\ content' = content /\ children' = children /\ parent_ptr' = parent_ptr

QuietStep(t) ==
  /\ OthersStay(t) /\ SameFrames /\ cooling' = cooling /\ KeepsAnswers(t)
  /\ \A u \in Threads \ {t} : \A f \in AllFrames : seen'[u][f] \in {seen[u][f], "none"}

LEMMA QuietStepIsSound ==
  ASSUME Sound, NEW t \in Threads, QuietStep(t), TypeOK', Mine(t)',
         Positions', Latches', Table', Versioned', Flags', Data'
  PROVE  Sound'
<1>1. Step(t, {})
  BY Zenon DEF QuietStep, Step, SameFrames, Untouched, NotTheirs
<1>2. Cooled' /\ Tree'
  BY SameCooled, SameTree, Zenon DEF Sound, QuietStep, SameFrames
<1> QED BY <1>1, <1>2, OthersFollow, Zenon DEF Sound

LEMMA SameAnswers ==
  ASSUME NEW t \in Threads, remote' = remote, current' = current PROVE KeepsAnswers(t)
  BY Zenon DEF KeepsAnswers

-----------------------------------------------------------------------------
(* Loads: the IO latch of the parent, and the end of a load that brings no    *)
(* page.                                                                      *)
LEMMA upgradeToIOLockIsSound ==
  ASSUME Sound, NEW t \in Threads, upgradeToIOLock(t) PROVE Sound'
<1> DEFINE f == cur[t]
           g == children[f][Missing(t)]
<1>0. /\ TypeOK /\ FrameTypes /\ PoolTypes /\ ThreadTypes /\ Placed(t)
      /\ Latches /\ Versioned /\ Headed(t) /\ Sampled(t) /\ Answered(t)
  BY Zenon DEF Sound, TypeOK, Places, OnTheWay, Victims, Served
<1>1. pc[t] = "lock" /\ seen[t][f] = "plain" /\ lock[f] = "free"
  BY Zenon DEF upgradeToIOLock
<1>2. f \in AllFrames /\ g \in Frames \cup {Null} /\ goal[t] \in Leaves
  BY <1>1, MissingIsAPage, Zenon
<1>3. CASE g # Null /\ Into(t, f, g, Read(g)) /\ UNCHANGED lock
  <2>1. SameShared /\ UNCHANGED <<ret, todo, op, goal, val>>
    BY <1>3, Zenon DEF upgradeToIOLock, poolVars, SameShared
  <2> QED BY <1>1, <1>2, <1>3, <2>1, IntoIsSound, Zenon
<1>4. CASE /\ g = Null /\ pc' = [pc EXCEPT ![t] = "cache_get"] /\ lock' = [lock EXCEPT ![f] = "IO"]
           /\ UNCHANGED <<par, cur, seen>>
  <2>1. /\ SameFrames /\ UNCHANGED <<table, cooling, local, remote, current>>
        /\ UNCHANGED <<ret, todo, op, goal, val, frame, victim, par, cur, seen>>
    BY <1>4, Zenon DEF upgradeToIOLock, poolVars, SameFrames
  <2>2. pc'[t] = "cache_get" /\ OthersStay(t)
    BY <1>0, <1>4, <2>1, Zenon DEF ThreadTypes, OthersStay
  <2>3. QuietStep(t) /\ RolesStay(t)
    BY <2>1, <2>2, SameAnswers, OthersKeepRoles, Zenon DEF QuietStep
  <2>4. TypeOK'
    <3>1. lock' \in [AllFrames -> {"free", "IO", "write"}] /\ ThreadTypes'
      BY <1>0, <1>2, <1>4, <2>1 DEF FrameTypes, ThreadTypes, PCs
    <3> QED BY <1>0, <2>1, <3>1, SamePoolTypes, Zenon DEF TypeOK, FrameTypes, SameFrames
  <2>5. Loading[t] = Null /\ Loading'[t] = Null /\ IoLatch[t] = Null /\ IoLatch'[t] = f
    BY <1>1, <2>1, <2>2, Zenon DEF Loading, IoLatch, Holds, Serves, ServePCs, Sampling
  <2>6. Mine(t)'
    <3>1. Placed(t)' /\ Sampled(t)'
      BY <1>0, <1>1, <2>1, <2>2, Zenon DEF Placed, Sampled, Latched, Sampling
    <3>2. Headed(t)'
      BY <1>0, <1>1, <1>2, <2>1, <2>2, Zenon DEF Headed, Versioned, Hot, SameFrames
    <3>3. Answered(t)'
      BY <2>2, <2>5, BufferPoolAssumption, Zenon DEF Answered
    <3> QED BY <3>1, <3>2, <3>3, Zenon DEF Mine
  <2>7. Cool' = Cool /\ Unhung' = Unhung /\ Writing' = Writing /\ Stale' = Stale /\ Held'[t] = Held[t]
    <3>1. ~Latched(t) /\ ~Latched(t)'
      BY <1>1, <2>2, Zenon DEF Latched
    <3> QED BY <1>1, <2>1, <2>2, <3>1, SameCool, SameUnhung, SameStale, Zenon DEF Held
  <2>8. Latches' /\ Flags'
    BY <1>0, <1>1, <1>2, <1>4, <2>1, <2>3, <2>5, <2>7, TakeIoLatch, SameFlags, Zenon DEF Sound
  <2>9. Positions' /\ Table' /\ Data'
    BY <2>1, <2>7, SamePositions, SameTable, SameData, Zenon DEF Sound, SameFrames
  <2>10. Versioned'
    BY <1>0, <1>2, <1>4, <2>1, Zenon DEF Versioned, Hot, SameFrames, FrameTypes
  <2> QED BY <2>3, <2>4, <2>6, <2>8, <2>9, <2>10, QuietStepIsSound, Zenon
<1> QED BY <1>3, <1>4, Zenon DEF upgradeToIOLock, Go

LEMMA LoadingIsAPage ==
  ASSUME Sound PROVE \A u \in Threads : Loading[u] \in Pages \cup {Null}
<1>1. \A u \in Threads : Serves(u) => pc[u] # "idle"
  BY Zenon DEF Serves, ServePCs, Sampling
<1> QED BY <1>1, MissingIsAPage, Zenon DEF Loading

(* The IO flag of a page is removed by the thread that served it. *)
LEMMA DropFlag ==
  ASSUME Sound, NEW t \in Threads, RolesStay(t), pc[t] # "remote_write",
         NEW c \in Pages, Loading[t] = c, Loading'[t] = Null, table' = [table EXCEPT ![c] = Null],
         SameFrames, UNCHANGED <<remote, current, Cool, Unhung, Writing, Stale>>
  PROVE  Flags' /\ Table' /\ Data'
<1>0. Flags /\ Table /\ Data /\ PoolTypes /\ Answered(t)
  BY Zenon DEF Sound, TypeOK, Served
<1>1. \A d \in Pages : table'[d] = IF d = c THEN Null ELSE table[d]
  BY <1>0, Zenon DEF PoolTypes
<1>2. Null # IO_FLAG /\ c # Null /\ Null \notin Frames /\ IO_FLAG \notin Frames
  BY BufferPoolAssumption, Zenon DEF Pages
<1>3. table[c] = IO_FLAG
  BY <1>0, <1>2, Zenon DEF Flags
<1>4. Flags'
  <2>1. \A u \in Threads : Loading'[u] = IF u = t THEN Null ELSE Loading[u]
    BY ZenonT(40) DEF RolesStay
  <2>2. \A u \in Threads : Loading'[u] # Null => Loading'[u] = Loading[u] /\ u # t
    BY <2>1, Zenon
  <2>3. \A u \in Threads \ {t} : Loading[u] # c
    BY <1>0, <1>2, Zenon DEF Flags
  <2>4. ASSUME NEW u \in Threads, Loading'[u] # Null PROVE table'[Loading'[u]] = IO_FLAG
    <3>1. Loading[u] \in Pages /\ Loading[u] # c /\ table[Loading[u]] = IO_FLAG
      BY <1>0, <2>2, <2>3, <2>4, LoadingIsAPage, Zenon DEF Flags
    <3> QED BY <1>1, <2>2, <2>4, <3>1, Zenon
  <2>5. ASSUME NEW d \in Pages, table'[d] = IO_FLAG PROVE \E u \in Threads : Loading'[u] = d
    <3>1. d # c /\ table[d] = IO_FLAG
      BY <1>1, <1>2, <2>5, Zenon
    <3>2. PICK u \in Threads : Loading[u] = d
      BY <1>0, <3>1, Zenon DEF Flags
    <3> QED BY <2>1, <3>1, <3>2, Zenon
  <2>6. \A u, w \in Threads : Loading'[u] # Null /\ Loading'[u] = Loading'[w] => u = w
    BY <1>0, <2>2, Zenon DEF Flags
  <2> QED BY <2>4, <2>5, <2>6, Zenon DEF Flags
<1>5. Table'
  <2>1. /\ page' = page /\ pos_state' = pos_state /\ parent_ptr' = parent_ptr /\ dirty' = dirty
        /\ Cool' = Cool /\ Unhung' = Unhung
    BY Zenon DEF SameFrames
  <2>2. \A d \in Pages : table'[d] \in Frames => table'[d] = table[d]
    BY <1>1, <1>2, Zenon
  <2>3. \A g \in Frames : Hot(g) => table'[page[g]] = g
    BY <1>0, <1>1, <1>2, <1>3, Zenon DEF Table
  <2>4. \A g \in Frames : Hot(g)' =>
          page'[g] \in Pages /\ table'[page'[g]] = g /\ (parent_ptr'[g] # Null \/ g \in Unhung')
    BY <1>0, <2>1, <2>3, Zenon DEF Table, Hot
  <2>5. ASSUME NEW d \in Pages, table'[d] \in Frames
        PROVE  page'[table'[d]] = d /\ (Hot(table[d])' \/ table'[d] \in Cool')
    BY <1>0, <2>1, <2>2, <2>5, Zenon DEF Table, Hot
  <2>6. \A g \in Frames : dirty'[g] => Hot(g)' /\ page'[g] \in Leaves
    BY <1>0, <2>1, Zenon DEF Table, Hot
  <2> QED BY <2>4, <2>5, <2>6, Zenon DEF Table
<1>6. Data'
  <2>1. c \in Leaves => remote[c] = current[c]
    BY <1>0, Zenon DEF Answered
  <2> SUFFICES ASSUME NEW l \in Leaves
               PROVE  /\ table'[l] \in Frames => content[table'[l]] = current[l] \/ l \in Stale
                      /\ table'[l] \in Frames /\ ~dirty[table'[l]] =>
                           remote[l] = content[table'[l]] \/ l \in Stale \/ table'[l] \in Writing
                      /\ table'[l] = Null => remote[l] = current[l]
                      /\ l \in Stale => remote[l] = current[l]
    BY Zenon DEF Data, SameFrames
  <2>3. table'[l] = IF l = c THEN Null ELSE table[l]
    BY <1>1, Zenon DEF Pages
  <2>4. CASE l = c
    BY <1>2, <2>1, <2>3, <2>4, Zenon
  <2>5. CASE l # c
    BY <1>0, <2>3, <2>5, Zenon DEF Data
  <2> QED BY <2>4, <2>5, Zenon
<1> QED BY <1>4, <1>5, <1>6, Zenon

(* The IO latch is dropped and the operation returns or starts again. *)
LEMMA LetGoIsSound ==
  ASSUME Sound, NEW t \in Threads, pc[t] \in {"cache_get", "fail", "drop_flag"},
         pc'[t] \in {"idle", "descend"}, cur'[t] = Root, pc'[t] # "idle" => goal'[t] \in Leaves,
         val'[t] \in Values,
         NEW v, v # "none" => lock[Root] # "write", seen'[t] = OnlyRoot(v), pc'[t] = "idle" => v = "none",
         \A u \in Threads \ {t} : seen'[u] = seen[u],
         OthersStay(t), ThreadTypes', lock' = Unlatch(t), SameFrames, PoolTypes',
         UNCHANGED <<cooling, local, remote, current, ret, frame, victim>>, Flags', Table', Data'
  PROVE  Sound'
<1>0. /\ TypeOK /\ FrameTypes /\ PoolTypes /\ ThreadTypes /\ Placed(t) /\ Latches /\ Versioned
  BY Zenon DEF Sound, TypeOK, Places
<1>1. ret[t] = "lock" /\ frame[t] = Null /\ victim[t] = Null /\ cur[t] \in AllFrames
  BY <1>0, Zenon DEF Placed, Sampling, ThreadTypes
<1>2. QuietStep(t) /\ RolesStay(t)
  BY SameAnswers, OthersKeepRoles, Zenon DEF QuietStep
<1>3. TypeOK'
  BY <1>0, <1>1, Zenon DEF TypeOK, FrameTypes, SameFrames, Unlatch
<1>4. IoLatch[t] = cur[t] /\ IoLatch'[t] = Null /\ Loading'[t] = Null
  BY FreeHasNoRolePrime, Zenon DEF IoLatch, Holds, Serves, ServePCs, Free
<1>5. Mine(t)'
  <2>1. Placed(t)' /\ Sampled(t)'
    BY <1>1, Zenon DEF Placed, Sampled, Latched, Sampling, OnlyRoot
  <2>2. Headed(t)' /\ Answered(t)'
    BY <1>4, BufferPoolAssumption, Zenon DEF Headed, Answered
  <2> QED BY <2>1, <2>2, Zenon DEF Mine
<1>6. Cool' = Cool /\ Held'[t] = Held[t]
  BY SameCool, Zenon DEF Held, Latched
<1>7. Latches'
  BY <1>0, <1>1, <1>2, <1>4, <1>6, DropIoLatch, Zenon DEF Unlatch
<1>8. Versioned'
  <2>1. \A h \in AllFrames : lock'[h] = IF h = cur[t] THEN "free" ELSE lock[h]
    BY <1>0, Zenon DEF FrameTypes, Unlatch
  <2>2. ASSUME NEW u \in Threads, NEW h \in AllFrames, seen'[u][h] # "none"
        PROVE  lock[h] # "write" /\ (h # Root => Hot(h))
    <3>1. CASE u = t
      BY <2>2, <3>1, Zenon DEF OnlyRoot
    <3>2. CASE u # t
      BY <1>0, <2>2, <3>2, Zenon DEF Versioned
    <3> QED BY <3>1, <3>2, Zenon
  <2>3. pos_state' = pos_state
    BY Zenon DEF SameFrames
  <2>4. ASSUME NEW u \in Threads, NEW h \in AllFrames, seen'[u][h] # "none"
        PROVE  lock'[h] # "write" /\ (h # Root => Hot(h)')
    BY <2>1, <2>2, <2>3, <2>4, Zenon DEF Hot
  <2> QED BY <2>4, Zenon DEF Versioned
<1>9. Positions'
  BY SamePositions, Zenon DEF Sound, SameFrames
<1> QED BY <1>2, <1>3, <1>5, <1>7, <1>8, <1>9, QuietStepIsSound, Zenon

LEMMA cache_get_restartIsSound ==
  ASSUME Sound, NEW t \in Threads, cache_get_restart(t) PROVE Sound'
<1>0. FrameTypes /\ PoolTypes /\ ThreadTypes /\ Placed(t)
  BY Zenon DEF Sound, TypeOK, Places
<1>1. /\ pc[t] = "cache_get" /\ lock' = Unlatch(t) /\ Again(t, seen) /\ SameFrames
      /\ UNCHANGED <<table, cooling, local, remote, current, ret, todo, op, goal, val, frame, victim>>
  BY Zenon DEF cache_get_restart, poolVars, SameFrames
<1>2. Read(Root) \in Versions /\ (Read(Root) # "none" => lock[Root] # "write") /\ Root \in AllFrames
  BY <1>0, ReadIsAVersion, Zenon DEF AllFrames
<1>3. ThreadTypes' /\ PoolTypes'
  BY <1>0, <1>1, <1>2, SamePoolTypes, Zenon DEF Again, Go, ThreadTypes, OnlyRoot, Versions, PCs
<1>4. /\ OthersStay(t) /\ pc'[t] = "descend" /\ cur'[t] = Root /\ goal'[t] \in Leaves /\ val'[t] \in Values
      /\ seen'[t] = OnlyRoot(Read(Root)) /\ \A u \in Threads \ {t} : seen'[u] = seen[u]
  BY <1>0, <1>1, Zenon DEF Again, Go, ThreadTypes, Placed, OthersStay
<1>5. Loading[t] = Null /\ Loading'[t] = Null
  BY <1>1, <1>4, Zenon DEF Loading, Serves, ServePCs, Sampling
<1>6. Cool' = Cool /\ Unhung' = Unhung /\ Writing' = Writing /\ Stale' = Stale
  BY <1>1, <1>4, SameCool, SameUnhung, SameStale, Zenon DEF Latched
<1>7. Flags' /\ Table' /\ Data'
  BY <1>1, <1>4, <1>5, <1>6, OthersKeepRoles, SameFlags, SameTable, SameData, Zenon DEF Sound, SameFrames
<1> QED BY <1>1, <1>2, <1>3, <1>4, <1>7, LetGoIsSound, Zenon

LEMMA cold_to_hot_failIsSound ==
  ASSUME Sound, NEW t \in Threads, cold_to_hot_fail(t) PROVE Sound'
<1>0. FrameTypes /\ PoolTypes /\ ThreadTypes /\ Placed(t)
  BY Zenon DEF Sound, TypeOK, Places
<1>1. /\ pc[t] = "fail" /\ lock' = Unlatch(t) /\ Again(t, seen) /\ SameFrames
      /\ table' = [table EXCEPT ![Missing(t)] = Null]
      /\ UNCHANGED <<cooling, local, remote, current, ret, todo, op, goal, val, frame, victim>>
  BY Zenon DEF cold_to_hot_fail, SameFrames
<1>2. Read(Root) \in Versions /\ (Read(Root) # "none" => lock[Root] # "write") /\ Root \in AllFrames
  BY <1>0, ReadIsAVersion, Zenon DEF AllFrames
<1>3. ThreadTypes' /\ PoolTypes'
  BY <1>0, <1>1, <1>2, Zenon DEF Again, Go, ThreadTypes, PoolTypes, OnlyRoot, Versions, PCs
<1>4. /\ OthersStay(t) /\ pc'[t] = "descend" /\ cur'[t] = Root /\ goal'[t] \in Leaves /\ val'[t] \in Values
      /\ seen'[t] = OnlyRoot(Read(Root)) /\ \A u \in Threads \ {t} : seen'[u] = seen[u]
  BY <1>0, <1>1, Zenon DEF Again, Go, ThreadTypes, Placed, OthersStay
<1>5. Loading[t] = Missing(t) /\ Missing(t) \in Pages /\ Loading'[t] = Null
  BY <1>1, <1>4, MissingIsAPage, Zenon DEF Loading, Serves, ServePCs, Sampling
<1>6. Cool' = Cool /\ Unhung' = Unhung /\ Writing' = Writing /\ Stale' = Stale
  BY <1>1, <1>4, SameCool, SameUnhung, SameStale, Zenon DEF Latched
<1>7. Flags' /\ Table' /\ Data'
  BY <1>1, <1>4, <1>5, <1>6, OthersKeepRoles, DropFlag, Zenon
<1> QED BY <1>1, <1>2, <1>3, <1>4, <1>7, LetGoIsSound, Zenon

LEMMA drop_flagIsSound ==
  ASSUME Sound, NEW t \in Threads, drop_flag(t) PROVE Sound'
<1>0. FrameTypes /\ PoolTypes /\ ThreadTypes /\ Placed(t)
  BY Zenon DEF Sound, TypeOK, Places
<1>1. /\ pc[t] = "drop_flag" /\ lock' = Unlatch(t) /\ Return(t, seen) /\ SameFrames
      /\ table' = [table EXCEPT ![Missing(t)] = Null]
      /\ UNCHANGED <<cooling, local, remote, current, ret, todo, frame, victim>>
  BY Zenon DEF drop_flag, SameFrames
<1>3. ThreadTypes' /\ PoolTypes'
  BY <1>0, <1>1, BufferPoolAssumption, Zenon
     DEF Return, Go, ThreadTypes, PoolTypes, OnlyRoot, Versions, PCs, AllFrames
<1>4. /\ OthersStay(t) /\ pc'[t] = "idle" /\ cur'[t] = Root /\ val'[t] \in Values
      /\ seen'[t] = OnlyRoot("none") /\ \A u \in Threads \ {t} : seen'[u] = seen[u]
  BY <1>0, <1>1, BufferPoolAssumption DEF Return, Go, ThreadTypes, OthersStay
<1>5. Loading[t] = Missing(t) /\ Missing(t) \in Pages /\ Loading'[t] = Null
  BY <1>1, <1>4, MissingIsAPage, Zenon DEF Loading, Serves, ServePCs, Sampling
<1>6. Cool' = Cool /\ Unhung' = Unhung /\ Writing' = Writing /\ Stale' = Stale
  BY <1>1, <1>4, SameCool, SameUnhung, SameStale, Zenon DEF Latched
<1>7. Flags' /\ Table' /\ Data'
  BY <1>1, <1>4, <1>5, <1>6, OthersKeepRoles, DropFlag, Zenon
<1> QED BY <1>1, <1>3, <1>4, <1>7, LetGoIsSound, Zenon

-----------------------------------------------------------------------------
(* Sampling.  The thread keeps what it held when it began to sample. *)
LEMMA SamplerKeepsRoles ==
  ASSUME NEW t \in Threads, pc[t] \in Sampling, pc'[t] \in Sampling,
         ret'[t] = ret[t], cur'[t] = cur[t], goal'[t] = goal[t]
  PROVE  IoLatch'[t] = IoLatch[t] /\ Loading'[t] = Loading[t]
<1>1. Serves(t)' <=> Serves(t)
  BY Zenon DEF Serves, ServePCs, Sampling
<1>2. Holds(t)' <=> Holds(t)
  BY <1>1, Zenon DEF Holds, Sampling
<1> QED BY <1>1, <1>2, Zenon DEF IoLatch, Loading, Missing, Next_page

LEMMA SamplerStaysHeaded ==
  ASSUME NEW t \in Threads, Headed(t), pc[t] \in Sampling, cur[t] \in AllFrames,
         IoLatch'[t] = IoLatch[t], cur'[t] = cur[t], goal'[t] = goal[t],
         UNCHANGED <<page, pos_state>>, \A f \in AllFrames : seen'[t][f] \in {seen[t][f], "none"}
  PROVE  Headed(t)'
  BY Zenon DEF Headed, Sampling, Hot

(* What a thread has latched while it has a victim. *)
LEMMA VictimIsHeld ==
  ASSUME Sound, NEW t \in Threads, victim[t] # Null
  PROVE  /\ victim[t] \in Frames /\ victim[t] \in Held[t] /\ Hot(victim[t]) /\ lock[victim[t]] = "write"
         /\ page[victim[t]] \in Pages /\ table[page[victim[t]]] = victim[t]
         /\ victim[t] \notin local[t] /\ frame[t] = Null
         /\ \A u \in Threads \ {t} : victim[u] # victim[t]
<1>0. ThreadTypes /\ Placed(t) /\ Latches /\ Sampled(t) /\ Table /\ Positions
  BY Zenon DEF Sound, TypeOK, Places, Victims
<1>1. victim[t] \in Frames /\ victim[t] \in AllFrames
  BY <1>0, Zenon DEF ThreadTypes, AllFrames
<1>2. victim[t] \in Held[t]
  BY <1>1, Zenon DEF Held
<1>3. Hot(victim[t]) /\ lock[victim[t]] = "write"
  BY <1>0, <1>1, <1>2, Zenon DEF Sampled, Latches
<1>4. page[victim[t]] \in Pages /\ table[page[victim[t]]] = victim[t]
  BY <1>0, <1>1, <1>3, Zenon DEF Table
<1>5. victim[t] \notin local[t] /\ frame[t] = Null
  BY <1>0, <1>3, Zenon DEF Positions, Positioned, Hot, Placed
<1>6. \A u \in Threads \ {t} : victim[u] # victim[t]
  BY <1>0, <1>1, <1>2, ZenonT(40) DEF Held, Latches
<1> QED BY <1>1, <1>2, <1>3, <1>4, <1>5, <1>6, Zenon

(* A leaf on its way to remote memory is not served to anybody. *)
LEMMA VictimIsNotLoaded ==
  ASSUME Sound, NEW t \in Threads, victim[t] # Null
  PROVE  /\ \A u \in Threads : Loading[u] # page[victim[t]]
         /\ page[victim[t]] \notin Stale
         /\ page[victim[t]] \in Leaves => content[victim[t]] = current[page[victim[t]]]
<1>0. Flags /\ Data
  BY Zenon DEF Sound
<1>1. /\ victim[t] \in Frames /\ Hot(victim[t])
      /\ page[victim[t]] \in Pages /\ table[page[victim[t]]] = victim[t]
  BY VictimIsHeld, ZenonT(40)
<1>2. \A u \in Threads : Loading[u] # page[victim[t]]
  BY <1>0, <1>1, BufferPoolAssumption DEF Flags, Pages
<1>3. page[victim[t]] \notin Stale
  <2> SUFFICES ASSUME page[victim[t]] \in Stale PROVE FALSE
    BY Zenon
  <2>1. page[victim[t]] \in Leaves
    BY Zenon DEF Stale
  <2> QED BY <1>1, <2>1, HotLeafHasParent, StaleParentIsFlagged, BufferPoolAssumption, Zenon
<1> QED BY <1>0, <1>1, <1>2, <1>3, Zenon DEF Data

LEMMA sample_pageIsSound ==
  ASSUME Sound, NEW t \in Threads, NEW v \in Frames, sample_page(t, v) PROVE Sound'
<1>0. /\ TypeOK /\ FrameTypes /\ PoolTypes /\ ThreadTypes /\ Placed(t)
      /\ Latches /\ Versioned /\ Headed(t) /\ Answered(t) /\ Table
  BY Zenon DEF Sound, TypeOK, Places, OnTheWay, Served
<1>1. /\ pc[t] = "sample" /\ Hot(v) /\ lock[v] = "free" /\ Swizzled(v) = {}
      /\ lock' = [lock EXCEPT ![v] = "write"] /\ seen' = Spoil({v}) /\ SameFrames
      /\ victim' = [victim EXCEPT ![t] = v] /\ pc' = [pc EXCEPT ![t] = "sample_parent"]
      /\ UNCHANGED <<table, cooling, local, remote, current, ret, todo, op, goal, val, cur, par, frame>>
  BY Zenon DEF sample_page, Go, poolVars, SameFrames, Hot
<1>2. /\ pc'[t] = "sample_parent" /\ victim'[t] = v /\ OthersStay(t)
      /\ v \in AllFrames /\ v # Null /\ victim[t] = Null
  BY <1>0, <1>1, BufferPoolAssumption DEF ThreadTypes, OthersStay, AllFrames, Placed
<1>3. \A u \in Threads, h \in AllFrames : seen'[u][h] = IF h = v THEN "none" ELSE seen[u][h]
  BY <1>1, Zenon DEF Spoil
<1>4. QuietStep(t) /\ RolesStay(t)
  BY <1>1, <1>2, <1>3, SameAnswers, OthersKeepRoles, Zenon DEF QuietStep
<1>5. TypeOK'
  <2>1. lock' \in [AllFrames -> {"free", "IO", "write"}]
    BY <1>0, <1>1, <1>2, Zenon DEF FrameTypes
  <2>2. ThreadTypes'
    BY <1>0, <1>1, <1>2, ZenonT(40) DEF ThreadTypes, PCs, Spoil, Versions
  <2> QED BY <1>0, <1>1, <2>1, <2>2, SamePoolTypes, Zenon DEF TypeOK, FrameTypes, SameFrames
<1>6. IoLatch'[t] = IoLatch[t] /\ Loading'[t] = Loading[t]
  BY <1>1, <1>2, SamplerKeepsRoles, Zenon DEF Sampling
<1>7. Mine(t)'
  <2>1. Placed(t)'
    BY <1>0, <1>1, <1>2, Zenon DEF Placed, Latched, Sampling
  <2>2. Headed(t)'
    BY <1>0, <1>1, <1>3, <1>6, SamplerStaysHeaded, Zenon DEF SameFrames, Sampling, ThreadTypes
  <2>3. Answered(t)'
    BY <1>0, <1>1, <1>2, <1>6, Zenon DEF Answered
  <2>4. parent_ptr[v] # Null
    <3> SUFFICES ASSUME v \in Unhung PROVE FALSE
      BY <1>0, <1>1, Zenon DEF Table
    <3>1. PICK u \in Threads : victim[u] = v
      BY Zenon DEF Unhung
    <3> QED BY <1>1, <1>2, <3>1, VictimIsHeld, Zenon
  <2>5. Sampled(t)'
    BY <1>1, <1>2, <2>4, Zenon DEF Sampled, SameFrames, Hot, Swizzled, Latched
  <2> QED BY <2>1, <2>2, <2>3, <2>5, Zenon DEF Mine
<1>8. Cool' = Cool /\ Unhung' = Unhung /\ Writing' = Writing /\ Stale' = Stale
  BY <1>1, <1>2, SameCool, SameUnhung, SameStale, Zenon DEF Latched
<1>9. Latches'
  <2>1. \A h \in AllFrames : h \in Held'[t] <=> h \in Held[t] \/ h = v
    BY <1>1, <1>2, BufferPoolAssumption, Zenon DEF Held, Latched, AllFrames
  <2> QED BY <1>0, <1>1, <1>2, <1>4, <1>6, <1>8, <2>1, TakeWriteLatch, Zenon
<1>10. Positions' /\ Table' /\ Data' /\ Flags'
  BY <1>1, <1>4, <1>6, <1>8, SamePositions, SameTable, SameData, SameFlags, Zenon DEF Sound, SameFrames
<1>11. Versioned'
  <2>1. \A h \in AllFrames : lock'[h] = IF h = v THEN "write" ELSE lock[h]
    BY <1>0, <1>1, Zenon DEF FrameTypes
  <2>2. pos_state' = pos_state
    BY <1>1, Zenon DEF SameFrames
  <2> QED BY <1>0, <1>3, <2>1, <2>2, ZenonT(40) DEF Versioned, Hot
<1> QED BY <1>4, <1>5, <1>7, <1>9, <1>10, <1>11, QuietStepIsSound, Zenon

LEMMA sample_nextIsSound ==
  ASSUME Sound, NEW t \in Threads, sample_next(t) PROVE Sound'
<1> DEFINE v == victim[t]
<1>0. /\ TypeOK /\ FrameTypes /\ PoolTypes /\ ThreadTypes /\ Placed(t)
      /\ Latches /\ Versioned /\ Headed(t) /\ Answered(t)
  BY Zenon DEF Sound, TypeOK, Places, OnTheWay, Served
<1>1. /\ pc[t] = "sample_parent" /\ lock' = [lock EXCEPT ![v] = "free"] /\ SameFrames
      /\ victim' = [victim EXCEPT ![t] = Null] /\ pc' = [pc EXCEPT ![t] = "sample"]
      /\ UNCHANGED <<table, cooling, local, remote, current, ret, todo, op, goal, val, cur, par, seen, frame>>
  BY Zenon DEF sample_next, Go, poolVars, SameFrames
<1>2. pc'[t] = "sample" /\ victim'[t] = Null /\ OthersStay(t) /\ v # Null
  BY <1>0, <1>1, Zenon DEF ThreadTypes, OthersStay, Placed
<1>3. v \in Frames /\ v \in Held[t] /\ v \notin local[t] /\ frame[t] = Null
  BY <1>2, VictimIsHeld, Zenon
<1>4. QuietStep(t) /\ RolesStay(t)
  BY <1>1, <1>2, SameAnswers, OthersKeepRoles, Zenon DEF QuietStep
<1>5. TypeOK'
  <2>1. lock' \in [AllFrames -> {"free", "IO", "write"}]
    BY <1>0, <1>1, <1>3, Zenon DEF FrameTypes, AllFrames
  <2>2. ThreadTypes'
    BY <1>0, <1>1, Zenon DEF ThreadTypes, PCs
  <2> QED BY <1>0, <1>1, <2>1, <2>2, SamePoolTypes, Zenon DEF TypeOK, FrameTypes, SameFrames
<1>6. IoLatch'[t] = IoLatch[t] /\ Loading'[t] = Loading[t]
  BY <1>1, <1>2, SamplerKeepsRoles, Zenon DEF Sampling
<1>7. Mine(t)'
  <2>1. Placed(t)' /\ Sampled(t)'
    BY <1>0, <1>1, <1>2, Zenon DEF Placed, Sampled, Latched, Sampling
  <2>2. Headed(t)'
    BY <1>0, <1>1, <1>6, SamplerStaysHeaded, Zenon DEF SameFrames, Sampling, ThreadTypes
  <2>3. Answered(t)'
    BY <1>0, <1>1, <1>2, <1>6, Zenon DEF Answered
  <2> QED BY <2>1, <2>2, <2>3, Zenon DEF Mine
<1>8. Cool' = Cool /\ Unhung' = Unhung /\ Writing' = Writing /\ Stale' = Stale
  BY <1>1, <1>2, SameCool, SameUnhung, SameStale, Zenon DEF Latched
<1>9. Latches'
  <2>1. \A h \in AllFrames : h \in Held'[t] <=> h \in Held[t] /\ h # v
    BY <1>1, <1>2, <1>3, BufferPoolAssumption, Zenon DEF Held, Latched, AllFrames
  <2> QED BY <1>0, <1>1, <1>3, <1>4, <1>6, <1>8, <2>1, DropWriteLatch, Zenon
<1>10. Positions' /\ Table' /\ Data' /\ Flags'
  BY <1>1, <1>4, <1>6, <1>8, SamePositions, SameTable, SameData, SameFlags, Zenon DEF Sound, SameFrames
<1>11. Versioned'
  <2>1. \A h \in AllFrames : lock'[h] = IF h = v THEN "free" ELSE lock[h]
    BY <1>0, <1>1, Zenon DEF FrameTypes
  <2>2. pos_state' = pos_state /\ seen' = seen
    BY <1>1, Zenon DEF SameFrames
  <2> QED BY <1>0, <2>1, <2>2, Zenon DEF Versioned, Hot
<1> QED BY <1>4, <1>5, <1>7, <1>9, <1>10, <1>11, QuietStepIsSound, Zenon

(* A write of the victim to remote memory leaves the answers of others alone. *)
LEMMA WritingKeepsAnswers ==
  ASSUME Sound, NEW t \in Threads, victim[t] # Null, current' = current,
         NEW r, remote' = [remote EXCEPT ![page[victim[t]]] = r] \/ remote' = remote
  PROVE  KeepsAnswers(t) /\ (Loading[t] \in Leaves => remote'[Loading[t]] = remote[Loading[t]])
<1>1. \A u \in Threads : Loading[u] # page[victim[t]]
  BY VictimIsNotLoaded, Zenon
<1>2. remote \in [Leaves -> Values \cup {Torn}]
  BY Zenon DEF Sound, TypeOK, PoolTypes
<1>3. \A l \in Leaves \ {page[victim[t]]} : remote'[l] = remote[l]
  BY <1>2, Zenon
<1> QED BY <1>1, <1>3, Zenon DEF KeepsAnswers

LEMMA sample_writeIsSound ==
  ASSUME Sound, NEW t \in Threads, sample_write(t) PROVE Sound'
<1> DEFINE v == victim[t]
<1>0. /\ TypeOK /\ FrameTypes /\ PoolTypes /\ ThreadTypes /\ Placed(t) /\ Data /\ Table
      /\ Latches /\ Versioned /\ Headed(t) /\ Answered(t) /\ Sampled(t)
  BY Zenon DEF Sound, TypeOK, Places, OnTheWay, Served, Victims
<1>1. /\ pc[t] = "sample_write" /\ SameFrames /\ remote' = [remote EXCEPT ![page[v]] = content[v]]
      /\ pc' = [pc EXCEPT ![t] = "sample_insert"] /\ UNCHANGED <<lock, table, cooling, local, current>>
      /\ UNCHANGED <<ret, todo, op, goal, val, cur, par, seen, frame, victim>>
  BY Zenon DEF sample_write, Go, frameVars, poolVars, SameFrames
<1>2. pc'[t] = "sample_insert" /\ OthersStay(t) /\ v # Null
  BY <1>0, <1>1, Zenon DEF ThreadTypes, OthersStay, Placed
<1>3. /\ v \in Frames /\ page[v] \in Pages /\ table[page[v]] = v /\ page[v] \notin Stale
      /\ page[v] \in Leaves => content[v] = current[page[v]]
  BY <1>2, VictimIsHeld, VictimIsNotLoaded, Zenon
<1>r. \A l \in Leaves : remote'[l] = IF l = page[v] THEN content[v] ELSE remote[l]
  BY <1>0, <1>1, Zenon DEF PoolTypes
<1>4. QuietStep(t) /\ RolesStay(t)
  BY <1>1, <1>2, WritingKeepsAnswers, OthersKeepRoles, Zenon DEF QuietStep
<1>5. TypeOK'
  <2>1. PoolTypes'
    BY <1>0, <1>1, <1>3, Zenon DEF PoolTypes
  <2>2. ThreadTypes'
    BY <1>0, <1>1, Zenon DEF ThreadTypes, PCs
  <2> QED BY <1>0, <1>1, <2>1, <2>2, SameFrameTypes, Zenon DEF TypeOK, SameFrames
<1>6. IoLatch'[t] = IoLatch[t] /\ Loading'[t] = Loading[t]
  BY <1>1, <1>2, SamplerKeepsRoles, Zenon DEF Sampling
<1>7. Mine(t)'
  <2>1. Placed(t)' /\ Sampled(t)'
    BY <1>0, <1>1, <1>2, Zenon DEF Placed, Sampled, Latched, Sampling, SameFrames, Hot, Below
  <2>2. Headed(t)'
    BY <1>0, <1>1, <1>6, SamplerStaysHeaded, Zenon DEF SameFrames, Sampling, ThreadTypes
  <2>3. Answered(t)'
    BY <1>0, <1>1, <1>2, <1>6, WritingKeepsAnswers, Zenon DEF Answered
  <2> QED BY <2>1, <2>2, <2>3, Zenon DEF Mine
<1>8. Cool' = Cool /\ Stale' = Stale /\ Held'[t] = Held[t]
  BY <1>1, <1>2, SameCool, SameStale, ZenonT(40) DEF Held, Latched
<1>9. Unhung' = Unhung /\ Writing \subseteq Writing' \cup {v}
  <2>1. \A u \in Threads : Latched(u)' <=> Latched(u)
    BY <1>1, <1>2, Zenon DEF Latched, OthersStay
  <2> QED BY <1>1, <1>2, <2>1, Zenon DEF Unhung, Writing, OthersStay
<1>10. Latches' /\ Positions' /\ Table' /\ Flags' /\ Versioned'
  BY <1>1, <1>4, <1>6, <1>8, <1>9, SameLatches, SamePositions, SameTable, SameFlags, SameVersioned, Zenon
     DEF Sound, SameFrames
<1>11. Data'
  <2>1. \A l \in Leaves : table[l] = v => l = page[v]
    BY <1>0, <1>3, Zenon DEF Table, Pages
  <2>2. table' = table /\ content' = content /\ dirty' = dirty /\ current' = current
    BY <1>1, Zenon DEF SameFrames
  <2> SUFFICES ASSUME NEW l \in Leaves
               PROVE  /\ table[l] \in Frames => content[table[l]] = current[l] \/ l \in Stale
                      /\ table[l] \in Frames /\ ~dirty[table[l]] =>
                           remote'[l] = content[table[l]] \/ l \in Stale \/ table[l] \in Writing'
                      /\ table[l] = Null => remote'[l] = current[l]
                      /\ l \in Stale => remote'[l] = current[l]
    BY <1>8, <2>2, Zenon DEF Data
  <2>3. CASE l = page[v]
    <3>1. table[l] = v /\ l \notin Stale /\ content[v] = current[l] /\ remote'[l] = content[v]
      BY <1>3, <1>r, <2>3, Zenon
    <3>2. v # Null
      BY <1>2, Zenon
    <3> QED BY <3>1, <3>2, Zenon
  <2>4. CASE l # page[v]
    <3>1. remote'[l] = remote[l] /\ table[l] # v
      BY <1>r, <2>1, <2>4, Zenon
    <3>2. table[l] \in Writing => table[l] \in Writing'
      BY <1>9, <3>1, Zenon
    <3> QED BY <1>0, <3>1, <3>2, Zenon DEF Data
  <2> QED BY <2>3, <2>4, Zenon
<1> QED BY <1>4, <1>5, <1>7, <1>10, <1>11, QuietStepIsSound, Zenon

LEMMA unswizzleIsSound ==
  ASSUME Sound, NEW t \in Threads, unswizzle(t) PROVE Sound'
<1> DEFINE v == victim[t]
           p == parent_ptr[v]
<1>0. /\ TypeOK /\ FrameTypes /\ PoolTypes /\ ThreadTypes /\ Placed(t) /\ Data /\ Table /\ Tree
      /\ Latches /\ Versioned /\ Headed(t) /\ Answered(t) /\ Sampled(t)
  BY Zenon DEF Sound, TypeOK, Places, OnTheWay, Served, Victims
<1>1. /\ pc[t] = "sample_parent" /\ lock[p] = "free" /\ lock' = [lock EXCEPT ![p] = "write"]
      /\ seen' = Spoil({p}) /\ par' = [par EXCEPT ![t] = p]
      /\ children' = [children EXCEPT ![p][page[v]] = Null]
      /\ parent_ptr' = [parent_ptr EXCEPT ![v] = Null] /\ dirty' = [dirty EXCEPT ![v] = FALSE]
      /\ UNCHANGED <<page, pos_state, content, table, cooling, local, current>>
      /\ UNCHANGED <<ret, todo, op, goal, val, cur, frame, victim>>
  BY Zenon DEF unswizzle, poolVars
<1>s. page' = page /\ pos_state' = pos_state /\ content' = content /\ victim' = victim
  BY <1>1, Zenon
<1>2. \/ dirty[v] /\ pc' = [pc EXCEPT ![t] = "sample_write"] /\ remote' = [remote EXCEPT ![page[v]] = Torn]
      \/ ~dirty[v] /\ pc' = [pc EXCEPT ![t] = "sample_insert"] /\ remote' = remote
  BY Zenon DEF unswizzle, Go
<1>3. /\ OthersStay(t) /\ par'[t] = p /\ v # Null /\ pc'[t] \in {"sample_write", "sample_insert"}
      /\ dirty[v] => pc'[t] = "sample_write"
  <2>1. v # Null
    BY <1>0, <1>1, Zenon DEF Placed
  <2>2. pc'[t] \in {"sample_write", "sample_insert"} /\ \A u \in Threads \ {t} : pc'[u] = pc[u]
    BY <1>0, <1>2, Zenon DEF ThreadTypes
  <2>3. dirty[v] => pc'[t] = "sample_write"
    BY <1>0, <1>2, Zenon DEF ThreadTypes
  <2> QED BY <1>0, <1>1, <2>1, <2>2, <2>3, Zenon DEF ThreadTypes, OthersStay
<1>4. /\ v \in Frames /\ v \in Held[t] /\ Hot(v) /\ lock[v] = "write"
      /\ page[v] \in Pages /\ table[page[v]] = v /\ page[v] \notin Stale
      /\ frame[t] = Null
  BY <1>3, VictimIsHeld, VictimIsNotLoaded, ZenonT(40)
<1>5. p # Null /\ p \in AllFrames /\ p # v /\ children[p][page[v]] = v
  <2>1. ~Latched(t)
    BY <1>1, Zenon DEF Latched
  <2>2. p # Null /\ \A c \in Pages : children[v][c] = Null
    BY <1>0, <1>3, <2>1, Zenon DEF Sampled
  <2>3. p \in AllFrames
    BY <1>0, <1>4, <2>2, Zenon DEF FrameTypes
  <2>4. children[p][page[v]] = v
    BY <1>0, <1>4, <2>2, Zenon DEF Tree
  <2>5. p # v
    BY <1>3, <1>4, <2>2, <2>4, Zenon
  <2> QED BY <2>2, <2>3, <2>4, <2>5, Zenon
<1>6. Below(p, page[v]) /\ (p # Root => Hot(p)) /\ \A c \in Pages : children[v][c] = Null
  BY <1>0, <1>3, <1>4, <1>5, Zenon DEF Tree, Sampled
<1>7. /\ \A h \in AllFrames : lock'[h] = IF h = p THEN "write" ELSE lock[h]
      /\ \A h \in Frames : parent_ptr'[h] = IF h = v THEN Null ELSE parent_ptr[h]
      /\ \A h \in Frames : dirty'[h] = IF h = v THEN FALSE ELSE dirty[h]
      /\ \A h \in AllFrames, c \in Pages :
           children'[h][c] = IF h = p /\ c = page[v] THEN Null ELSE children[h][c]
      /\ \A h \in AllFrames \ {p} : children'[h] = children[h]
  BY <1>0, <1>1, Zenon DEF FrameTypes
<1>8. \A u \in Threads, h \in AllFrames : seen'[u][h] = IF h = p THEN "none" ELSE seen[u][h]
  BY <1>1, Zenon DEF Spoil
<1>9. Step(t, {v, p}) /\ RolesStay(t)
  <2>1. NotTheirs(t, {v, p})
    <3>1. {v, p} \in SUBSET AllFrames
      BY <1>4, <1>5, Zenon DEF AllFrames
    <3>2. \A f \in {v, p} : f \in Held[t] \/ lock[f] = "free"
      BY <1>1, <1>4, Zenon
    <3> QED BY <1>0, <3>1, <3>2, PrivateFrames, Zenon
  <2>2. Untouched({v, p})
    <3>1. \A f \in AllFrames \ {v, p} : children'[f] = children[f]
      BY <1>7, Zenon
    <3>2. \A f \in Frames \ {v, p} : parent_ptr'[f] = parent_ptr[f] /\ dirty'[f] = dirty[f]
      BY <1>7, Zenon
    <3> QED BY <1>s, <3>1, <3>2, Zenon DEF Untouched
  <2>3. KeepsAnswers(t)
    BY <1>1, <1>2, <1>3, WritingKeepsAnswers, Zenon
  <2> QED BY <1>1, <1>3, <1>4, <1>5, <1>8, <2>1, <2>2, <2>3, OthersKeepRoles, Zenon DEF Step, AllFrames
<1>10. TypeOK'
  <2>1. FrameTypes'
    <3>1. lock' \in [AllFrames -> {"free", "IO", "write"}] /\ children' \in [AllFrames -> [Pages -> Frames \cup {Null}]]
      BY <1>0, <1>1, Zenon DEF FrameTypes
    <3>2. dirty' \in [Frames -> BOOLEAN] /\ parent_ptr' \in [Frames -> AllFrames \cup {Null}]
      BY <1>0, <1>1, Zenon DEF FrameTypes
    <3> QED BY <1>0, <1>1, <3>1, <3>2, Zenon DEF FrameTypes
  <2>2. PoolTypes'
    <3>1. remote' \in [Leaves -> Values \cup {Torn}]
      BY <1>0, <1>2, Zenon DEF PoolTypes
    <3> QED BY <1>0, <1>1, <3>1, Zenon DEF PoolTypes
  <2>3. ThreadTypes'
    <3>1. pc' \in [Threads -> PCs]
      BY <1>0, <1>2, Zenon DEF ThreadTypes, PCs
    <3>2. par' \in [Threads -> AllFrames \cup {Null}] /\ seen' \in [Threads -> [AllFrames -> Versions]]
      BY <1>0, <1>1, <1>5, ZenonT(40) DEF ThreadTypes, Spoil, Versions
    <3> QED BY <1>0, <1>1, <3>1, <3>2, Zenon DEF ThreadTypes
  <2> QED BY <2>1, <2>2, <2>3, Zenon DEF TypeOK
<1>11. IoLatch'[t] = IoLatch[t] /\ Loading'[t] = Loading[t]
  BY <1>1, <1>3, SamplerKeepsRoles, Zenon DEF Sampling
<1>12. Mine(t)'
  <2>1. Placed(t)'
    BY <1>0, <1>1, <1>3, <1>5, Zenon DEF Placed, Latched, Sampling
  <2>2. Headed(t)'
    BY <1>0, <1>1, <1>8, <1>11, SamplerStaysHeaded, ZenonT(40) DEF Sampling, ThreadTypes
  <2>3. Answered(t)'
    <3>1. remote' = [remote EXCEPT ![page[v]] = Torn] \/ remote' = remote
      BY <1>2, Zenon
    <3>2. Loading[t] \in Leaves => remote'[Loading[t]] = remote[Loading[t]]
      BY <1>1, <1>3, <3>1, WritingKeepsAnswers, Zenon
    <3>3. Loading[t] \in Leaves => remote[Loading[t]] = current[Loading[t]]
      BY <1>0, <1>1, Zenon DEF Answered
    <3>4. current' = current /\ pc'[t] # "swizzle" /\ pc'[t] # "drop_flag"
      BY <1>1, <1>3, Zenon
    <3> QED BY <1>11, <3>2, <3>3, <3>4, Zenon DEF Answered
  <2>4. Sampled(t)'
    <3>1. Hot(v)' /\ \A c \in Pages : children'[v][c] = Null
      BY <1>s, <1>4, <1>5, <1>6, <1>7, Zenon DEF Hot, AllFrames
    <3>2. Latched(t)' /\ parent_ptr'[v] = Null /\ ~dirty'[v]
      BY <1>3, <1>4, <1>7, Zenon DEF Latched
    <3>3. par'[t] # v /\ (par'[t] # Root => Hot(par[t])')
      BY <1>s, <1>3, <1>5, <1>6, Zenon DEF Hot
    <3>4. Below(par[t], page[v])'
      <4>1. page'[victim'[t]] = page[v] /\ par'[t] = p /\ Below(p, page[v])
        BY <1>s, <1>3, <1>6, Zenon
      <4> QED BY <1>s, <4>1 DEF Below
    <3> QED BY <1>s, <3>1, <3>2, <3>3, <3>4, Zenon DEF Sampled
  <2> QED BY <2>1, <2>2, <2>3, <2>4, Zenon DEF Mine
<1>13. /\ Cool' = Cool /\ Stale' = Stale /\ Writing \subseteq Writing' /\ Unhung \cup {v} \subseteq Unhung'
       /\ dirty[v] => v \in Writing'
  <2>1. ~Latched(t) /\ \A u \in Threads : Latched(u) => Latched(u)' /\ victim'[u] = victim[u]
    BY <1>1, <1>3, Zenon DEF Latched, OthersStay
  <2>2. Latched(t)' /\ victim'[t] = v
    BY <1>1, <1>3, Zenon DEF Latched
  <2> QED BY <1>1, <1>3, <1>4, <2>1, <2>2, SameCool, SameStale, Zenon DEF Unhung, Writing, OthersStay
<1>14. Latches'
  <2>1. \A h \in AllFrames : h \in Held'[t] <=> h \in Held[t] \/ h = p
    BY <1>1, <1>3, <1>5, Zenon DEF Held, Latched
  <2> QED BY <1>0, <1>1, <1>5, <1>9, <1>11, <1>13, <2>1, TakeWriteLatch, Zenon
<1>15. Cooled' /\ Positions' /\ Flags'
  BY <1>1, <1>9, <1>11, SameCooled, SamePositions, SameFlags, ZenonT(40) DEF Sound
<1>16. Tree'
  <2>t. /\ children \in [AllFrames -> [Pages -> Frames \cup {Null}]]
        /\ parent_ptr \in [Frames -> AllFrames \cup {Null}]
    BY <1>0, Zenon DEF FrameTypes
  <2>3. \A f \in AllFrames, c \in Pages : children[f][c] # Null =>
          /\ parent_ptr[children[f][c]] = f /\ page[children[f][c]] = c
          /\ Hot(children[f][c]) /\ (f # Root => Hot(f)) /\ Below(f, c)
    BY <1>0 DEF Tree
  <2>5. \A g \in Frames :
          parent_ptr[g] # Null => page[g] \in Pages /\ children[parent_ptr[g]][page[g]] = g
    BY <1>0, Zenon DEF Tree
  <2>1. \A f \in AllFrames, c \in Pages : children'[f][c] # Null =>
          children'[f][c] = children[f][c] /\ children[f][c] # v /\ children[f][c] \in Frames
    <3> SUFFICES ASSUME NEW f \in AllFrames, NEW c \in Pages, children'[f][c] # Null
                 PROVE  children'[f][c] = children[f][c] /\ children[f][c] # v /\ children[f][c] \in Frames
      BY Zenon
    <3>1. ~(f = p /\ c = page[v]) /\ children'[f][c] = children[f][c]
      BY <1>7, Zenon
    <3>2. children[f][c] \in Frames
      BY <2>t, <3>1
    <3>3. children[f][c] # v
      BY <2>3, <3>1
    <3> QED BY <3>1, <3>2, <3>3, Zenon
  <2>2. \A g \in Frames : parent_ptr'[g] # Null =>
          g # v /\ parent_ptr[g] # Null /\ page[g] \in Pages /\ children'[parent_ptr[g]][page[g]] = g
    <3> SUFFICES ASSUME NEW g \in Frames, parent_ptr'[g] # Null
                 PROVE  g # v /\ parent_ptr[g] # Null /\ page[g] \in Pages /\ children'[parent_ptr[g]][page[g]] = g
      BY Zenon
    <3>1. g # v /\ parent_ptr[g] # Null
      BY <1>7, Zenon
    <3>2. page[g] \in Pages /\ children[parent_ptr[g]][page[g]] = g /\ parent_ptr[g] \in AllFrames
      BY <2>t, <2>5, <3>1, Zenon
    <3>3. ~(parent_ptr[g] = p /\ page[g] = page[v])
      BY <1>5, <3>1, <3>2, Zenon
    <3> QED BY <1>7, <3>1, <3>2, <3>3, Zenon
  <2>4. \A g \in Frames :
          parent_ptr'[g] # Null => page'[g] \in Pages /\ children'[parent_ptr'[g]][page'[g]] = g
    BY <1>s, <1>7, <2>2, Zenon
  <2>6. ASSUME NEW f \in AllFrames, NEW c \in Pages, children'[f][c] # Null
        PROVE  /\ parent_ptr'[children'[f][c]] = f /\ page'[children'[f][c]] = c
               /\ Hot(children[f][c])' /\ (f # Root => Hot(f)') /\ Below(f, c)'
    <3>1. children'[f][c] = children[f][c] /\ children[f][c] # v /\ children[f][c] \in Frames
      BY <2>1, <2>6, Zenon
    <3>2. /\ parent_ptr[children[f][c]] = f /\ page[children[f][c]] = c
          /\ Hot(children[f][c]) /\ (f # Root => Hot(f)) /\ Below(f, c)
      BY <2>3, <2>6, <3>1, Zenon
    <3>3. parent_ptr'[children[f][c]] = parent_ptr[children[f][c]]
      BY <1>7, <3>1, Zenon
    <3> QED BY <1>s, <3>1, <3>2, <3>3, Zenon DEF Hot, Below
  <2> QED BY <2>4, <2>6, Zenon DEF Tree
<1>17. Table'
  <2>1. table' = table /\ Cool' = Cool /\ Unhung \cup {v} \subseteq Unhung'
    BY <1>1, <1>13, Zenon
  <2>2. \A g \in Frames : Hot(g) =>
          page[g] \in Pages /\ table[page[g]] = g /\ (parent_ptr[g] # Null \/ g \in Unhung)
    BY <1>0, Zenon DEF Table
  <2>3. \A g \in Frames : parent_ptr[g] # Null \/ g \in Unhung => parent_ptr'[g] # Null \/ g \in Unhung'
    BY <1>7, <2>1, Zenon
  <2>4. \A g \in Frames : Hot(g)' =>
          page'[g] \in Pages /\ table'[page'[g]] = g /\ (parent_ptr'[g] # Null \/ g \in Unhung')
    BY <1>s, <2>1, <2>2, <2>3, Zenon DEF Hot
  <2>5. \A d \in Pages : table'[d] \in Frames => page'[table'[d]] = d /\ (Hot(table[d])' \/ table'[d] \in Cool')
    BY <1>0, <1>s, <2>1, Zenon DEF Table, Hot
  <2>6. \A g \in Frames : dirty'[g] => Hot(g)' /\ page'[g] \in Leaves
    BY <1>0, <1>s, <1>7, Zenon DEF Table, Hot
  <2> QED BY <2>4, <2>5, <2>6, Zenon DEF Table
<1>18. Versioned'
  <2>1. \A u \in Threads, f \in AllFrames :
          seen[u][f] # "none" => lock[f] # "write" /\ (f # Root => Hot(f))
    BY <1>0, Zenon DEF Versioned
  <2>2. \A f \in AllFrames : Hot(f)' <=> Hot(f)
    BY <1>s, Zenon DEF Hot
  <2>3. \A f \in AllFrames : lock'[f] = IF f = p THEN "write" ELSE lock[f]
    BY <1>7, Zenon
  <2>4. ASSUME NEW u \in Threads, NEW f \in AllFrames, seen'[u][f] # "none"
        PROVE  lock'[f] # "write" /\ (f # Root => Hot(f)')
    <3>1. f # p /\ seen[u][f] # "none"
      BY <1>8, <2>4, Zenon
    <3> QED BY <2>1, <2>2, <2>3, <3>1, Zenon
  <2> QED BY <2>4, Zenon DEF Versioned
<1>19. Data'
  <2>1. \A l \in Leaves : table[l] = v => l = page[v]
    BY <1>0, <1>4, Zenon DEF Table, Pages
  <2>2. \A l \in Leaves : remote'[l] = remote[l] \/ (l = page[v] /\ dirty[v])
    BY <1>0, <1>2, Zenon DEF PoolTypes
  <2>3. /\ table' = table /\ content' = content /\ current' = current
        /\ \A h \in Frames : dirty'[h] = IF h = v THEN FALSE ELSE dirty[h]
    BY <1>1, <1>7, ZenonT(40)
  <2>4. v \in Frames /\ page[v] \notin Stale /\ Null \notin Frames
    BY <1>4, BufferPoolAssumption, Zenon DEF AllFrames
  <2>5. \A l \in Leaves :
          /\ table[l] \in Frames => content[table[l]] = current[l] \/ l \in Stale
          /\ table[l] \in Frames /\ ~dirty[table[l]] =>
               remote[l] = content[table[l]] \/ l \in Stale \/ table[l] \in Writing
          /\ table[l] = Null => remote[l] = current[l]
          /\ l \in Stale => remote[l] = current[l]
    BY <1>0, Zenon DEF Data
  <2>6. \A l \in Leaves : remote'[l] = remote[l] \/ (table[l] = v /\ v \in Writing')
    BY <1>4, <1>13, <2>2, Zenon
  <2>7. \A l \in Leaves : table[l] # v => remote'[l] = remote[l]
    BY <2>6, Zenon
  <2>8. \A l \in Leaves : table[l] = v /\ ~(v \in Writing') => ~dirty[v]
    BY <1>13, Zenon
  <2>9. ASSUME NEW l \in Leaves
        PROVE  /\ table[l] \in Frames /\ ~dirty'[table[l]] =>
                    remote'[l] = content[table[l]] \/ l \in Stale \/ table[l] \in Writing'
               /\ table[l] = Null => remote'[l] = current[l]
               /\ l \in Stale => remote'[l] = current[l]
    <3>1. CASE table[l] = v
      BY <1>13, <2>1, <2>4, <2>5, <2>6, <2>8, <3>1, Zenon
    <3>2. CASE table[l] # v
      BY <1>13, <2>3, <2>5, <2>7, <3>2, Zenon
    <3> QED BY <3>1, <3>2, Zenon
  <2> QED BY <1>13, <2>3, <2>5, <2>9, Zenon DEF Data
<1> QED BY <1>9, <1>10, <1>12, <1>14, <1>15, <1>16, <1>17, <1>18, <1>19, OthersFollow, Zenon DEF Sound

-----------------------------------------------------------------------------
(* Operations on a leaf.  An answer that is on its way back to a client is    *)
(* protected by an IO flag, of the leaf or of the page above it.              *)
LEMMA AnswerIsFlagged ==
  ASSUME Sound, NEW u \in Threads, pc[u] = "drop_flag"
  PROVE  /\ goal[u] \in Leaves /\ Loading[u] \in {goal[u], above[goal[u]]}
         /\ table[Loading[u]] = IO_FLAG
<1>1. goal[u] \in Leaves /\ Missing(u) \in Pages
  BY MissingIsAPage, Zenon
<1>2. Loading[u] = Missing(u) /\ Missing(u) # Null
  BY <1>1, BufferPoolAssumption, Zenon DEF Loading, Serves, ServePCs, Pages
<1> QED BY <1>1, <1>2, Zenon DEF Sound, Flags, Missing, Next_page

LEMMA HotLeafIsFree ==
  ASSUME Sound, NEW g \in Frames, Hot(g), page[g] \in Leaves
  PROVE  /\ table[page[g]] = g /\ page[g] \notin Stale
         /\ \A u \in Threads : Loading[u] # page[g] /\ (pc[u] = "drop_flag" => goal[u] # page[g])
<1>1. table[page[g]] = g /\ table[above[page[g]]] \in Frames
  BY HotLeafHasParent, Zenon DEF Sound, Table
<1>2. IO_FLAG \notin Frames /\ page[g] # Null
  BY BufferPoolAssumption, Zenon
<1>3. page[g] \notin Stale
  BY <1>1, <1>2, StaleParentIsFlagged, Zenon
<1>4. \A u \in Threads : Loading[u] # page[g]
  BY <1>1, <1>2, Zenon DEF Sound, Flags
<1>5. \A u \in Threads : pc[u] = "drop_flag" => goal[u] # page[g]
  BY <1>1, <1>2, AnswerIsFlagged
<1> QED BY <1>1, <1>3, <1>4, <1>5, Zenon

(* The leaf a thread has come to. *)
LEMMA LeafIsTheGoal ==
  ASSUME Sound, NEW t \in Threads, pc[t] = "descend", ~AtInner(t), seen[t][cur[t]] # "none"
  PROVE  /\ cur[t] \in Frames /\ Hot(cur[t]) /\ page[cur[t]] = goal[t] /\ goal[t] \in Leaves
<1>0. Versioned /\ Headed(t) /\ Placed(t) /\ ThreadTypes
  BY Zenon DEF Sound, TypeOK, OnTheWay, Places
<1>1. cur[t] \in Frames /\ page[cur[t]] \notin Inners /\ goal[t] \in Leaves
  BY <1>0, Zenon DEF AtInner, Placed
<1>2. cur[t] # Root /\ cur[t] \in AllFrames
  BY <1>1, BufferPoolAssumption, Zenon DEF AllFrames
<1>3. above[goal[t]] \in Inners
  BY <1>1, BufferPoolAssumption, Zenon
<1> QED BY <1>0, <1>1, <1>2, <1>3, Zenon DEF Versioned, Headed

LEMMA updateIsSound ==
  ASSUME Sound, NEW t \in Threads, update(t) PROVE Sound'
<1> DEFINE g == cur[t]
           l == goal[t]
<1>0. /\ TypeOK /\ FrameTypes /\ PoolTypes /\ ThreadTypes /\ Placed(t) /\ Data /\ Table
      /\ Latches /\ Versioned
  BY Zenon DEF Sound, TypeOK, Places
<1>1. /\ pc[t] = "descend" /\ ~AtInner(t) /\ seen[t][g] = "plain" /\ lock[g] = "free"
      /\ content' = [content EXCEPT ![g] = val[t]] /\ dirty' = [dirty EXCEPT ![g] = TRUE]
      /\ current' = [current EXCEPT ![l] = val[t]] /\ Return(t, Spoil({g}))
      /\ UNCHANGED <<lock, page, pos_state, children, parent_ptr, table, cooling, local, remote>>
      /\ UNCHANGED <<ret, todo, frame, victim>>
  BY Zenon DEF update, poolVars
<1>s. /\ page' = page /\ pos_state' = pos_state /\ children' = children /\ parent_ptr' = parent_ptr
      /\ table' = table /\ lock' = lock /\ remote' = remote
  BY <1>1, Zenon
<1>2. g \in Frames /\ Hot(g) /\ page[g] = l /\ l \in Leaves
  BY <1>1, LeafIsTheGoal, ZenonT(40)
<1>3. /\ pc'[t] = "idle" /\ cur'[t] = Root /\ val'[t] \in Values /\ OthersStay(t)
      /\ ret'[t] = "lock" /\ frame'[t] = Null /\ victim'[t] = Null
  <2>1. /\ pc' = [pc EXCEPT ![t] = "idle"] /\ op' = [op EXCEPT ![t] = "lookup"]
        /\ val' = [val EXCEPT ![t] = InitValue] /\ goal' = [goal EXCEPT ![t] = Null]
        /\ cur' = [cur EXCEPT ![t] = Root] /\ par' = [par EXCEPT ![t] = Null]
    BY <1>1, Zenon DEF Return, Go
  <2>2. pc'[t] = "idle" /\ cur'[t] = Root /\ val'[t] = InitValue
    BY <1>0, <2>1, Zenon DEF ThreadTypes
  <2>3. InitValue \in Values
    BY BufferPoolAssumption, Zenon
  <2>4. ret'[t] = "lock" /\ frame'[t] = Null /\ victim'[t] = Null
    <3>1. /\ ret' = ret /\ frame' = frame /\ victim' = victim
          /\ pc[t] \notin {"read", "swizzle"} /\ pc[t] \notin Sampling
          /\ pc[t] \notin {"sample_parent", "sample_write", "sample_insert"}
      BY <1>1, Zenon DEF Sampling
    <3>2. ret[t] \in {"lock", "retry_empty"}
      BY <1>0, Zenon DEF ThreadTypes
    <3>3. /\ ret[t] = "retry_empty" => pc[t] \in Sampling
          /\ frame[t] # Null => pc[t] \in {"read", "swizzle"}
          /\ victim[t] # Null => pc[t] \in {"sample_parent", "sample_write", "sample_insert"}
      BY <1>0, Zenon DEF Placed
    <3> QED BY <3>1, <3>2, <3>3, Zenon
  <2>5. OthersStay(t)
    BY <1>0, <1>1, <2>1, Zenon DEF ThreadTypes, OthersStay
  <2> QED BY <2>2, <2>3, <2>4, <2>5, Zenon
<1>4. /\ \A h \in AllFrames : seen'[t][h] = "none"
      /\ \A u \in Threads \ {t}, h \in AllFrames : seen'[u][h] \in {seen[u][h], "none"}
  <2>1. seen' = [Spoil({g}) EXCEPT ![t] = OnlyRoot("none")]
    BY <1>1, Zenon DEF Return
  <2> QED BY <2>1, Zenon DEF Spoil, OnlyRoot
<1>5. /\ table[l] = g /\ l \notin Stale
      /\ \A u \in Threads : Loading[u] # l /\ (pc[u] = "drop_flag" => goal[u] # l)
  <2>1. page[g] \in Leaves
    BY <1>2, Zenon
  <2>2. /\ table[page[g]] = g /\ page[g] \notin Stale
        /\ \A u \in Threads : Loading[u] # page[g] /\ (pc[u] = "drop_flag" => goal[u] # page[g])
    BY <1>2, <2>1, HotLeafIsFree, Zenon
  <2> QED BY <1>2, <2>2, Zenon
<1>6. /\ \A h \in Frames : content'[h] = IF h = g THEN val[t] ELSE content[h]
      /\ \A h \in Frames : dirty'[h] = IF h = g THEN TRUE ELSE dirty[h]
      /\ \A k \in Leaves : current'[k] = IF k = l THEN val[t] ELSE current[k]
  BY <1>0, <1>1, Zenon DEF FrameTypes, PoolTypes
<1>7. Step(t, {g}) /\ RolesStay(t)
  <2>1. NotTheirs(t, {g})
    <3>1. {g} \in SUBSET AllFrames
      BY <1>2, Zenon DEF AllFrames
    <3>2. \A f \in {g} : lock[f] = "free"
      BY <1>1, Zenon
    <3> QED BY <1>0, <3>1, <3>2, PrivateFrames, Zenon
  <2>2. Untouched({g})
    BY <1>s, <1>6, Zenon DEF Untouched
  <2>3. KeepsAnswers(t)
    BY <1>s, <1>5, <1>6, AnswerIsFlagged, Zenon DEF KeepsAnswers
  <2> QED BY <1>s, <1>2, <1>3, <1>4, <2>1, <2>2, <2>3, OthersKeepRoles, Zenon DEF Step, AllFrames
<1>8. TypeOK'
  <2>1. FrameTypes'
    BY <1>0, <1>1, Zenon DEF FrameTypes, Placed
  <2>2. PoolTypes'
    BY <1>0, <1>1, Zenon DEF PoolTypes, Placed
  <2>3. ThreadTypes'
    <3>1. seen' \in [Threads -> [AllFrames -> Versions]]
      <4>1. seen' = [Spoil({g}) EXCEPT ![t] = OnlyRoot("none")]
        BY <1>1, Zenon DEF Return
      <4>2. OnlyRoot("none") \in [AllFrames -> Versions]
        BY Zenon DEF OnlyRoot, Versions
      <4>3. Spoil({g}) \in [Threads -> [AllFrames -> Versions]]
        BY <1>0, Zenon DEF Spoil, ThreadTypes, Versions
      <4> QED BY <4>1, <4>2, <4>3, Zenon
    <3>2. Root \in AllFrames /\ InitValue \in Values \cup {Torn} /\ "idle" \in PCs
      BY BufferPoolAssumption, Zenon DEF AllFrames, PCs
    <3> QED BY <1>0, <1>1, <3>1, <3>2, Zenon DEF ThreadTypes, Return, Go
  <2> QED BY <2>1, <2>2, <2>3, Zenon DEF TypeOK
<1>9. Free(t) /\ Free(t)'
  BY <1>1, <1>3, Zenon DEF Free
<1>10. IoLatch[t] = Null /\ Loading[t] = Null /\ IoLatch'[t] = Null /\ Loading'[t] = Null
  BY <1>9, FreeHasNoRole, FreeHasNoRolePrime, Zenon
<1>11. Mine(t)'
  <2>1. Placed(t)' /\ Sampled(t)'
    BY <1>3, <1>4, Zenon DEF Placed, Sampled, Latched, Sampling
  <2>2. Headed(t)' /\ Answered(t)'
    BY <1>3, <1>10, BufferPoolAssumption, Zenon DEF Headed, Answered
  <2> QED BY <2>1, <2>2, Zenon DEF Mine
<1>12. /\ Cool' = Cool /\ Unhung' = Unhung /\ Writing' = Writing /\ Stale' = Stale
       /\ Held'[t] = Held[t]
  <2>1. ~Latched(t) /\ ~Latched(t)'
    BY <1>1, <1>3, Zenon DEF Latched
  <2> QED BY <1>1, <1>3, <2>1, SameCool, SameUnhung, SameStale, Zenon DEF Held
<1>13. Cooled' /\ Positions' /\ Latches' /\ Tree' /\ Flags'
  BY <1>1, <1>7, <1>10, <1>12, SameCooled, SamePositions, SameLatches, SameTree, SameFlags, Zenon DEF Sound
<1>14. Table' /\ Versioned'
  <2>1. Table'
    BY <1>0, <1>s, <1>2, <1>6, <1>12, Zenon DEF Table, Hot
  <2>2. Versioned'
    BY <1>0, <1>s, <1>4, ZenonT(40) DEF Versioned, Hot
  <2> QED BY <2>1, <2>2, Zenon
<1>15. Data'
  <2>1. \A k \in Leaves \ {l} : table[k] # g
    BY <1>0, <1>2, Zenon DEF Table, Pages
  <2>2. table'[l] = g /\ g # Null /\ content'[g] = current'[l] /\ dirty'[g] /\ l \notin Stale'
    BY <1>s, <1>2, <1>5, <1>6, <1>12, BufferPoolAssumption, Zenon
  <2>3. \A k \in Leaves \ {l} :
          /\ current'[k] = current[k]
          /\ table[k] \in Frames => content'[table[k]] = content[table[k]] /\ dirty'[table[k]] = dirty[table[k]]
    BY <1>6, <2>1, Zenon
  <2> SUFFICES ASSUME NEW k \in Leaves
               PROVE  /\ table'[k] \in Frames => content'[table'[k]] = current'[k] \/ k \in Stale'
                      /\ table'[k] \in Frames /\ ~dirty'[table'[k]] =>
                           remote'[k] = content'[table'[k]] \/ k \in Stale' \/ table'[k] \in Writing'
                      /\ table'[k] = Null => remote'[k] = current'[k]
                      /\ k \in Stale' => remote'[k] = current'[k]
    BY Zenon DEF Data
  <2>4. CASE k = l
    BY <2>2, <2>4, Zenon
  <2>5. CASE k # l
    <3>1. /\ table[k] \in Frames => content[table[k]] = current[k] \/ k \in Stale
          /\ table[k] \in Frames /\ ~dirty[table[k]] =>
               remote[k] = content[table[k]] \/ k \in Stale \/ table[k] \in Writing
          /\ table[k] = Null => remote[k] = current[k]
          /\ k \in Stale => remote[k] = current[k]
      BY <1>0, Zenon DEF Data
    <3>2. /\ current'[k] = current[k]
          /\ table[k] \in Frames => content'[table[k]] = content[table[k]] /\ dirty'[table[k]] = dirty[table[k]]
      BY <2>3, <2>5, Zenon
    <3> QED BY <1>s, <1>12, <3>1, <3>2, Zenon
  <2> QED BY <2>4, <2>5, Zenon
<1> QED BY <1>7, <1>8, <1>11, <1>13, <1>14, <1>15, OthersFollow, Zenon DEF Sound

-----------------------------------------------------------------------------
(* Serving a page. *)
LEMMA insert_io_flagIsSound ==
  ASSUME Sound, NEW t \in Threads, insert_io_flag(t) PROVE Sound'
<1> DEFINE c == Missing(t)
<1>0. /\ TypeOK /\ FrameTypes /\ PoolTypes /\ ThreadTypes /\ Placed(t) /\ Data /\ Table /\ Flags
      /\ Headed(t)
  BY Zenon DEF Sound, TypeOK, Places, OnTheWay
<1>1. /\ pc[t] = "cache_get" /\ table[c] = Null /\ table' = [table EXCEPT ![c] = IO_FLAG]
      /\ UNCHANGED <<cooling, local, remote, current, ret, todo, op, goal, val, cur, par, seen, frame, victim>>
      /\ SameFrames /\ UNCHANGED lock
  BY Zenon DEF insert_io_flag, frameVars, SameFrames
<1>2. \/ pc' = [pc EXCEPT ![t] = "empty"]
      \/ cur[t] = Root /\ pc' = [pc EXCEPT ![t] = "rpc"]
      \/ cur[t] # Root /\ pc' = [pc EXCEPT ![t] = "remote_read"]
  BY Zenon DEF insert_io_flag, Go
<1>3. /\ pc'[t] \in {"empty", "rpc", "remote_read"} /\ (pc'[t] = "rpc" => cur[t] = Root)
      /\ pc'[t] = "remote_read" => cur[t] # Root
      /\ \A u \in Threads \ {t} : pc'[u] = pc[u]
  BY <1>0, <1>2, Zenon DEF ThreadTypes
<1>4. OthersStay(t) /\ c \in Pages /\ goal[t] \in Leaves
  BY <1>1, <1>3, MissingIsAPage, Zenon DEF OthersStay
<1>s. \A d \in Pages : table'[d] = IF d = c THEN IO_FLAG ELSE table[d]
  BY <1>0, <1>1, Zenon DEF PoolTypes
<1>5. QuietStep(t) /\ RolesStay(t)
  BY <1>1, <1>4, SameAnswers, OthersKeepRoles, Zenon DEF QuietStep
<1>6. TypeOK'
  <2>1. pc' \in [Threads -> PCs]
    BY <1>0, <1>2, Zenon DEF ThreadTypes, PCs
  <2>2. ThreadTypes' /\ PoolTypes'
    BY <1>0, <1>1, <2>1, Zenon DEF ThreadTypes, PoolTypes
  <2> QED BY <1>0, <1>1, <2>2, SameFrameTypes, Zenon DEF TypeOK, SameFrames
<1>7. IoLatch'[t] = cur[t] /\ IoLatch[t] = cur[t] /\ Loading[t] = Null /\ Loading'[t] = c
  BY <1>1, <1>3, Zenon DEF IoLatch, Loading, Holds, Serves, ServePCs, Sampling, Missing, Next_page
<1>8. Null # IO_FLAG /\ c # Null /\ IO_FLAG \notin Frames /\ Null \notin Frames
  BY <1>4, BufferPoolAssumption, Zenon DEF Pages
<1>9. Mine(t)'
  <2>1. Placed(t)' /\ Sampled(t)'
    BY <1>0, <1>1, <1>3, <1>4, Zenon DEF Placed, Sampled, Latched, Sampling
  <2>2. Headed(t)'
    BY <1>0, <1>1, <1>7, Zenon DEF Headed, SameFrames, Hot
  <2>3. Answered(t)'
    BY <1>0, <1>1, <1>3, <1>7, Zenon DEF Answered, Data
  <2> QED BY <2>1, <2>2, <2>3, Zenon DEF Mine
<1>10. /\ Cool' = Cool /\ Unhung' = Unhung /\ Writing' = Writing /\ Stale' = Stale
       /\ Held'[t] = Held[t]
  <2>1. ~Latched(t) /\ ~Latched(t)'
    BY <1>1, <1>3, Zenon DEF Latched
  <2> QED BY <1>1, <1>3, <1>4, <2>1, SameCool, SameUnhung, SameStale, Zenon DEF Held
<1>11. Positions' /\ Latches' /\ Versioned'
  BY <1>1, <1>5, <1>7, <1>10, SamePositions, SameLatches, SameVersioned, Zenon DEF Sound, SameFrames
<1>12. Flags'
  <2>1. \A u \in Threads : Loading'[u] = IF u = t THEN c ELSE Loading[u]
    BY <1>5, <1>7, Zenon DEF RolesStay
  <2>2. \A u \in Threads : Loading[u] # c
    BY <1>0, <1>1, <1>8, Zenon DEF Flags
  <2>3. \A u \in Threads : Loading'[u] # Null => table'[Loading'[u]] = IO_FLAG
    <3> SUFFICES ASSUME NEW u \in Threads, Loading'[u] # Null PROVE table'[Loading'[u]] = IO_FLAG
      BY Zenon
    <3>1. CASE u = t
      BY <1>4, <1>7, <1>s, <3>1, Zenon
    <3>2. CASE u # t
      <4>1. Loading'[u] = Loading[u] /\ Loading[u] \in Pages
        BY <2>1, <3>2, LoadingIsAPage, Zenon
      <4>2. table[Loading[u]] = IO_FLAG /\ Loading[u] # c
        BY <1>0, <2>2, <4>1, Zenon DEF Flags
      <4> QED BY <1>s, <4>1, <4>2, Zenon
    <3> QED BY <3>1, <3>2, Zenon
  <2>4. \A d \in Pages : table'[d] = IO_FLAG => \E u \in Threads : Loading'[u] = d
    <3> SUFFICES ASSUME NEW d \in Pages, table'[d] = IO_FLAG, d # c
                 PROVE  \E u \in Threads : Loading'[u] = d
      BY <1>7, Zenon
    <3>1. PICK u \in Threads : Loading[u] = d
      BY <1>0, <1>s, Zenon DEF Flags
    <3> QED BY <1>7, <1>8, <2>1, <3>1, BufferPoolAssumption, Zenon DEF Pages
  <2>5. \A u, w \in Threads : Loading'[u] # Null /\ Loading'[u] = Loading'[w] => u = w
    BY <1>0, <2>1, <2>2, ZenonT(40) DEF Flags
  <2> QED BY <2>3, <2>4, <2>5, Zenon DEF Flags
<1>13. Table'
  <2>1. page' = page /\ pos_state' = pos_state /\ dirty' = dirty /\ parent_ptr' = parent_ptr
    BY <1>1, Zenon DEF SameFrames
  <2>2. table[c] = Null
    BY <1>1, Zenon
  <2>3. \A d \in Pages : table'[d] \in Frames => table'[d] = table[d]
    BY <1>s, <1>8, Zenon
  <2>4. \A g \in Frames : Hot(g) => table'[page[g]] = g
    BY <1>0, <1>s, <1>8, <2>2, Zenon DEF Table
  <2>5. \A g \in Frames : Hot(g)' =>
          page'[g] \in Pages /\ table'[page'[g]] = g /\ (parent_ptr'[g] # Null \/ g \in Unhung')
    BY <1>0, <1>10, <2>1, <2>4, Zenon DEF Table, Hot
  <2>6. ASSUME NEW d \in Pages, table'[d] \in Frames
        PROVE  page'[table'[d]] = d /\ (Hot(table[d])' \/ table'[d] \in Cool')
    BY <1>0, <1>10, <2>1, <2>3, <2>6, Zenon DEF Table, Hot
  <2>7. \A g \in Frames : dirty'[g] => Hot(g)' /\ page'[g] \in Leaves
    BY <1>0, <2>1, Zenon DEF Table, Hot
  <2> QED BY <2>5, <2>6, <2>7, Zenon DEF Table
<1>14. Data'
  <2>1. /\ remote' = remote /\ current' = current /\ content' = content /\ dirty' = dirty
        /\ \A l \in Leaves : table'[l] = table[l] \/ table'[l] = IO_FLAG
    BY <1>1, <1>s, Zenon DEF SameFrames, Pages
  <2> QED BY <1>0, <1>8, <1>10, <2>1, Zenon DEF Data
<1> QED BY <1>5, <1>6, <1>9, <1>11, <1>12, <1>13, <1>14, QuietStepIsSound, Zenon

(* From one place of a server to another: it keeps the page it serves. *)
LEMMA ServerKeepsRoles ==
  ASSUME NEW t \in Threads, pc[t] \in ServePCs, pc'[t] \in ServePCs,
         cur'[t] = cur[t], goal'[t] = goal[t]
  PROVE  /\ IoLatch'[t] = cur[t] /\ IoLatch[t] = cur[t]
         /\ Loading'[t] = Missing(t) /\ Loading[t] = Missing(t)
<1>1. Serves(t) /\ Serves(t)'
  BY Zenon DEF Serves
<1> QED BY <1>1, Zenon DEF IoLatch, Loading, Holds, Missing, Next_page

(* A server at remote memory: it writes at most the leaf of its operation. *)
RemoteStep(t) ==
  /\ pc[t] \in {"remote_read", "remote_write", "rpc", "invalidate"} /\ pc'[t] \in ServePCs
  /\ pc'[t] \notin {"read", "swizzle", "rpc", "remote_read"}
  /\ UNCHANGED <<lock, cooling, local, ret, todo, op, goal, cur, par, seen, frame, victim>>
  /\ SameFrames /\ val'[t] \in Values
  /\ \A u \in Threads \ {t} : pc'[u] = pc[u] /\ val'[u] = val[u]
  /\ \A l \in Leaves \ {goal[t]} : remote'[l] = remote[l] /\ current'[l] = current[l]

LEMMA RemoteStepIsSound ==
  ASSUME Sound, NEW t \in Threads, RemoteStep(t), TypeOK',
         pc'[t] = "remote_write" => cur[t] # Root /\ op[t] = "update",
         pc'[t] = "invalidate" => cur[t] = Root /\ op[t] = "update",
         Answered(t)', Table', Flags', Data'
  PROVE  Sound'
<1>0. /\ Placed(t) /\ Headed(t) /\ Sampled(t) /\ Flags /\ ThreadTypes
  BY Zenon DEF Sound, TypeOK, Places, OnTheWay, Victims
<1>1. /\ pc[t] \in {"remote_read", "remote_write", "rpc", "invalidate"}
      /\ pc[t] \in ServePCs /\ pc'[t] \in ServePCs /\ cur'[t] = cur[t] /\ goal'[t] = goal[t]
      /\ pc'[t] \notin {"read", "swizzle", "rpc", "remote_read"}
  BY Zenon DEF RemoteStep, ServePCs
<1>2. /\ IoLatch'[t] = cur[t] /\ IoLatch[t] = cur[t]
      /\ Loading'[t] = Missing(t) /\ Loading[t] = Missing(t) /\ goal[t] \in Leaves /\ Missing(t) \in Pages
  BY <1>1, ServerKeepsRoles, MissingIsAPage, Zenon
<1>3. KeepsAnswers(t)
  <2> SUFFICES ASSUME NEW u \in Threads \ {t}
               PROVE  Loading[u] # goal[t] /\ (pc[u] = "drop_flag" => goal[u] \in Leaves \ {goal[t]})
    BY Zenon DEF KeepsAnswers, RemoteStep
  <2>1. Missing(t) # Null /\ Missing(t) \in {goal[t], above[goal[t]]} /\ IO_FLAG \notin Frames
    BY <1>2, BufferPoolAssumption, ZenonT(40) DEF Missing, Next_page, Pages
  <2>2. table[Missing(t)] = IO_FLAG /\ Loading[u] # Missing(t)
    <3>1. \A w \in Threads : Loading[w] # Null => table[Loading[w]] = IO_FLAG
      BY <1>0, Zenon DEF Flags
    <3>2. \A w, x \in Threads : Loading[w] # Null /\ Loading[w] = Loading[x] => w = x
      BY <1>0, Zenon DEF Flags
    <3> QED BY <1>2, <2>1, <3>1, <3>2, Zenon
  <2>3. ASSUME Loading[u] = goal[t] PROVE FALSE
    <3>1. cur[u] \in Frames /\ goal[u] = Loading[u] /\ table[above[goal[u]]] = cur[u]
      BY <1>2, <2>3, LoadedLeafHasParent, Zenon
    <3> QED BY <2>1, <2>2, <2>3, <3>1, Zenon
  <2>4. ASSUME pc[u] = "drop_flag", goal[u] = goal[t] PROVE FALSE
    <3>1. Loading[u] \in {goal[t], above[goal[t]]} /\ table[Loading[u]] = IO_FLAG
      BY <2>4, AnswerIsFlagged, Zenon
    <3>2. Loading[t] = goal[t] => table[above[goal[t]]] \in Frames
      BY <1>2, LoadedLeafHasParent, Zenon
    <3> QED BY <1>2, <2>1, <2>2, <2>3, <3>1, <3>2, Zenon
  <2> QED BY <2>3, <2>4, AnswerIsFlagged, Zenon
<1>4. QuietStep(t) /\ RolesStay(t)
  <2>1. OthersStay(t)
    BY Zenon DEF OthersStay, RemoteStep
  <2> QED BY <1>3, <2>1, OthersKeepRoles, Zenon DEF QuietStep, RemoteStep
<1>5. Mine(t)'
  <2>1. Placed(t)'
    BY <1>0, <1>1, Zenon DEF RemoteStep, Placed, ServePCs, Latched, Sampling
  <2>2. Sampled(t)'
    BY <1>0, <1>1, Zenon DEF RemoteStep, Placed, Sampled, ServePCs
  <2>3. Headed(t)'
    BY <1>0, <1>1, <1>2, Zenon DEF RemoteStep, Headed, SameFrames, Hot
  <2> QED BY <2>1, <2>2, <2>3, Zenon DEF Mine
<1>6. Positions' /\ Versioned'
  BY SamePositions, SameVersioned, Zenon DEF RemoteStep, SameFrames, Sound
<1>7. Latches'
  <2>1. Held'[t] = Held[t]
    BY <1>1, Zenon DEF RemoteStep, Held, Latched, ServePCs
  <2> QED BY <1>2, <1>4, <2>1, SameCool, SameLatches, Zenon DEF RemoteStep, Sound
<1> QED BY <1>4, <1>5, <1>6, <1>7, QuietStepIsSound, Zenon

LEMMA ServerOfALeaf ==
  ASSUME Sound, NEW t \in Threads, pc[t] \in {"remote_read", "remote_write"}
  PROVE  /\ goal[t] \in Leaves /\ Loading[t] = goal[t] /\ table[goal[t]] = IO_FLAG
         /\ goal[t] \notin Stale /\ (pc[t] = "remote_read" => remote[goal[t]] = current[goal[t]])
<1>0. Placed(t) /\ Flags /\ Answered(t)
  BY Zenon DEF Sound, Places, Served
<1>1. goal[t] \in Leaves /\ Loading[t] = goal[t]
  BY <1>0, MissingIsAPage, Zenon DEF Placed, Loading, Serves, ServePCs, Missing, Next_page
<1>2. table[goal[t]] = IO_FLAG
  BY <1>0, <1>1, BufferPoolAssumption, Zenon DEF Flags
<1>3. goal[t] \notin Stale
  <2>1. table[above[goal[t]]] \in Frames
    BY <1>1, LoadedLeafHasParent, Zenon
  <2>2. IO_FLAG \notin Frames
    BY BufferPoolAssumption, Zenon
  <2> QED BY <2>1, <2>2, StaleParentIsFlagged, Zenon
<1> QED BY <1>0, <1>1, <1>2, <1>3, Zenon DEF Answered

LEMMA ServerAtTheRoot ==
  ASSUME Sound, NEW t \in Threads, pc[t] \in {"rpc", "invalidate"}
  PROVE  /\ goal[t] \in Leaves /\ Loading[t] = above[goal[t]] /\ above[goal[t]] \in Inners
         /\ table[above[goal[t]]] = IO_FLAG /\ table[goal[t]] # IO_FLAG
         /\ remote[goal[t]] = current[goal[t]]
<1>0. Placed(t) /\ Flags
  BY Zenon DEF Sound, Places
<1>1. goal[t] \in Leaves /\ Loading[t] = above[goal[t]]
  BY <1>0, MissingIsAPage, Zenon DEF Placed, Loading, Serves, ServePCs, Missing, Next_page
<1>2. above[goal[t]] \in Inners /\ above[goal[t]] # Null
  BY <1>1, BufferPoolAssumption, ZenonT(40)
<1>3. table[above[goal[t]]] = IO_FLAG
  BY <1>0, <1>1, <1>2, Zenon DEF Flags
<1>4. table[goal[t]] # IO_FLAG
  <2> SUFFICES ASSUME table[goal[t]] = IO_FLAG PROVE FALSE
    BY Zenon
  <2>1. PICK u \in Threads : Loading[u] = goal[t]
    BY <1>0, <1>1, Zenon DEF Flags, Pages
  <2>2. cur[u] \in Frames /\ goal[u] = Loading[u] /\ table[above[goal[u]]] = cur[u]
    BY <1>1, <2>1, LoadedLeafHasParent, Zenon
  <2>3. IO_FLAG \notin Frames
    BY BufferPoolAssumption, Zenon
  <2> QED BY <1>3, <2>1, <2>2, <2>3, Zenon
<1> QED BY <1>1, <1>2, <1>3, <1>4, PushedDownLeafIsRemote, Zenon

(* The rest of the shared state is the same for such a step. *)
LEMMA RemoteStepKeeps ==
  ASSUME Sound, NEW t \in Threads, RemoteStep(t)
  PROVE  /\ Cool' = Cool /\ Unhung' = Unhung /\ Writing' = Writing
         /\ Stale \ {goal[t]} \subseteq Stale' /\ Stale' \subseteq Stale \cup {goal[t]}
         /\ pc[t] # "invalidate" /\ pc'[t] # "invalidate" => Stale' = Stale
         /\ pc'[t] = "invalidate" => goal[t] \in Stale' \/ goal[t] \notin Leaves
         /\ Loading'[t] = Loading[t] /\ RolesStay(t)
<1>1. OthersStay(t)
  BY Zenon DEF OthersStay, RemoteStep
<1>2. ~Latched(t) /\ ~Latched(t)'
  BY Zenon DEF RemoteStep, Latched, ServePCs
<1>3. Cool' = Cool /\ Unhung' = Unhung /\ Writing' = Writing
  BY <1>1, <1>2, SameCool, SameUnhung, Zenon DEF RemoteStep
<1>4. /\ Stale \ {goal[t]} \subseteq Stale' /\ Stale' \subseteq Stale \cup {goal[t]}
      /\ pc'[t] = "invalidate" => goal[t] \in Stale' \/ goal[t] \notin Leaves
  BY Zenon DEF RemoteStep, Stale
<1>5. pc[t] # "invalidate" /\ pc'[t] # "invalidate" => Stale' = Stale
  BY <1>1, SameStale, Zenon
<1>6. Loading'[t] = Loading[t] /\ RolesStay(t)
  BY <1>1, ServerKeepsRoles, OthersKeepRoles, Zenon DEF RemoteStep, ServePCs
<1> QED BY <1>3, <1>4, <1>5, <1>6, Zenon

LEMMA admission_readIsSound ==
  ASSUME Sound, NEW t \in Threads, admission_read(t) PROVE Sound'
<1> DEFINE l == goal[t]
<1>0. /\ TypeOK /\ FrameTypes /\ PoolTypes /\ ThreadTypes /\ Placed(t) /\ Data
  BY Zenon DEF Sound, TypeOK, Places
<1>1. /\ pc[t] = "remote_read" /\ SameFrames /\ UNCHANGED <<lock, table, cooling, local, current>>
      /\ UNCHANGED <<ret, todo, op, goal, cur, par, seen, frame, victim>>
  BY Zenon DEF admission_read, frameVars, poolVars, SameFrames
<1>2. /\ l \in Leaves /\ Loading[t] = l /\ table[l] = IO_FLAG /\ l \notin Stale
      /\ remote[l] = current[l] /\ current[l] \in Values /\ cur[t] # Root
  BY <1>0, <1>1, ServerOfALeaf, Zenon DEF PoolTypes, Placed
<1>3. CASE /\ op[t] = "lookup" /\ val' = [val EXCEPT ![t] = remote[l]]
           /\ pc' = [pc EXCEPT ![t] = "drop_flag"] /\ remote' = remote
  <2>1. /\ pc'[t] = "drop_flag" /\ val'[t] = current[l]
        /\ \A u \in Threads \ {t} : pc'[u] = pc[u] /\ val'[u] = val[u]
    BY <1>0, <1>2, <1>3, Zenon DEF ThreadTypes
  <2>2. RemoteStep(t)
    BY <1>1, <1>2, <1>3, <2>1, Zenon DEF RemoteStep, ServePCs
  <2>3. ThreadTypes'
    BY <1>0, <1>1, <1>2, <1>3, Zenon DEF ThreadTypes, PCs
  <2>4. TypeOK'
    BY <1>0, <1>1, <1>3, <2>3, SameFrameTypes, SamePoolTypes, Zenon DEF TypeOK, SameFrames
  <2>5. Table' /\ Flags' /\ Data'
    BY <1>1, <1>3, <2>1, <2>2, RemoteStepKeeps, SameTable, SameFlags, SameData, Zenon DEF Sound, SameFrames
  <2>6. Answered(t)'
    BY <1>1, <1>2, <1>3, <2>1, <2>2, RemoteStepKeeps, Zenon DEF Answered
  <2> QED BY <2>1, <2>2, <2>4, <2>5, <2>6, RemoteStepIsSound, Zenon
<1>4. CASE /\ op[t] # "lookup" /\ val' = val /\ pc' = [pc EXCEPT ![t] = "remote_write"]
           /\ remote' = [remote EXCEPT ![l] = Torn]
  <2>1. /\ pc'[t] = "remote_write" /\ val'[t] \in Values /\ op[t] = "update"
        /\ \A u \in Threads \ {t} : pc'[u] = pc[u] /\ val'[u] = val[u]
    BY <1>0, <1>4, Zenon DEF ThreadTypes, Placed
  <2>r. \A k \in Leaves \ {l} : remote'[k] = remote[k] /\ current'[k] = current[k]
    BY <1>0, <1>1, <1>4, Zenon DEF PoolTypes
  <2>2. RemoteStep(t)
    BY <1>1, <2>1, <2>r, Zenon DEF RemoteStep, ServePCs
  <2>3. ThreadTypes' /\ PoolTypes'
    BY <1>0, <1>1, <1>2, <1>4, Zenon DEF ThreadTypes, PCs, PoolTypes
  <2>4. TypeOK'
    BY <1>0, <1>1, <2>3, SameFrameTypes, Zenon DEF TypeOK, SameFrames
  <2>5. Table' /\ Flags'
    BY <1>1, <2>2, RemoteStepKeeps, SameTable, SameFlags, Zenon DEF Sound, SameFrames
  <2>6. Answered(t)'
    BY <2>1, Zenon DEF Answered
  <2>7. Data'
    <3>1. /\ table' = table /\ content' = content /\ dirty' = dirty
          /\ Writing' = Writing /\ Stale' = Stale
      BY <1>1, <2>1, <2>2, RemoteStepKeeps, Zenon DEF SameFrames
    <3>2. table[l] \notin Frames /\ table[l] # Null /\ l \notin Stale
      BY <1>2, BufferPoolAssumption, Zenon
    <3> QED BY <1>0, <2>r, <3>1, <3>2, Zenon DEF Data
  <2> QED BY <1>2, <2>1, <2>2, <2>4, <2>5, <2>6, <2>7, RemoteStepIsSound, Zenon
<1> QED BY <1>3, <1>4, Zenon DEF admission_read, Go
(* Leaves written without being cached. *)
LEMMA admission_writeIsSound ==
  ASSUME Sound, NEW t \in Threads, admission_write(t) PROVE Sound'
<1> DEFINE l == goal[t]
<1>0. /\ TypeOK /\ FrameTypes /\ PoolTypes /\ ThreadTypes /\ Placed(t) /\ Data
  BY Zenon DEF Sound, TypeOK, Places
<1>1. /\ pc[t] = "remote_write" /\ SameFrames /\ UNCHANGED <<lock, table, cooling, local>>
      /\ UNCHANGED <<ret, todo, op, goal, val, cur, par, seen, frame, victim>>
      /\ remote' = [remote EXCEPT ![l] = val[t]] /\ current' = [current EXCEPT ![l] = val[t]]
      /\ pc' = [pc EXCEPT ![t] = "drop_flag"]
  BY Zenon DEF admission_write, Go, frameVars, poolVars, SameFrames
<1>2. /\ l \in Leaves /\ Loading[t] = l /\ table[l] = IO_FLAG /\ l \notin Stale
      /\ val[t] \in Values /\ op[t] = "update"
  BY <1>0, <1>1, ServerOfALeaf, Zenon DEF Placed
<1>3. /\ pc'[t] = "drop_flag" /\ \A u \in Threads \ {t} : pc'[u] = pc[u]
      /\ remote'[l] = val[t] /\ current'[l] = val[t]
      /\ \A k \in Leaves \ {l} : remote'[k] = remote[k] /\ current'[k] = current[k]
  BY <1>0, <1>1, <1>2, Zenon DEF ThreadTypes, PoolTypes
<1>4. RemoteStep(t)
  BY <1>1, <1>2, <1>3, Zenon DEF RemoteStep, ServePCs
<1>5. ThreadTypes' /\ PoolTypes'
  BY <1>0, <1>1, <1>2, Zenon DEF ThreadTypes, PCs, PoolTypes
<1>6. TypeOK'
  BY <1>0, <1>1, <1>5, SameFrameTypes, Zenon DEF TypeOK, SameFrames
<1>7. Table' /\ Flags'
  BY <1>1, <1>4, RemoteStepKeeps, SameTable, SameFlags, Zenon DEF Sound, SameFrames
<1>8. Answered(t)'
  <2>1. Loading'[t] = l /\ op'[t] = "update" /\ remote'[l] = current'[l]
    BY <1>1, <1>2, <1>3, <1>4, RemoteStepKeeps, Zenon
  <2> QED BY <1>3, <2>1, Zenon DEF Answered
<1>9. Data'
  <2>1. /\ table' = table /\ content' = content /\ dirty' = dirty
        /\ Writing' = Writing /\ Stale' = Stale
    BY <1>1, <1>3, <1>4, RemoteStepKeeps, Zenon DEF SameFrames
  <2>2. table[l] \notin Frames /\ remote'[l] = current'[l]
    BY <1>2, <1>3, BufferPoolAssumption, Zenon
  <2> QED BY <1>0, <1>3, <2>1, <2>2, Zenon DEF Data
<1> QED BY <1>3, <1>4, <1>6, <1>7, <1>8, <1>9, RemoteStepIsSound, Zenon

LEMMA rpcIsSound ==
  ASSUME Sound, NEW t \in Threads, rpc(t) PROVE Sound'
<1> DEFINE l == goal[t]
<1>0. /\ TypeOK /\ FrameTypes /\ PoolTypes /\ ThreadTypes /\ Placed(t) /\ Data
  BY Zenon DEF Sound, TypeOK, Places
<1>1. /\ pc[t] = "rpc" /\ SameFrames /\ UNCHANGED <<lock, table, cooling, local>>
      /\ UNCHANGED <<ret, todo, op, goal, cur, par, seen, frame, victim>>
  BY Zenon DEF rpc, frameVars, poolVars, SameFrames
<1>2. /\ l \in Leaves /\ Loading[t] = above[l] /\ above[l] \notin Leaves
      /\ remote[l] = current[l] /\ current[l] \in Values /\ val[t] \in Values /\ cur[t] = Root
  BY <1>0, <1>1, ServerAtTheRoot, BufferPoolAssumption, Zenon DEF PoolTypes, Placed
<1>3. CASE /\ op[t] = "lookup" /\ val' = [val EXCEPT ![t] = remote[l]]
           /\ pc' = [pc EXCEPT ![t] = "drop_flag"] /\ UNCHANGED <<remote, current>>
  <2>1. /\ pc'[t] = "drop_flag" /\ val'[t] = current[l]
        /\ \A u \in Threads \ {t} : pc'[u] = pc[u] /\ val'[u] = val[u]
    BY <1>0, <1>2, <1>3, Zenon DEF ThreadTypes
  <2>2. RemoteStep(t)
    BY <1>1, <1>2, <1>3, <2>1, Zenon DEF RemoteStep, ServePCs
  <2>3. ThreadTypes'
    BY <1>0, <1>1, <1>2, <1>3, Zenon DEF ThreadTypes, PCs
  <2>4. TypeOK'
    BY <1>0, <1>1, <1>3, <2>3, SameFrameTypes, SamePoolTypes, Zenon DEF TypeOK, SameFrames
  <2>5. Table' /\ Flags' /\ Data'
    BY <1>1, <1>3, <2>1, <2>2, RemoteStepKeeps, SameTable, SameFlags, SameData, Zenon DEF Sound, SameFrames
  <2>6. Answered(t)'
    BY <1>1, <1>2, <1>3, <2>1, <2>2, RemoteStepKeeps, Zenon DEF Answered
  <2> QED BY <2>1, <2>2, <2>4, <2>5, <2>6, RemoteStepIsSound, Zenon
<1>4. CASE /\ op[t] # "lookup" /\ val' = val /\ pc' = [pc EXCEPT ![t] = "invalidate"]
           /\ remote' = [remote EXCEPT ![l] = val[t]] /\ current' = [current EXCEPT ![l] = val[t]]
  <2>1. /\ pc'[t] = "invalidate" /\ op[t] = "update" /\ \A u \in Threads \ {t} : pc'[u] = pc[u]
        /\ remote'[l] = val[t] /\ current'[l] = val[t]
        /\ \A k \in Leaves \ {l} : remote'[k] = remote[k] /\ current'[k] = current[k]
    BY <1>0, <1>2, <1>4, Zenon DEF ThreadTypes, PoolTypes
  <2>2. RemoteStep(t)
    BY <1>1, <1>2, <1>4, <2>1, Zenon DEF RemoteStep, ServePCs
  <2>3. ThreadTypes' /\ PoolTypes'
    BY <1>0, <1>1, <1>2, <1>4, Zenon DEF ThreadTypes, PCs, PoolTypes
  <2>4. TypeOK'
    BY <1>0, <1>1, <2>3, SameFrameTypes, Zenon DEF TypeOK, SameFrames
  <2>5. Table' /\ Flags'
    BY <1>1, <2>2, RemoteStepKeeps, SameTable, SameFlags, Zenon DEF Sound, SameFrames
  <2>6. Answered(t)'
    BY <1>2, <2>1, <2>2, RemoteStepKeeps, Zenon DEF Answered
  <2>7. Data'
    <3>1. /\ table' = table /\ content' = content /\ dirty' = dirty /\ Writing' = Writing
          /\ l \in Stale' /\ \A k \in Leaves \ {l} : k \in Stale' <=> k \in Stale
      BY <1>1, <1>2, <2>1, <2>2, RemoteStepKeeps, Zenon DEF SameFrames
    <3>2. remote'[l] = current'[l]
      BY <2>1, Zenon
    <3> QED BY <1>0, <2>1, <3>1, <3>2, Zenon DEF Data
  <2> QED BY <1>2, <2>1, <2>2, <2>4, <2>5, <2>6, <2>7, RemoteStepIsSound, Zenon
<1> QED BY <1>3, <1>4, Zenon DEF rpc, Go

LEMMA check_and_removeIsSound ==
  ASSUME Sound, NEW t \in Threads, check_and_remove(t) PROVE Sound'
<1> DEFINE l == goal[t]
<1>0. /\ TypeOK /\ FrameTypes /\ PoolTypes /\ ThreadTypes /\ Placed(t) /\ Data /\ Table /\ Flags
  BY Zenon DEF Sound, TypeOK, Places
<1>1. /\ pc[t] = "invalidate" /\ SameFrames /\ UNCHANGED <<lock, cooling, local, remote, current>>
      /\ UNCHANGED <<ret, todo, op, goal, val, cur, par, seen, frame, victim>>
      /\ table' = [table EXCEPT ![l] = Null] /\ pc' = [pc EXCEPT ![t] = "drop_flag"]
  BY Zenon DEF check_and_remove, Go, frameVars, SameFrames
<1>2. /\ l \in Leaves /\ l \in Pages /\ Loading[t] = above[l] /\ above[l] \notin Leaves
      /\ table[above[l]] = IO_FLAG /\ table[l] # IO_FLAG /\ remote[l] = current[l]
      /\ val[t] \in Values /\ op[t] = "update"
  BY <1>0, <1>1, ServerAtTheRoot, BufferPoolAssumption, Zenon DEF Placed, Pages
<1>3. /\ pc'[t] = "drop_flag" /\ \A u \in Threads \ {t} : pc'[u] = pc[u]
      /\ table'[l] = Null /\ \A c \in Pages \ {l} : table'[c] = table[c]
  BY <1>0, <1>1, <1>2, Zenon DEF ThreadTypes, PoolTypes
<1>4. RemoteStep(t)
  BY <1>1, <1>2, <1>3, Zenon DEF RemoteStep, ServePCs
<1>5. ThreadTypes' /\ PoolTypes'
  BY <1>0, <1>1, <1>2, Zenon DEF ThreadTypes, PCs, PoolTypes
<1>6. TypeOK'
  BY <1>0, <1>1, <1>5, SameFrameTypes, Zenon DEF TypeOK, SameFrames
<1>s. /\ page' = page /\ pos_state' = pos_state /\ parent_ptr' = parent_ptr /\ dirty' = dirty
      /\ content' = content /\ remote' = remote /\ current' = current
      /\ Cool' = Cool /\ Unhung' = Unhung /\ Writing' = Writing
      /\ \A k \in Leaves \ {l} : k \in Stale' <=> k \in Stale
  BY <1>1, <1>4, RemoteStepKeeps, Zenon DEF SameFrames
<1>n. Null \notin Frames /\ Null # IO_FLAG /\ IO_FLAG \notin Frames
  BY BufferPoolAssumption, Zenon
<1>7. Table'
  <2>1. \A g \in Frames : Hot(g) => page[g] # l
    BY <1>2, <1>n, HotLeafHasParent, Zenon
  <2> QED BY <1>0, <1>3, <1>s, <1>n, <2>1, Zenon DEF Table, Hot
<1>8. Flags'
  <2>1. \A u \in Threads : Loading'[u] = Loading[u] /\ Loading[u] # l
    <3>1. l # Null
      BY <1>2, BufferPoolAssumption, Zenon
    <3>2. \A u \in Threads : Loading'[u] = Loading[u]
      BY <1>4, RemoteStepKeeps, Zenon DEF RolesStay
    <3> QED BY <1>0, <1>2, <3>1, <3>2, ZenonT(40) DEF Flags
  <2>2. \A u \in Threads : Loading[u] # Null => Loading[u] \in Pages
    BY LoadingIsAPage, Zenon DEF Sound
  <2>3. \A u \in Threads : Loading[u] # Null => table'[Loading[u]] = IO_FLAG
    BY <1>0, <1>3, <2>1, <2>2, Zenon DEF Flags
  <2>4. \A c \in Pages : table'[c] = IO_FLAG => \E u \in Threads : Loading[u] = c
    BY <1>0, <1>3, <1>n, Zenon DEF Flags
  <2> QED BY <1>0, <2>1, <2>3, <2>4, ZenonT(40) DEF Flags
<1>9. Answered(t)'
  BY <1>1, <1>2, <1>3, <1>4, RemoteStepKeeps, Zenon DEF Answered
<1>10. Data'
  <2>1. \A k \in Leaves \ {l} : table'[k] = table[k]
    BY <1>3, Zenon DEF Pages
  <2> QED BY <1>0, <1>2, <1>3, <1>s, <1>n, <2>1, Zenon DEF Data
<1> QED BY <1>3, <1>4, <1>6, <1>7, <1>8, <1>9, <1>10, RemoteStepIsSound, Zenon

(* A step that changes nothing. *)
LEMMA SameSound == ASSUME IInv, UNCHANGED vars PROVE IInv'
<1>1. /\ lock' = lock /\ page' = page /\ pos_state' = pos_state /\ dirty' = dirty /\ content' = content
      /\ children' = children /\ parent_ptr' = parent_ptr /\ table' = table /\ cooling' = cooling
      /\ local' = local /\ remote' = remote /\ current' = current /\ pc' = pc /\ ret' = ret /\ todo' = todo
      /\ op' = op /\ goal' = goal /\ val' = val /\ cur' = cur /\ par' = par /\ seen' = seen
      /\ frame' = frame /\ victim' = victim
  BY Zenon DEF vars, frameVars, poolVars, threadVars
<1>2. CASE Sound
  <2>1. TypeOK /\ TypeOK'
    BY <1>1, <1>2, Zenon DEF Sound, TypeOK, FrameTypes, PoolTypes, ThreadTypes
  <2>2. Held' = Held /\ IoLatch' = IoLatch /\ Loading' = Loading /\ Cool' = Cool
    BY <1>1, Zenon DEF Held, IoLatch, Loading, Cool, Latched, Holds, Serves, Missing, Next_page
  <2>3. Unhung' = Unhung /\ Writing' = Writing /\ Stale' = Stale
    BY <1>1, Zenon DEF Unhung, Writing, Stale, Latched
  <2>4. Cooled' /\ Positions' /\ Tree' /\ Versioned' /\ Data'
    BY <1>1, <1>2, <2>3, SameCooled, SamePositions, SameTree, SameVersioned, SameData, ZenonT(40) DEF Sound
  <2>5. Places' /\ Victims'
    <3>1. ASSUME NEW t \in Threads PROVE Placed(t)'
      BY <1>1, <1>2, Zenon DEF Sound, Places, Placed, Latched
    <3>2. ASSUME NEW t \in Threads PROVE Sampled(t)'
      BY <1>1, <1>2, Zenon DEF Sound, Victims, Sampled, Latched, Below, Hot
    <3> QED BY <3>1, <3>2, Zenon DEF Places, Victims
  <2>7. Latches' /\ Flags'
    BY <1>1, <1>2, <2>2, Zenon DEF Sound, Latches, Flags
  <2>6. Table' /\ OnTheWay' /\ Served'
    BY <1>1, <1>2, <2>2, <2>3, ZenonT(40) DEF Sound, Table, OnTheWay, Headed, Served, Answered, Hot
  <2> QED BY <2>1, <2>4, <2>5, <2>6, <2>7, Zenon DEF IInv, Sound
<1>3. CASE TypeOK /\ Gone
  BY <1>1, <1>3, Zenon DEF IInv, TypeOK, FrameTypes, PoolTypes, ThreadTypes, Gone
<1> QED BY <1>2, <1>3, Zenon DEF IInv

-----------------------------------------------------------------------------
(* The cooling table: buckets that lose an entry, or gain one at the front. *)
Entries(c) == UNION {Range(c[b]) : b \in Buckets}

LEMMA EntriesOfBuckets ==
  ASSUME NEW c \in [Buckets -> Seq(Frames)], NEW f
  PROVE  f \in Entries(c) <=> \E b \in Buckets : \E i \in 1..Len(c[b]) : c[b][i] = f
<1>1. \A b \in Buckets : DOMAIN c[b] = 1..Len(c[b])
  BY SMT
<1> QED BY <1>1 DEF Entries, Range

(* The buckets d are the buckets c without the frame g. *)
ButOne(c, d, g) ==
  \A b \in Buckets :
    /\ \A j \in 1..Len(d[b]) : d[b][j] # g /\ \E k \in 1..Len(c[b]) : c[b][k] = d[b][j]
    /\ \A k \in 1..Len(c[b]) : c[b][k] # g => \E j \in 1..Len(d[b]) : d[b][j] = c[b][k]

LEMMA EntriesButOne ==
  ASSUME NEW c \in [Buckets -> Seq(Frames)], NEW d \in [Buckets -> Seq(Frames)], NEW g, ButOne(c, d, g)
  PROVE  \A f : f \in Entries(d) <=> f \in Entries(c) /\ f # g
<1> TAKE f
<1>1. f \in Entries(d) <=> \E b \in Buckets : \E i \in 1..Len(d[b]) : d[b][i] = f
  BY EntriesOfBuckets, Zenon
<1>2. f \in Entries(c) <=> \E b \in Buckets : \E i \in 1..Len(c[b]) : c[b][i] = f
  BY EntriesOfBuckets, Zenon
<1>3. ASSUME NEW b \in Buckets
      PROVE  (\E i \in 1..Len(d[b]) : d[b][i] = f) <=> (\E i \in 1..Len(c[b]) : c[b][i] = f) /\ f # g
  <2>1. /\ \A j \in 1..Len(d[b]) : d[b][j] # g /\ \E k \in 1..Len(c[b]) : c[b][k] = d[b][j]
        /\ \A k \in 1..Len(c[b]) : c[b][k] # g => \E j \in 1..Len(d[b]) : d[b][j] = c[b][k]
    BY Zenon DEF ButOne
  <2> QED BY <2>1, Zenon
<1> QED BY <1>1, <1>2, <1>3, Zenon

LEMMA JoinedBuckets ==
  ASSUME NEW p \in Seq(Frames), NEW q \in Seq(Frames)
  PROVE  /\ p \o q \in Seq(Frames) /\ Len(p \o q) = Len(p) + Len(q)
         /\ \A j \in 1..(Len(p) + Len(q)) : (p \o q)[j] = IF j <= Len(p) THEN p[j] ELSE q[j - Len(p)]
  BY SMT

LEMMA RemoveFromBucket ==
  ASSUME NEW s \in Seq(Frames), NEW i \in 1..Len(s)
  PROVE  /\ remove(s, i) \in Seq(Frames) /\ Len(remove(s, i)) = Len(s) - 1
         /\ \A j \in 1..(Len(s) - 1) : remove(s, i)[j] = IF j < i THEN s[j] ELSE s[j + 1]
<1> DEFINE p == SubSeq(s, 1, i - 1)
           q == SubSeq(s, i + 1, Len(s))
<1>1. p \in Seq(Frames) /\ Len(p) = i - 1 /\ \A j \in 1..(i - 1) : p[j] = s[j]
  BY SMT
<1>2. q \in Seq(Frames) /\ Len(q) = Len(s) - i /\ \A j \in 1..(Len(s) - i) : q[j] = s[i + j]
  BY SMT
<1>3. remove(s, i) = p \o q
  BY Zenon DEF remove
<1> HIDE DEF p, q
<1>4. /\ p \o q \in Seq(Frames) /\ Len(p \o q) = Len(p) + Len(q)
      /\ \A j \in 1..(Len(p) + Len(q)) : (p \o q)[j] = IF j <= Len(p) THEN p[j] ELSE q[j - Len(p)]
  BY <1>1, <1>2, JoinedBuckets, Zenon
<1>l. Len(s) \in Nat /\ Len(p) = i - 1 /\ Len(q) = Len(s) - i
  <2>1. Len(s) \in Nat
    BY SMT
  <2> QED BY <1>1, <1>2, <2>1, Zenon
<1>5. Len(p \o q) = Len(s) - 1
  <2>1. Len(p) + Len(q) = Len(s) - 1
    BY <1>l, SMT
  <2> QED BY <1>4, <2>1, Zenon
<1>6. ASSUME NEW j \in 1..(Len(s) - 1) PROVE (p \o q)[j] = IF j < i THEN s[j] ELSE s[j + 1]
  <2>0. j \in 1..(Len(p) + Len(q))
    BY <1>l, SMT
  <2>1. CASE j < i
    <3>1. j \in 1..(i - 1) /\ j <= Len(p)
      BY <1>l, <2>1, SMT
    <3> QED BY <1>1, <1>4, <2>0, <2>1, <3>1, Zenon
  <2>2. CASE ~(j < i)
    <3>1. j - Len(p) \in 1..(Len(s) - i) /\ i + (j - Len(p)) = j + 1 /\ ~(j <= Len(p))
      BY <1>l, <2>2, SMT
    <3>2. (p \o q)[j] = q[j - Len(p)]
      BY <1>4, <2>0, <3>1, Zenon
    <3> QED BY <1>2, <2>2, <3>1, <3>2, Zenon
  <2> QED BY <2>1, <2>2, Zenon
<1> QED BY <1>3, <1>4, <1>5, <1>6, Zenon

LEMMA PutInBucket ==
  ASSUME NEW s \in Seq(Frames), NEW v \in Frames
  PROVE  /\ <<v>> \o s \in Seq(Frames) /\ Len(<<v>> \o s) = Len(s) + 1 /\ (<<v>> \o s)[1] = v
         /\ \A j \in 1..Len(s) : (<<v>> \o s)[j + 1] = s[j]
  BY SMT

Removed(c, d, b, i) == d = [c EXCEPT ![b] = remove(@, i)]

SameIn(F, state, of, state2, of2) == \A f \in F : state2[f] = state[f] /\ of2[f] = of[f]

(* Bucket b loses the entry f, or gains the entry v. *)
Loses(c, d, b, f) ==
  /\ Len(d[b]) = Len(c[b]) - 1 /\ \A e \in Buckets \ {b} : d[e] = c[e]
  /\ \A h : h \in Entries(d) <=> h \in Entries(c) /\ h # f

Gains(c, d, b, v) ==
  /\ Len(d[b]) = Len(c[b]) + 1 /\ \A e \in Buckets \ {b} : d[e] = c[e]
  /\ \A h : h \in Entries(d) <=> h \in Entries(c) \/ h = v

LEMMA RemoveIsTidy ==
  ASSUME NEW c \in [Buckets -> Seq(Frames)], NEW state, NEW of, NEW state2, NEW of2,
         Tidy(c, state, of), NEW b \in Buckets, NEW i \in 1..Len(c[b]),
         NEW d, Removed(c, d, b, i), SameIn(Entries(c) \ {c[b][i]}, state, of, state2, of2)
  PROVE  d \in [Buckets -> Seq(Frames)] /\ Tidy(d, state2, of2) /\ Loses(c, d, b, c[b][i])
<1>1. /\ d[b] \in Seq(Frames) /\ Len(d[b]) = Len(c[b]) - 1
      /\ \A j \in 1..(Len(c[b]) - 1) : d[b][j] = IF j < i THEN c[b][j] ELSE c[b][j + 1]
      /\ d \in [Buckets -> Seq(Frames)] /\ \A e \in Buckets \ {b} : d[e] = c[e]
  <2>1. c[b] \in Seq(Frames) /\ d[b] = remove(c[b], i) /\ \A e \in Buckets \ {b} : d[e] = c[e]
    BY Zenon DEF Removed
  <2>2. d[b] \in Seq(Frames) => d \in [Buckets -> Seq(Frames)]
    BY <2>1, Zenon DEF Removed
  <2> QED BY <2>1, <2>2, RemoveFromBucket, ZenonT(40)
<1>2. \A j \in 1..Len(d[b]) : \E k \in 1..Len(c[b]) : k # i /\ d[b][j] = c[b][k] /\ k = (IF j < i THEN j ELSE j + 1)
  BY <1>1, SMT
<1>3. \A k \in 1..Len(c[b]) : k # i => \E j \in 1..Len(d[b]) : d[b][j] = c[b][k]
  <2> SUFFICES ASSUME NEW k \in 1..Len(c[b]), k # i PROVE \E j \in 1..Len(d[b]) : d[b][j] = c[b][k]
    BY Zenon
  <2>1. CASE k < i
    <3>1. k \in 1..Len(d[b]) /\ d[b][k] = c[b][k]
      BY <1>1, <2>1, SMT
    <3> QED BY <3>1, Zenon
  <2>2. CASE ~(k < i)
    <3>1. k - 1 \in 1..Len(d[b]) /\ d[b][k - 1] = c[b][k]
      BY <1>1, <2>2, SMT
    <3> QED BY <3>1, Zenon
  <2> QED BY <2>1, <2>2, Zenon
<1>4. \A e \in Buckets : \A j \in 1..Len(d[e]) : \E k \in 1..Len(c[e]) : d[e][j] = c[e][k] /\ d[e][j] # c[b][i]
  <2> SUFFICES ASSUME NEW e \in Buckets, NEW j \in 1..Len(d[e])
               PROVE  \E k \in 1..Len(c[e]) : d[e][j] = c[e][k] /\ d[e][j] # c[b][i]
    BY Zenon
  <2>1. CASE e = b
    BY <1>2, <2>1 DEF Tidy
  <2>2. CASE e # b
    <3>1. d[e] = c[e]
      BY <1>1, <2>2, Zenon
    <3>2. hash[of[c[e][j]]] = e /\ hash[of[c[b][i]]] = b
      BY <3>1, Zenon DEF Tidy
    <3> QED BY <2>2, <3>1, <3>2, Zenon
  <2> QED BY <2>1, <2>2, Zenon
<1>5. \A f : f \in Entries(d) <=> f \in Entries(c) /\ f # c[b][i]
  <2>1. ASSUME NEW e \in Buckets, NEW k \in 1..Len(c[e]), c[e][k] # c[b][i]
        PROVE  \E j \in 1..Len(d[e]) : d[e][j] = c[e][k]
    <3>1. CASE e = b
      BY <1>3, <2>1, <3>1, Zenon
    <3>2. CASE e # b
      BY <1>1, <3>2, Zenon
    <3> QED BY <3>1, <3>2, Zenon
  <2>2. ButOne(c, d, c[b][i])
    BY <1>4, <2>1, ZenonT(40) DEF ButOne
  <2> QED BY <1>1, <2>2, EntriesButOne, Zenon
<1>6. Tidy(d, state2, of2)
  <2> SUFFICES ASSUME NEW e \in Buckets, NEW j \in 1..Len(d[e])
               PROVE  /\ state2[d[e][j]] = "cool" /\ of2[d[e][j]] \in Pages /\ hash[of2[d[e][j]]] = e
                      /\ \A m \in 1..Len(d[e]) : d[e][j] = d[e][m] => j = m
    BY Zenon DEF Tidy
  <2>1. PICK k \in 1..Len(c[e]) : d[e][j] = c[e][k] /\ d[e][j] # c[b][i]
    BY <1>4, Zenon
  <2>2. d[e][j] \in Entries(c)
    BY <2>1, EntriesOfBuckets, ZenonT(40)
  <2>3. state2[d[e][j]] = "cool" /\ of2[d[e][j]] \in Pages /\ hash[of2[d[e][j]]] = e
    BY <2>1, <2>2 DEF Tidy, SameIn
  <2>4. \A m \in 1..Len(d[e]) : d[e][j] = d[e][m] => j = m
    <3>1. CASE e = b
      <4>1. SUFFICES ASSUME NEW m \in 1..Len(d[b]), d[b][j] = d[b][m] PROVE j = m
        BY <3>1, Zenon
      <4>2. j \in 1..Len(d[b])
        BY <3>1, Zenon
      <4>3. (IF j < i THEN j ELSE j + 1) = (IF m < i THEN m ELSE m + 1)
        BY <1>2, <4>1, <4>2 DEF Tidy
      <4> QED BY <1>1, <4>2, <4>3, SMT
    <3>2. CASE e # b
      <4>1. d[e] = c[e]
        BY <1>1, <3>2, Zenon
      <4>2. j \in 1..Len(c[e])
        BY <4>1, Zenon
      <4>3. \A m \in 1..Len(c[e]) : c[e][j] = c[e][m] => j = m
        BY <4>2, Zenon DEF Tidy
      <4> QED BY <4>1, <4>3, Zenon
    <3> QED BY <3>1, <3>2, Zenon
  <2> QED BY <2>3, <2>4, Zenon
<1> QED BY <1>1, <1>5, <1>6, Zenon DEF Loses

(* Entry v stands in q before the entries of p, which has each entry once. *)
AtFront(p, q, v) ==
  /\ q[1] = v /\ \A j \in 1..Len(q) : j = 1 \/ (j - 1 \in 1..Len(p) /\ q[j] = p[j - 1])
  /\ \A k, n \in 1..Len(p) : p[k] = p[n] => k = n
  /\ \A k \in 1..Len(p) : p[k] # v

LEMMA FrontIsOnce ==
  ASSUME NEW p, NEW q, NEW v, AtFront(p, q, v), NEW j \in 1..Len(q), NEW m \in 1..Len(q), q[j] = q[m]
  PROVE  j = m
<1>1. CASE j = 1 \/ m = 1
  BY <1>1, Zenon DEF AtFront
<1>2. CASE j # 1 /\ m # 1
  <2>1. j - 1 = m - 1
    BY <1>2, Zenon DEF AtFront
  <2> QED BY <2>1, SMT
<1> QED BY <1>1, <1>2, Zenon

Front(c, d, b, v) == d = [c EXCEPT ![b] = <<v>> \o @]

Fits(v, b, state, of) == state[v] = "cool" /\ of[v] \in Pages /\ hash[of[v]] = b

LEMMA InsertIsTidy ==
  ASSUME NEW c \in [Buckets -> Seq(Frames)], NEW state, NEW of, NEW state2, NEW of2,
         Tidy(c, state, of), NEW b \in Buckets, NEW v \in Frames, v \notin Entries(c),
         NEW d, Front(c, d, b, v), SameIn(Entries(c), state, of, state2, of2),
         Fits(v, b, state2, of2)
  PROVE  d \in [Buckets -> Seq(Frames)] /\ Tidy(d, state2, of2) /\ Gains(c, d, b, v)
<1>1. /\ d[b] \in Seq(Frames) /\ Len(d[b]) = Len(c[b]) + 1 /\ d[b][1] = v
      /\ \A j \in 1..Len(c[b]) : d[b][j + 1] = c[b][j]
      /\ d \in [Buckets -> Seq(Frames)] /\ \A e \in Buckets \ {b} : d[e] = c[e]
  <2>1. c[b] \in Seq(Frames) /\ d[b] = <<v>> \o c[b] /\ \A e \in Buckets \ {b} : d[e] = c[e]
    BY Zenon DEF Front
  <2>2. d[b] \in Seq(Frames) => d \in [Buckets -> Seq(Frames)]
    BY <2>1, Zenon DEF Front
  <2> DEFINE s == <<v>> \o c[b]
  <2>3. s \in Seq(Frames) /\ Len(s) = Len(c[b]) + 1 /\ s[1] = v /\ \A j \in 1..Len(c[b]) : s[j + 1] = c[b][j]
    BY <2>1, PutInBucket, Zenon
  <2>4. d[b] = s
    BY <2>1, Zenon
  <2> HIDE DEF s
  <2> QED BY <2>1, <2>2, <2>3, <2>4, Zenon
<1>2. \A j \in 1..Len(d[b]) : j = 1 \/ (j - 1 \in 1..Len(c[b]) /\ d[b][j] = c[b][j - 1])
  <2> SUFFICES ASSUME NEW j \in 1..Len(d[b]), j # 1 PROVE j - 1 \in 1..Len(c[b]) /\ d[b][j] = c[b][j - 1]
    BY Zenon
  <2>1. Len(c[b]) \in Nat
    BY SMT
  <2>2. j - 1 \in 1..Len(c[b]) /\ (j - 1) + 1 = j
    BY <1>1, <2>1, SMT
  <2>3. d[b][(j - 1) + 1] = c[b][j - 1]
    BY <1>1, <2>2, Zenon
  <2> QED BY <2>2, <2>3, Zenon
<1>3. 1 \in 1..Len(d[b]) /\ \A k \in 1..Len(c[b]) : k + 1 \in 1..Len(d[b])
  BY <1>1, SMT
<1>4. ASSUME NEW e \in Buckets, NEW j \in 1..Len(d[e])
      PROVE  (d[e][j] = v /\ e = b) \/ \E k \in 1..Len(c[e]) : c[e][k] = d[e][j]
  <2>1. CASE e = b
    BY <1>1, <1>2, <2>1, Zenon
  <2>2. CASE e # b
    <3>1. d[e] = c[e]
      BY <1>1, <2>2, Zenon
    <3> QED BY <3>1, Zenon
  <2> QED BY <2>1, <2>2, Zenon
<1>5. ButOne(d, c, v)
  <2>1. ASSUME NEW e \in Buckets, NEW k \in 1..Len(c[e])
        PROVE  c[e][k] # v /\ \E j \in 1..Len(d[e]) : d[e][j] = c[e][k]
    <3>1. c[e][k] \in Entries(c)
      BY EntriesOfBuckets, Zenon
    <3>2. CASE e = b
      BY <1>1, <1>3, <3>1, <3>2, Zenon
    <3>3. CASE e # b
      BY <1>1, <3>1, <3>3, Zenon
    <3> QED BY <3>2, <3>3, Zenon
  <2> QED BY <1>4, <2>1, Zenon DEF ButOne
<1>6. \A f : f \in Entries(d) <=> f \in Entries(c) \/ f = v
  <2>1. v \in Entries(d)
    BY <1>1, <1>3, EntriesOfBuckets, Zenon
  <2>2. \A f : f \in Entries(c) <=> f \in Entries(d) /\ f # v
    <3>1. d \in [Buckets -> Seq(Frames)]
      BY <1>1, Zenon
    <3> QED BY <1>5, <3>1, EntriesButOne, Zenon
  <2> QED BY <2>1, <2>2, Zenon
<1>7. Tidy(d, state2, of2)
  <2> SUFFICES ASSUME NEW e \in Buckets, NEW j \in 1..Len(d[e])
               PROVE  /\ state2[d[e][j]] = "cool" /\ of2[d[e][j]] \in Pages /\ hash[of2[d[e][j]]] = e
                      /\ \A m \in 1..Len(d[e]) : d[e][j] = d[e][m] => j = m
    BY Zenon DEF Tidy
  <2>1. ASSUME NEW k \in 1..Len(c[e]) PROVE c[e][k] \in Entries(c) /\ c[e][k] # v
    BY EntriesOfBuckets, Zenon
  <2>2. state2[d[e][j]] = "cool" /\ of2[d[e][j]] \in Pages /\ hash[of2[d[e][j]]] = e
    <3>1. CASE d[e][j] = v /\ e = b
      BY <3>1, Zenon DEF Fits
    <3>2. CASE \E k \in 1..Len(c[e]) : c[e][k] = d[e][j]
      <4>1. PICK k \in 1..Len(c[e]) : c[e][k] = d[e][j]
        BY <3>2, Zenon
      <4>2. state[c[e][k]] = "cool" /\ of[c[e][k]] \in Pages /\ hash[of[c[e][k]]] = e
        BY Zenon DEF Tidy
      <4>3. state2[c[e][k]] = state[c[e][k]] /\ of2[c[e][k]] = of[c[e][k]]
        BY <2>1, Zenon DEF SameIn
      <4> QED BY <4>1, <4>2, <4>3, Zenon
    <3> QED BY <1>4, <3>1, <3>2, Zenon
  <2>3. ASSUME NEW m \in 1..Len(d[e]), d[e][j] = d[e][m] PROVE j = m
    <3>1. CASE e # b
      <4>1. d[e] = c[e]
        BY <1>1, <3>1, Zenon
      <4> QED BY <2>3, <4>1, ZenonT(40) DEF Tidy
    <3>2. CASE e = b
      <4>1. \A k, n \in 1..Len(c[b]) : c[b][k] = c[b][n] => k = n
        BY Zenon DEF Tidy
      <4>2. \A k \in 1..Len(c[b]) : c[b][k] # v
        BY <2>1, <3>2, Zenon
      <4>3. j \in 1..Len(d[b]) /\ m \in 1..Len(d[b]) /\ d[b][j] = d[b][m]
        BY <2>3, <3>2, Zenon
      <4>4. AtFront(c[b], d[b], v)
        BY <1>1, <1>2, <4>1, <4>2, Zenon DEF AtFront
      <4> QED BY <4>3, <4>4, FrontIsOnce, Zenon
    <3> QED BY <3>1, <3>2, Zenon
  <2> QED BY <2>2, <2>3, Zenon
<1> QED BY <1>1, <1>6, <1>7, Zenon DEF Gains
=============================================================================
