---------------------------- MODULE OptLockProofs ----------------------------
(***************************************************************************)
(* Proofs about the optimistic page lock, for every set of threads, fields *)
(* and values and every bound on the word.                                 *)
(*                                                                         *)
(* None of the properties is inductive alone.  The strengthening says how  *)
(* the low three bits of the word follow from who holds the page, and that *)
(* a loaded version is never ahead of the word: a version that was passed  *)
(* is then never met again, which is what makes validation meaningful.     *)
(***************************************************************************)
EXTENDS OptLock, TLAPS

\* The low bits of the word are determined by the holder: 4 under a writer,
\* 1 under an IO holder, and 0 (free) or 2 (obsolete) without one.
WordInv ==
    /\ word % 8 \in {0, 1, 2, 4}
    /\ word % 8 = 4 <=> \E t \in Threads : pc[t] = "write"
    /\ word % 8 = 1 <=> \E t \in Threads : pc[t] \in {"io", "upIO"}
    /\ \A t, u \in Threads : Holder(t) /\ Holder(u) => t = u
    /\ word < 8 => word \in {0, 4}
    /\ ~Allocated => \A t \in Threads : pc[t] = "idle"

\* What a thread's loaded version says, by what the thread is doing with it.
VersionInv ==
    \A t \in Threads :
        /\ pc[t] \in {"reading", "casWrite", "casIO"} => Masked(ver[t]) <= Masked(word)
        /\ pc[t] = "reading" => ver[t] % 8 \in {0, 1}
        /\ pc[t] \in {"casWrite", "casIO"} => ver[t] % 8 = 0
        /\ pc[t] = "upIO" => ver[t] = word

\* What a thread's copy says: empty while it has nothing read, the page's content
\* while its version is still valid or it holds the page.
CopyInv ==
    \A t \in Threads :
        /\ pc[t] \in {"idle", "casWrite", "casIO"} => DOMAIN copy[t] = {}
        /\ \/ Holder(t)
           \/ pc[t] = "reading" /\ Masked(ver[t]) = Masked(word)
           => \A f \in DOMAIN copy[t] : copy[t][f] = page[f]

IInv == VariableTypes /\ WordInv /\ VersionInv /\ CopyInv

-----------------------------------------------------------------------------
(***************************************************************************)
(* Arithmetic of the word.                                                 *)
(***************************************************************************)
\* The three flags of a word whose low bits are known.
LEMMA Flags ==
    ASSUME NEW w \in Nat
    PROVE  /\ w % 8 = 0 => ~isLocked(w) /\ ~isObsolete(w) /\ ~isIO(w)
           /\ w % 8 = 1 => ~isLocked(w) /\ ~isObsolete(w) /\ isIO(w)
           /\ w % 8 = 2 => ~isLocked(w) /\ isObsolete(w) /\ ~isIO(w)
           /\ w % 8 = 4 => isLocked(w) /\ ~isObsolete(w) /\ ~isIO(w)
  BY DEF isLocked, isObsolete, isIO

\* How the low bits and the masked version change under each update of the word.
LEMMA Steps ==
    ASSUME NEW w \in Nat
    PROVE  /\ w % 8 = 0 => (w + 4) % 8 = 4 /\ Masked(w) < Masked(w + 4)
           /\ w % 8 = 0 => (w + 1) % 8 = 1 /\ Masked(w + 1) = Masked(w)
           /\ w % 8 = 1 => (w - 1) % 8 = 0 /\ Masked(w - 1) = Masked(w) /\ w - 1 \in Nat
           /\ w % 8 = 1 => (w - 1 + 4) % 8 = 4 /\ Masked(w) < Masked(w - 1 + 4)
           /\ w % 8 = 4 => (w + 4) % 8 = 0 /\ Masked(w) < Masked(w + 4)
           /\ w % 8 = 4 => (w + 6) % 8 = 2 /\ Masked(w) < Masked(w + 6)
           /\ Masked(w) \in Nat
  BY DEF Masked

\* A word without a holder, past the initial session.
LEMMA FreeWord ==
    ASSUME NEW w \in Nat, w % 8 = 0 \/ w % 8 = 2, 8 <= w
    PROVE  /\ w % 8 # 4 /\ w % 8 # 1 /\ w % 8 \in {0, 1, 2, 4}
           /\ ~(w < 8) /\ w # 0
  OBVIOUS

\* A version without the write bit and one with it differ after masking.
LEMMA Tells ==
    ASSUME NEW w \in Nat, NEW x \in Nat, w % 8 = 4, x % 8 \in {0, 1}
    PROVE  Masked(x) # Masked(w)
  BY DEF Masked

\* What Remember stores in a thread's copy is again a copy.
LEMMA RememberType ==
    ASSUME NEW c \in Copies, NEW f \in Fields, NEW v \in Values
    PROVE  [g \in DOMAIN c \cup {f} |-> IF g = f THEN v ELSE c[g]] \in Copies
<1>1. PICK F \in SUBSET Fields : c \in [F -> Values]
  BY DEF Copies
<1>2. DOMAIN c \cup {f} \in SUBSET Fields
  BY <1>1
<1>3. [g \in DOMAIN c \cup {f} |-> IF g = f THEN v ELSE c[g]]
         \in [DOMAIN c \cup {f} -> Values]
  BY <1>1
<1>4. QED
  BY <1>2, <1>3 DEF Copies

LEMMA NoCopyType == NoCopy \in Copies /\ DOMAIN NoCopy = {}
<1>1. NoCopy \in [{} -> Values] /\ DOMAIN NoCopy = {}
  BY DEF NoCopy
<1>2. {} \in SUBSET Fields
  OBVIOUS
<1>3. QED
  BY <1>1, <1>2 DEF Copies

-----------------------------------------------------------------------------
(***************************************************************************)
(* The inductive invariant.                                                *)
(***************************************************************************)
LEMMA InitIInv == Init => IInv
<1> SUFFICES ASSUME Init PROVE IInv
  OBVIOUS
<1>1. VariableTypes
  BY OptLockAssumption, NoCopyType DEF Init, VariableTypes, PC
<1>2. WordInv
  BY DEF Init, WordInv, Holder, Allocated
<1>3. VersionInv
  BY DEF Init, VersionInv
<1>4. CopyInv
  BY NoCopyType DEF Init, CopyInv, Holder
<1>5. QED
  BY <1>1, <1>2, <1>3, <1>4 DEF IInv

\* Giving up keeps the invariant: needRestart without a change of the word.
LEMMA RestartIInv ==
    ASSUME IInv, NEW t \in Threads, Restart(t), pc[t] \notin {"io", "upIO", "write"}
    PROVE  IInv'
<1> USE DEF Restart, Goto, Forget
<1>1. VariableTypes'
  BY NoCopyType DEF IInv, VariableTypes, PC
<1>2. WordInv'
  BY DEF IInv, VariableTypes, WordInv, Holder, Allocated
<1>3. VersionInv'
  BY DEF IInv, VariableTypes, VersionInv
<1>4. CopyInv'
  BY NoCopyType DEF IInv, VariableTypes, CopyInv, Holder
<1>5. QED
  BY <1>1, <1>2, <1>3, <1>4 DEF IInv

\* A successful CAS from a free word: d is 4 for the write lock, 1 for the IO lock.
LEMMA AcquireIInv ==
    ASSUME IInv, NEW t \in Threads, NEW d \in {1, 4}, NEW l \in {"io", "write"},
           d = 4 <=> l = "write",
           pc[t] \in {"reading", "casWrite", "casIO"},
           ver[t] % 8 = 0,
           CompareExchange(t, d, l)
    PROVE  IInv'
<1>1. CASE word # ver[t]
  BY <1>1, RestartIInv DEF CompareExchange
<1>2. CASE word = ver[t]
  <2>1. word' = word + d /\ ver' = [ver EXCEPT ![t] = word + d] /\ Goto(t, l)
        /\ UNCHANGED <<page, copy>>
    BY <1>2 DEF CompareExchange
  <2> USE DEF Goto
  <2>2. word \in Nat /\ word' \in Nat /\ word % 8 = 0
        /\ word' % 8 = d /\ Masked(word) <= Masked(word')
        /\ (d = 1 => Masked(word') = Masked(word))
        /\ (d = 4 => Masked(word) < Masked(word'))
    BY <1>2, <2>1, Steps DEF IInv, VariableTypes
  <2>3. VariableTypes'
    BY <2>1, <2>2 DEF IInv, VariableTypes, PC
  <2>4. WordInv'
    BY <2>1, <2>2 DEF IInv, VariableTypes, WordInv, Holder, Allocated
  <2>5. VersionInv'
    <3> SUFFICES ASSUME NEW u \in Threads
                 PROVE  VersionInv!(u)'
      BY DEF VersionInv
    <3>1. CASE u = t
      BY <2>1, <3>1 DEF IInv, VariableTypes
    <3>2. CASE u # t
      <4>1. pc'[u] = pc[u] /\ ver'[u] = ver[u] /\ ver[u] \in Nat
        BY <2>1, <3>2 DEF IInv, VariableTypes
      <4>2. pc[u] # "upIO"
        BY <2>2 DEF IInv, WordInv
      <4>3. VersionInv!(u)
        BY DEF IInv, VersionInv
      <4>4. Masked(word) \in Nat /\ Masked(word') \in Nat /\ Masked(ver[u]) \in Nat
        BY <2>2, <4>1, Steps
      <4>5. QED
        BY <2>2, <4>1, <4>2, <4>3, <4>4
    <3>3. QED
      BY <3>1, <3>2
  <2>6. CopyInv'
    <3> SUFFICES ASSUME NEW u \in Threads
                 PROVE  CopyInv!(u)'
      BY DEF CopyInv
    <3>1. CASE u = t
      BY <1>2, <2>1, <3>1 DEF IInv, VariableTypes, CopyInv, Holder
    <3>2. CASE u # t
      <4>1. pc'[u] = pc[u] /\ ver'[u] = ver[u] /\ ver[u] \in Nat
        BY <2>1, <3>2 DEF IInv, VariableTypes
      <4>2. ~Holder(u)
        BY <2>2 DEF IInv, WordInv, Holder
      <4>3. CopyInv!(u) /\ VersionInv!(u)
        BY DEF IInv, VersionInv, CopyInv
      <4>4. Masked(word) \in Nat /\ Masked(word') \in Nat /\ Masked(ver[u]) \in Nat
        BY <2>2, <4>1, Steps
      <4>5. QED
        BY <2>1, <2>2, <4>1, <4>2, <4>3, <4>4 DEF Holder
    <3>3. QED
      BY <3>1, <3>2
  <2>7. QED
    BY <2>3, <2>4, <2>5, <2>6 DEF IInv
<1>3. QED
  BY <1>1, <1>2

\* A step that raises the masked version while t is the only holder, or that
\* leaves it alone, keeps what the other threads know of the word and the page.
LEMMA OthersIInv ==
    ASSUME IInv, NEW t \in Threads, NEW u \in Threads, u # t, Holder(t),
           pc'[u] = pc[u], ver'[u] = ver[u], copy'[u] = copy[u],
           word' \in Nat, UNCHANGED page,
           Masked(word) <= Masked(word')
    PROVE  VersionInv!(u)' /\ CopyInv!(u)'
<1>1. ver[u] \in Nat /\ word \in Nat
  BY DEF IInv, VariableTypes
<1>2. ~Holder(u)
  BY DEF IInv, WordInv
<1>3. VersionInv!(u) /\ CopyInv!(u)
  BY DEF IInv, VersionInv, CopyInv
<1>4. Masked(word) \in Nat /\ Masked(word') \in Nat /\ Masked(ver[u]) \in Nat
  BY <1>1, Steps
<1>5. VersionInv!(u)'
  BY <1>2, <1>3, <1>4 DEF Holder
<1>6. CopyInv!(u)'
  BY <1>2, <1>3, <1>4 DEF Holder
<1>7. QED
  BY <1>5, <1>6

\* Releasing the page, by its holder t, to a word without a holder.
LEMMA ReleaseIInv ==
    ASSUME IInv, NEW t \in Threads, Holder(t),
           word' \in Nat, word' % 8 = 0 \/ word' % 8 = 2, 8 <= word', Masked(word) <= Masked(word'),
           Goto(t, "idle"), Forget(t), UNCHANGED <<page, ver>>
    PROVE  IInv'
<1> USE DEF Goto, Forget
<1>1. VariableTypes'
  BY NoCopyType DEF IInv, VariableTypes, PC
<1>2. WordInv'
  <2>1. \A u \in Threads : pc'[u] \notin {"io", "upIO", "write"}
    BY DEF IInv, VariableTypes, WordInv, Holder
  <2>2. /\ word' % 8 # 4 /\ word' % 8 # 1 /\ word' % 8 \in {0, 1, 2, 4}
        /\ ~(word' < 8) /\ word' # 0
    BY FreeWord, Zenon
  <2>3. QED
    BY <2>1, <2>2, Zenon DEF WordInv, Holder, Allocated
<1>3. ASSUME NEW u \in Threads
      PROVE  VersionInv!(u)' /\ CopyInv!(u)'
  <2>1. CASE u = t
    BY <2>1, NoCopyType DEF IInv, VariableTypes, Holder
  <2>2. CASE u # t
    BY <2>2, OthersIInv DEF IInv, VariableTypes
  <2>3. QED
    BY <2>1, <2>2
<1>4. VersionInv' /\ CopyInv'
  BY <1>3 DEF VersionInv, CopyInv
<1>5. QED
  BY <1>1, <1>2, <1>4 DEF IInv

\* Loading a version from the idle state, for a read or ahead of a CAS.
LEMMA LoadIInv ==
    ASSUME IInv, NEW t \in Threads, NEW l \in {"reading", "casWrite", "casIO"},
           Allocated, pc[t] = "idle",
           word % 8 \in {0, 1}, l # "reading" => word % 8 = 0,
           Load(t), Goto(t, l), UNCHANGED <<word, page, copy>>
    PROVE  IInv'
<1> USE DEF Goto, Load
<1>1. VariableTypes'
  BY DEF IInv, VariableTypes, PC
<1>2. WordInv'
  BY DEF IInv, VariableTypes, WordInv, Holder, Allocated
<1>3. VersionInv'
  BY Steps DEF IInv, VariableTypes, VersionInv
<1>4. CopyInv'
  BY DEF IInv, VariableTypes, CopyInv, Holder
<1>5. QED
  BY <1>1, <1>2, <1>3, <1>4 DEF IInv

LEMMA NextIInv == IInv /\ [Next]_vars => IInv'
<1> SUFFICES ASSUME IInv, [Next]_vars PROVE IInv'
  OBVIOUS
<1>0. word \in Nat /\ (word % 8 \in {0, 1} <=> ~isLocked(word) /\ ~isObsolete(word))
  BY Flags DEF IInv, VariableTypes, WordInv
<1>1. ASSUME NEW t \in Threads, setLockState(t)
      PROVE  IInv'
  <2> USE <1>1 DEF setLockState, Goto
  <2>1. word = 0 /\ word' = 4 /\ \A u \in Threads : pc[u] = "idle"
    BY DEF IInv, WordInv, Allocated
  <2>2. VariableTypes'
    BY DEF IInv, VariableTypes, PC
  <2>3. WordInv'
    <3>1. 4 % 8 = 4
      OBVIOUS
    <3>2. QED
      BY <2>1, <3>1 DEF IInv, VariableTypes, WordInv, Holder, Allocated
  <2>4. VersionInv' /\ CopyInv'
    BY <2>1 DEF IInv, VariableTypes, VersionInv, CopyInv, Holder
  <2>5. QED
    BY <2>2, <2>3, <2>4 DEF IInv
<1>2. ASSUME NEW t \in Threads, readLockOrRestart(t)
      PROVE  IInv'
  BY <1>0, <1>2, LoadIInv DEF readLockOrRestart
<1>3. ASSUME NEW t \in Threads, readUnlockOrRestart(t)
      PROVE  IInv'
  BY <1>3, RestartIInv DEF readUnlockOrRestart
<1>4. ASSUME NEW t \in Threads, writeLockOrRestart(t)
      PROVE  IInv'
  BY <1>4, LoadIInv DEF writeLockOrRestart
<1>5. ASSUME NEW t \in Threads, upgradeToWriteLockOrRestart(t)
      PROVE  IInv'
  <2>1. CASE isIO(ver[t])
    BY <1>5, <2>1, RestartIInv DEF upgradeToWriteLockOrRestart
  <2>2. CASE ~isIO(ver[t])
    <3>1. ver[t] \in Nat /\ ver[t] % 8 = 0
      BY <1>5, <2>2, Flags DEF IInv, VariableTypes, VersionInv, upgradeToWriteLockOrRestart
    <3>2. QED
      BY <1>5, <2>2, <3>1, AcquireIInv DEF upgradeToWriteLockOrRestart
  <2>3. QED
    BY <2>1, <2>2
<1>6. ASSUME NEW t \in Threads, IOLockOrRestart(t)
      PROVE  IInv'
  BY <1>6, LoadIInv DEF IOLockOrRestart
<1>7. ASSUME NEW t \in Threads, upgradeToIOLockOrRestart(t)
      PROVE  IInv'
  <2>1. CASE isIO(ver[t])
    BY <1>7, <2>1, RestartIInv DEF upgradeToIOLockOrRestart
  <2>2. CASE ~isIO(ver[t])
    <3>1. ver[t] \in Nat /\ ver[t] % 8 = 0
      BY <1>7, <2>2, Flags DEF IInv, VariableTypes, VersionInv, upgradeToIOLockOrRestart
    <3>2. QED
      BY <1>7, <2>2, <3>1, AcquireIInv DEF upgradeToIOLockOrRestart
  <2>3. QED
    BY <2>1, <2>2
<1>8. ASSUME NEW t \in Threads, IOUpgradeLoad(t)
      PROVE  IInv'
  <2> USE DEF Goto, Load
  <2>1. isIO(word)
    BY <1>0, <1>8, Flags DEF IInv, WordInv, IOUpgradeLoad
  <2>2. Load(t) /\ Goto(t, "upIO") /\ UNCHANGED <<word, page, copy>> /\ pc[t] = "io"
    BY <1>8, <2>1 DEF IOUpgradeLoad
  <2>3. VariableTypes'
    BY <2>2 DEF IInv, VariableTypes, PC
  <2>4. WordInv'
    BY <2>2 DEF IInv, VariableTypes, WordInv, Holder, Allocated
  <2>5. VersionInv'
    BY <2>2 DEF IInv, VariableTypes, VersionInv
  <2>6. CopyInv'
    BY <2>2 DEF IInv, VariableTypes, CopyInv, Holder
  <2>7. QED
    BY <2>3, <2>4, <2>5, <2>6 DEF IInv
<1>9. ASSUME NEW t \in Threads, IOUpgradeStore(t)
      PROVE  IInv'
  <2> USE DEF Goto
  <2>1. word % 8 = 1 /\ ver[t] = word /\ Holder(t)
    BY <1>9 DEF IInv, WordInv, VersionInv, Holder, IOUpgradeStore
  <2>2. word' \in Nat /\ word' % 8 = 4 /\ Masked(word) <= Masked(word') /\ word' # 0
    BY <1>0, <1>9, <2>1, Steps DEF IOUpgradeStore
  <2>3. VariableTypes'
    BY <1>9, <2>2 DEF IInv, VariableTypes, PC, IOUpgradeStore
  <2>4. WordInv'
    BY <1>9, <2>1, <2>2 DEF IInv, VariableTypes, WordInv, Holder, Allocated, IOUpgradeStore
  <2>5. ASSUME NEW u \in Threads
        PROVE  VersionInv!(u)' /\ CopyInv!(u)'
    <3>1. CASE u = t
      BY <1>9, <2>1, <3>1 DEF IInv, VariableTypes, CopyInv, Holder, IOUpgradeStore
    <3>2. CASE u # t
      BY <1>9, <2>1, <2>2, <3>2, OthersIInv DEF IInv, VariableTypes, IOUpgradeStore
    <3>3. QED
      BY <3>1, <3>2
  <2>6. VersionInv' /\ CopyInv'
    BY <2>5 DEF VersionInv, CopyInv
  <2>7. QED
    BY <2>3, <2>4, <2>6 DEF IInv
<1>10. ASSUME NEW t \in Threads, IOUnlock(t)
       PROVE  IInv'
  <2>1. word % 8 = 1 /\ Holder(t)
    BY <1>10 DEF IInv, WordInv, Holder, IOUnlock
  <2>2. word' \in Nat /\ word' % 8 = 0 /\ Masked(word) <= Masked(word')
    BY <1>0, <1>10, <2>1, Steps DEF IOUnlock
  <2>3. 8 <= word'
    BY <1>0, <1>10, <2>1 DEF IInv, WordInv, IOUnlock
  <2>4. QED
    BY <1>10, <2>1, <2>2, <2>3, ReleaseIInv DEF IOUnlock
<1>11. ASSUME NEW t \in Threads, writeUnlock(t) \/ writeUnlockObsolete(t)
       PROVE  IInv'
  <2>1. word % 8 = 4 /\ Holder(t)
    BY <1>11 DEF IInv, WordInv, Holder, writeUnlock, writeUnlockObsolete, Unlock
  <2>2. /\ word' \in Nat /\ (word' % 8 = 0 \/ word' % 8 = 2) /\ Masked(word) <= Masked(word')
        /\ 8 <= word'
    <3>1. word' \in {word + 4, word + 6}
      BY <1>11 DEF writeUnlock, writeUnlockObsolete, Unlock
    <3>2. 4 <= word
      BY <1>0, <2>1
    <3>3. word' \in Nat /\ Masked(word) \in Nat /\ Masked(word') \in Nat
      BY <1>0, <3>1, Steps
    <3>4. Masked(word) < Masked(word') /\ (word' % 8 = 0 \/ word' % 8 = 2)
      BY <1>0, <2>1, <3>1, Steps
    <3>5. 8 <= word'
      BY <1>0, <3>1, <3>2
    <3>6. Masked(word) <= Masked(word')
      BY <3>3, <3>4
    <3>7. QED
      BY <3>3, <3>4, <3>5, <3>6, Zenon
  <2>3. QED
    BY <1>11, <2>1, <2>2, ReleaseIInv DEF writeUnlock, writeUnlockObsolete, Unlock
<1>12. ASSUME NEW t \in Threads, NEW f \in Fields, ReadField(t, f)
       PROVE  IInv'
  <2> USE DEF Remember
  <2>1. VariableTypes'
    <3>1. copy[t] \in Copies /\ page[f] \in Values
      BY DEF IInv, VariableTypes
    <3>2. [g \in DOMAIN copy[t] \cup {f} |-> IF g = f THEN page[f] ELSE copy[t][g]] \in Copies
      BY <3>1, RememberType
    <3>3. QED
      BY <1>12, <3>2 DEF IInv, VariableTypes, ReadField
  <2>2. WordInv' /\ VersionInv'
    BY <1>12 DEF IInv, WordInv, VersionInv, Holder, Allocated, ReadField
  <2>3. CopyInv'
    BY <1>12 DEF IInv, VariableTypes, CopyInv, Holder, ReadField
  <2>4. QED
    BY <2>1, <2>2, <2>3 DEF IInv
<1>13. ASSUME NEW t \in Threads, NEW f \in Fields, NEW v \in Values, WriteField(t, f, v)
       PROVE  IInv'
  <2> USE DEF Remember
  <2>1. VariableTypes'
    <3>1. copy[t] \in Copies
      BY DEF IInv, VariableTypes
    <3>2. [g \in DOMAIN copy[t] \cup {f} |-> IF g = f THEN v ELSE copy[t][g]] \in Copies
      BY <3>1, RememberType
    <3>3. QED
      BY <1>13, <3>2 DEF IInv, VariableTypes, WriteField
  <2>2. WordInv' /\ VersionInv'
    BY <1>13 DEF IInv, WordInv, VersionInv, Holder, Allocated, WriteField
  <2>3. word % 8 = 4
    BY <1>13 DEF IInv, WordInv, WriteField
  <2>4. ASSUME NEW u \in Threads, pc[u] = "reading"
        PROVE  Masked(ver[u]) # Masked(word)
    <3>1. ver[u] \in Nat /\ ver[u] % 8 \in {0, 1}
      BY <2>4 DEF IInv, VariableTypes, VersionInv
    <3>2. QED
      BY <1>0, <2>3, <3>1, Tells
  <2>5. CopyInv'
    BY <1>13, <2>4 DEF IInv, VariableTypes, WordInv, CopyInv, Holder, WriteField
  <2>6. QED
    BY <2>1, <2>2, <2>5 DEF IInv
<1>14. CASE UNCHANGED vars
  BY <1>14 DEF vars, IInv, VariableTypes, WordInv, VersionInv, CopyInv, Holder, Allocated
<1>15. QED
  BY <1>1, <1>2, <1>3, <1>4, <1>5, <1>6, <1>7, <1>8, <1>9, <1>10, <1>11, <1>12,
     <1>13, <1>14 DEF Next

LEMMA Invariance == Spec => []IInv
  BY InitIInv, NextIInv, PTL DEF Spec

-----------------------------------------------------------------------------
(***************************************************************************)
(* The theorems.                                                           *)
(***************************************************************************)
\* The lock word and the threads' local variables keep their types in every
\* interleaving of the lock's operations.
THEOREM TypeCorrect == Spec => []TypeOK
<1>1. IInv => TypeOK
  BY DEF IInv, WordInv, TypeOK
<1>2. QED
  BY <1>1, Invariance, PTL

\* The write lock and the IO lock exclude each other and themselves, and the
\* two flag bits of the word tell exactly whether a thread holds them.
THEOREM LockExclusion == Spec => []MutualExclusion
<1>1. IInv => MutualExclusion
  BY Flags DEF IInv, VariableTypes, WordInv, TypeOK, MutualExclusion
<1>2. QED
  BY <1>1, Invariance, PTL

\* Whatever readUnlockOrRestart accepts is the page's current content: neither
\* torn by a writer nor left over from an earlier content of the frame.
THEOREM ReadValidation == Spec => []ValidatedReadIsCurrent
<1>1. IInv => ValidatedReadIsCurrent
  <2> SUFFICES ASSUME IInv, NEW t \in Threads, pc[t] = "reading", Validated(t)
               PROVE  /\ \A u \in Threads : pc[u] # "write"
                      /\ \A f \in DOMAIN copy[t] : copy[t][f] = page[f]
    BY DEF ValidatedReadIsCurrent
  <2>1. ver[t] \in Nat /\ ver[t] % 8 \in {0, 1} /\ word \in Nat
    BY DEF IInv, VariableTypes, VersionInv
  <2>2. word % 8 # 4
    BY <2>1, Tells DEF Validated
  <2>3. QED
    BY <2>2 DEF IInv, WordInv, CopyInv, Validated
<1>2. QED
  BY <1>1, Invariance, PTL

\* A thread that upgrades a read to an IO or a write lock works on what it read.
THEOREM UpgradeLosesNothing == Spec => []UpgradedReadIsCurrent
<1>1. IInv => UpgradedReadIsCurrent
  BY DEF IInv, CopyInv, UpgradedReadIsCurrent
<1>2. QED
  BY <1>1, Invariance, PTL

\* No operation sets the masked version back, so validation has no ABA problem, and an
\* obsolete page stays as it is.
THEOREM VersionMonotone == Spec => VersionNeverGoesBack
<1>1. IInv /\ [Next]_vars => [Masked(word') >= Masked(word)]_vars
  <2> SUFFICES ASSUME IInv, Next PROVE Masked(word') >= Masked(word)
    OBVIOUS
  <2>0. word \in Nat /\ Masked(word) \in Nat /\ word % 8 \in {0, 1, 2, 4}
    BY Steps DEF IInv, VariableTypes, WordInv
  <2>1. CASE UNCHANGED word
    BY <2>0, <2>1
  <2>2. ASSUME NEW t \in Threads, setLockState(t) PROVE Masked(word') >= Masked(word)
    BY <2>2 DEF setLockState, Allocated, Masked
  <2>3. ASSUME NEW t \in Threads, NEW d \in {1, 4}, NEW l, CompareExchange(t, d, l)
        PROVE  Masked(word') >= Masked(word)
    BY <2>0, <2>3 DEF CompareExchange, Restart, Masked
  <2>4. ASSUME NEW t \in Threads, IOUpgradeStore(t) PROVE Masked(word') >= Masked(word)
    BY <2>0, <2>4 DEF IInv, VersionInv, IOUpgradeStore, Masked
  <2>5. ASSUME NEW t \in Threads, IOUnlock(t) PROVE Masked(word') >= Masked(word)
    <3>1. word % 8 = 1
      BY <2>5 DEF IInv, WordInv, IOUnlock
    <3>2. QED
      BY <2>0, <2>5, <3>1, Steps DEF IOUnlock
  <2>6. ASSUME NEW t \in Threads, writeUnlock(t) \/ writeUnlockObsolete(t)
        PROVE  Masked(word') >= Masked(word)
    BY <2>0, <2>6 DEF writeUnlock, writeUnlockObsolete, Unlock, Masked
  <2>7. QED
    BY <2>1, <2>2, <2>3, <2>4, <2>5, <2>6 DEF Next, readLockOrRestart, readUnlockOrRestart,
       writeLockOrRestart, upgradeToWriteLockOrRestart, IOLockOrRestart,
       upgradeToIOLockOrRestart, IOUpgradeLoad, Restart, ReadField, WriteField
<1>2. IInv /\ [Next]_vars => [isObsolete(word) => UNCHANGED <<word, page>>]_vars
  <2> SUFFICES ASSUME IInv, Next, isObsolete(word) PROVE UNCHANGED <<word, page>>
    OBVIOUS
  <2>0. word \in Nat /\ word % 8 = 2
    BY Flags DEF IInv, VariableTypes, WordInv
  <2>1. \A t \in Threads : pc[t] \notin {"io", "upIO", "write"}
    <3>1. word % 8 # 4 /\ word % 8 # 1
      BY <2>0
    <3>2. QED
      BY <3>1 DEF IInv, WordInv
  <2>2. ASSUME NEW t \in Threads, pc[t] \in {"reading", "casWrite", "casIO"} PROVE word # ver[t]
    BY <2>0, <2>2 DEF IInv, VersionInv
  <2>3. Allocated
    BY <2>0 DEF Allocated
  <2>4. ASSUME NEW t \in Threads, NEW d, NEW l, pc[t] \in {"reading", "casWrite", "casIO"},
               CompareExchange(t, d, l)
        PROVE  UNCHANGED <<word, page>>
    BY <2>2, <2>4 DEF CompareExchange, Restart
  <2>5. QED
    BY <2>1, <2>3, <2>4 DEF Next, setLockState, readLockOrRestart, readUnlockOrRestart,
       writeLockOrRestart, upgradeToWriteLockOrRestart, IOLockOrRestart,
       upgradeToIOLockOrRestart, IOUpgradeLoad, IOUpgradeStore, IOUnlock, Unlock,
       writeUnlock, writeUnlockObsolete, Restart, ReadField, WriteField
<1>3. QED
  BY <1>1, <1>2, Invariance, PTL DEF Spec, VersionNeverGoesBack
=============================================================================
