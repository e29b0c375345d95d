------------------------------ MODULE OptLock ------------------------------
(***************************************************************************)
(* The optimistic page lock of DEX (struct OptLock, btree_node.h): one     *)
(* 64-bit word per buffer-pool frame.  Bit 0 is the IO lock, bit 1 the     *)
(* obsolete tag, bit 2 the write lock, and the bits above count versions,  *)
(* so that taking and releasing the write lock (+4 each) carries into the  *)
(* version.  Threads read a page without a lock and validate afterwards.   *)
(*                                                                         *)
(* The page behind the lock is a function from Fields to Values that is    *)
(* read and written one field at a time, because a memcpy of a page is not *)
(* atomic.  A frame is handed out write-locked, once, by the allocator     *)
(* (setLockState); afterwards the word stays with the frame when the frame *)
(* is reused for another page (the copies skip the first 8 bytes).         *)
(***************************************************************************)
EXTENDS Integers

CONSTANTS
    Threads,    \* worker threads of one compute node
    Fields,     \* the separately accessed parts of a page
    Values,     \* what a part can hold
    InitValue,  \* the content of a zeroed frame
    MaxWord     \* bound on the lock word: no acquisition above it

ASSUME OptLockAssumption == InitValue \in Values /\ MaxWord \in Nat

VARIABLES
    word,   \* typeVersionLockObsolete
    page,   \* the page's content
    pc,     \* what each thread is doing with this page
    ver,    \* the version a thread loaded (local variable)
    copy    \* the fields a thread has read or written since then

vars == <<word, page, pc, ver, copy>>

(***************************************************************************)
(* Faulty variants of definitions below, each a plausible slip in the code.*)
(* The project's mutation runs substitute them, and no other run uses them.*)
(***************************************************************************)
\* The comparison drops the write bit as well as the IO bit.
Bad_Masked(w) == w \div 8

isLocked(w) == (w \div 4) % 2 = 1
isObsolete(w) == (w \div 2) % 2 = 1
isIO(w) == w % 2 = 1

\* The version with the IO bit forced to one: w | 1, without the bit itself.
Masked(w) == w \div 2

NoCopy == [f \in {} |-> InitValue]
PC == {"idle", "reading", "casWrite", "casIO", "upIO", "io", "write"}
Copies == UNION {[F -> Values] : F \in SUBSET Fields}

Goto(t, l) == pc' = [pc EXCEPT ![t] = l]
Load(t) == ver' = [ver EXCEPT ![t] = word]
Forget(t) == copy' = [copy EXCEPT ![t] = NoCopy]

Remember(t, f, v) ==
    copy' = [copy EXCEPT ![t] =
                [g \in DOMAIN copy[t] \cup {f} |-> IF g = f THEN v ELSE copy[t][g]]]

Restart(t) == Goto(t, "idle") /\ Forget(t) /\ UNCHANGED <<word, page, ver>>

Allocated == word # 0

Init ==
    /\ word = 0
    /\ page = [f \in Fields |-> InitValue]
    /\ pc = [t \in Threads |-> "idle"]
    /\ ver = [t \in Threads |-> 0]
    /\ copy = [t \in Threads |-> NoCopy]

(***************************************************************************)
(* Operations.  An operation that sets needRestart without having touched  *)
(* the word and from the idle state leaves everything unchanged.           *)
(***************************************************************************)
\* setLockState: a fresh frame is given to the allocating thread, locked.
setLockState(t) ==
    /\ ~Allocated
    /\ pc[t] = "idle"
    /\ word' = 4
    /\ Goto(t, "write")
    /\ UNCHANGED <<page, ver, copy>>

\* readLockOrRestart: the IO bit does not stop a reader.
readLockOrRestart(t) ==
    /\ Allocated
    /\ pc[t] = "idle"
    /\ ~isLocked(word) /\ ~isObsolete(word)
    /\ Load(t)
    /\ Goto(t, "reading")
    /\ UNCHANGED <<word, page, copy>>

ReadField(t, f) ==
    /\ pc[t] = "reading"
    /\ f \notin DOMAIN copy[t]
    /\ Remember(t, f, page[f])
    /\ UNCHANGED <<word, page, pc, ver>>

\* readUnlockOrRestart, for the outcome needRestart = FALSE: the values the
\* thread has read are now used.  The comparison ignores the IO bit.
Validated(t) == Masked(ver[t]) = Masked(word)

readUnlockOrRestart(t) ==
    /\ pc[t] = "reading"
    /\ Restart(t)

\* An acquisition that swaps in its own version, whatever the word is now.
Bad_CompareExchange(t, d, l) ==
    /\ word < MaxWord
    /\ word' = ver[t] + d
    /\ ver' = [ver EXCEPT ![t] = ver[t] + d]
    /\ Goto(t, l)
    /\ UNCHANGED <<page, copy>>

\* An upgrade that reloads the word and so forgets the version it had read.
Bad_upgradeToWriteLockOrRestart(t) ==
    /\ pc[t] \in {"reading", "casWrite"}
    /\ word % 8 = 0
    /\ word < MaxWord
    /\ word' = word + 4
    /\ Load(t)
    /\ Goto(t, "write")
    /\ UNCHANGED <<page, copy>>

\* The CAS at the heart of every acquisition, adding d to the loaded version.
CompareExchange(t, d, l) ==
    \/ /\ word = ver[t]
       /\ word < MaxWord
       /\ word' = word + d
       /\ ver' = [ver EXCEPT ![t] = word + d]
       /\ Goto(t, l)
       /\ UNCHANGED <<page, copy>>
    \/ /\ word # ver[t]
       /\ Restart(t)

\* writeLockOrRestart: a load that wants all three low bits clear, then the
\* CAS of upgradeToWriteLockOrRestart.
writeLockOrRestart(t) ==
    /\ Allocated
    /\ pc[t] = "idle"
    /\ word % 8 = 0
    /\ Load(t)
    /\ Goto(t, "casWrite")
    /\ UNCHANGED <<word, page, copy>>

upgradeToWriteLockOrRestart(t) ==
    /\ pc[t] \in {"reading", "casWrite"}
    /\ \/ isIO(ver[t]) /\ Restart(t)
       \/ ~isIO(ver[t]) /\ CompareExchange(t, 4, "write")

IOLockOrRestart(t) ==
    /\ Allocated
    /\ pc[t] = "idle"
    /\ word % 8 = 0
    /\ Load(t)
    /\ Goto(t, "casIO")
    /\ UNCHANGED <<word, page, copy>>

upgradeToIOLockOrRestart(t) ==
    /\ pc[t] \in {"reading", "casIO"}
    /\ \/ isIO(ver[t]) /\ Restart(t)
       \/ ~isIO(ver[t]) /\ CompareExchange(t, 1, "io")

\* IOUpgradeToWriteLockOrRestart is a load and, later, a plain store.
IOUpgradeLoad(t) ==
    /\ pc[t] = "io"
    /\ \/ isIO(word) /\ Load(t) /\ Goto(t, "upIO") /\ UNCHANGED <<word, page, copy>>
       \/ ~isIO(word) /\ Restart(t)

IOUpgradeStore(t) ==
    /\ pc[t] = "upIO"
    /\ word' = ver[t] - 1 + 4
    /\ Goto(t, "write")
    /\ UNCHANGED <<page, ver, copy>>

IOUnlock(t) ==
    /\ pc[t] = "io"
    /\ word' = word - 1
    /\ Goto(t, "idle")
    /\ Forget(t)
    /\ UNCHANGED <<page, ver>>

WriteField(t, f, v) ==
    /\ pc[t] = "write"
    /\ page' = [page EXCEPT ![f] = v]
    /\ Remember(t, f, v)
    /\ UNCHANGED <<word, pc, ver>>

\* A release that clears the write bit instead of carrying into the version.
Bad_Unlock(t, d) ==
    /\ pc[t] = "write"
    /\ word' = word - 4
    /\ Goto(t, "idle")
    /\ Forget(t)
    /\ UNCHANGED <<page, ver>>

Unlock(t, d) ==
    /\ pc[t] = "write"
    /\ word' = word + d
    /\ Goto(t, "idle")
    /\ Forget(t)
    /\ UNCHANGED <<page, ver>>

writeUnlock(t) == Unlock(t, 4)
writeUnlockObsolete(t) == Unlock(t, 6)

Next ==
    \E t \in Threads :
        \/ setLockState(t)
        \/ readLockOrRestart(t) \/ readUnlockOrRestart(t)
        \/ writeLockOrRestart(t) \/ upgradeToWriteLockOrRestart(t)
        \/ IOLockOrRestart(t) \/ upgradeToIOLockOrRestart(t)
        \/ IOUpgradeLoad(t) \/ IOUpgradeStore(t) \/ IOUnlock(t)
        \/ writeUnlock(t) \/ writeUnlockObsolete(t)
        \/ \E f \in Fields : ReadField(t, f)
        \/ \E f \in Fields, v \in Values : WriteField(t, f, v)

Spec == Init /\ [][Next]_vars

-----------------------------------------------------------------------------
(***************************************************************************)
(* Properties                                                              *)
(***************************************************************************)
VariableTypes ==
    /\ word \in Nat
    /\ page \in [Fields -> Values]
    /\ pc \in [Threads -> PC]
    /\ ver \in [Threads -> Nat]
    /\ copy \in [Threads -> Copies]

\* The lock word, the page and the threads' local variables have their types, and
\* no two of the word's three flags are ever set together.
TypeOK == VariableTypes /\ word % 8 \in {0, 1, 2, 4}

Holder(t) == pc[t] \in {"io", "upIO", "write"}

\* At most one thread holds the page, be it as writer or for IO, and the bits
\* of the word say which: the write bit is set exactly while there is a writer,
\* the IO bit exactly while there is an IO holder, and no two flags together.
MutualExclusion ==
    /\ TypeOK
    /\ \A t, u \in Threads : Holder(t) /\ Holder(u) => t = u
    /\ isLocked(word) <=> \E t \in Threads : pc[t] = "write"
    /\ isIO(word) <=> \E t \in Threads : pc[t] \in {"io", "upIO"}

\* No torn or stale read: whenever readUnlockOrRestart (or checkOrRestart) would
\* accept what a reader has copied so far, the copy is the page's content now,
\* and no writer is active.  A frame that was reused meanwhile is covered, as
\* its word is never set back.
ValidatedReadIsCurrent ==
    \A t \in Threads :
        pc[t] = "reading" /\ Validated(t) =>
            /\ \A u \in Threads : pc[u] # "write"
            /\ \A f \in DOMAIN copy[t] : copy[t][f] = page[f]

\* No lost update: what a thread read before it upgraded its read to an IO or a
\* write lock is still the page's content, so a write computed from it does not
\* overwrite an update that it has not seen.
UpgradedReadIsCurrent ==
    \A t \in Threads :
        Holder(t) => \A f \in DOMAIN copy[t] : copy[t][f] = page[f]

\* An old version is never valid again: the masked version never goes back, not even
\* by the plain store of IOUpgradeToWriteLockOrRestart; and writeUnlockObsolete is
\* final, since a CAS prepared before the page became obsolete fails.
VersionNeverGoesBack ==
    [][/\ Masked(word') >= Masked(word)
       /\ isObsolete(word) => UNCHANGED <<word, page>>]_vars
=============================================================================
