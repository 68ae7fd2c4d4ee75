--------------------------- MODULE FSLocks_proofs ---------------------------
(* The safety of FSLocks, for any number of threads, files and handles.    *)
EXTENDS FSLocks, TLAPS, FiniteSetTheorems

OpenCalls ==
  [pc : OpenPcs \cup AccessPcs \cup CopyPcs \cup {"close"}, op : {"open", "copy"}, name : Names,
   flags : Flags \cup {{}}, inum : Inodes \cup {0}, fh : Handles \cup {-1}, k : 0 .. MAX_OPEN_FILES]
AccessCalls == [pc : AccessPcs, op : {"read", "write"}, inum : Inodes \cup {0}, fh : Handles]
CloseCalls == [pc : {"close"}, op : {"close"}, inum : {0}, fh : Handles]

FileInner == {"inode", "rwlock", "work", "failed"}
FileOuter == AccessPcs \cup {"copyinode", "copyrwlock", "destination", "copied", "close",
                             "copyunlock", "copyend"}

(* A call that has come far enough has a handle, or an i-node.             *)
CallOK(c) ==
  /\ c \in {Idle} \cup OpenCalls \cup AccessCalls \cup CloseCalls
  /\ c.pc \in FileOuter => c.fh \in Handles
  /\ c.pc \in {"wrlock", "truncate", "offset", "entry", "delete", "add"} => c.inum \in Inodes
  /\ c.pc = "truncate" => "TRUNC" \in c.flags
  /\ c.pc \in CopyPcs => c.op = "copy"
  /\ c.pc = "close" => c.op \in {"copy", "close"}
CallsOK == DOMAIN call = Threads /\ call = [t \in Threads |-> call[t]] /\ \A t \in Threads : CallOK(call[t])

(* How often a call has locked a handle, the open file table, the i-node   *)
(* table.                                                                  *)
FileDepth(c, fh) ==
  (IF c.pc \in FileInner /\ c.fh = fh THEN 1 ELSE 0)
    + (IF c.pc \in FileOuter /\ c.op = "copy" /\ c.fh = fh THEN 1 ELSE 0)
TableDepth(c) ==
  (IF c.pc = "file" THEN 1 ELSE 0)
    + (IF c.pc \in OpenPcs \cup {"opened"} /\ c.op = "copy" THEN 1 ELSE 0)
InodeDepth(c) == IF c.pc \in {"wrlock", "rwlock", "copyrwlock"} THEN 1 ELSE 0
AloneOn(c, i) ==
  /\ c.pc # "idle" /\ c.inum = i
  /\ \/ c.pc = "truncate" \/ (c.pc = "offset" /\ "TRUNC" \notin c.flags)
     \/ c.pc \in {"work", "unlock"} /\ c.op = "write"

WellFormed(m) == m \in Mutexes /\ (m.owner = NoThread <=> m.depth = 0)
Held(m, t, d) == (m.owner = t <=> d > 0) /\ (m.owner = t => m.depth = d)

FileLocksHeld ==
  \A fh \in Handles :
    /\ WellFormed(file_lock[fh])
    /\ \A t \in Threads : Held(file_lock[fh], t, FileDepth(call[t], fh))

TableLockHeld ==
  /\ WellFormed(open_file_table_lock)
  /\ \A t \in Threads : Held(open_file_table_lock, t, TableDepth(call[t]))

(* What is more than the call needs has been kept, for want of an i-node.  *)
HeldOrKept(m, t, c, free) ==
  /\ InodeDepth(c) > 0 => m.owner = t
  /\ m.owner = t => /\ m.depth >= InodeDepth(c)
                    /\ m.depth > InodeDepth(c) => free = {} /\ c.pc \notin {"entry", "delete"}
InodeLockHeld ==
  /\ WellFormed(inode_table_lock)
  /\ \A t \in Threads : HeldOrKept(inode_table_lock, t, call[t], freeinode_ts)

WritersAlone == \A i \in Inodes, t \in Threads : rwl[i].writer = t <=> AloneOn(call[t], i)

TablesOK ==
  /\ rwl \in [Inodes -> Lock!Rwlocks(Threads)]
  /\ freeinode_ts \subseteq Inodes
  /\ dir \in Seq([name : Names, inum : Inodes]) /\ Len(dir) <= MAX_DIR_ENTRIES
  /\ of_inumber \in [Handles -> Inodes \cup {0}]
  /\ free_open_file_entries \subseteq Handles
  /\ file_lock \in [Handles -> Mutexes]

IInv == TablesOK /\ CallsOK /\ FileLocksHeld /\ TableLockHeld /\ InodeLockHeld /\ WritersAlone

----------------------------------------------------------------------------
(* One thread's mutex goes from one depth to another; nobody else's does.  *)
MutexMoves(m, n, t, d, e) ==
  \/ n = m /\ e = d
  \/ /\ m.owner \in {NoThread, t} /\ n.owner \in {NoThread, t}
     /\ WellFormed(n) /\ Held(n, t, e)

InodeLockMoves(t, c) ==
  LET m == inode_table_lock
      n == inode_table_lock'
  IN  \/ n = m /\ freeinode_ts' \subseteq freeinode_ts /\ HeldOrKept(m, t, c, freeinode_ts')
      \/ /\ m.owner \in {NoThread, t} /\ n.owner \in {NoThread, t}
         /\ WellFormed(n) /\ HeldOrKept(n, t, c, freeinode_ts')

WriterMoves(t, c) ==
  \A i \in Inodes :
    \/ rwl'[i].writer = rwl[i].writer /\ (AloneOn(c, i) <=> AloneOn(call[t], i))
    \/ /\ rwl[i].writer \in {NoThread, t} /\ rwl'[i].writer \in {NoThread, t}
       /\ rwl'[i].writer = t <=> AloneOn(c, i)

(* A lock taken or released by the thread that may.                        *)
LEMMA LockMoves ==
  ASSUME NEW m \in Mutexes, NEW t \in Threads, NEW d \in Nat,
         WellFormed(m), Held(m, t, d), CanLock(m, t)
  PROVE  MutexMoves(m, Locked(m, t), t, d, d + 1)
  BY SizesAssumption DEF WellFormed, Held, CanLock, Locked, MutexMoves, Mutexes

LEMMA UnlockMoves ==
  ASSUME NEW m \in Mutexes, NEW t \in Threads, NEW d \in Nat \ {0},
         WellFormed(m), Held(m, t, d)
  PROVE  MutexMoves(m, Unlocked(m), t, d, d - 1)
  BY SizesAssumption DEF WellFormed, Held, Unlocked, Free, MutexMoves, Mutexes

(* A step in which one thread's call goes on, and its locks with it, keeps *)
(* the invariant.                                                          *)
LEMMA OneThreadMoves ==
  ASSUME IInv, NEW t \in Threads, NEW c, call' = [call EXCEPT ![t] = c],
         CallOK(c), TablesOK',
         \A fh \in Handles : MutexMoves(file_lock[fh], file_lock'[fh], t,
                                        FileDepth(call[t], fh), FileDepth(c, fh)),
         MutexMoves(open_file_table_lock, open_file_table_lock', t,
                    TableDepth(call[t]), TableDepth(c)),
         InodeLockMoves(t, c), WriterMoves(t, c)
  PROVE  IInv'
  <1>1. /\ DOMAIN call' = Threads /\ call'[t] = c
        /\ \A u \in Threads \ {t} : call'[u] = call[u]
    BY DEF IInv, CallsOK
  <1>2. CallsOK'
    BY <1>1 DEF IInv, CallsOK
  <1>3. FileLocksHeld'
    <2> SUFFICES ASSUME NEW fh \in Handles
                 PROVE  /\ WellFormed(file_lock'[fh])
                        /\ \A u \in Threads : Held(file_lock'[fh], u, FileDepth(call'[u], fh))
      BY DEF FileLocksHeld, WellFormed, Held, FileDepth
    <2>1. /\ WellFormed(file_lock[fh])
          /\ \A u \in Threads : Held(file_lock[fh], u, FileDepth(call[u], fh))
      BY DEF IInv, FileLocksHeld
    <2> DEFINE d(u) == FileDepth(call[u], fh)
    <2>2. MutexMoves(file_lock[fh], file_lock'[fh], t, d(t), FileDepth(c, fh))
      OBVIOUS
    <2>3. \A u \in Threads \ {t} : FileDepth(call'[u], fh) = d(u)
      BY <1>1
    <2> HIDE DEF d
    <2> QED BY <1>1, <2>1, <2>2, <2>3, SizesAssumption DEF MutexMoves, Held, d
  <1>4. TableLockHeld'
    <2>1. WellFormed(open_file_table_lock)
          /\ \A u \in Threads : Held(open_file_table_lock, u, TableDepth(call[u]))
      BY DEF IInv, TableLockHeld
    <2>2. \A u \in Threads \ {t} : TableDepth(call'[u]) = TableDepth(call[u])
      BY <1>1
    <2>3. WellFormed(open_file_table_lock')
          /\ \A u \in Threads : Held(open_file_table_lock', u, TableDepth(call'[u]))
      BY <1>1, <2>1, <2>2, SizesAssumption DEF MutexMoves, Held
    <2> QED BY <2>3 DEF TableLockHeld, WellFormed, Held, TableDepth
  <1>5. InodeLockHeld'
    <2>1. WellFormed(inode_table_lock)
          /\ \A u \in Threads : HeldOrKept(inode_table_lock, u, call[u], freeinode_ts)
      BY DEF IInv, InodeLockHeld
    <2>2. WellFormed(inode_table_lock')
          /\ \A u \in Threads : HeldOrKept(inode_table_lock', u, call'[u], freeinode_ts')
      BY <1>1, <2>1, SizesAssumption DEF InodeLockMoves, HeldOrKept
    <2> QED BY <2>2 DEF InodeLockHeld, WellFormed, HeldOrKept, InodeDepth
  <1>6. WritersAlone'
    <2>1. \A i \in Inodes, u \in Threads : rwl'[i].writer = u <=> AloneOn(call'[u], i)
      BY <1>1, SizesAssumption DEF IInv, WritersAlone, WriterMoves
    <2> QED BY <2>1 DEF WritersAlone, AloneOn
  <1> QED BY <1>2, <1>3, <1>4, <1>5, <1>6 DEF IInv

----------------------------------------------------------------------------
(* What the invariant says of one thread.                                  *)
LEMMA OneThread ==
  ASSUME IInv, NEW t \in Threads
  PROVE  /\ CallOK(call[t]) /\ call[t].pc \in {"idle", "close"} \cup OpenPcs \cup AccessPcs \cup CopyPcs
         /\ call[t].pc \in OpenPcs \cup CopyPcs => call[t] \in OpenCalls
         /\ call[t].pc \in AccessPcs => call[t] \in OpenCalls \cup AccessCalls
         /\ call[t].pc = "close" => call[t] \in OpenCalls \cup CloseCalls
         /\ WellFormed(open_file_table_lock) /\ WellFormed(inode_table_lock)
         /\ Held(open_file_table_lock, t, TableDepth(call[t]))
         /\ HeldOrKept(inode_table_lock, t, call[t], freeinode_ts)
         /\ \A fh \in Handles : WellFormed(file_lock[fh])
                                /\ Held(file_lock[fh], t, FileDepth(call[t], fh))
         /\ \A i \in Inodes : rwl[i].writer = t <=> AloneOn(call[t], i)
  <1>1. CallOK(call[t])
    BY DEF IInv, CallsOK
  <1>2. /\ call[t].pc \in {"idle", "close"} \cup OpenPcs \cup AccessPcs \cup CopyPcs
        /\ call[t].pc \in OpenPcs \cup CopyPcs => call[t] \in OpenCalls
        /\ call[t].pc \in AccessPcs => call[t] \in OpenCalls \cup AccessCalls
        /\ call[t].pc = "close" => call[t] \in OpenCalls \cup CloseCalls
    BY <1>1 DEF CallOK, OpenCalls, AccessCalls, CloseCalls, Idle, OpenPcs, AccessPcs, CopyPcs
  <1> QED BY <1>1, <1>2 DEF IInv, FileLocksHeld, TableLockHeld, InodeLockHeld, WritersAlone

(* A call of which only the program counter changes.                       *)
LEMMA GoesMoves ==
  ASSUME IInv, NEW t \in Threads, call[t] \in OpenCalls \cup AccessCalls,
         NEW p \in OpenPcs \cup AccessPcs \cup CopyPcs \cup {"close"}, Goes(t, p),
         call[t] \in OpenCalls \/ p \in AccessPcs,
         p \in FileOuter => call[t].fh \in Handles,
         p \in {"wrlock", "truncate", "offset", "entry", "delete", "add"} => call[t].inum \in Inodes,
         p = "truncate" => "TRUNC" \in call[t].flags,
         p \in CopyPcs \cup {"close"} => call[t].op = "copy"
  PROVE  \E c : /\ call' = [call EXCEPT ![t] = c] /\ CallOK(c) /\ c.pc = p
                /\ c.op = call[t].op /\ c.inum = call[t].inum /\ c.fh = call[t].fh
                /\ call[t] \in OpenCalls => c.flags = call[t].flags
  <1> DEFINE c == [call[t] EXCEPT !.pc = p]
  <1>1. call' = [call EXCEPT ![t] = c]
    BY DEF Goes
  <1>2. /\ c \in OpenCalls \cup AccessCalls /\ c.pc = p
        /\ c.op = call[t].op /\ c.inum = call[t].inum /\ c.fh = call[t].fh
        /\ call[t] \in OpenCalls => c.flags = call[t].flags
    <2>1. CASE call[t] \in OpenCalls
      BY <2>1 DEF OpenCalls
    <2>2. CASE call[t] \in AccessCalls
      <3>1. "flags" \notin DOMAIN call[t]
        BY <2>2 DEF AccessCalls
      <3>2. call[t] \notin OpenCalls
        BY <3>1 DEF OpenCalls
      <3> QED BY <2>2, <3>2 DEF AccessCalls
    <2> QED BY <2>1, <2>2
  <1>3. CallOK(c)
    <2>1. p = "truncate" => call[t] \in OpenCalls
      BY DEF AccessPcs
    <2> HIDE DEF c
    <2> QED BY <1>2, <2>1 DEF CallOK, CopyPcs
  <1> HIDE DEF c
  <1> QED BY <1>1, <1>2, <1>3

(* A thread in no call has no lock to give back.                           *)
LEMMA IdleHolds ==
  /\ CallOK(Idle) /\ InodeDepth(Idle) = 0 /\ TableDepth(Idle) = 0 /\ Idle.pc = "idle"
  /\ \A i \in Inodes : ~AloneOn(Idle, i)
  /\ \A fh \in Handles : FileDepth(Idle, fh) = 0
  <1>1. Idle.pc = "idle"
    BY DEF Idle
  <1> QED BY <1>1
  DEF CallOK, InodeDepth, TableDepth, AloneOn, FileDepth, FileInner, FileOuter, AccessPcs, OpenPcs, CopyPcs

(* The call that ends: that of tfs_copy_to_external_fs goes on.            *)
LEMMA ReturnMoves ==
  ASSUME IInv, NEW t \in Threads, NEW to \in {"opened", "copied", "copyunlock"},
         NEW h \in Handles \cup {-1}, to \in FileOuter => h \in Handles,
         call[t] \in OpenCalls \cup AccessCalls \cup CloseCalls, Returns(t, to, h)
  PROVE  \E c : /\ call' = [call EXCEPT ![t] = c] /\ CallOK(c)
                /\ InodeDepth(c) = 0 /\ c.pc \notin {"entry", "delete"}
                /\ \A i \in Inodes : ~AloneOn(c, i)
                /\ TableDepth(c) = IF call[t].op = "copy" /\ to = "opened" THEN 1 ELSE 0
                /\ \A fh \in Handles :
                     FileDepth(c, fh) = IF call[t].op = "copy" /\ to \in FileOuter /\ fh = h THEN 1 ELSE 0
  <1>1. CASE call[t].op = "copy"
    <2>1. call[t] \in OpenCalls
      BY <1>1 DEF OpenCalls, AccessCalls, CloseCalls
    <2> DEFINE c == [call[t] EXCEPT !.pc = to, !.fh = h]
    <2>2. c \in OpenCalls /\ c.pc = to /\ c.fh = h /\ c.op = "copy"
      <3>1. to \in OpenPcs \cup AccessPcs \cup CopyPcs \cup {"close"}
        BY DEF CopyPcs
      <3> QED BY <1>1, <2>1, <3>1 DEF OpenCalls
    <2>3. call' = [call EXCEPT ![t] = c]
      BY <1>1 DEF Returns
    <2> HIDE DEF c
    <2>4. CallOK(c) /\ InodeDepth(c) = 0 /\ c.pc \notin {"entry", "delete"}
      BY <2>2 DEF CallOK, InodeDepth, CopyPcs
    <2>5. \A i \in Inodes : ~AloneOn(c, i)
      BY <2>2 DEF AloneOn
    <2>6. TableDepth(c) = IF to = "opened" THEN 1 ELSE 0
      BY <2>2 DEF TableDepth, OpenPcs
    <2>7. \A fh \in Handles : FileDepth(c, fh) = IF to \in FileOuter /\ fh = h THEN 1 ELSE 0
      BY <2>2 DEF FileDepth, FileInner
    <2> QED BY <1>1, <2>3, <2>4, <2>5, <2>6, <2>7
  <1>2. CASE call[t].op # "copy"
    <2>1. call' = [call EXCEPT ![t] = Idle]
      BY <1>2 DEF Returns
    <2> QED BY <1>2, <2>1, IdleHolds
  <1> QED BY <1>1, <1>2

(* The read-write locks keep their form; who has one for writing.          *)
LEMMA RwlockOps ==
  ASSUME NEW l \in Lock!Rwlocks(Threads), NEW t \in Threads
  PROVE  /\ Lock!WrLock(l, t) \in Lock!Rwlocks(Threads) /\ Lock!WrLock(l, t).writer = t
         /\ Lock!RdLock(l) \in Lock!Rwlocks(Threads) /\ Lock!RdLock(l).writer = l.writer
         /\ Lock!Unlock(l, t) \in Lock!Rwlocks(Threads)
         /\ Lock!Unlock(l, t).writer = IF l.writer = t THEN NoThread ELSE l.writer
  <1>1. /\ Lock!WrLock(l, t) \in Lock!Rwlocks(Threads) /\ Lock!WrLock(l, t).writer = t
    BY DEF Lock!Rwlocks, Lock!WrLock
  <1>2. /\ Lock!RdLock(l) \in Lock!Rwlocks(Threads) /\ Lock!RdLock(l).writer = l.writer
    <2>1. CASE Lock!Overflows(l)
      BY <2>1 DEF Lock!RdLock
    <2>2. CASE ~Lock!Overflows(l)
      <3> DEFINE more == l.readers + 1
      <3>1. Lock!RdLock(l) = [l EXCEPT !.readers = more, !.wrphase = FALSE]
        BY <2>2 DEF Lock!RdLock
      <3>2. more \in Int
        BY DEF Lock!Rwlocks
      <3> HIDE DEF more
      <3> QED BY <3>1, <3>2 DEF Lock!Rwlocks
    <2> QED BY <2>1, <2>2
  <1>3. /\ Lock!Unlock(l, t) \in Lock!Rwlocks(Threads)
        /\ Lock!Unlock(l, t).writer = IF l.writer = t THEN NoThread ELSE l.writer
    <2> DEFINE last == l.readers = 0
    <2>1. CASE l.writer = t
      <3>1. Lock!Unlock(l, t) = [l EXCEPT !.writer = NoThread, !.wrphase = last]
        BY <2>1 DEF Lock!Unlock
      <3>2. last \in BOOLEAN
        OBVIOUS
      <3> HIDE DEF last
      <3> QED BY <2>1, <3>1, <3>2 DEF Lock!Rwlocks
    <2>2. CASE l.writer # t
      <3>1. Lock!Unlock(l, t) = [l EXCEPT !.readers = @ - 1]
        BY <2>2 DEF Lock!Unlock
      <3> QED BY <2>2, <3>1 DEF Lock!Rwlocks
    <2> QED BY <2>1, <2>2
  <1> QED BY <1>1, <1>2, <1>3

LEMMA RwUnlockMoves ==
  ASSUME IInv, NEW t \in Threads, NEW c, RwUnlock(t, call[t].inum),
         \A i \in Inodes : ~AloneOn(c, i)
  PROVE  rwl' \in [Inodes -> Lock!Rwlocks(Threads)] /\ WriterMoves(t, c)
  <1> DEFINE n == call[t].inum
  <1>1. rwl \in [Inodes -> Lock!Rwlocks(Threads)] /\ rwl' = [rwl EXCEPT ![n] = Lock!Unlock(rwl[n], t)]
    BY DEF IInv, TablesOK, RwUnlock
  <1>2. rwl' \in [Inodes -> Lock!Rwlocks(Threads)]
    BY <1>1, RwlockOps
  <1>3. ASSUME NEW i \in Inodes
        PROVE  \/ rwl'[i].writer = rwl[i].writer /\ (AloneOn(c, i) <=> AloneOn(call[t], i))
               \/ /\ rwl[i].writer \in {NoThread, t} /\ rwl'[i].writer \in {NoThread, t}
                  /\ rwl'[i].writer = t <=> AloneOn(c, i)
    <2>1. rwl[i].writer = t <=> AloneOn(call[t], i)
      BY OneThread
    <2>2. CASE i = n
      <3>1. rwl'[i].writer = IF rwl[i].writer = t THEN NoThread ELSE rwl[i].writer
        BY <1>1, <2>2, RwlockOps
      <3> QED BY <2>1, <3>1, SizesAssumption
    <2>3. CASE i # n
      BY <1>1, <2>1, <2>3 DEF AloneOn
    <2> QED BY <2>2, <2>3
  <1> QED BY <1>2, <1>3 DEF WriterMoves

(* The i-node table's lock and its i-nodes stay as they are.               *)
LEMMA InodeLockStays ==
  ASSUME IInv, NEW t \in Threads, NEW c, InodeDepth(c) = InodeDepth(call[t]),
         c.pc \notin {"entry", "delete"}, UNCHANGED <<inode_table_lock, freeinode_ts>>
  PROVE  InodeLockMoves(t, c)
  BY OneThread DEF InodeLockMoves, HeldOrKept

(* It is taken for one look at the table, and released again.              *)
LEMMA InodeLockTaken ==
  ASSUME IInv, NEW t \in Threads, NEW c, CanLock(inode_table_lock, t),
         InodeDepth(call[t]) = 0, InodeDepth(c) = 1, c.pc \notin {"entry", "delete"},
         inode_table_lock' = Locked(inode_table_lock, t), UNCHANGED freeinode_ts
  PROVE  InodeLockMoves(t, c)
  BY OneThread, SizesAssumption
  DEF InodeLockMoves, HeldOrKept, WellFormed, Mutexes, CanLock, Locked

LEMMA InodeLockReleased ==
  ASSUME IInv, NEW t \in Threads, NEW c,
         InodeDepth(call[t]) = 1, InodeDepth(c) = 0, c.pc \notin {"entry", "delete"},
         inode_table_lock' = Unlocked(inode_table_lock), UNCHANGED freeinode_ts
  PROVE  InodeLockMoves(t, c)
  BY OneThread, SizesAssumption
  DEF InodeLockMoves, HeldOrKept, WellFormed, Mutexes, Unlocked, Free

(* One handle's lock is taken, or released.                                *)
LEMMA FileLockMoves ==
  ASSUME IInv, NEW t \in Threads, NEW c, NEW h \in Handles, CanLock(file_lock[h], t),
         file_lock' = [file_lock EXCEPT ![h] = Locked(@, t)],
         FileDepth(call[t], h) \in Nat, FileDepth(c, h) = FileDepth(call[t], h) + 1,
         \A fh \in Handles \ {h} : FileDepth(c, fh) = FileDepth(call[t], fh)
  PROVE  /\ file_lock' \in [Handles -> Mutexes]
         /\ \A fh \in Handles : MutexMoves(file_lock[fh], file_lock'[fh], t,
                                           FileDepth(call[t], fh), FileDepth(c, fh))
  <1>1. file_lock \in [Handles -> Mutexes] /\ file_lock'[h] = Locked(file_lock[h], t)
    BY DEF IInv, TablesOK
  <1>2. file_lock' \in [Handles -> Mutexes] /\ \A fh \in Handles \ {h} : file_lock'[fh] = file_lock[fh]
    BY <1>1 DEF Locked, Mutexes
  <1>3. MutexMoves(file_lock[h], file_lock'[h], t, FileDepth(call[t], h), FileDepth(c, h))
    BY <1>1, OneThread, LockMoves DEF WellFormed
  <1> QED BY <1>2, <1>3 DEF MutexMoves

LEMMA FileUnlockMoves ==
  ASSUME IInv, NEW t \in Threads, NEW c, NEW h \in Handles,
         file_lock' = [file_lock EXCEPT ![h] = Unlocked(@)],
         FileDepth(c, h) \in Nat, FileDepth(call[t], h) = FileDepth(c, h) + 1,
         \A fh \in Handles \ {h} : FileDepth(c, fh) = FileDepth(call[t], fh)
  PROVE  /\ file_lock' \in [Handles -> Mutexes]
         /\ \A fh \in Handles : MutexMoves(file_lock[fh], file_lock'[fh], t,
                                           FileDepth(call[t], fh), FileDepth(c, fh))
  <1>1. file_lock \in [Handles -> Mutexes] /\ file_lock'[h] = Unlocked(file_lock[h])
    BY DEF IInv, TablesOK
  <1>2. MutexMoves(file_lock[h], file_lock'[h], t, FileDepth(call[t], h), FileDepth(c, h))
    BY <1>1, OneThread, UnlockMoves DEF WellFormed
  <1>3. file_lock'[h] \in Mutexes
    BY <1>1, <1>2 DEF MutexMoves, WellFormed
  <1>4. file_lock' \in [Handles -> Mutexes] /\ \A fh \in Handles \ {h} : file_lock'[fh] = file_lock[fh]
    BY <1>1, <1>3
  <1> QED BY <1>2, <1>4 DEF MutexMoves

(* A step that touches no lock.                                            *)
LEMMA NoLockMoves ==
  ASSUME IInv, NEW t \in Threads, NEW c, call' = [call EXCEPT ![t] = c], UNCHANGED locks,
         CallOK(c), TablesOK',
         \A fh \in Handles : FileDepth(c, fh) = FileDepth(call[t], fh),
         TableDepth(c) = TableDepth(call[t]), InodeLockMoves(t, c),
         \A i \in Inodes : AloneOn(c, i) <=> AloneOn(call[t], i)
  PROVE  IInv'
  <1>1. \A fh \in Handles : MutexMoves(file_lock[fh], file_lock'[fh], t,
                                       FileDepth(call[t], fh), FileDepth(c, fh))
    BY DEF MutexMoves, locks
  <1>2. MutexMoves(open_file_table_lock, open_file_table_lock', t, TableDepth(call[t]), TableDepth(c))
    BY DEF MutexMoves, locks
  <1>3. WriterMoves(t, c)
    BY DEF WriterMoves, locks
  <1> QED BY <1>1, <1>2, <1>3, OneThreadMoves

----------------------------------------------------------------------------
(* tfs_open.                                                               *)

LEMMA OpenFoundKeeps ==
  ASSUME IInv, NEW t \in Threads, OpenFound(t) PROVE IInv'
  <1>1. PICK k \in DOMAIN dir :
          call' = [call EXCEPT ![t] = [@ EXCEPT !.pc = "wrlock", !.inum = dir[k].inum]]
    BY DEF OpenFound, Entries, IsFirst
  <1> DEFINE c == [call[t] EXCEPT !.pc = "wrlock", !.inum = dir[k].inum]
  <1>2. call' = [call EXCEPT ![t] = c]
    BY <1>1
  <1>3. call[t] \in OpenCalls /\ call[t].pc = "lookup"
    BY OneThread DEF OpenFound, At, OpenPcs
  <1>4. dir[k].inum \in Inodes
    <2> DEFINE E == [name : Names, inum : Inodes]
    <2>1. dir \in Seq(E) /\ \A e \in E : e.inum \in Inodes
      BY DEF IInv, TablesOK
    <2> HIDE DEF E
    <2> QED BY <2>1
  <1>5. /\ c \in OpenCalls /\ c.pc = "wrlock" /\ c.inum \in Inodes
        /\ c.op = call[t].op /\ c.fh = call[t].fh
    BY <1>3, <1>4 DEF OpenCalls, OpenPcs
  <1> HIDE DEF c
  <1>6. CallOK(c) /\ TablesOK'
    BY <1>5 DEF CallOK, FileOuter, AccessPcs, OpenFound, tables, IInv, TablesOK, CopyPcs
  <1>7. \A fh \in Handles : file_lock'[fh] = file_lock[fh] /\ FileDepth(call[t], fh) = FileDepth(c, fh)
    BY <1>3, <1>5 DEF OpenFound, FileDepth, FileInner, FileOuter, AccessPcs
  <1>8. open_file_table_lock' = open_file_table_lock /\ TableDepth(c) = TableDepth(call[t])
    BY <1>3, <1>5 DEF OpenFound, TableDepth, OpenPcs
  <1>9. InodeLockMoves(t, c)
    BY <1>3, <1>5, InodeLockTaken DEF OpenFound, tables, InodeDepth
  <1>10. WriterMoves(t, c)
    BY <1>3, <1>5 DEF OpenFound, WriterMoves, AloneOn
  <1> QED BY <1>2, <1>6, <1>7, <1>8, <1>9, <1>10, OneThreadMoves DEF MutexMoves

LEMMA OpenNotFoundKeeps ==
  ASSUME IInv, NEW t \in Threads, OpenNotFound(t) PROVE IInv'
  <1>1. call[t] \in OpenCalls /\ call[t].pc = "lookup"
    BY OneThread DEF OpenNotFound, At, OpenPcs
  <1>2. \A fh \in Handles : FileDepth(call[t], fh) = 0
    BY <1>1 DEF FileDepth, FileInner, FileOuter, AccessPcs
  <1>3. TableDepth(call[t]) = (IF call[t].op = "copy" THEN 1 ELSE 0) /\ InodeDepth(call[t]) = 0
    BY <1>1 DEF TableDepth, InodeDepth, OpenPcs
  <1>4. UNCHANGED locks /\ TablesOK' /\ freeinode_ts' = freeinode_ts
    BY DEF OpenNotFound, locks, tables, IInv, TablesOK
  <1>5. \A i \in Inodes : ~AloneOn(call[t], i)
    BY <1>1 DEF AloneOn
  <1>6. CASE "CREAT" \in call[t].flags
    <2>1. Goes(t, "create")
      BY <1>6 DEF OpenNotFound
    <2>2. \E c : /\ call' = [call EXCEPT ![t] = c] /\ CallOK(c) /\ c.pc = "create"
                 /\ c.op = call[t].op /\ c.fh = call[t].fh
      BY <1>1, <2>1, GoesMoves DEF OpenPcs, FileOuter, AccessPcs, CopyPcs
    <2>3. PICK c : /\ call' = [call EXCEPT ![t] = c] /\ CallOK(c) /\ c.pc = "create"
                   /\ c.op = call[t].op /\ c.fh = call[t].fh
      BY <2>2
    <2>4. /\ \A fh \in Handles : FileDepth(c, fh) = 0
          /\ TableDepth(c) = (IF call[t].op = "copy" THEN 1 ELSE 0) /\ InodeDepth(c) = 0
          /\ \A i \in Inodes : ~AloneOn(c, i)
      BY <2>3 DEF FileDepth, TableDepth, InodeDepth, AloneOn, FileInner, FileOuter, AccessPcs, OpenPcs
    <2>5. InodeLockMoves(t, c)
      BY <1>3, <1>4, <2>3, <2>4, InodeLockStays DEF locks
    <2> QED BY <1>2, <1>3, <1>4, <1>5, <2>3, <2>4, <2>5, NoLockMoves
  <1>7. CASE "CREAT" \notin call[t].flags
    <2>1. Returns(t, "opened", -1)
      BY <1>7 DEF OpenNotFound
    <2>2. PICK c : /\ call' = [call EXCEPT ![t] = c] /\ CallOK(c)
                   /\ InodeDepth(c) = 0 /\ c.pc \notin {"entry", "delete"}
                   /\ \A i \in Inodes : ~AloneOn(c, i)
                   /\ TableDepth(c) = IF call[t].op = "copy" THEN 1 ELSE 0
                   /\ \A fh \in Handles : FileDepth(c, fh) = 0
      BY <1>1, <2>1, ReturnMoves DEF FileOuter, AccessPcs
    <2>3. InodeLockMoves(t, c)
      BY <1>3, <1>4, <2>2, InodeLockStays DEF locks
    <2> QED BY <1>2, <1>3, <1>4, <1>5, <2>2, <2>3, NoLockMoves
  <1> QED BY <1>6, <1>7

LEMMA OpenWrLockKeeps ==
  ASSUME IInv, NEW t \in Threads, OpenWrLock(t) PROVE IInv'
  <1> DEFINE p == IF "TRUNC" \in call[t].flags THEN "truncate" ELSE "offset"
             n == call[t].inum
  <1>1. call[t] \in OpenCalls /\ call[t].pc = "wrlock" /\ n \in Inodes
    BY OneThread DEF OpenWrLock, At, OpenPcs, CallOK, CopyPcs
  <1>2. \E c : /\ call' = [call EXCEPT ![t] = c] /\ CallOK(c) /\ c.pc = p
               /\ c.op = call[t].op /\ c.inum = n /\ c.fh = call[t].fh /\ c.flags = call[t].flags
    BY <1>1, GoesMoves DEF OpenWrLock, OpenPcs, FileOuter, AccessPcs, CopyPcs
  <1>3. PICK c : /\ call' = [call EXCEPT ![t] = c] /\ CallOK(c) /\ c.pc = p
                 /\ c.op = call[t].op /\ c.inum = n /\ c.fh = call[t].fh /\ c.flags = call[t].flags
    BY <1>2
  <1>4. /\ rwl \in [Inodes -> Lock!Rwlocks(Threads)] /\ rwl[n].writer = NoThread
        /\ rwl' = [rwl EXCEPT ![n] = Lock!WrLock(rwl[n], t)]
    BY DEF OpenWrLock, Lock!CanWrite, IInv, TablesOK
  <1>5. /\ rwl' \in [Inodes -> Lock!Rwlocks(Threads)] /\ rwl'[n].writer = t
        /\ \A i \in Inodes \ {n} : rwl'[i] = rwl[i]
    <2>1. PICK j \in Inodes, m \in Lock!Rwlocks(Threads) : j = n /\ m = Lock!WrLock(rwl[n], t) /\ m.writer = t
      BY <1>1, <1>4, RwlockOps
    <2>2. rwl' = [rwl EXCEPT ![j] = m]
      BY <1>4, <2>1
    <2>3. /\ rwl' \in [Inodes -> Lock!Rwlocks(Threads)] /\ rwl'[j] = m
          /\ \A i \in Inodes \ {j} : rwl'[i] = rwl[i]
      BY <1>4, <2>2
    <2> QED BY <2>1, <2>3
  <1>6. AloneOn(c, n) /\ \A i \in Inodes \ {n} : ~AloneOn(c, i) /\ ~AloneOn(call[t], i)
    BY <1>1, <1>3 DEF AloneOn
  <1>7. WriterMoves(t, c)
    BY <1>4, <1>5, <1>6 DEF WriterMoves
  <1>8. TablesOK'
    BY <1>5 DEF OpenWrLock, tables, IInv, TablesOK
  <1>9. InodeLockMoves(t, c)
    BY <1>1, <1>3, InodeLockReleased DEF OpenWrLock, tables, InodeDepth
  <1>10. /\ \A fh \in Handles : file_lock'[fh] = file_lock[fh] /\ FileDepth(call[t], fh) = FileDepth(c, fh)
         /\ open_file_table_lock' = open_file_table_lock /\ TableDepth(c) = TableDepth(call[t])
    BY <1>1, <1>3 DEF OpenWrLock, FileDepth, TableDepth, FileInner, FileOuter, AccessPcs, OpenPcs
  <1> HIDE DEF p
  <1> QED BY <1>3, <1>7, <1>8, <1>9, <1>10, OneThreadMoves DEF MutexMoves

LEMMA OpenTruncateKeeps ==
  ASSUME IInv, NEW t \in Threads, OpenTruncate(t) PROVE IInv'
  <1>1. call[t] \in OpenCalls /\ call[t].pc = "truncate" /\ call[t].inum \in Inodes /\ "TRUNC" \in call[t].flags
    BY OneThread DEF OpenTruncate, At, OpenPcs, CallOK, CopyPcs
  <1>2. /\ \A fh \in Handles : FileDepth(call[t], fh) = 0
        /\ TableDepth(call[t]) = (IF call[t].op = "copy" THEN 1 ELSE 0) /\ InodeDepth(call[t]) = 0
    BY <1>1 DEF FileDepth, TableDepth, InodeDepth, FileInner, FileOuter, AccessPcs, OpenPcs
  <1>3. PICK c : /\ call' = [call EXCEPT ![t] = c] /\ CallOK(c)
                 /\ InodeDepth(c) = 0 /\ c.pc \notin {"entry", "delete"}
                 /\ \A i \in Inodes : ~AloneOn(c, i)
                 /\ TableDepth(c) = IF call[t].op = "copy" THEN 1 ELSE 0
                 /\ \A fh \in Handles : FileDepth(c, fh) = 0
    <2>1. CASE Goes(t, "offset")
      <3>1. \E c : /\ call' = [call EXCEPT ![t] = c] /\ CallOK(c) /\ c.pc = "offset"
                   /\ c.op = call[t].op /\ c.flags = call[t].flags
        BY <1>1, <2>1, GoesMoves DEF OpenPcs, FileOuter, AccessPcs, CopyPcs
      <3>2. PICK c : /\ call' = [call EXCEPT ![t] = c] /\ CallOK(c) /\ c.pc = "offset"
                     /\ c.op = call[t].op /\ c.flags = call[t].flags
        BY <3>1
      <3>3. /\ InodeDepth(c) = 0 /\ c.pc \notin {"entry", "delete"}
            /\ \A i \in Inodes : ~AloneOn(c, i)
            /\ TableDepth(c) = IF call[t].op = "copy" THEN 1 ELSE 0
            /\ \A fh \in Handles : FileDepth(c, fh) = 0
        BY <1>1, <3>2
        DEF FileDepth, TableDepth, InodeDepth, AloneOn, FileInner, FileOuter, AccessPcs, OpenPcs
      <3> QED BY <3>2, <3>3
    <2>2. CASE Returns(t, "opened", -1)
      BY <1>1, <2>2, ReturnMoves DEF FileOuter, AccessPcs
    <2> QED BY <2>1, <2>2 DEF OpenTruncate
  <1>4. rwl' \in [Inodes -> Lock!Rwlocks(Threads)] /\ WriterMoves(t, c)
    BY <1>3, RwUnlockMoves DEF OpenTruncate
  <1>5. TablesOK'
    BY <1>4 DEF OpenTruncate, tables, IInv, TablesOK
  <1>6. InodeLockMoves(t, c)
    BY <1>2, <1>3, InodeLockStays DEF OpenTruncate, tables
  <1> QED BY <1>2, <1>3, <1>4, <1>5, <1>6, OneThreadMoves DEF OpenTruncate, MutexMoves

LEMMA OpenOffsetKeeps ==
  ASSUME IInv, NEW t \in Threads, OpenOffset(t) PROVE IInv'
  <1>1. call[t] \in OpenCalls /\ call[t].pc = "offset" /\ call[t].inum \in Inodes
    BY OneThread DEF OpenOffset, At, OpenPcs, CallOK, CopyPcs
  <1>2. \E c : /\ call' = [call EXCEPT ![t] = c] /\ CallOK(c) /\ c.pc = "add"
               /\ c.op = call[t].op /\ c.fh = call[t].fh
    BY <1>1, GoesMoves DEF OpenOffset, OpenPcs, FileOuter, AccessPcs, CopyPcs
  <1>3. PICK c : /\ call' = [call EXCEPT ![t] = c] /\ CallOK(c) /\ c.pc = "add"
                 /\ c.op = call[t].op /\ c.fh = call[t].fh
    BY <1>2
  <1>4. /\ \A fh \in Handles : FileDepth(c, fh) = FileDepth(call[t], fh)
        /\ TableDepth(c) = TableDepth(call[t]) /\ InodeDepth(c) = InodeDepth(call[t])
        /\ \A i \in Inodes : ~AloneOn(c, i)
    BY <1>1, <1>3 DEF FileDepth, TableDepth, InodeDepth, AloneOn, FileInner, FileOuter, AccessPcs, OpenPcs
  <1>5. rwl' \in [Inodes -> Lock!Rwlocks(Threads)] /\ WriterMoves(t, c)
    BY <1>4, RwUnlockMoves DEF OpenOffset
  <1>6. TablesOK'
    BY <1>5 DEF OpenOffset, tables, IInv, TablesOK
  <1>7. InodeLockMoves(t, c)
    BY <1>3, <1>4, InodeLockStays DEF OpenOffset, tables
  <1> QED BY <1>3, <1>4, <1>5, <1>6, <1>7, OneThreadMoves DEF OpenOffset, MutexMoves

LEMMA OpenInodeKeeps ==
  ASSUME IInv, NEW t \in Threads, OpenInode(t) PROVE IInv'
  <1>1. PICK n \in freeinode_ts :
          /\ freeinode_ts' = freeinode_ts \ {n}
          /\ call' = [call EXCEPT ![t] = [@ EXCEPT !.pc = "entry", !.inum = n]]
    BY DEF OpenInode
  <1> DEFINE c == [call[t] EXCEPT !.pc = "entry", !.inum = n]
  <1>2. call' = [call EXCEPT ![t] = c]
    BY <1>1
  <1>3. call[t] \in OpenCalls /\ call[t].pc = "create" /\ n \in Inodes
    BY OneThread DEF OpenInode, At, OpenPcs, IInv, TablesOK
  <1>4. c \in OpenCalls /\ c.pc = "entry" /\ c.inum = n /\ c.op = call[t].op /\ c.fh = call[t].fh
    BY <1>3 DEF OpenCalls, OpenPcs
  <1> HIDE DEF c
  <1>5. CallOK(c) /\ TablesOK' /\ UNCHANGED locks
    BY <1>1, <1>3, <1>4 DEF CallOK, FileOuter, AccessPcs, OpenInode, locks, IInv, TablesOK, CopyPcs
  <1>6. /\ \A fh \in Handles : FileDepth(c, fh) = FileDepth(call[t], fh)
        /\ TableDepth(c) = TableDepth(call[t])
        /\ \A i \in Inodes : AloneOn(c, i) <=> AloneOn(call[t], i)
    BY <1>3, <1>4 DEF FileDepth, TableDepth, AloneOn, FileInner, FileOuter, AccessPcs, OpenPcs
  <1>7. InodeLockMoves(t, c)
    BY <1>1, <1>3, <1>4, <1>5, OneThread DEF locks, InodeLockMoves, HeldOrKept, InodeDepth, WellFormed, Mutexes
  <1> QED BY <1>2, <1>5, <1>6, <1>7, NoLockMoves

(* inode_create that fails keeps the lock, and there is no i-node left.    *)
LEMMA OpenNoInodeKeeps ==
  ASSUME IInv, NEW t \in Threads, OpenNoInode(t) PROVE IInv'
  <1>1. call[t] \in OpenCalls /\ call[t].pc = "create"
    BY OneThread DEF OpenNoInode, At, OpenPcs
  <1>2. PICK c : /\ call' = [call EXCEPT ![t] = c] /\ CallOK(c)
                 /\ InodeDepth(c) = 0 /\ c.pc \notin {"entry", "delete"}
                 /\ \A i \in Inodes : ~AloneOn(c, i)
                 /\ TableDepth(c) = IF call[t].op = "copy" THEN 1 ELSE 0
                 /\ \A fh \in Handles : FileDepth(c, fh) = 0
    BY <1>1, ReturnMoves DEF OpenNoInode, FileOuter, AccessPcs
  <1>3. /\ \A fh \in Handles : FileDepth(call[t], fh) = 0
        /\ TableDepth(call[t]) = (IF call[t].op = "copy" THEN 1 ELSE 0) /\ InodeDepth(call[t]) = 0
        /\ \A i \in Inodes : ~AloneOn(call[t], i)
    BY <1>1 DEF FileDepth, TableDepth, InodeDepth, AloneOn, FileInner, FileOuter, AccessPcs, OpenPcs
  <1>4. TablesOK' /\ WriterMoves(t, c)
    BY <1>2, <1>3 DEF OpenNoInode, tables, IInv, TablesOK, WriterMoves
  <1>5. InodeLockMoves(t, c)
    BY <1>2, <1>3, OneThread, SizesAssumption
    DEF OpenNoInode, tables, InodeLockMoves, HeldOrKept, WellFormed, Mutexes, CanLock, Locked
  <1> QED BY <1>2, <1>3, <1>4, <1>5, OneThreadMoves DEF OpenNoInode, MutexMoves

LEMMA OpenEntryKeeps ==
  ASSUME IInv, NEW t \in Threads, OpenEntry(t) PROVE IInv'
  <1>1. call[t] \in OpenCalls /\ call[t].pc = "entry" /\ call[t].inum \in Inodes
    BY OneThread DEF OpenEntry, At, OpenPcs, CallOK, CopyPcs
  <1>2. PICK p \in {"add", "delete"} : Goes(t, p)
    BY DEF OpenEntry
  <1>3. \E c : /\ call' = [call EXCEPT ![t] = c] /\ CallOK(c) /\ c.pc = p
               /\ c.op = call[t].op /\ c.fh = call[t].fh
    BY <1>1, <1>2, GoesMoves DEF OpenPcs, FileOuter, AccessPcs, CopyPcs
  <1>4. PICK c : /\ call' = [call EXCEPT ![t] = c] /\ CallOK(c) /\ c.pc = p
                 /\ c.op = call[t].op /\ c.fh = call[t].fh
    BY <1>3
  <1>5. /\ \A fh \in Handles : FileDepth(c, fh) = FileDepth(call[t], fh)
        /\ TableDepth(c) = TableDepth(call[t]) /\ InodeDepth(c) = 0 /\ InodeDepth(call[t]) = 0
        /\ \A i \in Inodes : AloneOn(c, i) <=> AloneOn(call[t], i)
    BY <1>1, <1>4 DEF FileDepth, TableDepth, InodeDepth, AloneOn, FileInner, FileOuter, AccessPcs, OpenPcs
  <1>6. dir' \in Seq([name : Names, inum : Inodes]) /\ Len(dir') <= MAX_DIR_ENTRIES
    <2> DEFINE E == [name : Names, inum : Inodes]
               e == [name |-> call[t].name, inum |-> call[t].inum]
    <2>1. dir \in Seq(E) /\ Len(dir) <= MAX_DIR_ENTRIES
      BY DEF IInv, TablesOK
    <2>2. e \in E
      BY <1>1 DEF OpenCalls
    <2>3. CASE Room
      <3>1. dir' = Append(dir, e)
        BY <2>3 DEF OpenEntry
      <3> HIDE DEF E, e
      <3>2. dir' \in Seq(E) /\ Len(dir') = Len(dir) + 1 /\ Len(dir) \in Nat
        BY <2>1, <2>2, <3>1
      <3> QED BY <2>1, <2>3, <3>2, SizesAssumption DEF Room, E
    <2>4. CASE ~Room
      BY <2>1, <2>4 DEF OpenEntry
    <2> QED BY <2>3, <2>4
  <1>7. TablesOK' /\ UNCHANGED locks /\ freeinode_ts' = freeinode_ts
    BY <1>6 DEF OpenEntry, locks, IInv, TablesOK
  <1>8. InodeLockMoves(t, c)
    BY <1>1, <1>4, <1>5, <1>7, OneThread DEF locks, InodeLockMoves, HeldOrKept
  <1> QED BY <1>4, <1>5, <1>7, <1>8, NoLockMoves

(* Nobody has kept the lock, or the thread could not have had it.          *)
LEMMA OpenDeleteKeeps ==
  ASSUME IInv, NEW t \in Threads, OpenDelete(t) PROVE IInv'
  <1>1. call[t] \in OpenCalls /\ call[t].pc = "delete" /\ call[t].inum \in Inodes
    BY OneThread DEF OpenDelete, At, OpenPcs, CallOK, CopyPcs
  <1>2. PICK c : /\ call' = [call EXCEPT ![t] = c] /\ CallOK(c)
                 /\ InodeDepth(c) = 0 /\ c.pc \notin {"entry", "delete"}
                 /\ \A i \in Inodes : ~AloneOn(c, i)
                 /\ TableDepth(c) = IF call[t].op = "copy" THEN 1 ELSE 0
                 /\ \A fh \in Handles : FileDepth(c, fh) = 0
    BY <1>1, ReturnMoves DEF OpenDelete, FileOuter, AccessPcs
  <1>3. /\ \A fh \in Handles : FileDepth(call[t], fh) = 0
        /\ TableDepth(call[t]) = (IF call[t].op = "copy" THEN 1 ELSE 0) /\ InodeDepth(call[t]) = 0
        /\ \A i \in Inodes : ~AloneOn(call[t], i)
    BY <1>1 DEF FileDepth, TableDepth, InodeDepth, AloneOn, FileInner, FileOuter, AccessPcs, OpenPcs
  <1>4. TablesOK' /\ UNCHANGED locks
    BY <1>1 DEF OpenDelete, Deleted, locks, IInv, TablesOK
  <1>5. InodeLockMoves(t, c)
    BY <1>1, <1>2, <1>3, <1>4, OneThread, SizesAssumption
    DEF OpenDelete, locks, InodeLockMoves, HeldOrKept, WellFormed, Mutexes, CanLock
  <1> QED BY <1>2, <1>3, <1>4, <1>5, NoLockMoves

LEMMA OpenAddKeeps ==
  ASSUME IInv, NEW t \in Threads, OpenAdd(t) PROVE IInv'
  <1> DEFINE h == call[t].k
  <1>1. call[t] \in OpenCalls /\ call[t].pc = "add" /\ call[t].inum \in Inodes /\ h \in Handles
    BY OneThread DEF OpenAdd, At, OpenPcs, CallOK, CopyPcs
  <1>2. /\ \A fh \in Handles : FileDepth(call[t], fh) = 0
        /\ TableDepth(call[t]) = (IF call[t].op = "copy" THEN 1 ELSE 0) /\ InodeDepth(call[t]) = 0
        /\ \A i \in Inodes : ~AloneOn(call[t], i)
    BY <1>1 DEF FileDepth, TableDepth, InodeDepth, AloneOn, FileInner, FileOuter, AccessPcs, OpenPcs
  <1>3. TablesOK' /\ UNCHANGED locks /\ freeinode_ts' = freeinode_ts
    BY <1>1 DEF OpenAdd, locks, IInv, TablesOK
  <1>4. PICK c : /\ call' = [call EXCEPT ![t] = c] /\ CallOK(c)
                 /\ InodeDepth(c) = 0 /\ c.pc \notin {"entry", "delete"}
                 /\ \A i \in Inodes : ~AloneOn(c, i)
                 /\ TableDepth(c) = IF call[t].op = "copy" THEN 1 ELSE 0
                 /\ \A fh \in Handles : FileDepth(c, fh) = 0
    <2>1. CASE h \in free_open_file_entries
      BY <1>1, <2>1, ReturnMoves DEF OpenAdd, FileOuter, AccessPcs
    <2>2. CASE h \notin free_open_file_entries
      <3> DEFINE c == [call[t] EXCEPT !.k = h + 1]
      <3>1. call' = [call EXCEPT ![t] = c]
        BY <2>2 DEF OpenAdd
      <3>2. h + 1 \in 0 .. MAX_OPEN_FILES
        BY <1>1, SizesAssumption DEF Handles
      <3>3. c \in OpenCalls /\ c.pc = "add" /\ c.inum \in Inodes /\ c.op = call[t].op
        <4> DEFINE j == h + 1
        <4> HIDE DEF j
        <4>1. j \in 0 .. MAX_OPEN_FILES
          BY <3>2 DEF j
        <4>2. /\ [call[t] EXCEPT !.k = j] \in OpenCalls /\ [call[t] EXCEPT !.k = j].pc = "add"
              /\ [call[t] EXCEPT !.k = j].inum \in Inodes
              /\ [call[t] EXCEPT !.k = j].op = call[t].op
          BY <1>1, <4>1 DEF OpenCalls
        <4> QED BY <4>2 DEF j
      <3> HIDE DEF c
      <3>4. /\ InodeDepth(c) = 0 /\ c.pc \notin {"entry", "delete"} /\ CallOK(c)
            /\ \A i \in Inodes : ~AloneOn(c, i)
            /\ TableDepth(c) = IF call[t].op = "copy" THEN 1 ELSE 0
            /\ \A fh \in Handles : FileDepth(c, fh) = 0
        BY <3>3
        DEF CallOK, FileDepth, TableDepth, InodeDepth, AloneOn, FileInner, FileOuter, AccessPcs, OpenPcs, CopyPcs
      <3> QED BY <3>1, <3>4
    <2> QED BY <2>1, <2>2
  <1>5. InodeLockMoves(t, c)
    BY <1>2, <1>3, <1>4, InodeLockStays DEF locks
  <1> QED BY <1>2, <1>3, <1>4, <1>5, NoLockMoves

LEMMA OpenTableFullKeeps ==
  ASSUME IInv, NEW t \in Threads, OpenTableFull(t) PROVE IInv'
  <1>1. call[t] \in OpenCalls /\ call[t].pc = "add"
    BY OneThread DEF OpenTableFull, At, OpenPcs
  <1>2. /\ \A fh \in Handles : FileDepth(call[t], fh) = 0
        /\ TableDepth(call[t]) = (IF call[t].op = "copy" THEN 1 ELSE 0) /\ InodeDepth(call[t]) = 0
        /\ \A i \in Inodes : ~AloneOn(call[t], i)
    BY <1>1 DEF FileDepth, TableDepth, InodeDepth, AloneOn, FileInner, FileOuter, AccessPcs, OpenPcs
  <1>3. TablesOK' /\ UNCHANGED locks /\ freeinode_ts' = freeinode_ts
    BY DEF OpenTableFull, locks, tables, IInv, TablesOK
  <1>4. PICK c : /\ call' = [call EXCEPT ![t] = c] /\ CallOK(c)
                 /\ InodeDepth(c) = 0 /\ c.pc \notin {"entry", "delete"}
                 /\ \A i \in Inodes : ~AloneOn(c, i)
                 /\ TableDepth(c) = IF call[t].op = "copy" THEN 1 ELSE 0
                 /\ \A fh \in Handles : FileDepth(c, fh) = 0
    BY <1>1, ReturnMoves DEF OpenTableFull, FileOuter, AccessPcs
  <1>5. InodeLockMoves(t, c)
    BY <1>2, <1>3, <1>4, InodeLockStays DEF locks
  <1> QED BY <1>2, <1>3, <1>4, <1>5, NoLockMoves

----------------------------------------------------------------------------
(* tfs_close, tfs_write and tfs_read.                                      *)

LEMMA TfsCloseKeeps ==
  ASSUME IInv, NEW t \in Threads, TfsClose(t) PROVE IInv'
  <1> DEFINE h == call[t].fh
  <1>1. call[t] \in OpenCalls \cup CloseCalls /\ call[t].pc = "close" /\ h \in Handles
    BY OneThread DEF TfsClose, At, FileOuter, CallOK
  <1>2. PICK c : /\ call' = [call EXCEPT ![t] = c] /\ CallOK(c)
                 /\ InodeDepth(c) = 0 /\ c.pc \notin {"entry", "delete"}
                 /\ \A i \in Inodes : ~AloneOn(c, i)
                 /\ TableDepth(c) = 0
                 /\ \A fh \in Handles : FileDepth(c, fh) = IF call[t].op = "copy" /\ fh = h THEN 1 ELSE 0
    BY <1>1, ReturnMoves DEF TfsClose, FileOuter
  <1>3. /\ \A fh \in Handles : FileDepth(c, fh) = FileDepth(call[t], fh)
        /\ TableDepth(call[t]) = 0 /\ InodeDepth(call[t]) = 0
        /\ \A i \in Inodes : ~AloneOn(call[t], i)
    BY <1>1, <1>2 DEF FileDepth, TableDepth, InodeDepth, AloneOn, FileInner, FileOuter, AccessPcs, OpenPcs
  <1>4. UNCHANGED locks /\ freeinode_ts' = freeinode_ts /\ TablesOK'
    BY <1>1 DEF TfsClose, locks, IInv, TablesOK
  <1>5. InodeLockMoves(t, c)
    BY <1>2, <1>3, <1>4, InodeLockStays DEF locks
  <1> QED BY <1>2, <1>3, <1>4, <1>5, NoLockMoves

LEMMA AccessTableKeeps ==
  ASSUME IInv, NEW t \in Threads, AccessTable(t) PROVE IInv'
  <1>1. /\ call[t] \in OpenCalls \cup AccessCalls /\ call[t].pc = "table"
        /\ call[t].fh \in Handles
    BY OneThread DEF AccessTable, At, AccessPcs, FileOuter, CallOK, CopyPcs
  <1>2. \E c : /\ call' = [call EXCEPT ![t] = c] /\ CallOK(c) /\ c.pc = "file"
               /\ c.op = call[t].op /\ c.fh = call[t].fh
    BY <1>1, GoesMoves DEF AccessTable, AccessPcs, CopyPcs
  <1>3. PICK c : /\ call' = [call EXCEPT ![t] = c] /\ CallOK(c) /\ c.pc = "file"
                 /\ c.op = call[t].op /\ c.fh = call[t].fh
    BY <1>2
  <1>4. /\ \A fh \in Handles : FileDepth(c, fh) = FileDepth(call[t], fh)
        /\ TableDepth(call[t]) = 0 /\ TableDepth(c) = 1 /\ InodeDepth(c) = InodeDepth(call[t])
        /\ \A i \in Inodes : ~AloneOn(c, i) /\ ~AloneOn(call[t], i)
    BY <1>1, <1>3 DEF FileDepth, TableDepth, InodeDepth, AloneOn, FileInner, FileOuter, AccessPcs, OpenPcs
  <1>5. TablesOK' /\ WriterMoves(t, c)
    BY <1>4 DEF AccessTable, tables, IInv, TablesOK, WriterMoves
  <1>6. InodeLockMoves(t, c)
    BY <1>3, <1>4, InodeLockStays DEF AccessTable, tables
  <1>7. MutexMoves(open_file_table_lock, open_file_table_lock', t, TableDepth(call[t]), TableDepth(c))
    BY <1>4, OneThread, LockMoves DEF AccessTable, WellFormed
  <1> QED BY <1>3, <1>4, <1>5, <1>6, <1>7, OneThreadMoves DEF AccessTable, MutexMoves

LEMMA AccessFileKeeps ==
  ASSUME IInv, NEW t \in Threads, AccessFile(t) PROVE IInv'
  <1> DEFINE h == call[t].fh
  <1>1. call[t] \in OpenCalls \cup AccessCalls /\ call[t].pc = "file" /\ h \in Handles
    BY OneThread DEF AccessFile, At, AccessPcs, FileOuter, CallOK, CopyPcs
  <1>2. \E c : /\ call' = [call EXCEPT ![t] = c] /\ CallOK(c) /\ c.pc = "inode"
               /\ c.op = call[t].op /\ c.fh = h
    BY <1>1, GoesMoves DEF AccessFile, AccessPcs, CopyPcs
  <1>3. PICK c : /\ call' = [call EXCEPT ![t] = c] /\ CallOK(c) /\ c.pc = "inode"
                 /\ c.op = call[t].op /\ c.fh = h
    BY <1>2
  <1>4. /\ FileDepth(call[t], h) \in Nat /\ FileDepth(c, h) = FileDepth(call[t], h) + 1
        /\ \A fh \in Handles \ {h} : FileDepth(c, fh) = FileDepth(call[t], fh)
        /\ TableDepth(call[t]) = 1 /\ TableDepth(c) = 0 /\ InodeDepth(c) = InodeDepth(call[t])
        /\ \A i \in Inodes : ~AloneOn(c, i) /\ ~AloneOn(call[t], i)
    BY <1>1, <1>3 DEF FileDepth, TableDepth, InodeDepth, AloneOn, FileInner, FileOuter, AccessPcs, OpenPcs
  <1>5. /\ file_lock' \in [Handles -> Mutexes]
        /\ \A fh \in Handles : MutexMoves(file_lock[fh], file_lock'[fh], t,
                                          FileDepth(call[t], fh), FileDepth(c, fh))
    BY <1>1, <1>4, FileLockMoves DEF AccessFile
  <1>6. TablesOK' /\ WriterMoves(t, c)
    BY <1>4, <1>5 DEF AccessFile, tables, IInv, TablesOK, WriterMoves
  <1>7. InodeLockMoves(t, c)
    BY <1>3, <1>4, InodeLockStays DEF AccessFile, tables
  <1>8. MutexMoves(open_file_table_lock, open_file_table_lock', t, TableDepth(call[t]), TableDepth(c))
    BY <1>4, OneThread, UnlockMoves DEF AccessFile, WellFormed
  <1> QED BY <1>3, <1>5, <1>6, <1>7, <1>8, OneThreadMoves

(* The i-node whose lock is waited for is the one the handle leads to.     *)
LEMMA AccessInodeKeeps ==
  ASSUME IInv, NEW t \in Threads,
         NEW from, NEW to, <<from, to>> \in {<<"inode", "rwlock">>, <<"copyinode", "copyrwlock">>},
         AccessInode(t, from, to)
  PROVE  IInv'
  <1> DEFINE n == of_inumber[call[t].fh]
             c == [call[t] EXCEPT !.pc = to, !.inum = n]
  <1>1. \/ from = "inode" /\ to = "rwlock"
        \/ from = "copyinode" /\ to = "copyrwlock"
    OBVIOUS
  <1>2. /\ call[t] \in OpenCalls \/ (call[t] \in AccessCalls /\ to = "rwlock")
        /\ call[t].pc = from /\ call[t].fh \in Handles
    BY <1>1, OneThread DEF AccessInode, At, AccessPcs, CopyPcs, FileOuter, CallOK
  <1>3. n \in Inodes \cup {0}
    BY <1>2 DEF IInv, TablesOK
  <1>4. call' = [call EXCEPT ![t] = c]
    BY DEF AccessInode
  <1>5. /\ c \in OpenCalls \cup AccessCalls /\ c.pc = to /\ c.op = call[t].op /\ c.fh = call[t].fh
    <2> HIDE DEF n
    <2>1. CASE call[t] \in OpenCalls
      <3>1. to \in OpenPcs \cup AccessPcs \cup CopyPcs
        BY <1>1 DEF AccessPcs, CopyPcs
      <3> QED BY <1>3, <2>1, <3>1 DEF OpenCalls
    <2>2. CASE call[t] \in AccessCalls /\ to = "rwlock"
      <3>1. to \in AccessPcs
        BY <2>2 DEF AccessPcs
      <3> QED BY <1>3, <2>2, <3>1 DEF AccessCalls
    <2> QED BY <1>2, <2>1, <2>2
  <1> HIDE DEF c, n
  <1>6. CallOK(c)
    BY <1>1, <1>2, <1>5, OneThread DEF CallOK, CopyPcs
  <1>7. /\ \A fh \in Handles : FileDepth(c, fh) = FileDepth(call[t], fh)
        /\ TableDepth(c) = TableDepth(call[t]) /\ InodeDepth(call[t]) = 0 /\ InodeDepth(c) = 1
        /\ \A i \in Inodes : ~AloneOn(c, i) /\ ~AloneOn(call[t], i)
    BY <1>1, <1>2, <1>5
    DEF FileDepth, TableDepth, InodeDepth, AloneOn, FileInner, FileOuter, AccessPcs, OpenPcs
  <1>8. TablesOK' /\ WriterMoves(t, c)
    BY <1>7 DEF AccessInode, tables, IInv, TablesOK, WriterMoves
  <1>9. InodeLockMoves(t, c)
    BY <1>1, <1>5, <1>7, InodeLockTaken DEF AccessInode, InodeTableTaken, tables
  <1> QED BY <1>4, <1>6, <1>7, <1>8, <1>9, OneThreadMoves DEF AccessInode, MutexMoves

LEMMA AccessRwLockKeeps ==
  ASSUME IInv, NEW t \in Threads,
         NEW from, NEW to, <<from, to>> \in {<<"rwlock", "work">>, <<"copyrwlock", "destination">>},
         AccessRwLock(t, from, to)
  PROVE  IInv'
  <1> DEFINE n == call[t].inum
  <1>1. \/ from = "rwlock" /\ to = "work"
        \/ from = "copyrwlock" /\ to = "destination"
    OBVIOUS
  <1>2. /\ call[t] \in OpenCalls \/ (call[t] \in AccessCalls /\ from = "rwlock")
        /\ call[t].pc = from /\ call[t].fh \in Handles /\ (from = "copyrwlock" => call[t].op = "copy")
    BY <1>1, OneThread DEF AccessRwLock, At, AccessPcs, CopyPcs, FileOuter, CallOK
  <1>3. to \in OpenPcs \cup AccessPcs \cup CopyPcs /\ (from = "rwlock" => to \in AccessPcs)
    BY <1>1 DEF AccessPcs, CopyPcs
  <1>4. to \notin {"wrlock", "truncate", "offset", "entry", "delete", "add"}
    BY <1>1
  <1>5. \E c : /\ call' = [call EXCEPT ![t] = c] /\ CallOK(c) /\ c.pc = to
               /\ c.op = call[t].op /\ c.inum = n /\ c.fh = call[t].fh
    BY <1>2, <1>3, <1>4, GoesMoves DEF AccessRwLock, CopyPcs
  <1>6. PICK c : /\ call' = [call EXCEPT ![t] = c] /\ CallOK(c) /\ c.pc = to
                 /\ c.op = call[t].op /\ c.inum = n /\ c.fh = call[t].fh
    BY <1>5
  <1>7. /\ \A fh \in Handles : FileDepth(c, fh) = FileDepth(call[t], fh)
        /\ TableDepth(c) = TableDepth(call[t]) /\ InodeDepth(call[t]) = 1 /\ InodeDepth(c) = 0
        /\ \A i \in Inodes : ~AloneOn(call[t], i)
        /\ \A i \in Inodes : AloneOn(c, i) <=> i = n /\ call[t].op = "write"
    <2>1. call[t].op = "write" => from = "rwlock"
      BY <1>2 DEF OpenCalls
    <2> QED BY <1>1, <1>2, <1>6, <2>1
    DEF FileDepth, TableDepth, InodeDepth, AloneOn, FileInner, FileOuter, AccessPcs, OpenPcs
  <1>8. rwl \in [Inodes -> Lock!Rwlocks(Threads)]
    BY DEF IInv, TablesOK
  <1>9. rwl' \in [Inodes -> Lock!Rwlocks(Threads)] /\ WriterMoves(t, c)
    <2>1. CASE call[t].op = "write"
      <3>1. rwl' = [rwl EXCEPT ![n] = Lock!WrLock(rwl[n], t)] /\ rwl[n].writer = NoThread
        BY <2>1 DEF AccessRwLock, SharesIfReading, Lock!CanWrite
      <3>2. rwl' \in [Inodes -> Lock!Rwlocks(Threads)] /\ (n \in Inodes => rwl'[n].writer = t)
            /\ \A i \in Inodes \ {n} : rwl'[i] = rwl[i]
        BY ZenonT(30), <1>8, <3>1, RwlockOps
      <3> QED BY <1>7, <2>1, <3>1, <3>2 DEF WriterMoves
    <2>2. CASE call[t].op # "write"
      <3>1. rwl' = [rwl EXCEPT ![n] = Lock!RdLock(rwl[n])]
        BY <2>2 DEF AccessRwLock, SharesIfReading
      <3>2. rwl' \in [Inodes -> Lock!Rwlocks(Threads)] /\ \A i \in Inodes : rwl'[i].writer = rwl[i].writer
        BY <1>8, <3>1, RwlockOps
      <3> QED BY <1>7, <2>2, <3>2 DEF WriterMoves
    <2> QED BY <2>1, <2>2
  <1>10. TablesOK'
    BY <1>9 DEF AccessRwLock, tables, IInv, TablesOK
  <1>11. InodeLockMoves(t, c)
    BY <1>1, <1>6, <1>7, InodeLockReleased DEF AccessRwLock, tables
  <1> QED BY <1>6, <1>7, <1>9, <1>10, <1>11, OneThreadMoves DEF AccessRwLock, MutexMoves

LEMMA AccessWorkKeeps ==
  ASSUME IInv, NEW t \in Threads, AccessWork(t) PROVE IInv'
  <1> DEFINE h == call[t].fh
  <1>1. call[t] \in OpenCalls \cup AccessCalls /\ call[t].pc = "work" /\ h \in Handles
    BY OneThread DEF AccessWork, At, AccessPcs, FileOuter, CallOK, CopyPcs
  <1>2. \E c : /\ call' = [call EXCEPT ![t] = c] /\ CallOK(c) /\ c.pc = "unlock"
               /\ c.op = call[t].op /\ c.inum = call[t].inum /\ c.fh = h
    BY <1>1, GoesMoves DEF AccessWork, AccessPcs, CopyPcs
  <1>3. PICK c : /\ call' = [call EXCEPT ![t] = c] /\ CallOK(c) /\ c.pc = "unlock"
                 /\ c.op = call[t].op /\ c.inum = call[t].inum /\ c.fh = h
    BY <1>2
  <1>4. /\ FileDepth(c, h) \in Nat /\ FileDepth(call[t], h) = FileDepth(c, h) + 1
        /\ \A fh \in Handles \ {h} : FileDepth(c, fh) = FileDepth(call[t], fh)
        /\ TableDepth(call[t]) = TableDepth(c) /\ InodeDepth(c) = InodeDepth(call[t])
        /\ \A i \in Inodes : AloneOn(c, i) <=> AloneOn(call[t], i)
    BY <1>1, <1>3 DEF FileDepth, TableDepth, InodeDepth, AloneOn, FileInner, FileOuter, AccessPcs, OpenPcs
  <1>5. /\ file_lock' \in [Handles -> Mutexes]
        /\ \A fh \in Handles : MutexMoves(file_lock[fh], file_lock'[fh], t,
                                          FileDepth(call[t], fh), FileDepth(c, fh))
    BY <1>1, <1>4, FileUnlockMoves DEF AccessWork, FileReleased
  <1>6. TablesOK' /\ WriterMoves(t, c)
    BY <1>4, <1>5 DEF AccessWork, tables, IInv, TablesOK, WriterMoves
  <1>7. InodeLockMoves(t, c)
    BY <1>3, <1>4, InodeLockStays DEF AccessWork, tables
  <1> QED BY <1>3, <1>4, <1>5, <1>6, <1>7, OneThreadMoves DEF AccessWork, MutexMoves

LEMMA AccessFailsKeeps ==
  ASSUME IInv, NEW t \in Threads, AccessFails(t) PROVE IInv'
  <1>1. call[t] \in OpenCalls \cup AccessCalls /\ call[t].pc = "work" /\ call[t].fh \in Handles
    BY OneThread DEF AccessFails, At, AccessPcs, FileOuter, CallOK, CopyPcs
  <1>2. \E c : /\ call' = [call EXCEPT ![t] = c] /\ CallOK(c) /\ c.pc = "failed"
               /\ c.op = call[t].op /\ c.fh = call[t].fh
    BY <1>1, GoesMoves DEF AccessFails, AccessPcs, CopyPcs
  <1>3. PICK c : /\ call' = [call EXCEPT ![t] = c] /\ CallOK(c) /\ c.pc = "failed"
                 /\ c.op = call[t].op /\ c.fh = call[t].fh
    BY <1>2
  <1>4. /\ \A fh \in Handles : FileDepth(c, fh) = FileDepth(call[t], fh)
        /\ TableDepth(call[t]) = TableDepth(c) /\ InodeDepth(c) = InodeDepth(call[t])
        /\ \A i \in Inodes : ~AloneOn(c, i)
    BY <1>1, <1>3 DEF FileDepth, TableDepth, InodeDepth, AloneOn, FileInner, FileOuter, AccessPcs, OpenPcs
  <1>5. rwl' \in [Inodes -> Lock!Rwlocks(Threads)] /\ WriterMoves(t, c)
    BY <1>4, RwUnlockMoves DEF AccessFails
  <1>6. TablesOK'
    BY <1>5 DEF AccessFails, tables, IInv, TablesOK
  <1>7. InodeLockMoves(t, c)
    BY <1>3, <1>4, InodeLockStays DEF AccessFails, tables
  <1> QED BY <1>3, <1>4, <1>5, <1>6, <1>7, OneThreadMoves DEF AccessFails, MutexMoves

LEMMA AccessFailedKeeps ==
  ASSUME IInv, NEW t \in Threads, AccessFailed(t) PROVE IInv'
  <1> DEFINE h == call[t].fh
  <1>1. call[t] \in OpenCalls \cup AccessCalls /\ call[t].pc = "failed" /\ h \in Handles
    BY OneThread DEF AccessFailed, At, AccessPcs, FileOuter, CallOK, CopyPcs
  <1>2. PICK c : /\ call' = [call EXCEPT ![t] = c] /\ CallOK(c)
                 /\ InodeDepth(c) = 0 /\ c.pc \notin {"entry", "delete"}
                 /\ \A i \in Inodes : ~AloneOn(c, i)
                 /\ TableDepth(c) = 0
                 /\ \A fh \in Handles : FileDepth(c, fh) = IF call[t].op = "copy" /\ fh = h THEN 1 ELSE 0
    BY <1>1, ReturnMoves DEF AccessFailed, FileOuter
  <1>3. /\ FileDepth(c, h) \in Nat /\ FileDepth(call[t], h) = FileDepth(c, h) + 1
        /\ \A fh \in Handles \ {h} : FileDepth(c, fh) = FileDepth(call[t], fh)
        /\ TableDepth(call[t]) = 0 /\ InodeDepth(call[t]) = 0
        /\ \A i \in Inodes : ~AloneOn(call[t], i)
    BY <1>1, <1>2 DEF FileDepth, TableDepth, InodeDepth, AloneOn, FileInner, FileOuter, AccessPcs, OpenPcs
  <1>4. /\ file_lock' \in [Handles -> Mutexes]
        /\ \A fh \in Handles : MutexMoves(file_lock[fh], file_lock'[fh], t,
                                          FileDepth(call[t], fh), FileDepth(c, fh))
    BY <1>1, <1>3, FileUnlockMoves DEF AccessFailed, FileReleased
  <1>5. TablesOK' /\ WriterMoves(t, c)
    BY <1>2, <1>3, <1>4 DEF AccessFailed, tables, IInv, TablesOK, WriterMoves
  <1>6. InodeLockMoves(t, c)
    BY <1>2, <1>3, InodeLockStays DEF AccessFailed, tables
  <1> QED BY <1>2, <1>3, <1>4, <1>5, <1>6, OneThreadMoves DEF AccessFailed, MutexMoves

LEMMA AccessEndKeeps ==
  ASSUME IInv, NEW t \in Threads, AccessEnd(t) PROVE IInv'
  <1> DEFINE h == call[t].fh
  <1>1. call[t] \in OpenCalls \cup AccessCalls /\ call[t].pc = "unlock" /\ h \in Handles
    BY OneThread DEF AccessEnd, At, AccessPcs, FileOuter, CallOK, CopyPcs
  <1>2. PICK c : /\ call' = [call EXCEPT ![t] = c] /\ CallOK(c)
                 /\ InodeDepth(c) = 0 /\ c.pc \notin {"entry", "delete"}
                 /\ \A i \in Inodes : ~AloneOn(c, i)
                 /\ TableDepth(c) = 0
                 /\ \A fh \in Handles : FileDepth(c, fh) = IF call[t].op = "copy" /\ fh = h THEN 1 ELSE 0
    BY <1>1, ReturnMoves DEF AccessEnd, FileOuter
  <1>3. /\ \A fh \in Handles : FileDepth(c, fh) = FileDepth(call[t], fh)
        /\ TableDepth(call[t]) = 0 /\ InodeDepth(call[t]) = 0
    BY <1>1, <1>2 DEF FileDepth, TableDepth, InodeDepth, FileInner, FileOuter, AccessPcs, OpenPcs
  <1>4. rwl' \in [Inodes -> Lock!Rwlocks(Threads)] /\ WriterMoves(t, c)
    BY <1>2, RwUnlockMoves DEF AccessEnd
  <1>5. TablesOK'
    BY <1>4 DEF AccessEnd, tables, IInv, TablesOK
  <1>6. InodeLockMoves(t, c)
    BY <1>2, <1>3, InodeLockStays DEF AccessEnd, tables
  <1> QED BY <1>2, <1>3, <1>4, <1>5, <1>6, OneThreadMoves DEF AccessEnd, MutexMoves

----------------------------------------------------------------------------
(* tfs_copy_to_external_fs.                                                *)

LEMMA CopyTableKeeps ==
  ASSUME IInv, NEW t \in Threads, CopyTable(t) PROVE IInv'
  <1>1. call[t] \in OpenCalls /\ call[t].pc = "copy" /\ call[t].op = "copy"
    BY OneThread DEF CopyTable, At, CopyPcs, CallOK
  <1>2. \E c : /\ call' = [call EXCEPT ![t] = c] /\ CallOK(c) /\ c.pc = "lookup"
               /\ c.op = call[t].op /\ c.fh = call[t].fh
    BY <1>1, GoesMoves DEF CopyTable, OpenPcs, FileOuter, AccessPcs, CopyPcs
  <1>3. PICK c : /\ call' = [call EXCEPT ![t] = c] /\ CallOK(c) /\ c.pc = "lookup"
                 /\ c.op = call[t].op /\ c.fh = call[t].fh
    BY <1>2
  <1>4. /\ \A fh \in Handles : FileDepth(c, fh) = FileDepth(call[t], fh)
        /\ TableDepth(call[t]) = 0 /\ TableDepth(c) = 1 /\ InodeDepth(c) = InodeDepth(call[t])
        /\ \A i \in Inodes : ~AloneOn(c, i) /\ ~AloneOn(call[t], i)
    BY <1>1, <1>3 DEF FileDepth, TableDepth, InodeDepth, AloneOn, FileInner, FileOuter, AccessPcs, OpenPcs
  <1>5. TablesOK' /\ WriterMoves(t, c)
    BY <1>4 DEF CopyTable, tables, IInv, TablesOK, WriterMoves
  <1>6. InodeLockMoves(t, c)
    BY <1>3, <1>4, InodeLockStays DEF CopyTable, tables
  <1>7. MutexMoves(open_file_table_lock, open_file_table_lock', t, TableDepth(call[t]), TableDepth(c))
    BY <1>4, OneThread, LockMoves DEF CopyTable, WellFormed
  <1> QED BY <1>3, <1>4, <1>5, <1>6, <1>7, OneThreadMoves DEF CopyTable, MutexMoves

LEMMA CopyNotOpenedKeeps ==
  ASSUME IInv, NEW t \in Threads, CopyNotOpened(t) PROVE IInv'
  <1>1. call[t] \in OpenCalls /\ call[t].pc = "opened" /\ call[t].op = "copy"
    BY OneThread DEF CopyNotOpened, At, CopyPcs, CallOK
  <1>2. /\ \A fh \in Handles : FileDepth(call[t], fh) = 0
        /\ TableDepth(call[t]) = 1 /\ InodeDepth(call[t]) = 0
        /\ \A i \in Inodes : ~AloneOn(call[t], i)
    BY <1>1 DEF FileDepth, TableDepth, InodeDepth, AloneOn, FileInner, FileOuter, AccessPcs, OpenPcs
  <1>3. call' = [call EXCEPT ![t] = Idle] /\ TablesOK' /\ WriterMoves(t, Idle)
    BY <1>2, IdleHolds DEF CopyNotOpened, tables, IInv, TablesOK, WriterMoves
  <1>4. InodeLockMoves(t, Idle)
    BY <1>2, IdleHolds, InodeLockStays DEF CopyNotOpened, tables
  <1>5. MutexMoves(open_file_table_lock, open_file_table_lock', t, TableDepth(call[t]), TableDepth(Idle))
    BY <1>2, IdleHolds, OneThread, UnlockMoves DEF CopyNotOpened, WellFormed
  <1> QED BY <1>2, <1>3, <1>4, <1>5, IdleHolds, OneThreadMoves DEF CopyNotOpened, MutexMoves

LEMMA CopyFileKeeps ==
  ASSUME IInv, NEW t \in Threads, CopyFile(t) PROVE IInv'
  <1> DEFINE h == call[t].fh
  <1>1. call[t] \in OpenCalls /\ call[t].pc = "opened" /\ call[t].op = "copy"
    BY OneThread DEF CopyFile, At, CopyPcs, CallOK
  <1>2. h \in Handles
    BY <1>1 DEF CopyFile, OpenCalls
  <1>3. \E c : /\ call' = [call EXCEPT ![t] = c] /\ CallOK(c) /\ c.pc = "copyinode"
               /\ c.op = "copy" /\ c.fh = h
    BY <1>1, <1>2, GoesMoves DEF CopyFile, CopyPcs
  <1>4. PICK c : /\ call' = [call EXCEPT ![t] = c] /\ CallOK(c) /\ c.pc = "copyinode"
                 /\ c.op = "copy" /\ c.fh = h
    BY <1>3
  <1>5. /\ FileDepth(call[t], h) \in Nat /\ FileDepth(c, h) = FileDepth(call[t], h) + 1
        /\ \A fh \in Handles \ {h} : FileDepth(c, fh) = FileDepth(call[t], fh)
        /\ TableDepth(call[t]) = 1 /\ TableDepth(c) = 0 /\ InodeDepth(c) = InodeDepth(call[t])
        /\ \A i \in Inodes : ~AloneOn(c, i) /\ ~AloneOn(call[t], i)
    BY <1>1, <1>4 DEF FileDepth, TableDepth, InodeDepth, AloneOn, FileInner, FileOuter, AccessPcs, OpenPcs
  <1>6. /\ file_lock' \in [Handles -> Mutexes]
        /\ \A fh \in Handles : MutexMoves(file_lock[fh], file_lock'[fh], t,
                                          FileDepth(call[t], fh), FileDepth(c, fh))
    BY <1>2, <1>5, FileLockMoves DEF CopyFile
  <1>7. TablesOK' /\ WriterMoves(t, c)
    BY <1>5, <1>6 DEF CopyFile, tables, IInv, TablesOK, WriterMoves
  <1>8. InodeLockMoves(t, c)
    BY <1>4, <1>5, InodeLockStays DEF CopyFile, tables
  <1>9. MutexMoves(open_file_table_lock, open_file_table_lock', t, TableDepth(call[t]), TableDepth(c))
    BY <1>5, OneThread, UnlockMoves DEF CopyFile, WellFormed
  <1> QED BY <1>4, <1>6, <1>7, <1>8, <1>9, OneThreadMoves

LEMMA CopyGoesOnKeeps ==
  ASSUME IInv, NEW t \in Threads, CopyGoesOn(t) PROVE IInv'
  <1>1. /\ call[t].pc \in {"destination", "copied"}
        /\ call[t] \in OpenCalls /\ call[t].op = "copy" /\ call[t].fh \in Handles
    BY OneThread DEF CopyGoesOn, At, CopyPcs, FileOuter, CallOK
  <1>2. PICK p \in {"table", "close", "copyunlock"} : Goes(t, p)
    BY DEF CopyGoesOn
  <1>3. \E c : /\ call' = [call EXCEPT ![t] = c] /\ CallOK(c) /\ c.pc = p
               /\ c.op = "copy" /\ c.fh = call[t].fh
    BY <1>1, <1>2, GoesMoves DEF AccessPcs, CopyPcs
  <1>4. PICK c : /\ call' = [call EXCEPT ![t] = c] /\ CallOK(c) /\ c.pc = p
                 /\ c.op = "copy" /\ c.fh = call[t].fh
    BY <1>3
  <1>5. /\ \A fh \in Handles : FileDepth(c, fh) = FileDepth(call[t], fh)
        /\ TableDepth(call[t]) = TableDepth(c) /\ InodeDepth(c) = InodeDepth(call[t])
        /\ \A i \in Inodes : AloneOn(c, i) <=> AloneOn(call[t], i)
    BY <1>1, <1>2, <1>4 DEF FileDepth, TableDepth, InodeDepth, AloneOn, FileInner, FileOuter, AccessPcs, OpenPcs
  <1>6. UNCHANGED locks /\ freeinode_ts' = freeinode_ts /\ TablesOK'
    BY <1>1 DEF CopyGoesOn, locks, tables, IInv, TablesOK
  <1>7. InodeLockMoves(t, c)
    BY <1>2, <1>4, <1>5, <1>6, InodeLockStays DEF locks
  <1> QED BY <1>4, <1>5, <1>6, <1>7, NoLockMoves

LEMMA CopyRwUnlockKeeps ==
  ASSUME IInv, NEW t \in Threads, CopyRwUnlock(t) PROVE IInv'
  <1>1. /\ call[t] \in OpenCalls /\ call[t].pc = "copyunlock" /\ call[t].op = "copy"
        /\ call[t].fh \in Handles
    BY OneThread DEF CopyRwUnlock, At, CopyPcs, FileOuter, CallOK
  <1>2. \E c : /\ call' = [call EXCEPT ![t] = c] /\ CallOK(c) /\ c.pc = "copyend"
               /\ c.op = "copy" /\ c.fh = call[t].fh
    BY <1>1, GoesMoves DEF CopyRwUnlock, CopyPcs
  <1>3. PICK c : /\ call' = [call EXCEPT ![t] = c] /\ CallOK(c) /\ c.pc = "copyend"
                 /\ c.op = "copy" /\ c.fh = call[t].fh
    BY <1>2
  <1>4. /\ \A fh \in Handles : FileDepth(c, fh) = FileDepth(call[t], fh)
        /\ TableDepth(call[t]) = TableDepth(c) /\ InodeDepth(c) = InodeDepth(call[t])
        /\ \A i \in Inodes : ~AloneOn(c, i)
    BY <1>1, <1>3 DEF FileDepth, TableDepth, InodeDepth, AloneOn, FileInner, FileOuter, AccessPcs, OpenPcs
  <1>5. rwl' \in [Inodes -> Lock!Rwlocks(Threads)] /\ WriterMoves(t, c)
    BY <1>4, RwUnlockMoves DEF CopyRwUnlock
  <1>6. TablesOK'
    BY <1>5 DEF CopyRwUnlock, tables, IInv, TablesOK
  <1>7. InodeLockMoves(t, c)
    BY <1>3, <1>4, InodeLockStays DEF CopyRwUnlock, tables
  <1> QED BY <1>3, <1>4, <1>5, <1>6, <1>7, OneThreadMoves DEF CopyRwUnlock, MutexMoves

LEMMA CopyEndKeeps ==
  ASSUME IInv, NEW t \in Threads, CopyEnd(t) PROVE IInv'
  <1> DEFINE h == call[t].fh
  <1>1. call[t] \in OpenCalls /\ call[t].pc = "copyend" /\ call[t].op = "copy" /\ h \in Handles
    BY OneThread DEF CopyEnd, At, CopyPcs, FileOuter, CallOK
  <1>2. /\ FileDepth(Idle, h) \in Nat /\ FileDepth(call[t], h) = FileDepth(Idle, h) + 1
        /\ \A fh \in Handles \ {h} : FileDepth(Idle, fh) = FileDepth(call[t], fh)
        /\ TableDepth(call[t]) = 0 /\ InodeDepth(call[t]) = 0
        /\ \A i \in Inodes : ~AloneOn(call[t], i)
    BY <1>1, IdleHolds DEF FileDepth, TableDepth, InodeDepth, AloneOn, FileInner, FileOuter, AccessPcs, OpenPcs
  <1>3. /\ file_lock' \in [Handles -> Mutexes]
        /\ \A fh \in Handles : MutexMoves(file_lock[fh], file_lock'[fh], t,
                                          FileDepth(call[t], fh), FileDepth(Idle, fh))
    BY <1>1, <1>2, FileUnlockMoves DEF CopyEnd
  <1>4. call' = [call EXCEPT ![t] = Idle] /\ TablesOK' /\ WriterMoves(t, Idle)
    BY <1>2, <1>3, IdleHolds DEF CopyEnd, tables, IInv, TablesOK, WriterMoves
  <1>5. InodeLockMoves(t, Idle)
    BY <1>2, IdleHolds, InodeLockStays DEF CopyEnd, tables
  <1> QED BY <1>2, <1>3, <1>4, <1>5, IdleHolds, OneThreadMoves DEF CopyEnd, MutexMoves

----------------------------------------------------------------------------
LEMMA BeginsKeeps ==
  ASSUME IInv, NEW t \in Threads, Begins(t) PROVE IInv'
  <1>1. call[t].pc = "idle"
    BY DEF Begins, At
  <1>2. ASSUME NEW c \in OpenCalls \cup AccessCalls \cup CloseCalls, call' = [call EXCEPT ![t] = c],
               UNCHANGED <<locks, tables>>,
               c.pc \in {"lookup", "table", "copy", "close"}, c.pc = "table" => c \in AccessCalls,
               c.pc = "close" => c \in CloseCalls,
               c.pc = "copy" => c.op = "copy", c.pc = "lookup" => c.op = "open"
        PROVE  IInv'
    <2>1. CallOK(c)
      <3>1. /\ c.pc \in {"table", "close"} => c.fh \in Handles
            /\ c.pc = "close" => c.op = "close"
        BY <1>2 DEF AccessCalls, CloseCalls
      <3> QED BY <1>2, <3>1 DEF CallOK, FileOuter, AccessPcs, CopyPcs
    <2>2. c.pc \in {"table", "close"} => c.op # "copy"
      BY <1>2 DEF AccessCalls, CloseCalls
    <2>3. /\ \A fh \in Handles : FileDepth(c, fh) = FileDepth(call[t], fh)
          /\ TableDepth(c) = TableDepth(call[t]) /\ InodeDepth(c) = InodeDepth(call[t])
          /\ \A i \in Inodes : AloneOn(c, i) <=> AloneOn(call[t], i)
      BY <1>1, <1>2, <2>2
      DEF FileDepth, TableDepth, InodeDepth, AloneOn, FileInner, FileOuter, AccessPcs, OpenPcs
    <2>4. TablesOK' /\ UNCHANGED locks /\ freeinode_ts' = freeinode_ts
      BY <1>2 DEF locks, tables, IInv, TablesOK
    <2>5. InodeLockMoves(t, c)
      BY <1>2, <2>3, <2>4, InodeLockStays DEF locks
    <2> QED BY <1>2, <2>1, <2>3, <2>4, <2>5, NoLockMoves
  <1>3. ASSUME NEW h \in Issued, UNCHANGED <<locks, tables>>,
               call' = [call EXCEPT ![t] = Using("close", "close", h)]
        PROVE  IInv'
    <2>1. Using("close", "close", h) \in CloseCalls /\ Using("close", "close", h).pc = "close"
      BY DEF Using, CloseCalls, Issued
    <2> QED BY <1>2, <1>3, <2>1
  <1>4. ASSUME NEW name \in Names, NEW flags \in Flags, UNCHANGED <<locks, tables>>,
               call' = [call EXCEPT ![t] = Opening("open", "lookup", name, flags)]
        PROVE  IInv'
    <2>1. 0 \in 0 .. MAX_OPEN_FILES
      BY SizesAssumption
    <2>2. /\ Opening("open", "lookup", name, flags) \in OpenCalls
          /\ Opening("open", "lookup", name, flags).pc = "lookup"
          /\ Opening("open", "lookup", name, flags).op = "open"
      BY <2>1 DEF Opening, OpenCalls, OpenPcs
    <2> QED BY <1>2, <1>4, <2>2
  <1>5. ASSUME NEW name \in Names, UNCHANGED <<locks, tables>>,
               call' = [call EXCEPT ![t] = Opening("copy", "copy", name, {})]
        PROVE  IInv'
    <2>1. 0 \in 0 .. MAX_OPEN_FILES /\ {} \in Flags \cup {{}}
      BY SizesAssumption
    <2>2. /\ Opening("copy", "copy", name, {}) \in OpenCalls
          /\ Opening("copy", "copy", name, {}).pc = "copy"
          /\ Opening("copy", "copy", name, {}).op = "copy"
      BY <2>1 DEF Opening, OpenCalls, CopyPcs
    <2> QED BY <1>2, <1>5, <2>2
  <1>6. ASSUME NEW op \in {"write", "read"}, NEW h \in Issued,
               UNCHANGED <<locks, tables>>, call' = [call EXCEPT ![t] = Using(op, "table", h)]
        PROVE  IInv'
    <2>1. Using(op, "table", h) \in AccessCalls /\ Using(op, "table", h).pc = "table"
      BY <1>6 DEF Using, AccessCalls, AccessPcs, Issued
    <2> QED BY <1>2, <1>6, <2>1
  <1> QED BY <1>3, <1>4, <1>5, <1>6 DEF Begins

----------------------------------------------------------------------------
LEMMA InitInv == Init => IInv
  <1> SUFFICES ASSUME Init PROVE IInv
    OBVIOUS
  <1>1. CallsOK /\ \A t \in Threads : call[t] = Idle
    BY IdleHolds DEF Init, CallsOK
  <1>2. WellFormed(Free) /\ Free.owner = NoThread
    BY SizesAssumption DEF Free, WellFormed, Mutexes
  <1>3. TablesOK
    BY <1>2, SizesAssumption
    DEF Init, TablesOK, WellFormed, Lock!NewLock, Lock!Rwlocks
  <1>4. FileLocksHeld /\ TableLockHeld /\ InodeLockHeld
    BY <1>1, <1>2, IdleHolds, SizesAssumption
    DEF Init, FileLocksHeld, TableLockHeld, InodeLockHeld, Held, HeldOrKept
  <1>5. WritersAlone
    BY <1>1, IdleHolds, SizesAssumption DEF Init, WritersAlone, Lock!NewLock
  <1> QED BY <1>1, <1>3, <1>4, <1>5 DEF IInv

LEMMA NextInv == IInv /\ [Next]_vars => IInv'
  <1> SUFFICES ASSUME IInv, [Next]_vars PROVE IInv'
    OBVIOUS
  <1>1. CASE UNCHANGED vars
    BY <1>1 DEF vars, locks, tables, IInv, TablesOK, CallsOK, FileLocksHeld, TableLockHeld,
                InodeLockHeld, WritersAlone, Held, HeldOrKept, WellFormed, FileDepth, TableDepth,
                InodeDepth, AloneOn, CallOK
  <1>2. ASSUME NEW t \in Threads, Begins(t) PROVE IInv'
    BY <1>2, BeginsKeeps
  <1>3. ASSUME NEW t \in Threads, GoesOn(t) PROVE IInv'
    <2>1. /\ OpenFound(t) \/ OpenNotFound(t) \/ OpenWrLock(t) \/ OpenTruncate(t)
               \/ OpenOffset(t) \/ OpenInode(t) \/ OpenNoInode(t) => IInv'
          /\ OpenEntry(t) \/ OpenDelete(t) \/ OpenAdd(t) \/ OpenTableFull(t) => IInv'
      BY OpenFoundKeeps, OpenNotFoundKeeps, OpenWrLockKeeps, OpenTruncateKeeps, OpenOffsetKeeps,
         OpenInodeKeeps, OpenNoInodeKeeps, OpenEntryKeeps, OpenDeleteKeeps, OpenAddKeeps,
         OpenTableFullKeeps
    <2>2. /\ AccessTable(t) \/ AccessFile(t) \/ AccessWork(t) => IInv'
          /\ AccessFails(t) \/ AccessFailed(t) \/ AccessEnd(t) => IInv'
          /\ AccessInode(t, "inode", "rwlock") \/ AccessInode(t, "copyinode", "copyrwlock") => IInv'
          /\ AccessRwLock(t, "rwlock", "work") \/ AccessRwLock(t, "copyrwlock", "destination") => IInv'
      BY AccessTableKeeps, AccessFileKeeps, AccessWorkKeeps, AccessFailsKeeps, AccessFailedKeeps,
         AccessEndKeeps, AccessInodeKeeps, AccessRwLockKeeps
    <2>3. CopyTable(t) \/ CopyNotOpened(t) \/ CopyFile(t) \/ CopyGoesOn(t)
            \/ CopyRwUnlock(t) \/ CopyEnd(t) => IInv'
      BY CopyTableKeeps, CopyNotOpenedKeeps, CopyFileKeeps, CopyGoesOnKeeps, CopyRwUnlockKeeps,
         CopyEndKeeps
    <2>4. TfsClose(t) => IInv'
      BY TfsCloseKeeps
    <2> QED BY <1>3, <2>1, <2>2, <2>3, <2>4 DEF GoesOn
  <1> QED BY <1>1, <1>2, <1>3 DEF Next

(* The inductive invariant: who holds which lock, and how often, is told   *)
(* by where each thread is in its call.                                    *)
THEOREM Inv == Spec => []IInv
  BY InitInv, NextInv, PTL DEF Spec

----------------------------------------------------------------------------
(* Type correctness, for any number of threads, files and handles.         *)
THEOREM TypeCorrect == Spec => []TypeOK
  <1>1. IInv => TypeOK
    <2> SUFFICES ASSUME IInv PROVE TypeOK
      OBVIOUS
    <2>1. call \in [Threads -> {Idle} \cup OpenCalls \cup AccessCalls \cup CloseCalls]
      BY DEF IInv, CallsOK, CallOK
    <2>2. inode_table_lock \in Mutexes /\ open_file_table_lock \in Mutexes
      BY DEF IInv, InodeLockHeld, TableLockHeld, WellFormed
    <2> QED BY <2>1, <2>2 DEF IInv, TablesOK, TypeOK, OpenCalls, AccessCalls, CloseCalls
  <1> QED BY <1>1, Inv, PTL

(* Every way out of every operation gives back what it locked: a thread    *)
(* that is in no call has no lock, but that of the i-node table when there *)
(* was no i-node left.                                                     *)
THEOREM LocksAreReturned == Spec => []LocksReturned
  <1>1. IInv => LocksReturned
    <2> SUFFICES ASSUME IInv, NEW t \in Threads, At(t, "idle")
                 PROVE  /\ open_file_table_lock.owner # t
                        /\ \A fh \in Handles : file_lock[fh].owner # t
                        /\ \A i \in Inodes : rwl[i].writer # t
                        /\ inode_table_lock.owner = t => freeinode_ts = {}
      BY DEF LocksReturned
    <2>1. /\ \A fh \in Handles : FileDepth(call[t], fh) = 0
          /\ TableDepth(call[t]) = 0 /\ InodeDepth(call[t]) = 0
          /\ \A i \in Inodes : ~AloneOn(call[t], i)
      BY DEF At, FileDepth, TableDepth, InodeDepth, AloneOn, FileInner, FileOuter, AccessPcs, OpenPcs
    <2>2. inode_table_lock.owner = t => inode_table_lock.depth > 0
      BY OneThread, SizesAssumption DEF WellFormed, Mutexes
    <2> QED BY <2>1, <2>2, OneThread DEF Held, HeldOrKept
  <1> QED BY <1>1, Inv, PTL

(* A handle in use is locked by the thread that uses it.                   *)
LEMMA HolderLocks ==
  ASSUME IInv, NEW t \in Threads, NEW fh \in Handles, HoldsHandle(t, fh)
  PROVE  file_lock[fh].owner = t
  <1>1. FileDepth(call[t], fh) > 0
    BY OneThread DEF HoldsHandle, At, Copying, CallOK, CopyPcs, FileDepth, FileInner, FileOuter, AccessPcs
  <1> QED BY <1>1, OneThread DEF Held

(* No handle is given out again under a call that is using it, whatever    *)
(* tfs_close frees meanwhile.                                              *)
THEOREM HandlesAreStable == Spec => HandlesStable
  <1>1. ASSUME IInv, [Next]_vars
        PROVE  [\A fh \in free_open_file_entries \ free_open_file_entries' :
                  \A t \in Threads : ~HoldsHandle(t, fh)]_vars
    <2>1. ASSUME NEW fh \in free_open_file_entries \ free_open_file_entries', NEW u \in Threads,
                 HoldsHandle(u, fh)
          PROVE  FALSE
      <3>1. PICK t \in Threads : OpenAdd(t) /\ fh = call[t].k
        BY ZenonT(30), <1>1, <2>1 DEF Next, Begins, GoesOn, vars, tables, OpenFound, OpenNotFound, OpenWrLock,
           OpenTruncate, OpenOffset, OpenInode, OpenNoInode, OpenEntry, OpenDelete, OpenAdd,
           OpenTableFull, TfsClose, AccessTable, AccessFile, AccessInode, AccessRwLock, AccessWork,
           AccessFails, AccessFailed, AccessEnd, CopyTable, CopyNotOpened, CopyFile, CopyGoesOn,
           CopyRwUnlock, CopyEnd
      <3>2. fh \in Handles
        BY <3>1 DEF OpenAdd
      <3>3. file_lock[fh].owner = u
        BY <1>1, <2>1, <3>2, HolderLocks
      <3>4. u = t
        BY <3>1, <3>3, SizesAssumption DEF OpenAdd, Guarded, CanLock
      <3> QED BY <2>1, <3>1, <3>4, OneThread
      DEF OpenAdd, At, HoldsHandle, Copying, AccessPcs
    <2> QED BY <2>1
  <1> QED BY <1>1, Inv, PTL DEF Spec, HandlesStable

----------------------------------------------------------------------------
(* Files are exclusive, because an i-node's lock never counts more readers *)
(* than it has: where it counts them all, it counts none while it is in    *)
(* its write phase.                                                        *)

ReadingOn(c, i) == c.pc # "idle" /\ c.inum = i /\ c.pc \in {"work", "unlock"} /\ c.op # "write"
CopyPart == AccessPcs \cup {"destination", "copied", "close", "copyunlock"}
CopyingOn(c, i) == c.pc # "idle" /\ c.inum = i /\ c.op = "copy" /\ c.pc \in CopyPart
Share(c, i) == (IF ReadingOn(c, i) THEN 1 ELSE 0) + (IF CopyingOn(c, i) THEN 1 ELSE 0)

Counted(l, n) ==
  /\ l.readers <= n
  /\ l.writer # NoThread => l.wrphase
  /\ l.readers = n /\ l.wrphase => n = 0

(* A copy's handle leads to one i-node all the time.                       *)
CopyStays(c) ==
  c.pc \in CopyPart \cup {"copyrwlock"} /\ c.op = "copy" => c.inum = of_inumber[c.fh]

ReadersInv ==
  /\ \A i \in Inodes : Counted(rwl[i], Readers(i))
  /\ \A t \in Threads : CopyStays(call[t])

LEMMA CountedWrLock ==
  ASSUME NEW l \in Lock!Rwlocks(Threads), NEW n \in Nat, NEW t \in Threads, Counted(l, n),
         Lock!CanWrite(l)
  PROVE  Counted(Lock!WrLock(l, t), n)
  <1>1. /\ Lock!WrLock(l, t).readers = l.readers /\ Lock!WrLock(l, t).wrphase = TRUE
        /\ Lock!WrLock(l, t).writer = t
    BY DEF Lock!WrLock, Lock!Rwlocks
  <1>2. l.readers = n => n = 0
    BY DEF Lock!CanWrite, Counted
  <1> QED BY <1>1, <1>2 DEF Counted

LEMMA CountedRdLock ==
  ASSUME NEW l \in Lock!Rwlocks(Threads), NEW n \in Nat, Counted(l, n), Lock!CanRead(l)
  PROVE  Counted(Lock!RdLock(l), n + 1)
  <1>1. l.readers \in Int
    BY DEF Lock!Rwlocks
  <1>2. CASE Lock!Overflows(l)
    <2>1. Lock!RdLock(l) = l /\ l.readers < n + 1
      BY <1>1, <1>2 DEF Lock!RdLock, Lock!Overflows, Counted
    <2> QED BY <1>1, <2>1 DEF Counted
  <1>3. CASE ~Lock!Overflows(l)
    <2>1. l.writer = NoThread
      BY <1>3 DEF Lock!CanRead, Counted
    <2> DEFINE more == l.readers + 1
    <2>2. Lock!RdLock(l) = [l EXCEPT !.readers = more, !.wrphase = FALSE]
      BY <1>3 DEF Lock!RdLock
    <2>3. more \in Int /\ more <= n + 1
      BY <1>1 DEF Counted
    <2> HIDE DEF more
    <2>4. /\ Lock!RdLock(l).readers = more /\ Lock!RdLock(l).wrphase = FALSE
          /\ Lock!RdLock(l).writer = NoThread
      BY <2>1, <2>2 DEF Lock!Rwlocks
    <2> QED BY <2>3, <2>4 DEF Counted
  <1> QED BY <1>2, <1>3

(* Unlocked once by each reader, or even more often.                       *)
LEMMA CountedUnlock ==
  ASSUME NEW l \in Lock!Rwlocks(Threads), NEW n \in Nat, NEW t \in Threads, Counted(l, n),
         NEW d \in {0, 1}, d <= n, l.writer = t => d = 0
  PROVE  Counted(Lock!Unlock(l, t), n - d)
  <1>1. l.readers \in Int
    BY DEF Lock!Rwlocks
  <1>2. CASE l.writer = t
    <2> DEFINE last == l.readers = 0
    <2>1. Lock!Unlock(l, t) = [l EXCEPT !.writer = NoThread, !.wrphase = last]
      BY <1>2 DEF Lock!Unlock
    <2>2. last \in BOOLEAN /\ (last => l.readers = 0)
      OBVIOUS
    <2> HIDE DEF last
    <2>3. /\ Lock!Unlock(l, t).readers = l.readers /\ Lock!Unlock(l, t).wrphase = last
          /\ Lock!Unlock(l, t).writer = NoThread
      BY <2>1 DEF Lock!Rwlocks
    <2>4. n - d = n
      BY <1>2
    <2>5. l.readers <= n /\ (l.readers = n /\ last => n = 0)
      BY <1>1, <2>2 DEF Counted
    <2> QED BY <2>3, <2>4, <2>5 DEF Counted
  <1>3. CASE l.writer # t
    <2> DEFINE less == l.readers - 1
    <2>1. Lock!Unlock(l, t) = [l EXCEPT !.readers = less]
      BY <1>3 DEF Lock!Unlock
    <2>2. less \in Int /\ less <= n - d
      BY <1>1 DEF Counted
    <2>3. less = n - d => l.readers = n /\ n # 0
      BY <1>1 DEF Counted
    <2> HIDE DEF less
    <2>4. /\ Lock!Unlock(l, t).readers = less /\ Lock!Unlock(l, t).wrphase = l.wrphase
          /\ Lock!Unlock(l, t).writer = l.writer
      BY <2>1 DEF Lock!Rwlocks
    <2> QED BY <2>2, <2>3, <2>4 DEF Counted
  <1> QED BY <1>2, <1>3

(* When one thread's call goes on, it alone reads or reads no longer.      *)
LEMMA ReadersMove ==
  ASSUME IInv, NEW t \in Threads, DOMAIN call' = Threads,
         \A u \in Threads \ {t} : call'[u] = call[u], NEW i \in Inodes
  PROVE  /\ Readers(i) \in Nat /\ Share(call[t], i) \in {0, 1, 2} /\ Share(call[t], i) <= Readers(i)
         /\ Readers(i)' = Readers(i) - Share(call[t], i) + Share(call'[t], i)
  <1> DEFINE R == {u \in Threads : ReadingOn(call[u], i)}
             C == {u \in Threads : CopyingOn(call[u], i)}
             S == {u \in Threads : ReadingOn(call'[u], i)}
             D == {u \in Threads : CopyingOn(call'[u], i)}
             b(P) == IF P THEN 1 ELSE 0
  <1>1. IsFiniteSet(R) /\ IsFiniteSet(C) /\ IsFiniteSet(S) /\ IsFiniteSet(D)
    BY FS_Subset, SizesAssumption
  <1>2. Readers(i) = Cardinality(R) + Cardinality(C)
    <2>1. /\ {u \in Threads : On(u, i) /\ Reading(u)} = R
          /\ {u \in Threads : On(u, i) /\ Copying(u)} = C
      BY DEF On, At, Reading, Copying, ReadingOn, CopyingOn, CopyPart
    <2> QED BY <2>1 DEF Readers
  <1>3. Readers(i)' = Cardinality(S) + Cardinality(D)
    <2>1. /\ {u \in Threads : On(u, i) /\ Reading(u)}' = S
          /\ {u \in Threads : On(u, i) /\ Copying(u)}' = D
      BY DEF On, At, Reading, Copying, ReadingOn, CopyingOn, CopyPart
    <2> QED BY <2>1 DEF Readers
  <1>4. S \ {t} = R \ {t} /\ D \ {t} = C \ {t}
    OBVIOUS
  <1>5. ASSUME NEW A, IsFiniteSet(A)
        PROVE  Cardinality(A) = Cardinality(A \ {t}) + (IF t \in A THEN 1 ELSE 0)
    <2>1. /\ Cardinality(A) \in Nat
          /\ Cardinality(A \ {t}) = IF t \in A THEN Cardinality(A) - 1 ELSE Cardinality(A)
      BY <1>5, FS_RemoveElement, FS_CardinalityType
    <2> DEFINE m == Cardinality(A)
               k == Cardinality(A \ {t})
    <2>2. m \in Nat /\ k = IF t \in A THEN m - 1 ELSE m
      BY <2>1
    <2> HIDE DEF m, k
    <2>3. m = k + (IF t \in A THEN 1 ELSE 0)
      BY <2>2
    <2> QED BY <2>3 DEF m, k
  <1>6. Cardinality(R \ {t}) \in Nat /\ Cardinality(C \ {t}) \in Nat
    BY <1>1, FS_Subset, FS_CardinalityType
  <1>7. /\ Cardinality(R) = Cardinality(R \ {t}) + b(t \in R)
        /\ Cardinality(S) = Cardinality(R \ {t}) + b(t \in S)
        /\ Cardinality(C) = Cardinality(C \ {t}) + b(t \in C)
        /\ Cardinality(D) = Cardinality(C \ {t}) + b(t \in D)
    BY <1>1, <1>4, <1>5, <1>6
  <1>8. Share(call[t], i) = b(t \in R) + b(t \in C) /\ Share(call'[t], i) = b(t \in S) + b(t \in D)
    BY DEF Share
  <1> HIDE DEF R, C, S, D
  <1> QED BY <1>2, <1>3, <1>6, <1>7, <1>8

LEMMA OthersStay ==
  ASSUME IInv, NEW t \in Threads, Begins(t) \/ GoesOn(t)
  PROVE  DOMAIN call' = Threads /\ \A u \in Threads \ {t} : call'[u] = call[u]
  <1>1. CASE Begins(t)
    BY <1>1 DEF Begins, IInv, CallsOK
  <1>2. CASE GoesOn(t)
    BY <1>2
    DEF GoesOn, Goes, Returns, TfsClose, OpenFound, OpenNotFound, OpenWrLock, OpenTruncate, OpenOffset, OpenInode,
        OpenNoInode, OpenEntry, OpenDelete, OpenAdd, OpenTableFull, AccessTable, AccessFile,
        AccessInode, AccessRwLock, AccessWork, AccessFails, AccessFailed, AccessEnd, CopyTable,
        CopyNotOpened, CopyFile, CopyGoesOn, CopyRwUnlock, CopyEnd, IInv, CallsOK
  <1> QED BY <1>1, <1>2

LEMMA GoesTo ==
  ASSUME IInv, NEW t \in Threads, call[t] \in OpenCalls \cup AccessCalls, NEW p, Goes(t, p)
  PROVE  /\ call'[t].pc = p /\ call'[t].op = call[t].op
         /\ call'[t].inum = call[t].inum /\ call'[t].fh = call[t].fh
  <1>1. call'[t] = [call[t] EXCEPT !.pc = p]
    BY DEF Goes, IInv, CallsOK
  <1> QED BY <1>1 DEF OpenCalls, AccessCalls

LEMMA ReturnsTo ==
  ASSUME IInv, NEW t \in Threads, call[t] \in OpenCalls \cup AccessCalls \cup CloseCalls, NEW p, NEW h,
         Returns(t, p, h)
  PROVE  /\ call[t].op # "copy" => call'[t].pc = "idle"
         /\ call[t].op = "copy" => /\ call'[t].pc = p /\ call'[t].op = "copy"
                                   /\ call'[t].inum = call[t].inum /\ call'[t].fh = h
  <1>1. CASE call[t].op = "copy"
    <2>1. call'[t] = [call[t] EXCEPT !.pc = p, !.fh = h]
      BY <1>1 DEF Returns, IInv, CallsOK
    <2> QED BY <1>1, <2>1 DEF OpenCalls, AccessCalls, CloseCalls
  <1>2. CASE call[t].op # "copy"
    <2>1. call'[t] = Idle
      BY <1>2 DEF Returns, IInv, CallsOK
    <2> QED BY <1>2, <2>1 DEF Idle
  <1> QED BY <1>1, <1>2

(* A handle that a copy uses keeps its i-node, since the copy has the      *)
(* handle's lock.                                                          *)
LEMMA CopiesKeepInodes ==
  ASSUME IInv, ReadersInv, NEW t \in Threads, Begins(t) \/ GoesOn(t), NEW u \in Threads \ {t}
  PROVE  CopyStays(call[u])'
  <1>1. call'[u] = call[u] /\ CopyStays(call[u]) /\ CallOK(call[u])
    BY OthersStay, OneThread DEF ReadersInv
  <1>2. SUFFICES ASSUME call[u].pc \in CopyPart \cup {"copyrwlock"}, call[u].op = "copy"
                 PROVE  of_inumber'[call[u].fh] = of_inumber[call[u].fh]
    BY <1>1 DEF CopyStays
  <1> DEFINE h == call[u].fh
  <1>3. h \in Handles /\ FileDepth(call[u], h) > 0
    BY <1>1, <1>2 DEF CallOK, CopyPart, FileOuter, FileDepth, AccessPcs
  <1>4. file_lock[h].owner = u
    BY <1>3, OneThread DEF Held
  <1>5. CASE OpenAdd(t)
    <2>1. call[t].k # h
      BY <1>4, <1>5, SizesAssumption DEF OpenAdd, Guarded, CanLock
    <2>2. of_inumber \in [Handles -> Inodes \cup {0}]
      BY DEF IInv, TablesOK
    <2> QED BY <1>3, <1>5, <2>1, <2>2 DEF OpenAdd
  <1>6. CASE ~OpenAdd(t)
    BY <1>6 DEF Begins, TfsClose, GoesOn, tables, OpenFound, OpenNotFound, OpenWrLock, OpenTruncate,
        OpenOffset, OpenInode, OpenNoInode, OpenEntry, OpenDelete, OpenTableFull, AccessTable,
        AccessFile, AccessInode, AccessRwLock, AccessWork, AccessFails, AccessFailed, AccessEnd,
        CopyTable, CopyNotOpened, CopyFile, CopyGoesOn, CopyRwUnlock, CopyEnd
  <1> QED BY <1>5, <1>6

(* So a step has to be looked at only for the thread that takes it.        *)
LEMMA ReadersKept ==
  ASSUME IInv, ReadersInv, NEW t \in Threads, Begins(t) \/ GoesOn(t), CopyStays(call[t])',
         \A i \in Inodes : Counted(rwl'[i], Readers(i) - Share(call[t], i) + Share(call'[t], i))
  PROVE  ReadersInv'
  <1>1. \A i \in Inodes : Counted(rwl'[i], Readers(i)')
    BY ReadersMove, OthersStay
  <1>2. \A i \in Inodes : Counted(rwl[i], Readers(i))'
    BY <1>1 DEF Counted
  <1>3. \A u \in Threads : CopyStays(call[u])'
    BY CopiesKeepInodes
  <1> QED BY <1>2, <1>3 DEF ReadersInv

(* Where a call has no share in any i-node's lock.                         *)
Quiet(c) ==
  \/ c.pc \in OpenPcs \cup {"idle", "copy", "opened", "copyinode", "copyend"}
  \/ c.pc \in {"table", "file", "inode", "rwlock", "failed", "close"} /\ c.op # "copy"

LEMMA QuietShare ==
  ASSUME NEW c, Quiet(c) PROVE (\A i \in Inodes : Share(c, i) = 0) /\ CopyStays(c)
  BY DEF Quiet, Share, ReadingOn, CopyingOn, CopyStays, CopyPart, AccessPcs, OpenPcs

LEMMA QuietSteps ==
  ASSUME IInv, ReadersInv, NEW t \in Threads, Begins(t) \/ GoesOn(t), rwl' = rwl,
         Quiet(call[t]), Quiet(call'[t])
  PROVE  ReadersInv'
  <1>1. \A i \in Inodes : Share(call[t], i) = 0 /\ Share(call'[t], i) = 0
    BY QuietShare
  <1>2. CopyStays(call[t])'
    BY DEF CopyStays, Quiet, CopyPart, AccessPcs, OpenPcs
  <1>3. ASSUME NEW i \in Inodes
        PROVE  Counted(rwl'[i], Readers(i) - Share(call[t], i) + Share(call'[t], i))
    <2>1. Readers(i) \in Nat
      BY ReadersMove, OthersStay
    <2>2. Readers(i) - Share(call[t], i) + Share(call'[t], i) = Readers(i)
      BY <1>1, <2>1
    <2> QED BY <2>2 DEF ReadersInv
  <1> QED BY <1>2, <1>3, ReadersKept

(* Where its share stays the same.                                         *)
LEMMA BusySteps ==
  ASSUME IInv, ReadersInv, NEW t \in Threads, Begins(t) \/ GoesOn(t), rwl' = rwl,
         of_inumber' = of_inumber, call'[t].op = call[t].op, call'[t].inum = call[t].inum,
         call'[t].fh = call[t].fh,
         \/ call[t].pc \in {"work", "unlock"} /\ call'[t].pc \in {"work", "unlock"}
         \/ /\ call[t].pc \in CopyPart \ {"work", "unlock"}
            /\ call'[t].pc \in CopyPart \ {"work", "unlock"}
  PROVE  ReadersInv'
  <1>1. \A i \in Inodes : Share(call[t], i) = Share(call'[t], i)
    BY DEF Share, ReadingOn, CopyingOn, CopyPart, AccessPcs
  <1>2. CopyStays(call[t])'
    BY DEF ReadersInv, CopyStays, CopyPart, AccessPcs
  <1>3. ASSUME NEW i \in Inodes
        PROVE  Counted(rwl'[i], Readers(i) - Share(call[t], i) + Share(call'[t], i))
    <2>1. Readers(i) \in Nat /\ Share(call[t], i) \in {0, 1, 2}
      BY ReadersMove, OthersStay
    <2>2. Readers(i) - Share(call[t], i) + Share(call'[t], i) = Readers(i)
      BY <1>1, <2>1
    <2> QED BY <2>2 DEF ReadersInv
  <1> QED BY <1>2, <1>3, ReadersKept

LEMMA BeginsReaders ==
  ASSUME IInv, ReadersInv, NEW t \in Threads, Begins(t) PROVE ReadersInv'
  <1>1. rwl' = rwl /\ Quiet(call[t])
    BY DEF Begins, locks, At, Quiet
  <1>2. Quiet(call'[t])
    <2>1. ASSUME NEW name \in Names, NEW flags,
                 \/ call' = [call EXCEPT ![t] = Opening("open", "lookup", name, flags)]
                 \/ call' = [call EXCEPT ![t] = Opening("copy", "copy", name, flags)]
          PROVE  Quiet(call'[t])
      <3>1. call'[t].pc \in {"lookup", "copy"}
        BY <2>1 DEF Opening, IInv, CallsOK
      <3> QED BY <3>1 DEF Quiet, OpenPcs
    <2>2. ASSUME NEW op \in {"write", "read", "close"}, NEW p \in {"table", "close"}, NEW h,
                 call' = [call EXCEPT ![t] = Using(op, p, h)]
          PROVE  Quiet(call'[t])
      <3>1. call'[t].pc = p /\ call'[t].op = op
        BY <2>2 DEF Using, IInv, CallsOK
      <3> QED BY <3>1 DEF Quiet
    <2> QED BY <2>1, <2>2 DEF Begins
  <1> QED BY <1>1, <1>2, QuietSteps

(* The steps of tfs_open that leave the i-nodes' locks alone.              *)
LEMMA OpenReaders ==
  ASSUME IInv, ReadersInv, NEW t \in Threads,
         \/ OpenFound(t) \/ OpenNotFound(t) \/ OpenInode(t) \/ OpenNoInode(t) \/ OpenEntry(t)
         \/ OpenDelete(t) \/ OpenAdd(t) \/ OpenTableFull(t)
  PROVE  ReadersInv'
  <1>1. rwl' = rwl
    BY DEF OpenFound, OpenNotFound, OpenInode, OpenNoInode, OpenEntry, OpenDelete, OpenAdd,
           OpenTableFull, locks
  <1>2. call[t] \in OpenCalls /\ call[t].pc \in OpenPcs
    BY OneThread DEF OpenFound, OpenNotFound, OpenInode, OpenNoInode, OpenEntry, OpenDelete, OpenAdd,
                     OpenTableFull, At, OpenPcs
  <1>3. call'[t].pc \in OpenPcs \cup {"opened", "idle"}
    <2>1. ASSUME NEW n, NEW p \in {"wrlock", "entry"},
                 call' = [call EXCEPT ![t] = [@ EXCEPT !.pc = p, !.inum = n]]
          PROVE  call'[t].pc \in OpenPcs
      <3>1. call'[t] = [call[t] EXCEPT !.pc = p, !.inum = n]
        BY <2>1 DEF IInv, CallsOK
      <3> QED BY <1>2, <3>1 DEF OpenCalls, OpenPcs
    <2>2. OpenFound(t) \/ OpenInode(t) => call'[t].pc \in OpenPcs
      BY <2>1 DEF OpenFound, OpenInode
    <2>3. ASSUME NEW p \in OpenPcs, Goes(t, p) PROVE call'[t].pc \in OpenPcs
      BY <1>2, <2>3, GoesTo
    <2>4. ASSUME NEW h, Returns(t, "opened", h) PROVE call'[t].pc \in {"opened", "idle"}
      BY <1>2, <2>4, ReturnsTo
    <2>5. ASSUME call' = [call EXCEPT ![t].k = @ + 1] PROVE call'[t].pc \in OpenPcs
      <3> DEFINE j == call[t].k + 1
      <3>1. call'[t] = [call[t] EXCEPT !.k = j]
        BY <2>5 DEF IInv, CallsOK
      <3> HIDE DEF j
      <3> QED BY <1>2, <3>1 DEF OpenCalls
    <2>6. OpenNotFound(t) \/ OpenEntry(t) => call'[t].pc \in OpenPcs \cup {"opened", "idle"}
      BY <2>3, <2>4 DEF OpenNotFound, OpenEntry, OpenPcs
    <2>7. OpenNoInode(t) \/ OpenDelete(t) \/ OpenAdd(t) \/ OpenTableFull(t)
            => call'[t].pc \in OpenPcs \cup {"opened", "idle"}
      BY <2>4, <2>5 DEF OpenNoInode, OpenDelete, OpenAdd, OpenTableFull
    <2> QED BY <2>2, <2>6, <2>7
  <1>4. Quiet(call[t]) /\ Quiet(call'[t])
    BY <1>2, <1>3 DEF Quiet
  <1> QED BY <1>1, <1>4, QuietSteps DEF GoesOn

LEMMA OpenWrLockReaders ==
  ASSUME IInv, ReadersInv, NEW t \in Threads, OpenWrLock(t) PROVE ReadersInv'
  <1> DEFINE n == call[t].inum
  <1>1. call[t] \in OpenCalls /\ call[t].pc = "wrlock" /\ call'[t].pc \in {"truncate", "offset"}
    BY OneThread, GoesTo DEF OpenWrLock, At, OpenPcs
  <1>2. Quiet(call[t]) /\ Quiet(call'[t])
    BY <1>1 DEF Quiet, OpenPcs
  <1>3. \A i \in Inodes : Share(call[t], i) = 0 /\ Share(call'[t], i) = 0
    BY <1>2, QuietShare
  <1>4. CopyStays(call[t])'
    BY <1>1 DEF CopyStays, CopyPart, AccessPcs
  <1>5. ASSUME NEW i \in Inodes
        PROVE  Counted(rwl'[i], Readers(i) - Share(call[t], i) + Share(call'[t], i))
    <2>1. Readers(i) \in Nat
      BY ReadersMove, OthersStay DEF GoesOn
    <2>2. Readers(i) - Share(call[t], i) + Share(call'[t], i) = Readers(i)
      BY <1>3, <2>1
    <2>3. rwl \in [Inodes -> Lock!Rwlocks(Threads)] /\ Counted(rwl[i], Readers(i))
      BY DEF IInv, TablesOK, ReadersInv
    <2>4. CASE i = n
      <3>1. rwl'[i] = Lock!WrLock(rwl[i], t) /\ Lock!CanWrite(rwl[i])
        BY <2>3, <2>4 DEF OpenWrLock
      <3> QED BY <2>1, <2>2, <2>3, <3>1, CountedWrLock
    <2>5. CASE i # n
      <3>1. rwl'[i] = rwl[i]
        BY <2>3, <2>5 DEF OpenWrLock
      <3> QED BY <2>2, <2>3, <3>1
    <2> QED BY <2>4, <2>5
  <1> QED BY <1>4, <1>5, ReadersKept DEF GoesOn

(* The unlock of a writer, of a reader, or one too many.                   *)
LEMMA UnlockReaders ==
  ASSUME IInv, ReadersInv, NEW t \in Threads, GoesOn(t), CopyStays(call[t])',
         RwUnlock(t, call[t].inum),
         \A i \in Inodes \ {call[t].inum} : Share(call'[t], i) = Share(call[t], i),
         NEW d \in {0, 1}, call[t].inum \in Inodes =>
           /\ Share(call[t], call[t].inum) - Share(call'[t], call[t].inum) = d
           /\ Share(call'[t], call[t].inum) \in {0, 1, 2}
           /\ AloneOn(call[t], call[t].inum) => d = 0
  PROVE  ReadersInv'
  <1> DEFINE n == call[t].inum
  <1>1. ASSUME NEW i \in Inodes
        PROVE  Counted(rwl'[i], Readers(i) - Share(call[t], i) + Share(call'[t], i))
    <2>1. Readers(i) \in Nat /\ Share(call[t], i) \in {0, 1, 2} /\ Share(call[t], i) <= Readers(i)
      BY ReadersMove, OthersStay
    <2>2. /\ rwl \in [Inodes -> Lock!Rwlocks(Threads)] /\ Counted(rwl[i], Readers(i))
          /\ rwl' = [rwl EXCEPT ![n] = Lock!Unlock(rwl[n], t)]
      BY DEF IInv, TablesOK, ReadersInv, RwUnlock
    <2>3. CASE i = n
      <3>1. rwl'[i] = Lock!Unlock(rwl[i], t) /\ rwl[i] \in Lock!Rwlocks(Threads)
        BY <2>2, <2>3
      <3>2. /\ Share(call[t], i) - Share(call'[t], i) = d /\ Share(call'[t], i) \in {0, 1, 2}
            /\ rwl[i].writer = t => d = 0
        BY <2>3, OneThread
      <3>3. Readers(i) - Share(call[t], i) + Share(call'[t], i) = Readers(i) - d /\ d <= Readers(i)
        BY <2>1, <3>2
      <3> QED BY <2>1, <2>2, <3>1, <3>2, <3>3, CountedUnlock
    <2>4. CASE i # n
      <3>1. rwl'[i] = rwl[i] /\ Readers(i) - Share(call[t], i) + Share(call'[t], i) = Readers(i)
        BY <2>1, <2>2, <2>4
      <3> QED BY <2>2, <3>1
    <2> QED BY <2>3, <2>4
  <1> QED BY <1>1, ReadersKept

LEMMA OpenUnlockReaders ==
  ASSUME IInv, ReadersInv, NEW t \in Threads, OpenTruncate(t) \/ OpenOffset(t) PROVE ReadersInv'
  <1>1. call[t] \in OpenCalls /\ call[t].pc \in {"truncate", "offset"}
    BY OneThread DEF OpenTruncate, OpenOffset, At, OpenPcs
  <1>2. call'[t].pc \in {"offset", "add", "opened", "idle"}
    BY <1>1, GoesTo, ReturnsTo DEF OpenTruncate, OpenOffset
  <1>3. Quiet(call[t]) /\ Quiet(call'[t])
    BY <1>1, <1>2 DEF Quiet, OpenPcs
  <1>4. \A i \in Inodes : Share(call[t], i) = 0 /\ Share(call'[t], i) = 0
    BY <1>3, QuietShare
  <1>5. CopyStays(call[t])'
    BY <1>2 DEF CopyStays, CopyPart, AccessPcs
  <1>6. RwUnlock(t, call[t].inum)
    BY DEF OpenTruncate, OpenOffset
  <1> QED BY <1>4, <1>5, <1>6, UnlockReaders DEF GoesOn

LEMMA AccessRwLockReaders ==
  ASSUME IInv, ReadersInv, NEW t \in Threads,
         NEW from, NEW to, <<from, to>> \in {<<"rwlock", "work">>, <<"copyrwlock", "destination">>},
         AccessRwLock(t, from, to)
  PROVE  ReadersInv'
  <1> DEFINE n == call[t].inum
  <1>1. \/ from = "rwlock" /\ to = "work"
        \/ from = "copyrwlock" /\ to = "destination"
    OBVIOUS
  <1>2. /\ call[t] \in OpenCalls \cup AccessCalls /\ call[t].pc = from
        /\ from = "copyrwlock" => call[t].op = "copy"
    BY <1>1, OneThread DEF AccessRwLock, At, AccessPcs, CopyPcs, CallOK
  <1>3. /\ call'[t].pc = to /\ call'[t].op = call[t].op
        /\ call'[t].inum = n /\ call'[t].fh = call[t].fh
    BY <1>2, GoesTo DEF AccessRwLock
  <1>4. CopyStays(call[t])'
    BY <1>1, <1>2, <1>3 DEF AccessRwLock, tables, ReadersInv, CopyStays, CopyPart, AccessPcs
  <1>5. GoesOn(t)
    BY <1>1 DEF GoesOn
  <1>6. ASSUME NEW i \in Inodes
        PROVE  /\ call[t].op = "write" \/ i # n => Share(call'[t], i) = Share(call[t], i)
               /\ call[t].op # "write" /\ i = n => Share(call'[t], i) = Share(call[t], i) + 1
    BY <1>1, <1>2, <1>3 DEF Share, ReadingOn, CopyingOn, CopyPart, AccessPcs
  <1>7. ASSUME NEW i \in Inodes
        PROVE  Counted(rwl'[i], Readers(i) - Share(call[t], i) + Share(call'[t], i))
    <2>1. Readers(i) \in Nat /\ Share(call[t], i) \in {0, 1, 2}
      BY <1>5, ReadersMove, OthersStay
    <2>2. rwl \in [Inodes -> Lock!Rwlocks(Threads)] /\ Counted(rwl[i], Readers(i))
      BY DEF IInv, TablesOK, ReadersInv
    <2>3. CASE i = n /\ call[t].op = "write"
      <3>1. rwl'[i] = Lock!WrLock(rwl[i], t) /\ Lock!CanWrite(rwl[i]) /\ rwl[i] \in Lock!Rwlocks(Threads)
        BY <2>2, <2>3 DEF AccessRwLock, SharesIfReading
      <3>2. Readers(i) - Share(call[t], i) + Share(call'[t], i) = Readers(i)
        BY <1>6, <2>1, <2>3
      <3> QED BY <2>1, <2>2, <3>1, <3>2, CountedWrLock
    <2>4. CASE i = n /\ call[t].op # "write"
      <3>1. rwl'[i] = Lock!RdLock(rwl[i]) /\ Lock!CanRead(rwl[i]) /\ rwl[i] \in Lock!Rwlocks(Threads)
        BY <2>2, <2>4 DEF AccessRwLock, SharesIfReading
      <3>2. Readers(i) - Share(call[t], i) + Share(call'[t], i) = Readers(i) + 1
        BY <1>6, <2>1, <2>4
      <3> QED BY <2>1, <2>2, <3>1, <3>2, CountedRdLock
    <2>5. CASE i # n
      <3>1. rwl'[i] = rwl[i]
        BY <2>2, <2>5 DEF AccessRwLock
      <3>2. Readers(i) - Share(call[t], i) + Share(call'[t], i) = Readers(i)
        BY <1>6, <2>1, <2>5
      <3> QED BY <2>2, <3>1, <3>2
    <2> QED BY <2>3, <2>4, <2>5
  <1> QED BY <1>4, <1>5, <1>7, ReadersKept

(* The reads and writes that leave the i-nodes' locks alone.               *)
LEMMA AccessReaders ==
  ASSUME IInv, ReadersInv, NEW t \in Threads,
         AccessTable(t) \/ AccessFile(t) \/ AccessInode(t, "inode", "rwlock") \/ AccessWork(t)
  PROVE  ReadersInv'
  <1>1. rwl' = rwl /\ of_inumber' = of_inumber
    BY DEF AccessTable, AccessFile, AccessInode, AccessWork, tables
  <1>2. call[t] \in OpenCalls \cup AccessCalls /\ call[t].pc \in {"table", "file", "inode", "work"}
    BY OneThread DEF AccessTable, AccessFile, AccessInode, AccessWork, At, AccessPcs
  <1>3. CASE AccessTable(t) \/ AccessFile(t) \/ AccessWork(t)
    <2>1. /\ \/ call[t].pc = "work" /\ call'[t].pc = "unlock"
             \/ call[t].pc \in {"table", "file"} /\ call'[t].pc \in {"file", "inode"}
          /\ call'[t].op = call[t].op /\ call'[t].inum = call[t].inum /\ call'[t].fh = call[t].fh
      BY <1>2, <1>3, GoesTo DEF AccessTable, AccessFile, AccessWork, At
    <2>2. CASE call[t].pc # "work" /\ call[t].op # "copy"
      <3>1. Quiet(call[t]) /\ Quiet(call'[t])
        BY <2>1, <2>2 DEF Quiet
      <3> QED BY <1>1, <1>3, <3>1, QuietSteps DEF GoesOn
    <2>3. CASE call[t].pc = "work" \/ call[t].op = "copy"
      BY <1>1, <1>3, <2>1, <2>3, BusySteps DEF GoesOn, CopyPart, AccessPcs
    <2> QED BY <2>2, <2>3
  <1>4. CASE AccessInode(t, "inode", "rwlock")
    <2>1. call[t].pc = "inode" /\ call'[t].pc = "rwlock" /\ call'[t].op = call[t].op
          /\ call'[t].inum = of_inumber[call[t].fh] /\ call'[t].fh = call[t].fh
      <3> DEFINE n == of_inumber[call[t].fh]
      <3>1. call'[t] = [call[t] EXCEPT !.pc = "rwlock", !.inum = n]
        BY <1>4 DEF AccessInode, IInv, CallsOK
      <3> HIDE DEF n
      <3>2. call[t].pc = "inode" /\ call'[t].pc = "rwlock" /\ call'[t].op = call[t].op
            /\ call'[t].inum = n /\ call'[t].fh = call[t].fh
        <4>1. call[t].pc = "inode"
          BY <1>4 DEF AccessInode, At
        <4>2. CASE call[t] \in OpenCalls
          BY <3>1, <4>1, <4>2 DEF OpenCalls
        <4>3. CASE call[t] \in AccessCalls
          BY <3>1, <4>1, <4>3 DEF AccessCalls
        <4> QED BY <1>2, <4>2, <4>3
      <3> QED BY <3>2 DEF n
    <2>2. CASE call[t].op # "copy"
      <3>1. Quiet(call[t]) /\ Quiet(call'[t])
        BY <2>1, <2>2 DEF Quiet
      <3> QED BY <1>1, <1>4, <3>1, QuietSteps DEF GoesOn
    <2>3. CASE call[t].op = "copy"
      <3>1. call'[t].inum = call[t].inum
        BY <2>1, <2>3 DEF ReadersInv, CopyStays, CopyPart, AccessPcs
      <3> QED BY <1>1, <1>4, <2>1, <3>1, BusySteps DEF GoesOn, CopyPart, AccessPcs
    <2> QED BY <2>2, <2>3
  <1> QED BY <1>3, <1>4

(* The ends of reads and writes.                                           *)
LEMMA AccessUnlockReaders ==
  ASSUME IInv, ReadersInv, NEW t \in Threads, AccessFails(t) \/ AccessEnd(t) PROVE ReadersInv'
  <1> DEFINE n == call[t].inum
             d == IF call[t].op = "write" THEN 0 ELSE 1
  <1>1. call[t] \in OpenCalls \cup AccessCalls /\ call[t].pc \in {"work", "unlock"}
    BY OneThread DEF AccessFails, AccessEnd, At, AccessPcs
  <1>2. /\ call'[t].pc \in {"failed", "copied", "idle"}
        /\ call[t].op # "copy" => call'[t].pc = "idle" \/ call'[t].op # "copy"
        /\ call[t].op = "copy" => /\ call'[t].pc \in {"failed", "copied"}
                                  /\ call'[t].op = "copy" /\ call'[t].inum = n
                                  /\ call'[t].fh = call[t].fh
    BY <1>1, GoesTo, ReturnsTo DEF AccessFails, AccessEnd
  <1>3. RwUnlock(t, n) /\ of_inumber' = of_inumber
    BY DEF AccessFails, AccessEnd, tables
  <1>4. CopyStays(call[t])'
    BY <1>1, <1>2, <1>3 DEF ReadersInv, CopyStays, CopyPart, AccessPcs
  <1>5. ASSUME NEW i \in Inodes
        PROVE  /\ Share(call'[t], i) \in {0, 1, 2}
               /\ i # n => Share(call'[t], i) = Share(call[t], i)
               /\ i = n => Share(call[t], i) - Share(call'[t], i) = d
               /\ i = n /\ AloneOn(call[t], i) => d = 0
    <2>1. CASE call[t].op = "copy"
      BY <1>1, <1>2, <2>1 DEF Share, ReadingOn, CopyingOn, CopyPart, AccessPcs, AloneOn
    <2>2. CASE call[t].op # "copy"
      BY <1>1, <1>2, <2>2 DEF Share, ReadingOn, CopyingOn, CopyPart, AccessPcs, AloneOn
    <2> QED BY <2>1, <2>2
  <1>6. d \in {0, 1}
    OBVIOUS
  <1> HIDE DEF d
  <1> QED BY <1>3, <1>4, <1>5, <1>6, UnlockReaders DEF GoesOn

LEMMA AccessFailedReaders ==
  ASSUME IInv, ReadersInv, NEW t \in Threads, AccessFailed(t) PROVE ReadersInv'
  <1>1. call[t] \in OpenCalls \cup AccessCalls /\ call[t].pc = "failed"
    BY OneThread DEF AccessFailed, At, AccessPcs
  <1>2. /\ call[t].op # "copy" => call'[t].pc = "idle"
        /\ call[t].op = "copy" => /\ call'[t].pc = "copyunlock" /\ call'[t].op = "copy"
                                  /\ call'[t].inum = call[t].inum /\ call'[t].fh = call[t].fh
    BY <1>1, ReturnsTo DEF AccessFailed
  <1>3. rwl' = rwl /\ of_inumber' = of_inumber
    BY DEF AccessFailed, tables
  <1>4. CASE call[t].op # "copy"
    <2>1. Quiet(call[t]) /\ Quiet(call'[t])
      BY <1>1, <1>2, <1>4 DEF Quiet
    <2> QED BY <1>3, <2>1, QuietSteps DEF GoesOn
  <1>5. CASE call[t].op = "copy"
    BY <1>1, <1>2, <1>3, <1>5, BusySteps DEF GoesOn, CopyPart, AccessPcs
  <1> QED BY <1>4, <1>5

LEMMA TfsCloseReaders ==
  ASSUME IInv, ReadersInv, NEW t \in Threads, TfsClose(t) PROVE ReadersInv'
  <1>1. call[t] \in OpenCalls \cup CloseCalls /\ call[t].pc = "close"
    BY OneThread DEF TfsClose, At
  <1>2. /\ call[t].op # "copy" => call'[t].pc = "idle"
        /\ call[t].op = "copy" => /\ call'[t].pc = "copyunlock" /\ call'[t].op = "copy"
                                  /\ call'[t].inum = call[t].inum /\ call'[t].fh = call[t].fh
    BY <1>1, ReturnsTo DEF TfsClose
  <1>3. rwl' = rwl /\ of_inumber' = of_inumber
    BY DEF TfsClose, locks
  <1>4. CASE call[t].op # "copy"
    <2>1. Quiet(call[t]) /\ Quiet(call'[t])
      BY <1>1, <1>2, <1>4 DEF Quiet
    <2> QED BY <1>3, <2>1, QuietSteps DEF GoesOn
  <1>5. CASE call[t].op = "copy"
    BY <1>1, <1>2, <1>3, <1>5, BusySteps DEF GoesOn, CopyPart, AccessPcs
  <1> QED BY <1>4, <1>5

(* The steps of a copy.                                                    *)
LEMMA CopyReaders ==
  ASSUME IInv, ReadersInv, NEW t \in Threads,
         CopyTable(t) \/ CopyNotOpened(t) \/ CopyFile(t) \/ CopyGoesOn(t) \/ CopyEnd(t)
  PROVE  ReadersInv'
  <1>1. rwl' = rwl /\ of_inumber' = of_inumber
    BY DEF CopyTable, CopyNotOpened, CopyFile, CopyGoesOn, CopyEnd, locks, tables
  <1>2. call[t] \in OpenCalls /\ call[t].op = "copy"
    BY OneThread DEF CopyTable, CopyNotOpened, CopyFile, CopyGoesOn, CopyEnd, At, CopyPcs, CallOK
  <1>3. CASE CopyTable(t) \/ CopyFile(t)
    <2>1. call[t].pc \in {"copy", "opened"} /\ call'[t].pc \in {"lookup", "copyinode"}
      BY <1>2, <1>3, GoesTo DEF CopyTable, CopyFile, At
    <2>2. Quiet(call[t]) /\ Quiet(call'[t])
      BY <2>1 DEF Quiet, OpenPcs
    <2> QED BY <1>1, <1>3, <2>2, QuietSteps DEF GoesOn
  <1>4. CASE CopyNotOpened(t) \/ CopyEnd(t)
    <2>1. call'[t] = Idle /\ call[t].pc \in {"opened", "copyend"}
      BY <1>4 DEF CopyNotOpened, CopyEnd, At, IInv, CallsOK
    <2>2. Quiet(call[t]) /\ Quiet(call'[t])
      BY <2>1 DEF Quiet, Idle
    <2> QED BY <1>1, <1>4, <2>2, QuietSteps DEF GoesOn
  <1>5. CASE CopyGoesOn(t)
    <2>1. /\ call[t].pc \in {"destination", "copied"}
          /\ call'[t].pc \in {"table", "close", "copyunlock"}
          /\ call'[t].op = call[t].op /\ call'[t].inum = call[t].inum /\ call'[t].fh = call[t].fh
      BY <1>2, <1>5, GoesTo DEF CopyGoesOn, At
    <2> QED BY <1>1, <1>5, <2>1, BusySteps DEF GoesOn, CopyPart, AccessPcs
  <1> QED BY <1>3, <1>4, <1>5

LEMMA CopyInodeReaders ==
  ASSUME IInv, ReadersInv, NEW t \in Threads, AccessInode(t, "copyinode", "copyrwlock")
  PROVE  ReadersInv'
  <1> DEFINE n == of_inumber[call[t].fh]
  <1>1. call[t] \in OpenCalls /\ call[t].pc = "copyinode"
    BY OneThread DEF AccessInode, At, CopyPcs
  <1>2. call'[t] = [call[t] EXCEPT !.pc = "copyrwlock", !.inum = n]
    BY DEF AccessInode, IInv, CallsOK
  <1>3. rwl' = rwl /\ of_inumber' = of_inumber /\ GoesOn(t)
    BY DEF AccessInode, tables, GoesOn
  <1> HIDE DEF n
  <1>4. call'[t].pc = "copyrwlock" /\ call'[t].inum = n /\ call'[t].fh = call[t].fh
    BY <1>1, <1>2 DEF OpenCalls
  <1>5. CopyStays(call[t])'
    BY <1>3, <1>4 DEF n, CopyStays
  <1>6. \A i \in Inodes : Share(call[t], i) = 0 /\ Share(call'[t], i) = 0
    BY <1>1, <1>4 DEF Share, ReadingOn, CopyingOn, CopyPart, AccessPcs
  <1>7. ASSUME NEW i \in Inodes
        PROVE  Counted(rwl'[i], Readers(i) - Share(call[t], i) + Share(call'[t], i))
    <2>1. Readers(i) \in Nat
      BY <1>3, ReadersMove, OthersStay
    <2>2. Readers(i) - Share(call[t], i) + Share(call'[t], i) = Readers(i)
      BY <1>6, <2>1
    <2> QED BY <1>3, <2>2 DEF ReadersInv
  <1> QED BY <1>3, <1>5, <1>7, ReadersKept

LEMMA CopyUnlockReaders ==
  ASSUME IInv, ReadersInv, NEW t \in Threads, CopyRwUnlock(t) PROVE ReadersInv'
  <1> DEFINE n == call[t].inum
  <1>1. call[t] \in OpenCalls /\ call[t].pc = "copyunlock" /\ call[t].op = "copy"
    BY OneThread DEF CopyRwUnlock, At, CopyPcs, CallOK
  <1>2. call'[t].pc = "copyend"
    BY <1>1, GoesTo DEF CopyRwUnlock
  <1>3. CopyStays(call[t])'
    BY <1>2 DEF CopyStays, CopyPart, AccessPcs
  <1>4. ASSUME NEW i \in Inodes
        PROVE  /\ Share(call'[t], i) = 0
               /\ Share(call[t], i) = IF i = n THEN 1 ELSE 0
               /\ ~AloneOn(call[t], i)
    BY <1>1, <1>2 DEF Share, ReadingOn, CopyingOn, CopyPart, AccessPcs, AloneOn
  <1> QED BY <1>3, <1>4, UnlockReaders DEF CopyRwUnlock, GoesOn

LEMMA NextReaders == IInv /\ ReadersInv /\ [Next]_vars => ReadersInv'
  <1> SUFFICES ASSUME IInv, ReadersInv, [Next]_vars PROVE ReadersInv'
    OBVIOUS
  <1>1. CASE UNCHANGED vars
    <2>1. call' = call /\ rwl' = rwl /\ of_inumber' = of_inumber
      BY <1>1 DEF vars, locks, tables
    <2>2. \A i \in Inodes : Readers(i)' = Readers(i)
      BY <2>1 DEF Readers, On, At, Reading, Copying
    <2> QED BY <2>1, <2>2 DEF ReadersInv, Counted, CopyStays
  <1>2. ASSUME NEW t \in Threads, Begins(t) PROVE ReadersInv'
    BY <1>2, BeginsReaders
  <1>3. ASSUME NEW t \in Threads, GoesOn(t) PROVE ReadersInv'
    <2>1. /\ OpenFound(t) \/ OpenNotFound(t) \/ OpenInode(t) \/ OpenNoInode(t) \/ OpenEntry(t)
               \/ OpenDelete(t) \/ OpenAdd(t) \/ OpenTableFull(t) => ReadersInv'
          /\ OpenWrLock(t) \/ OpenTruncate(t) \/ OpenOffset(t) => ReadersInv'
      BY OpenReaders, OpenWrLockReaders, OpenUnlockReaders
    <2>2. /\ AccessTable(t) \/ AccessFile(t) \/ AccessWork(t) => ReadersInv'
          /\ AccessInode(t, "inode", "rwlock") \/ AccessInode(t, "copyinode", "copyrwlock") => ReadersInv'
          /\ AccessFails(t) \/ AccessFailed(t) \/ AccessEnd(t) => ReadersInv'
          /\ AccessRwLock(t, "rwlock", "work") \/ AccessRwLock(t, "copyrwlock", "destination")
               => ReadersInv'
      BY AccessReaders, CopyInodeReaders, AccessUnlockReaders, AccessFailedReaders, AccessRwLockReaders
    <2>3. CopyTable(t) \/ CopyNotOpened(t) \/ CopyFile(t) \/ CopyGoesOn(t)
            \/ CopyRwUnlock(t) \/ CopyEnd(t) => ReadersInv'
      BY CopyReaders, CopyUnlockReaders
    <2>4. TfsClose(t) => ReadersInv'
      BY TfsCloseReaders
    <2> QED BY <1>3, <2>1, <2>2, <2>3, <2>4 DEF GoesOn
  <1> QED BY <1>1, <1>2, <1>3 DEF Next

LEMMA InitReaders == Init => ReadersInv
  <1> SUFFICES ASSUME Init PROVE ReadersInv
    OBVIOUS
  <1>1. \A t \in Threads : call[t].pc = "idle"
    BY IdleHolds DEF Init
  <1>2. \A t \in Threads : CopyStays(call[t])
    BY <1>1 DEF CopyStays, CopyPart, AccessPcs
  <1>3. ASSUME NEW i \in Inodes PROVE Counted(rwl[i], Readers(i))
    <2>1. /\ {t \in Threads : On(t, i) /\ Reading(t)} = {}
          /\ {t \in Threads : On(t, i) /\ Copying(t)} = {}
      BY <1>1 DEF On, At
    <2>2. Readers(i) = 0
      BY <2>1, FS_EmptySet DEF Readers
    <2> QED BY <2>2 DEF Init, Counted, Lock!NewLock
  <1> QED BY <1>2, <1>3 DEF ReadersInv

(* A file is never truncated or written while another call reads or writes *)
(* it, unless its lock was released twice, and no two calls use one        *)
(* handle's offset: for any number of threads, files and handles.          *)
THEOREM FilesAreExclusive == Spec => []FileExclusive
  <1>1. IInv /\ ReadersInv => FileExclusive
    <2> SUFFICES ASSUME IInv, ReadersInv, NEW t \in Threads, NEW u \in Threads, t # u
                 PROVE  /\ \A i \in Inodes : Sound(i) /\ On(t, i) /\ On(u, i) /\ Alone(t) =>
                             ~(Alone(u) \/ Reading(u) \/ Copying(u))
                        /\ \A fh \in Handles : ~(HoldsHandle(t, fh) /\ HoldsHandle(u, fh))
      BY DEF FileExclusive
    <2>1. ASSUME NEW i \in Inodes, Sound(i), On(t, i), On(u, i), Alone(t)
          PROVE  ~(Alone(u) \/ Reading(u) \/ Copying(u))
      <3>1. rwl[i].writer = t
        BY <2>1, OneThread DEF On, At, Alone, AloneOn
      <3>2. ~Alone(u)
        BY <2>1, <3>1, OneThread DEF On, At, Alone, AloneOn
      <3>3. Readers(i) = 0
        BY <2>1, <3>1, SizesAssumption DEF ReadersInv, Counted, Sound
      <3>4. Share(call[u], i) = 0
        <4> DEFINE R == {v \in Threads : On(v, i) /\ Reading(v)}
                   C == {v \in Threads : On(v, i) /\ Copying(v)}
        <4>2. IsFiniteSet(R) /\ IsFiniteSet(C)
          BY FS_Subset, SizesAssumption
        <4>3. Cardinality(R) = 0 /\ Cardinality(C) = 0
          <5>1. Cardinality(R) \in Nat /\ Cardinality(C) \in Nat /\ Cardinality(R) + Cardinality(C) = 0
            BY <3>3, <4>2, FS_CardinalityType DEF Readers
          <5> QED BY <5>1
        <4>4. u \notin R /\ u \notin C
          BY <4>2, <4>3, FS_EmptySet
        <4> QED BY <4>4 DEF Share, ReadingOn, CopyingOn, On, At, Reading, Copying, CopyPart
      <3> QED BY <2>1, <3>2, <3>4 DEF Share, ReadingOn, CopyingOn, On, At, Reading, Copying, CopyPart
    <2>2. ASSUME NEW fh \in Handles, HoldsHandle(t, fh), HoldsHandle(u, fh) PROVE FALSE
      BY <2>2, HolderLocks
    <2> QED BY <2>1, <2>2
  <1>2. Spec => []ReadersInv
    BY Inv, InitReaders, NextReaders, PTL DEF Spec
  <1> QED BY <1>1, <1>2, Inv, PTL

----------------------------------------------------------------------------
(* The directory agrees with the i-nodes, because between the step that    *)
(* takes an i-node and the one that adds its entry or gives it back only   *)
(* that thread has it, though it holds no lock.                            *)

EntryOf(k, i) == k \in 1 .. Len(dir) /\ dir[k].inum = i
Listed(i) == \E k \in Nat : EntryOf(k, i)
AddingIt(c, i) == c.pc \in {"entry", "delete"} /\ c.inum = i
Named == {"wrlock", "truncate", "offset", "add"}

EntriesOnce ==
  /\ \A i \in Inodes, j, k \in Nat : EntryOf(j, i) /\ EntryOf(k, i) => j = k
  /\ \A i \in Inodes, t \in Threads : AddingIt(call[t], i) =>
       ~Listed(i) /\ \A u \in Threads : AddingIt(call[u], i) => u = t

(* Taken is listed, or about to be; an opened file is listed.              *)
TakenListed ==
  /\ \A i \in Inodes : Listed(i) => i \notin freeinode_ts
  /\ \A i \in Inodes, t \in Threads : AddingIt(call[t], i) => i \notin freeinode_ts
  /\ \A i \in Inodes \ freeinode_ts : Listed(i) \/ \E t \in Threads : AddingIt(call[t], i)
  /\ \A t \in Threads : call[t].pc \in Named => Listed(call[t].inum)
  /\ \A fh \in Handles : of_inumber[fh] # 0 => Listed(of_inumber[fh])

DirInv == EntriesOnce /\ TakenListed

(* A thread that neither takes an i-node, nor adds an entry, nor gives a   *)
(* handle an i-node.                                                       *)
LEMMA DirStays ==
  ASSUME IInv, DirInv, NEW t \in Threads, \A u \in Threads \ {t} : call'[u] = call[u],
         UNCHANGED <<freeinode_ts, dir, of_inumber>>,
         call[t].pc \notin {"entry", "delete"}, call'[t].pc \notin {"entry", "delete"},
         call'[t].pc \in Named => Listed(call'[t].inum)
  PROVE  DirInv'
  <1>1. /\ \A i, k : EntryOf(k, i)' <=> EntryOf(k, i)
        /\ \A i : Listed(i)' <=> Listed(i)
    BY DEF EntryOf, Listed
  <1>2. \A i \in Inodes, u \in Threads : AddingIt(call'[u], i) <=> AddingIt(call[u], i)
    BY DEF AddingIt
  <1>3. EntriesOnce'
    BY <1>1, <1>2 DEF DirInv, EntriesOnce, AddingIt
  <1>4. \A u \in Threads : call'[u].pc \in Named => \E k \in Nat : k \in 1 .. Len(dir) /\ dir[k].inum = call'[u].inum
    BY DEF DirInv, TakenListed, Listed, EntryOf
  <1>5. \A fh \in Handles : of_inumber[fh] # 0 => \E k \in Nat : k \in 1 .. Len(dir) /\ dir[k].inum = of_inumber[fh]
    BY DEF DirInv, TakenListed, Listed, EntryOf
  <1>6. /\ \A i \in Inodes : Listed(i)' => i \notin freeinode_ts'
        /\ \A i \in Inodes, u \in Threads : AddingIt(call'[u], i) => i \notin freeinode_ts'
        /\ \A i \in Inodes \ freeinode_ts' : Listed(i)' \/ \E u \in Threads : AddingIt(call'[u], i)
    BY <1>1, <1>2 DEF DirInv, TakenListed
  <1> QED BY <1>3, <1>4, <1>5, <1>6 DEF DirInv, TakenListed, Listed, EntryOf, AddingIt

(* The entries are those of files.                                         *)
LEMMA EntryInodes ==
  ASSUME IInv
  PROVE  /\ Len(dir) \in Nat /\ DOMAIN dir = 1 .. Len(dir)
         /\ \A k \in 1 .. Len(dir) : dir[k].inum \in Inodes
  <1> DEFINE E == [name : Names, inum : Inodes]
  <1>1. dir \in Seq(E) /\ \A e \in E : e.inum \in Inodes
    BY DEF IInv, TablesOK
  <1> HIDE DEF E
  <1> QED BY <1>1

LEMMA OpenFoundDir ==
  ASSUME IInv, DirInv, NEW t \in Threads, OpenFound(t) PROVE DirInv'
  <1>1. call[t] \in OpenCalls /\ call[t].pc = "lookup"
    BY OneThread DEF OpenFound, At, OpenPcs
  <1>2. PICK k \in DOMAIN dir : call' = [call EXCEPT ![t].pc = "wrlock", ![t].inum = dir[k].inum]
    BY DEF OpenFound, Entries, IsFirst
  <1>3. k \in Nat /\ EntryOf(k, dir[k].inum)
    BY EntryInodes DEF EntryOf
  <1>4. PICK n : n = dir[k].inum
    OBVIOUS
  <1>5. call'[t] = [call[t] EXCEPT !.pc = "wrlock", !.inum = n]
    BY <1>2, <1>4 DEF IInv, CallsOK
  <1>6. call'[t].pc = "wrlock" /\ call'[t].inum = n
    BY <1>1, <1>5 DEF OpenCalls
  <1>7. Listed(n)
    BY <1>3, <1>4 DEF Listed
  <1>8. Listed(call'[t].inum)
    BY <1>6, <1>7 DEF Listed, EntryOf
  <1>9. UNCHANGED <<freeinode_ts, dir, of_inumber>>
    BY DEF OpenFound, tables
  <1> QED BY <1>1, <1>6, <1>8, <1>9, DirStays, OthersStay DEF GoesOn

(* inode_create: the i-node was nobody's.                                  *)
LEMMA OpenInodeDir ==
  ASSUME IInv, DirInv, NEW t \in Threads, OpenInode(t) PROVE DirInv'
  <1>1. call[t] \in OpenCalls /\ call[t].pc = "create"
    BY OneThread DEF OpenInode, At, OpenPcs
  <1>2. PICK i \in freeinode_ts :
          /\ freeinode_ts' = freeinode_ts \ {i}
          /\ call' = [call EXCEPT ![t].pc = "entry", ![t].inum = i]
    BY DEF OpenInode
  <1>3. i \in Inodes
    BY DEF IInv, TablesOK
  <1>4. call'[t] = [call[t] EXCEPT !.pc = "entry", !.inum = i]
    BY <1>2 DEF IInv, CallsOK
  <1>5. call'[t].pc = "entry" /\ call'[t].inum = i
    BY <1>1, <1>4 DEF OpenCalls
  <1>6. \A u \in Threads \ {t} : call'[u] = call[u]
    BY OthersStay DEF GoesOn
  <1>7. UNCHANGED <<dir, of_inumber>>
    BY DEF OpenInode
  <1>8. /\ \A j, k : EntryOf(k, j)' <=> EntryOf(k, j)
        /\ \A j : Listed(j)' <=> Listed(j)
    BY <1>7 DEF EntryOf, Listed
  <1>9. ~Listed(i) /\ \A u \in Threads : ~AddingIt(call[u], i)
    BY <1>3 DEF DirInv, TakenListed
  <1>10. /\ \A u \in Threads, j \in Inodes : AddingIt(call'[u], j) <=> AddingIt(call[u], j) \/ (u = t /\ j = i)
    BY <1>1, <1>3, <1>5, <1>6 DEF AddingIt
  <1>11. EntriesOnce'
    BY <1>8, <1>9, <1>10 DEF DirInv, EntriesOnce, AddingIt
  <1>12. \A u \in Threads : call'[u].pc \in Named =>
           \E k \in Nat : k \in 1 .. Len(dir) /\ dir[k].inum = call'[u].inum
    BY <1>5, <1>6 DEF DirInv, TakenListed, Listed, EntryOf, Named
  <1>13. \A fh \in Handles : of_inumber[fh] # 0 =>
           \E k \in Nat : k \in 1 .. Len(dir) /\ dir[k].inum = of_inumber[fh]
    BY DEF DirInv, TakenListed, Listed, EntryOf
  <1>14. /\ \A j \in Inodes : Listed(j)' => j \notin freeinode_ts'
         /\ \A j \in Inodes, u \in Threads : AddingIt(call'[u], j) => j \notin freeinode_ts'
         /\ \A j \in Inodes \ freeinode_ts' : Listed(j)' \/ \E u \in Threads : AddingIt(call'[u], j)
    BY <1>2, <1>8, <1>9, <1>10 DEF DirInv, TakenListed
  <1> QED BY <1>7, <1>11, <1>12, <1>13, <1>14 DEF DirInv, TakenListed, Listed, EntryOf, AddingIt

(* add_dir_entry: the i-node that the thread alone has is listed.          *)
LEMMA OpenEntryDir ==
  ASSUME IInv, DirInv, NEW t \in Threads, OpenEntry(t) PROVE DirInv'
  <1>1. call[t] \in OpenCalls /\ call[t].pc = "entry"
    BY OneThread DEF OpenEntry, At, OpenPcs
  <1>2. PICK i \in Inodes : i = call[t].inum
    BY <1>1, OneThread DEF CallOK
  <1>3. \A u \in Threads \ {t} : call'[u] = call[u]
    BY OthersStay DEF GoesOn
  <1>4. UNCHANGED <<freeinode_ts, of_inumber>>
    BY DEF OpenEntry
  <1>5. AddingIt(call[t], i)
    BY <1>1, <1>2 DEF AddingIt
  <1>6. CASE Room
    <2>1. /\ dir' = Append(dir, [name |-> call[t].name, inum |-> i])
          /\ Goes(t, "add")
      BY <1>2, <1>6 DEF OpenEntry
    <2>2. call'[t].pc = "add" /\ call'[t].inum = i
      BY <1>1, <1>2, <2>1, GoesTo
    <2> DEFINE n == Len(dir) + 1
    <2>3. /\ Len(dir) \in Nat /\ n \in Nat /\ Len(dir') = n
          /\ \A k \in 1 .. Len(dir) : dir'[k] = dir[k]
          /\ dir'[n].inum = i
      <3> DEFINE E == [name : Names, inum : Inodes]
                 e == [name |-> call[t].name, inum |-> i]
      <3>1. dir \in Seq(E) /\ e \in E /\ e.inum = i
        BY <1>1 DEF IInv, TablesOK, OpenCalls
      <3>2. dir' = Append(dir, e)
        BY <2>1
      <3> HIDE DEF E, e
      <3> QED BY <3>1, <3>2
    <2>4. ASSUME NEW k \in Nat, NEW j
          PROVE  EntryOf(k, j)' <=> EntryOf(k, j) \/ (k = n /\ j = i)
      BY <2>3 DEF EntryOf
    <2>5. \A k \in Nat : \A j : EntryOf(k, j) => k # n
      BY <2>3 DEF EntryOf
    <2> HIDE DEF n
    <2>6. \A j : Listed(j)' <=> Listed(j) \/ j = i
      BY <2>3, <2>4 DEF Listed
    <2>7. /\ ~Listed(i) /\ i \notin freeinode_ts
          /\ \A u \in Threads \ {t} : ~AddingIt(call[u], i)
      BY <1>5 DEF DirInv, EntriesOnce, TakenListed
    <2>8. \A u \in Threads, j \in Inodes : AddingIt(call'[u], j) <=> AddingIt(call[u], j) /\ u # t
      BY <1>3, <2>2 DEF AddingIt
    <2>9. EntriesOnce'
      <3>1. ASSUME NEW x \in Inodes, NEW j \in Nat, NEW k \in Nat, EntryOf(j, x)', EntryOf(k, x)'
            PROVE  j = k
        <4>1. CASE x = i
          <5>1. ~EntryOf(j, i) /\ ~EntryOf(k, i)
            BY <2>7 DEF Listed
          <5> QED BY <2>4, <3>1, <4>1, <5>1
        <4>2. CASE x # i
          <5>1. EntryOf(j, x) /\ EntryOf(k, x)
            BY <2>4, <3>1, <4>2
          <5> QED BY <5>1 DEF DirInv, EntriesOnce
        <4> QED BY <4>1, <4>2
      <3>2. ASSUME NEW x \in Inodes, NEW u \in Threads, AddingIt(call'[u], x)
            PROVE  ~Listed(x)' /\ \A v \in Threads : AddingIt(call'[v], x) => v = u
        <4>1. AddingIt(call[u], x) /\ u # t
          BY <2>8, <3>2
        <4>2. x # i
          BY <2>7, <4>1
        <4> QED BY <2>6, <2>8, <4>1, <4>2 DEF DirInv, EntriesOnce
      <3> QED BY <3>1, <3>2 DEF EntriesOnce, AddingIt
    <2>10. TakenListed'
      <3>1. \A u \in Threads : call'[u].pc \in Named => Listed(call[u].inum) \/ call'[u].inum = i
        BY <1>3, <2>2 DEF DirInv, TakenListed
      <3>2. \A u \in Threads : call'[u].pc \in Named => \E j : j = call'[u].inum /\ Listed(j)'
        BY <1>3, <2>2, <2>6, <3>1
      <3>3. \A u \in Threads : call'[u].pc \in Named => Listed(call[u].inum)'
        <4> SUFFICES ASSUME NEW u \in Threads, call'[u].pc \in Named PROVE Listed(call[u].inum)'
          OBVIOUS
        <4>1. PICK j : j = call'[u].inum /\ Listed(j)'
          BY <3>2
        <4> QED BY <4>1 DEF Listed, EntryOf
      <3>4. \A fh \in Handles : of_inumber[fh] # 0 => Listed(of_inumber[fh])'
        <4> SUFFICES ASSUME NEW fh \in Handles, of_inumber[fh] # 0 PROVE Listed(of_inumber[fh])'
          OBVIOUS
        <4>1. PICK j : j = of_inumber[fh]
          OBVIOUS
        <4>2. Listed(j)
          BY <4>1 DEF DirInv, TakenListed
        <4>3. Listed(j)'
          BY <2>6, <4>2
        <4> QED BY <1>4, <4>1, <4>3 DEF Listed, EntryOf
      <3>5. /\ \A j \in Inodes : Listed(j)' => j \notin freeinode_ts'
            /\ \A j \in Inodes, u \in Threads : AddingIt(call'[u], j) => j \notin freeinode_ts'
            /\ \A j \in Inodes \ freeinode_ts' : Listed(j)' \/ \E u \in Threads : AddingIt(call'[u], j)
        <4>1. ASSUME NEW j \in Inodes \ freeinode_ts'
              PROVE  Listed(j)' \/ \E u \in Threads : AddingIt(call'[u], j)
          <5>1. CASE j = i
            BY <2>6, <5>1
          <5>2. CASE j # i
            <6>1. Listed(j) \/ \E u \in Threads \ {t} : AddingIt(call[u], j)
              BY <1>2, <1>4, <5>2 DEF DirInv, TakenListed, AddingIt
            <6> QED BY <2>6, <2>8, <6>1
          <5> QED BY <5>1, <5>2
        <4> QED BY <1>4, <2>6, <2>7, <2>8, <4>1 DEF DirInv, TakenListed
      <3> QED BY <1>4, <3>3, <3>4, <3>5 DEF TakenListed, AddingIt
    <2> QED BY <2>9, <2>10 DEF DirInv
  <1>7. CASE ~Room
    <2>1. Goes(t, "delete") /\ UNCHANGED dir
      BY <1>7 DEF OpenEntry
    <2>2. call'[t].pc = "delete" /\ call'[t].inum = i
      BY <1>1, <1>2, <2>1, GoesTo
    <2>3. \A j : Listed(j)' <=> Listed(j)
      BY <2>1 DEF Listed, EntryOf
    <2>4. \A k, j : EntryOf(k, j)' <=> EntryOf(k, j)
      BY <2>1 DEF EntryOf
    <2>5. \A u \in Threads, j \in Inodes : AddingIt(call'[u], j) <=> AddingIt(call[u], j)
      BY <1>1, <1>2, <1>3, <2>2 DEF AddingIt
    <2>6. EntriesOnce'
      BY <2>3, <2>4, <2>5 DEF DirInv, EntriesOnce, AddingIt
    <2>7. \A u \in Threads : call'[u].pc \in Named =>
            \E k \in Nat : k \in 1 .. Len(dir) /\ dir[k].inum = call'[u].inum
      BY <1>3, <2>2 DEF DirInv, TakenListed, Listed, EntryOf, Named
    <2>8. \A fh \in Handles : of_inumber[fh] # 0 =>
            \E k \in Nat : k \in 1 .. Len(dir) /\ dir[k].inum = of_inumber[fh]
      BY DEF DirInv, TakenListed, Listed, EntryOf
    <2>9. /\ \A j \in Inodes : Listed(j)' => j \notin freeinode_ts'
          /\ \A j \in Inodes, u \in Threads : AddingIt(call'[u], j) => j \notin freeinode_ts'
          /\ \A j \in Inodes \ freeinode_ts' : Listed(j)' \/ \E u \in Threads : AddingIt(call'[u], j)
      BY <1>4, <2>3, <2>5 DEF DirInv, TakenListed
    <2> QED BY <1>4, <2>1, <2>6, <2>7, <2>8, <2>9 DEF DirInv, TakenListed, Listed, EntryOf, AddingIt
  <1> QED BY <1>6, <1>7

(* inode_delete: the i-node has no entry, and no other thread has it.      *)
LEMMA OpenDeleteDir ==
  ASSUME IInv, DirInv, NEW t \in Threads, OpenDelete(t) PROVE DirInv'
  <1>1. call[t] \in OpenCalls /\ call[t].pc = "delete"
    BY OneThread DEF OpenDelete, At, OpenPcs
  <1>2. PICK i \in Inodes : i = call[t].inum
    BY <1>1, OneThread DEF CallOK
  <1>3. \A u \in Threads \ {t} : call'[u] = call[u]
    BY OthersStay DEF GoesOn
  <1>4. freeinode_ts' = freeinode_ts \cup {i} /\ UNCHANGED <<dir, of_inumber>>
    BY <1>2 DEF OpenDelete, Deleted
  <1>5. call'[t].pc \in {"idle", "opened"}
    BY <1>1, ReturnsTo DEF OpenDelete
  <1>6. AddingIt(call[t], i)
    BY <1>1, <1>2 DEF AddingIt
  <1>7. ~Listed(i) /\ \A u \in Threads \ {t} : ~AddingIt(call[u], i)
    BY <1>6 DEF DirInv, EntriesOnce
  <1>8. /\ \A j : Listed(j)' <=> Listed(j)
        /\ \A k, j : EntryOf(k, j)' <=> EntryOf(k, j)
    BY <1>4 DEF Listed, EntryOf
  <1>9. \A u \in Threads, j \in Inodes : AddingIt(call'[u], j) <=> AddingIt(call[u], j) /\ u # t
    BY <1>3, <1>5 DEF AddingIt
  <1>10. EntriesOnce'
    BY <1>8, <1>9 DEF DirInv, EntriesOnce, AddingIt
  <1>11. \A u \in Threads : call'[u].pc \in Named =>
           \E k \in Nat : k \in 1 .. Len(dir) /\ dir[k].inum = call'[u].inum
    BY <1>3, <1>5 DEF DirInv, TakenListed, Listed, EntryOf, Named
  <1>12. \A fh \in Handles : of_inumber[fh] # 0 =>
           \E k \in Nat : k \in 1 .. Len(dir) /\ dir[k].inum = of_inumber[fh]
    BY DEF DirInv, TakenListed, Listed, EntryOf
  <1>13. /\ \A j \in Inodes : Listed(j)' => j \notin freeinode_ts'
         /\ \A j \in Inodes, u \in Threads : AddingIt(call'[u], j) => j \notin freeinode_ts'
         /\ \A j \in Inodes \ freeinode_ts' : Listed(j)' \/ \E u \in Threads : AddingIt(call'[u], j)
    <2>1. ASSUME NEW j \in Inodes \ freeinode_ts'
          PROVE  Listed(j)' \/ \E u \in Threads : AddingIt(call'[u], j)
      <3>1. j # i /\ ~AddingIt(call[t], j)
        BY <1>2, <1>4 DEF AddingIt
      <3>2. Listed(j) \/ \E u \in Threads \ {t} : AddingIt(call[u], j)
        BY <1>4, <3>1 DEF DirInv, TakenListed
      <3> QED BY <1>8, <1>9, <3>2
    <2> QED BY <1>4, <1>7, <1>8, <1>9, <2>1 DEF DirInv, TakenListed
  <1> QED BY <1>4, <1>10, <1>11, <1>12, <1>13 DEF DirInv, TakenListed, Listed, EntryOf, AddingIt

(* add_to_open_file_table: the handle leads to a file that is listed.      *)
LEMMA OpenAddDir ==
  ASSUME IInv, DirInv, NEW t \in Threads, OpenAdd(t) PROVE DirInv'
  <1>1. call[t] \in OpenCalls /\ call[t].pc = "add"
    BY OneThread DEF OpenAdd, At, OpenPcs
  <1>2. PICK i \in Inodes : i = call[t].inum
    BY <1>1, OneThread DEF CallOK
  <1>3. Listed(i)
    BY <1>1, <1>2 DEF DirInv, TakenListed, Named
  <1>4. \A u \in Threads \ {t} : call'[u] = call[u]
    BY OthersStay DEF GoesOn
  <1>5. UNCHANGED <<freeinode_ts, dir>>
    BY DEF OpenAdd
  <1>6. /\ call'[t].pc \in {"idle", "opened"} \/ (call'[t].pc = "add" /\ call'[t].inum = i)
        /\ \A fh \in Handles : of_inumber'[fh] = of_inumber[fh] \/ of_inumber'[fh] = i
    <2>1. CASE call[t].k \in free_open_file_entries
      <3>1. Returns(t, "opened", call[t].k)
            /\ of_inumber' = [of_inumber EXCEPT ![call[t].k] = i]
        BY <1>2, <2>1 DEF OpenAdd
      <3> QED BY <1>1, <3>1, ReturnsTo DEF IInv, TablesOK
    <2>2. CASE call[t].k \notin free_open_file_entries
      <3> DEFINE j == call[t].k + 1
      <3>1. call' = [call EXCEPT ![t].k = @ + 1] /\ UNCHANGED of_inumber
        BY <2>2 DEF OpenAdd
      <3>2. call'[t] = [call[t] EXCEPT !.k = j]
        BY <3>1 DEF IInv, CallsOK
      <3> HIDE DEF j
      <3> QED BY <1>1, <1>2, <3>1, <3>2 DEF OpenCalls
    <2> QED BY <2>1, <2>2
  <1>7. /\ \A j : Listed(j)' <=> Listed(j)
        /\ \A k, j : EntryOf(k, j)' <=> EntryOf(k, j)
    BY <1>5 DEF Listed, EntryOf
  <1>8. \A u \in Threads, j \in Inodes : AddingIt(call'[u], j) <=> AddingIt(call[u], j)
    BY <1>1, <1>4, <1>6 DEF AddingIt
  <1>9. EntriesOnce'
    BY <1>7, <1>8 DEF DirInv, EntriesOnce, AddingIt
  <1>10. \A u \in Threads : call'[u].pc \in Named =>
           \E k \in Nat : k \in 1 .. Len(dir) /\ dir[k].inum = call'[u].inum
    BY <1>3, <1>4, <1>6 DEF DirInv, TakenListed, Listed, EntryOf, Named
  <1>11. \A fh \in Handles : of_inumber'[fh] # 0 =>
           \E k \in Nat : k \in 1 .. Len(dir) /\ dir[k].inum = of_inumber'[fh]
    BY <1>3, <1>6 DEF DirInv, TakenListed, Listed, EntryOf
  <1>12. /\ \A j \in Inodes : Listed(j)' => j \notin freeinode_ts'
         /\ \A j \in Inodes, u \in Threads : AddingIt(call'[u], j) => j \notin freeinode_ts'
         /\ \A j \in Inodes \ freeinode_ts' : Listed(j)' \/ \E u \in Threads : AddingIt(call'[u], j)
    BY <1>5, <1>7, <1>8 DEF DirInv, TakenListed
  <1> QED BY <1>5, <1>9, <1>10, <1>11, <1>12 DEF DirInv, TakenListed, Listed, EntryOf, AddingIt

(* The other steps of tfs_open.                                            *)
LEMMA OpenOtherDir ==
  ASSUME IInv, DirInv, NEW t \in Threads,
         \/ OpenNotFound(t) \/ OpenWrLock(t) \/ OpenTruncate(t) \/ OpenOffset(t)
         \/ OpenNoInode(t) \/ OpenTableFull(t)
  PROVE  DirInv'
  <1>1. UNCHANGED <<freeinode_ts, dir, of_inumber>>
    BY DEF OpenNotFound, OpenWrLock, OpenTruncate, OpenOffset, OpenNoInode, OpenTableFull, tables
  <1>2. /\ call[t] \in OpenCalls
        /\ call[t].pc \in {"lookup", "wrlock", "truncate", "offset", "create", "add"}
        /\ OpenWrLock(t) \/ OpenTruncate(t) \/ OpenOffset(t) => call[t].pc \in Named
    BY OneThread DEF OpenNotFound, OpenWrLock, OpenTruncate, OpenOffset, OpenNoInode, OpenTableFull,
                     At, OpenPcs, Named
  <1>3. \/ call'[t].pc \in {"create", "opened", "idle"}
        \/ call[t].pc \in Named /\ call'[t].inum = call[t].inum /\ call'[t].pc \in Named
    <2>1. ASSUME NEW h, Returns(t, "opened", h) PROVE call'[t].pc \in {"opened", "idle"}
      BY <1>2, <2>1, ReturnsTo DEF OpenCalls
    <2>2. ASSUME NEW p \in Named \cup {"create"}, Goes(t, p)
          PROVE  call'[t].pc = p /\ call'[t].inum = call[t].inum
      BY <1>2, <2>2, GoesTo
    <2>3. CASE OpenNotFound(t) \/ OpenNoInode(t) \/ OpenTableFull(t)
      BY <2>1, <2>2, <2>3 DEF OpenNotFound, OpenNoInode, OpenTableFull
    <2>4. CASE OpenWrLock(t)
      BY <1>2, <2>2, <2>4 DEF OpenWrLock, Named
    <2>5. CASE OpenTruncate(t) \/ OpenOffset(t)
      BY <1>2, <2>1, <2>2, <2>5 DEF OpenTruncate, OpenOffset, Named
    <2> QED BY <2>3, <2>4, <2>5
  <1>4. call'[t].pc \in Named => Listed(call'[t].inum)
    BY <1>3 DEF DirInv, TakenListed, Named
  <1>5. \A u \in Threads \ {t} : call'[u] = call[u]
    BY OthersStay DEF GoesOn
  <1>6. call[t].pc \notin {"entry", "delete"} /\ call'[t].pc \notin {"entry", "delete"}
    BY <1>2, <1>3 DEF Named
  <1> QED BY <1>1, <1>4, <1>5, <1>6, DirStays

LEMMA AccessDir ==
  ASSUME IInv, DirInv, NEW t \in Threads,
         \/ AccessTable(t) \/ AccessFile(t) \/ AccessWork(t)
         \/ AccessFails(t) \/ AccessFailed(t) \/ AccessEnd(t)
         \/ AccessRwLock(t, "rwlock", "work") \/ AccessRwLock(t, "copyrwlock", "destination")
  PROVE  DirInv'
  <1>1. UNCHANGED <<freeinode_ts, dir, of_inumber>>
    BY DEF AccessTable, AccessFile, AccessWork, AccessFails, AccessFailed, AccessEnd, AccessRwLock, tables
  <1>2. call[t] \in OpenCalls \cup AccessCalls /\ call[t].pc \in AccessPcs \cup {"copyrwlock"}
    BY OneThread DEF AccessTable, AccessFile, AccessWork, AccessFails, AccessFailed, AccessEnd,
                     AccessRwLock, At, AccessPcs, CopyPcs
  <1>3. call'[t].pc \in AccessPcs \cup {"destination", "copied", "copyunlock", "idle"}
    <2>1. ASSUME NEW h, NEW p \in {"copyunlock", "copied"}, Returns(t, p, h)
          PROVE  call'[t].pc \in {p, "idle"}
      BY <1>2, <2>1, ReturnsTo
    <2>2. ASSUME NEW p, Goes(t, p) PROVE call'[t].pc = p
      BY <1>2, <2>2, GoesTo
    <2> QED BY <2>1, <2>2 DEF AccessTable, AccessFile, AccessWork, AccessFails, AccessFailed, AccessEnd,
                              AccessRwLock, AccessPcs
  <1>4. \A u \in Threads \ {t} : call'[u] = call[u]
    BY OthersStay DEF GoesOn
  <1>5. /\ call[t].pc \notin {"entry", "delete"} /\ call'[t].pc \notin {"entry", "delete"}
        /\ call'[t].pc \notin Named
    BY <1>2, <1>3 DEF Named, AccessPcs
  <1> QED BY <1>1, <1>4, <1>5, DirStays

LEMMA AccessInodeDir ==
  ASSUME IInv, DirInv, NEW t \in Threads,
         AccessInode(t, "inode", "rwlock") \/ AccessInode(t, "copyinode", "copyrwlock")
  PROVE  DirInv'
  <1>1. UNCHANGED <<freeinode_ts, dir, of_inumber>>
    BY DEF AccessInode, tables
  <1>2. call[t] \in OpenCalls \cup AccessCalls /\ call[t].pc \in {"inode", "copyinode"}
    BY OneThread DEF AccessInode, At, AccessPcs, CopyPcs
  <1>3. call'[t].pc \in {"rwlock", "copyrwlock"}
    <2>1. PICK p \in {"rwlock", "copyrwlock"} :
            call' = [call EXCEPT ![t].pc = p, ![t].inum = of_inumber[call[t].fh]]
      BY DEF AccessInode
    <2>2. PICK n : n = of_inumber[call[t].fh]
      OBVIOUS
    <2>3. call'[t] = [call[t] EXCEPT !.pc = p, !.inum = n]
      BY <2>1, <2>2 DEF IInv, CallsOK
    <2> QED BY <1>2, <2>3 DEF OpenCalls, AccessCalls
  <1>4. \A u \in Threads \ {t} : call'[u] = call[u]
    BY OthersStay DEF GoesOn
  <1>5. /\ call[t].pc \notin {"entry", "delete"} /\ call'[t].pc \notin {"entry", "delete"}
        /\ call'[t].pc \notin Named
    BY <1>2, <1>3 DEF Named
  <1> QED BY <1>1, <1>4, <1>5, DirStays

LEMMA CopyDir ==
  ASSUME IInv, DirInv, NEW t \in Threads,
         \/ CopyTable(t) \/ CopyNotOpened(t) \/ CopyFile(t) \/ CopyGoesOn(t)
         \/ CopyRwUnlock(t) \/ CopyEnd(t)
  PROVE  DirInv'
  <1>1. UNCHANGED <<freeinode_ts, dir, of_inumber>>
    BY DEF CopyTable, CopyNotOpened, CopyFile, CopyGoesOn, CopyRwUnlock, CopyEnd, tables
  <1>2. call[t] \in OpenCalls /\ call[t].pc \in CopyPcs
    BY OneThread DEF CopyTable, CopyNotOpened, CopyFile, CopyGoesOn, CopyRwUnlock, CopyEnd,
                     At, CopyPcs
  <1>3. call'[t].pc \in {"lookup", "copyinode", "table", "close", "copyunlock", "copyend", "idle"}
    <2>1. ASSUME NEW p, Goes(t, p) PROVE call'[t].pc = p
      BY <1>2, <2>1, GoesTo
    <2>2. CASE CopyNotOpened(t) \/ CopyEnd(t)
      <3>1. call'[t] = Idle
        BY <2>2 DEF CopyNotOpened, CopyEnd, IInv, CallsOK
      <3> QED BY <3>1 DEF Idle
    <2>3. CASE CopyTable(t) \/ CopyFile(t) \/ CopyGoesOn(t) \/ CopyRwUnlock(t)
      BY <2>1, <2>3 DEF CopyTable, CopyFile, CopyGoesOn, CopyRwUnlock
    <2> QED BY <2>2, <2>3
  <1>4. \A u \in Threads \ {t} : call'[u] = call[u]
    BY OthersStay DEF GoesOn
  <1>5. /\ call[t].pc \notin {"entry", "delete"} /\ call'[t].pc \notin {"entry", "delete"}
        /\ call'[t].pc \notin Named
    BY <1>2, <1>3 DEF Named, CopyPcs
  <1> QED BY <1>1, <1>4, <1>5, DirStays

LEMMA TfsCloseDir ==
  ASSUME IInv, DirInv, NEW t \in Threads, TfsClose(t) PROVE DirInv'
  <1>1. UNCHANGED <<freeinode_ts, dir, of_inumber>>
    BY DEF TfsClose
  <1>2. call[t] \in OpenCalls \cup CloseCalls /\ call[t].pc = "close"
    BY OneThread DEF TfsClose, At
  <1>3. call'[t].pc \in {"copyunlock", "idle"}
    BY <1>2, ReturnsTo DEF TfsClose
  <1>4. \A u \in Threads \ {t} : call'[u] = call[u]
    BY OthersStay DEF GoesOn
  <1>5. /\ call[t].pc \notin {"entry", "delete"} /\ call'[t].pc \notin {"entry", "delete"}
        /\ call'[t].pc \notin Named
    BY <1>2, <1>3 DEF Named
  <1> QED BY <1>1, <1>4, <1>5, DirStays

LEMMA BeginsDir ==
  ASSUME IInv, DirInv, NEW t \in Threads, Begins(t) PROVE DirInv'
  <1>1. UNCHANGED <<freeinode_ts, dir, of_inumber>> /\ call[t].pc = "idle"
    BY DEF Begins, tables, At
  <1>2. call'[t].pc \in {"lookup", "copy", "table", "close"}
    <2>1. ASSUME NEW name \in Names, NEW flags,
                 \/ call' = [call EXCEPT ![t] = Opening("open", "lookup", name, flags)]
                 \/ call' = [call EXCEPT ![t] = Opening("copy", "copy", name, flags)]
          PROVE  call'[t].pc \in {"lookup", "copy"}
      BY <2>1 DEF Opening, IInv, CallsOK
    <2>2. ASSUME NEW op, NEW p, NEW fh, call' = [call EXCEPT ![t] = Using(op, p, fh)]
          PROVE  call'[t].pc = p
      BY <2>2 DEF Using, IInv, CallsOK
    <2> QED BY <2>1, <2>2 DEF Begins
  <1>3. \A u \in Threads \ {t} : call'[u] = call[u]
    BY OthersStay
  <1>4. call'[t].pc \notin {"entry", "delete"} /\ call'[t].pc \notin Named
    BY <1>2 DEF Named
  <1> QED BY <1>1, <1>3, <1>4, DirStays

LEMMA NextDir == IInv /\ DirInv /\ [Next]_vars => DirInv'
  <1> SUFFICES ASSUME IInv, DirInv, [Next]_vars PROVE DirInv'
    OBVIOUS
  <1>1. CASE UNCHANGED vars
    <2>1. call' = call /\ freeinode_ts' = freeinode_ts /\ dir' = dir /\ of_inumber' = of_inumber
      BY <1>1 DEF vars, tables
    <2> QED BY <2>1 DEF DirInv, EntriesOnce, TakenListed, Listed, EntryOf, AddingIt
  <1>2. ASSUME NEW t \in Threads, Begins(t) PROVE DirInv'
    BY <1>2, BeginsDir
  <1>3. ASSUME NEW t \in Threads, GoesOn(t) PROVE DirInv'
    <2>1. /\ OpenNotFound(t) \/ OpenWrLock(t) \/ OpenTruncate(t) \/ OpenOffset(t)
               \/ OpenNoInode(t) \/ OpenTableFull(t) => DirInv'
          /\ OpenFound(t) => DirInv'
          /\ OpenInode(t) => DirInv'
          /\ OpenEntry(t) => DirInv'
          /\ OpenDelete(t) => DirInv'
          /\ OpenAdd(t) => DirInv'
      BY OpenOtherDir, OpenFoundDir, OpenInodeDir, OpenEntryDir, OpenDeleteDir, OpenAddDir
    <2>2. /\ AccessTable(t) \/ AccessFile(t) \/ AccessWork(t) \/ AccessFails(t) \/ AccessFailed(t)
               \/ AccessEnd(t) \/ AccessRwLock(t, "rwlock", "work")
               \/ AccessRwLock(t, "copyrwlock", "destination") => DirInv'
          /\ AccessInode(t, "inode", "rwlock") \/ AccessInode(t, "copyinode", "copyrwlock") => DirInv'
      BY AccessDir, AccessInodeDir
    <2>3. CopyTable(t) \/ CopyNotOpened(t) \/ CopyFile(t) \/ CopyGoesOn(t)
            \/ CopyRwUnlock(t) \/ CopyEnd(t) => DirInv'
      BY CopyDir
    <2>4. TfsClose(t) => DirInv'
      BY TfsCloseDir
    <2> QED BY <1>3, <2>1, <2>2, <2>3, <2>4 DEF GoesOn
  <1> QED BY <1>1, <1>2, <1>3 DEF Next

LEMMA InitDir == Init => DirInv
  <1> SUFFICES ASSUME Init PROVE DirInv
    OBVIOUS
  <1>1. \A t \in Threads : call[t].pc = "idle"
    BY IdleHolds DEF Init
  <1>2. Len(dir) = 0 /\ freeinode_ts = Inodes /\ \A fh \in Handles : of_inumber[fh] = 0
    BY DEF Init
  <1>3. \A i, k \in Nat : ~EntryOf(k, i)
    BY <1>2 DEF EntryOf
  <1>4. \A t \in Threads, i \in Inodes : ~AddingIt(call[t], i)
    BY <1>1 DEF AddingIt
  <1>5. EntriesOnce
    BY <1>3, <1>4 DEF EntriesOnce, Inodes
  <1>6. \A i \in Inodes : ~Listed(i)
    BY <1>3 DEF Listed, Inodes
  <1>7. TakenListed
    BY <1>1, <1>2, <1>4, <1>6 DEF TakenListed, Named
  <1> QED BY <1>5, <1>7 DEF DirInv

(* The directory lists every i-node that is taken exactly once, but for    *)
(* those that one tfs_open is about to list or to give back, and handles   *)
(* lead to files of the directory, although tfs_open holds no lock between *)
(* taking the i-node and adding its entry: for any number of threads,      *)
(* files and handles.                                                      *)
THEOREM DirectoryIsRight == Spec => []DirectoryAgrees
  <1>1. IInv /\ DirInv => DirectoryAgrees
    <2> SUFFICES ASSUME IInv, DirInv PROVE DirectoryAgrees
      OBVIOUS
    <2>1. \A k \in DOMAIN dir : k \in Nat /\ dir[k].inum \in Inodes /\ EntryOf(k, dir[k].inum)
      BY EntryInodes DEF EntryOf
    <2>2. \A k \in DOMAIN dir : dir[k].inum \notin freeinode_ts
      BY <2>1 DEF DirInv, TakenListed, Listed
    <2>3. \A i : Listed(i) => \E k \in DOMAIN dir : dir[k].inum = i
      BY EntryInodes DEF Listed, EntryOf
    <2>4. ASSUME NEW i \in Inodes \ freeinode_ts
          PROVE  Cardinality({k \in DOMAIN dir : dir[k].inum = i})
                   + Cardinality({t \in Threads : On(t, i) /\ call[t].pc \in {"entry", "delete"}}) = 1
      <3> DEFINE E == {k \in DOMAIN dir : dir[k].inum = i}
                 A == {t \in Threads : On(t, i) /\ call[t].pc \in {"entry", "delete"}}
      <3>1. \A t \in Threads : t \in A <=> AddingIt(call[t], i)
        BY DEF On, At, AddingIt
      <3>2. CASE Listed(i)
        <4>1. PICK k : E = {k}
          <5>1. PICK k \in E : TRUE
            BY <2>3, <3>2
          <5>2. \A j \in E : j = k
            BY <2>1 DEF DirInv, EntriesOnce, EntryOf
          <5> QED BY <5>1, <5>2
        <4>2. A = {}
          BY <3>1, <3>2 DEF DirInv, EntriesOnce
        <4>3. Cardinality(E) = 1
          BY <4>1, FS_Singleton
        <4>4. Cardinality(A) = 0
          BY <4>2, FS_EmptySet
        <4> QED BY <4>3, <4>4
      <3>3. CASE ~Listed(i)
        <4>1. PICK t : A = {t}
          <5>1. PICK t \in Threads : AddingIt(call[t], i)
            BY <3>3 DEF DirInv, TakenListed
          <5>2. \A u \in A : u = t
            BY <3>1, <5>1 DEF DirInv, EntriesOnce
          <5> QED BY <3>1, <5>1, <5>2
        <4>2. E = {}
          BY <2>1, <3>3 DEF Listed
        <4>3. Cardinality(A) = 1
          BY <4>1, FS_Singleton
        <4>4. Cardinality(E) = 0
          BY <4>2, FS_EmptySet
        <4> QED BY <4>3, <4>4
      <3> QED BY <3>2, <3>3
    <2>5. \A fh \in Issued : \E k \in DOMAIN dir : dir[k].inum = of_inumber[fh]
      BY <2>3 DEF DirInv, TakenListed, Issued
    <2> QED BY <2>2, <2>4, <2>5 DEF DirectoryAgrees
  <1>2. Spec => []DirInv
    BY Inv, InitDir, NextDir, PTL DEF Spec
  <1> QED BY <1>1, <1>2, Inv, PTL
=============================================================================
