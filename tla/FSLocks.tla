------------------------------ MODULE FSLocks ------------------------------
(***************************************************************************)
(* The locks of Projeto1's file system (fs/state.c, fs/operations.c): the  *)
(* recursive mutexes of the i-node table, of the open file table and of    *)
(* each open file, and the read-write lock of each i-node, as tfs_open,    *)
(* tfs_close, tfs_write, tfs_read and tfs_copy_to_external_fs take them.   *)
(*                                                                         *)
(* A step goes from one wait for a lock to the next. What is written and   *)
(* read is in BlockFS; block_table_lock, held by nobody who waits, is left *)
(* out. The directory and the tables are here, since the locks are there   *)
(* for them.                                                               *)
(***************************************************************************)
EXTENDS Integers, Sequences, FiniteSets

CONSTANTS
  Threads, NoThread,
  INODE_TABLE_SIZE, MAX_OPEN_FILES, MAX_DIR_ENTRIES,
  Names,
  Operations,   (* the operations that each thread calls                   *)
  Flags,        (* the sets of "CREAT" and "TRUNC" that they open with     *)
  MAX_OFF       (* bound: calls, and reads of a copy, begin with less than *)
                (* that many unlocks of an i-node too many, and calls with *)
                (* at most that many unlocks of the i-node table too few   *)

Inodes  == 1 .. INODE_TABLE_SIZE - 1   (* 0 is the root's                  *)
Handles == 0 .. MAX_OPEN_FILES - 1

ASSUME SizesAssumption ==
  /\ INODE_TABLE_SIZE \in Nat \ {0} /\ MAX_OPEN_FILES \in Nat \ {0}
  /\ MAX_DIR_ENTRIES \in Nat /\ MAX_OFF \in Nat
  /\ NoThread \notin Threads /\ IsFiniteSet(Threads)
  /\ Operations \in [Threads -> SUBSET {"open", "close", "write", "read", "copy"}]
  /\ Flags \subseteq SUBSET {"CREAT", "TRUNC"}

VARIABLES
  inode_table_lock, open_file_table_lock,
  file_lock,         (* of each handle                                     *)
  rwl,               (* of each i-node                                     *)
  freeinode_ts,
  dir,               (* the root directory's entries, in order             *)
  of_inumber,        (* the i-node of each handle, 0 if it never had one   *)
  free_open_file_entries,
  call               (* what each thread is in the middle of               *)

locks == <<inode_table_lock, open_file_table_lock, file_lock, rwl>>
tables == <<freeinode_ts, dir, of_inumber, free_open_file_entries>>
vars == <<locks, tables, call>>

Lock == INSTANCE Rwlock

(* A recursive mutex.                                                      *)
Free == [owner |-> NoThread, depth |-> 0]
CanLock(m, t) == m.owner \in {NoThread, t}
Locked(m, t) == [owner |-> t, depth |-> m.depth + 1]
Unlocked(m) == IF m.depth <= 1 THEN Free ELSE [m EXCEPT !.depth = @ - 1]

Idle == [pc |-> "idle"]

Init ==
  /\ inode_table_lock = Free /\ open_file_table_lock = Free
  /\ file_lock = [fh \in Handles |-> Free]
  /\ rwl = [i \in Inodes |-> Lock!NewLock]
  /\ freeinode_ts = Inodes
  /\ dir = <<>>
  /\ of_inumber = [fh \in Handles |-> 0]
  /\ free_open_file_entries = Handles
  /\ call = [t \in Threads |-> Idle]

At(t, pc) == call[t].pc = pc
Goes(t, pc) == call' = [call EXCEPT ![t].pc = pc]

(* tfs_open, tfs_read and tfs_close end: in tfs_copy_to_external_fs if     *)
(* that called them.                                                       *)
Returns(t, to, fh) ==
  call' = [call EXCEPT ![t] = IF @.op = "copy" THEN [@ EXCEPT !.pc = to, !.fh = fh] ELSE Idle]

----------------------------------------------------------------------------
(* tfs_open *)

Entries(name) == {k \in DOMAIN dir : dir[k].name = name}
IsFirst(k, S) == k \in S /\ \A j \in S : k <= j

(* The lock of the i-node table is held on to if there is such a file.     *)
OpenFound(t) ==
  /\ At(t, "lookup") /\ CanLock(inode_table_lock, t)
  /\ \E k \in Entries(call[t].name) :
       /\ IsFirst(k, Entries(call[t].name))
       /\ inode_table_lock' = Locked(inode_table_lock, t)
       /\ call' = [call EXCEPT ![t].pc = "wrlock", ![t].inum = dir[k].inum]
  /\ UNCHANGED <<open_file_table_lock, file_lock, rwl, tables>>

OpenNotFound(t) ==
  /\ At(t, "lookup") /\ CanLock(inode_table_lock, t)
  /\ Entries(call[t].name) = {}
  /\ IF "CREAT" \in call[t].flags THEN Goes(t, "create") ELSE Returns(t, "opened", -1)
  /\ UNCHANGED <<locks, tables>>

OpenWrLock(t) ==
  /\ At(t, "wrlock") /\ Lock!CanWrite(rwl[call[t].inum])
  /\ rwl' = [rwl EXCEPT ![call[t].inum] = Lock!WrLock(@, t)]
  /\ inode_table_lock' = Unlocked(inode_table_lock)
  /\ Goes(t, IF "TRUNC" \in call[t].flags THEN "truncate" ELSE "offset")
  /\ UNCHANGED <<open_file_table_lock, file_lock, tables>>

RwUnlock(t, inum) == rwl' = [rwl EXCEPT ![inum] = Lock!Unlock(@, t)]

(* After a truncation the lock is released, and then once more, unless a   *)
(* block could not be freed.                                               *)
OpenTruncate(t) ==
  /\ At(t, "truncate")
  /\ RwUnlock(t, call[t].inum)
  /\ Goes(t, "offset") \/ Returns(t, "opened", -1)
  /\ UNCHANGED <<inode_table_lock, open_file_table_lock, file_lock, tables>>

OpenOffset(t) ==
  /\ At(t, "offset")
  /\ RwUnlock(t, call[t].inum)
  /\ Goes(t, "add")
  /\ UNCHANGED <<inode_table_lock, open_file_table_lock, file_lock, tables>>

(* inode_create. With no i-node left it returns without its unlock.        *)
OpenInode(t) ==
  /\ At(t, "create") /\ CanLock(inode_table_lock, t)
  /\ \E i \in freeinode_ts :
       /\ IsFirst(i, freeinode_ts)
       /\ freeinode_ts' = freeinode_ts \ {i}
       /\ call' = [call EXCEPT ![t].pc = "entry", ![t].inum = i]
  /\ UNCHANGED <<locks, dir, of_inumber, free_open_file_entries>>

OpenNoInode(t) ==
  /\ At(t, "create") /\ CanLock(inode_table_lock, t)
  /\ freeinode_ts = {}
  /\ inode_table_lock' = Locked(inode_table_lock, t)
  /\ Returns(t, "opened", -1)
  /\ UNCHANGED <<open_file_table_lock, file_lock, rwl, tables>>

RoomForOneMore == Len(dir) <= MAX_DIR_ENTRIES
Room == Len(dir) < MAX_DIR_ENTRIES

(* add_dir_entry, and inode_delete if the directory is full.               *)
OpenEntry(t) ==
  /\ At(t, "entry") /\ CanLock(inode_table_lock, t)
  /\ IF Room
     THEN /\ dir' = Append(dir, [name |-> call[t].name, inum |-> call[t].inum])
          /\ Goes(t, "add")
     ELSE /\ Goes(t, "delete")
          /\ UNCHANGED dir
  /\ UNCHANGED <<locks, freeinode_ts, of_inumber, free_open_file_entries>>

NotDeleted(t) == freeinode_ts
Deleted(t) == freeinode_ts \cup {call[t].inum}

OpenDelete(t) ==
  /\ At(t, "delete") /\ CanLock(inode_table_lock, t)
  /\ freeinode_ts' = Deleted(t)
  /\ Returns(t, "opened", -1)
  /\ UNCHANGED <<locks, dir, of_inumber, free_open_file_entries>>

(* add_to_open_file_table looks at one entry after the other, each under   *)
(* its own lock, not under that of the table.                              *)
Unguarded(t, fh) == TRUE
Guarded(t, fh) == CanLock(file_lock[fh], t)

OpenAdd(t) ==
  LET fh == call[t].k
  IN  /\ At(t, "add") /\ fh \in Handles /\ Guarded(t, fh)
      /\ IF fh \in free_open_file_entries
         THEN /\ free_open_file_entries' = free_open_file_entries \ {fh}
              /\ of_inumber' = [of_inumber EXCEPT ![fh] = call[t].inum]
              /\ Returns(t, "opened", fh)
         ELSE /\ call' = [call EXCEPT ![t].k = @ + 1]
              /\ UNCHANGED <<of_inumber, free_open_file_entries>>
      /\ UNCHANGED <<locks, freeinode_ts, dir>>

OpenTableFull(t) ==
  /\ At(t, "add") /\ call[t].k = MAX_OPEN_FILES
  /\ Returns(t, "opened", -1)
  /\ UNCHANGED <<locks, tables>>

----------------------------------------------------------------------------
(* tfs_close, also as tfs_copy_to_external_fs calls it: it waits for the   *)
(* open file table only, and refuses a handle that is free already.        *)
TfsClose(t) ==
  LET fh == call[t].fh
  IN  /\ At(t, "close") /\ CanLock(open_file_table_lock, t)
      /\ free_open_file_entries' = free_open_file_entries \cup {fh}
      /\ Returns(t, "copyunlock", fh)
      /\ UNCHANGED <<locks, freeinode_ts, dir, of_inumber>>

----------------------------------------------------------------------------
(* tfs_write and tfs_read: neither asks whether the handle is still open.  *)

AccessTable(t) ==
  /\ At(t, "table") /\ CanLock(open_file_table_lock, t)
  /\ open_file_table_lock' = Locked(open_file_table_lock, t)
  /\ Goes(t, "file")
  /\ UNCHANGED <<inode_table_lock, file_lock, rwl, tables>>

AccessFile(t) ==
  LET fh == call[t].fh
  IN  /\ At(t, "file") /\ CanLock(file_lock[fh], t)
      /\ file_lock' = [file_lock EXCEPT ![fh] = Locked(@, t)]
      /\ open_file_table_lock' = Unlocked(open_file_table_lock)
      /\ Goes(t, "inode")
      /\ UNCHANGED <<inode_table_lock, rwl, tables>>

InodeTableLeft(m, t) == m
InodeTableTaken(m, t) == Locked(m, t)

(* The lock of the i-node table is held on to until the thread has the     *)
(* file's own lock.                                                        *)
AccessInode(t, from, to) ==
  /\ At(t, from) /\ CanLock(inode_table_lock, t)
  /\ inode_table_lock' = InodeTableTaken(inode_table_lock, t)
  /\ call' = [call EXCEPT ![t].pc = to, ![t].inum = of_inumber[call[t].fh]]
  /\ UNCHANGED <<open_file_table_lock, file_lock, rwl, tables>>

SharesAlways(t) == TRUE
SharesIfReading(t) == call[t].op # "write"

AccessRwLock(t, from, to) ==
  LET l == rwl[call[t].inum]
  IN  /\ At(t, from)
      /\ rwl' = [rwl EXCEPT ![call[t].inum] =
           IF SharesIfReading(t) THEN Lock!RdLock(l) ELSE Lock!WrLock(l, t)]
      /\ IF SharesIfReading(t) THEN Lock!CanRead(l) ELSE Lock!CanWrite(l)
      /\ inode_table_lock' = Unlocked(inode_table_lock)
      /\ Goes(t, to)
      /\ UNCHANGED <<open_file_table_lock, file_lock, tables>>

FileKept(m) == m
FileReleased(m) == Unlocked(m)

(* The blocks are read or written, and the handle's lock released.         *)
AccessWork(t) ==
  LET fh == call[t].fh
  IN  /\ At(t, "work")
      /\ file_lock' = [file_lock EXCEPT ![fh] = FileReleased(@)]
      /\ Goes(t, "unlock")
      /\ UNCHANGED <<inode_table_lock, open_file_table_lock, rwl, tables>>

(* A block is missing: the locks are released in the other order.          *)
AccessFails(t) ==
  /\ At(t, "work")
  /\ RwUnlock(t, call[t].inum)
  /\ Goes(t, "failed")
  /\ UNCHANGED <<inode_table_lock, open_file_table_lock, file_lock, tables>>

AccessFailed(t) ==
  LET fh == call[t].fh
  IN  /\ At(t, "failed")
      /\ file_lock' = [file_lock EXCEPT ![fh] = FileReleased(@)]
      /\ Returns(t, "copyunlock", fh)
      /\ UNCHANGED <<inode_table_lock, open_file_table_lock, rwl, tables>>

AccessEnd(t) ==
  /\ At(t, "unlock")
  /\ RwUnlock(t, call[t].inum)
  /\ Returns(t, "copied", call[t].fh)
  /\ UNCHANGED <<inode_table_lock, open_file_table_lock, file_lock, tables>>

----------------------------------------------------------------------------
(* tfs_copy_to_external_fs opens the file with the lock of the open file   *)
(* table held, and reads and closes it, each of which takes that lock      *)
(* again, with the file's own locks held.                                  *)

CopyTable(t) ==
  /\ At(t, "copy") /\ CanLock(open_file_table_lock, t)
  /\ open_file_table_lock' = Locked(open_file_table_lock, t)
  /\ Goes(t, "lookup")
  /\ UNCHANGED <<inode_table_lock, file_lock, rwl, tables>>

CopyNotOpened(t) ==
  /\ At(t, "opened") /\ call[t].fh = -1
  /\ open_file_table_lock' = Unlocked(open_file_table_lock)
  /\ call' = [call EXCEPT ![t] = Idle]
  /\ UNCHANGED <<inode_table_lock, file_lock, rwl, tables>>

CopyFile(t) ==
  LET fh == call[t].fh
  IN  /\ At(t, "opened") /\ fh # -1 /\ CanLock(file_lock[fh], t)
      /\ file_lock' = [file_lock EXCEPT ![fh] = Locked(@, t)]
      /\ open_file_table_lock' = Unlocked(open_file_table_lock)
      /\ Goes(t, "copyinode")
      /\ UNCHANGED <<inode_table_lock, rwl, tables>>

(* Another read if the last one filled the buffer, the end if it did not,  *)
(* and without a close if fopen failed (or a read, AccessFailed).          *)
CopyGoesOn(t) ==
  /\ \/ At(t, "destination") /\ Goes(t, "table")
     \/ At(t, "copied") /\ Goes(t, "close")
     \/ At(t, "copied") /\ rwl[call[t].inum].readers > -MAX_OFF /\ Goes(t, "table")
     \/ At(t, "destination") /\ Goes(t, "copyunlock")
  /\ UNCHANGED <<locks, tables>>

CopyRwUnlock(t) ==
  /\ At(t, "copyunlock")
  /\ RwUnlock(t, call[t].inum)
  /\ Goes(t, "copyend")
  /\ UNCHANGED <<inode_table_lock, open_file_table_lock, file_lock, tables>>

CopyEnd(t) ==
  LET fh == call[t].fh
  IN  /\ At(t, "copyend")
      /\ file_lock' = [file_lock EXCEPT ![fh] = Unlocked(@)]
      /\ call' = [call EXCEPT ![t] = Idle]
      /\ UNCHANGED <<inode_table_lock, open_file_table_lock, rwl, tables>>

----------------------------------------------------------------------------
Issued == {fh \in Handles : of_inumber[fh] # 0}

Opening(op, pc, name, flags) ==
  [pc |-> pc, op |-> op, name |-> name, flags |-> flags, inum |-> 0, fh |-> -1, k |-> 0]
Using(op, pc, fh) == [pc |-> pc, op |-> op, inum |-> 0, fh |-> fh]

Begins(t) ==
  /\ At(t, "idle")
  /\ \A i \in Inodes : rwl[i].readers > -MAX_OFF
  /\ inode_table_lock.owner = t => inode_table_lock.depth <= MAX_OFF
  /\ \/ \E name \in Names :
          \/ \E flags \in Flags : "open" \in Operations[t]
               /\ call' = [call EXCEPT ![t] = Opening("open", "lookup", name, flags)]
          \/ "copy" \in Operations[t]
               /\ call' = [call EXCEPT ![t] = Opening("copy", "copy", name, {})]
     \/ \E fh \in Issued :
          \/ \E op \in Operations[t] \cap {"write", "read"} :
               call' = [call EXCEPT ![t] = Using(op, "table", fh)]
          \/ "close" \in Operations[t]
               /\ call' = [call EXCEPT ![t] = Using("close", "close", fh)]
  /\ UNCHANGED <<locks, tables>>

GoesOn(t) ==
  \/ OpenFound(t) \/ OpenNotFound(t) \/ OpenWrLock(t) \/ OpenTruncate(t) \/ OpenOffset(t)
  \/ OpenInode(t) \/ OpenNoInode(t) \/ OpenEntry(t) \/ OpenDelete(t)
  \/ OpenAdd(t) \/ OpenTableFull(t)
  \/ TfsClose(t)
  \/ AccessTable(t) \/ AccessFile(t) \/ AccessWork(t)
  \/ AccessFails(t) \/ AccessFailed(t) \/ AccessEnd(t)
  \/ AccessInode(t, "inode", "rwlock") \/ AccessRwLock(t, "rwlock", "work")
  \/ CopyTable(t) \/ CopyNotOpened(t) \/ CopyFile(t)
  \/ AccessInode(t, "copyinode", "copyrwlock") \/ AccessRwLock(t, "copyrwlock", "destination")
  \/ CopyGoesOn(t) \/ CopyRwUnlock(t) \/ CopyEnd(t)

Next == \E t \in Threads : Begins(t) \/ GoesOn(t)

Spec == Init /\ [][Next]_vars

(* A call that has begun goes on if it can; a thread that waits for a lock *)
(* gets it if it is free again and again. No thread has to make a call.    *)
Fairness == \A t \in Threads : SF_vars(GoesOn(t))
FairSpec == Spec /\ Fairness

----------------------------------------------------------------------------
Mutexes == [owner : Threads \cup {NoThread}, depth : Nat]
OpenPcs == {"lookup", "wrlock", "truncate", "offset", "create", "entry", "delete", "add"}
AccessPcs == {"table", "file", "inode", "rwlock", "work", "failed", "unlock"}
CopyPcs == {"copy", "opened", "copyinode", "copyrwlock", "destination", "copied", "copyunlock",
            "copyend"}

(* Type correctness: every lock is free or some thread's, the directory    *)
(* does not outgrow its block.                                             *)
TypeOK ==
  /\ inode_table_lock \in Mutexes /\ open_file_table_lock \in Mutexes
  /\ file_lock \in [Handles -> Mutexes]
  /\ rwl \in [Inodes -> Lock!Rwlocks(Threads)]
  /\ freeinode_ts \subseteq Inodes
  /\ dir \in Seq([name : Names, inum : Inodes]) /\ Len(dir) <= MAX_DIR_ENTRIES
  /\ of_inumber \in [Handles -> Inodes \cup {0}]
  /\ free_open_file_entries \subseteq Handles
  /\ call \in [Threads ->
       {Idle} \cup [pc : OpenPcs \cup AccessPcs \cup CopyPcs \cup {"close"}, op : {"open", "copy"},
                   name : Names, flags : Flags \cup {{}}, inum : Inodes \cup {0},
                   fh : Handles \cup {-1}, k : 0 .. MAX_OPEN_FILES]
              \cup [pc : AccessPcs, op : {"read", "write"}, inum : Inodes \cup {0}, fh : Handles]
              \cup [pc : {"close"}, op : {"close"}, inum : {0}, fh : Handles]]

(* What the threads do with a file's lock: have it for writing, for one of *)
(* the reads, or for the whole of a copy.                                  *)
On(t, inum) == ~At(t, "idle") /\ call[t].inum = inum
Alone(t) ==
  \/ At(t, "truncate") \/ (At(t, "offset") /\ "TRUNC" \notin call[t].flags)
  \/ call[t].pc \in {"work", "unlock"} /\ call[t].op = "write"
Reading(t) == call[t].pc \in {"work", "unlock"} /\ call[t].op # "write"
Copying(t) ==
  /\ ~At(t, "idle") /\ call[t].op = "copy"
  /\ call[t].pc \in AccessPcs \cup {"destination", "copied", "close", "copyunlock"}

Readers(inum) ==
  Cardinality({t \in Threads : On(t, inum) /\ Reading(t)})
    + Cardinality({t \in Threads : On(t, inum) /\ Copying(t)})

(* The lock counts its readers: not once an open with TFS_O_TRUNC has      *)
(* released it twice, which POSIX leaves undefined.                        *)
Sound(inum) == rwl[inum].readers = Readers(inum)

HoldsHandle(t, fh) ==
  /\ ~At(t, "idle") /\ call[t].op # "open" /\ call[t].fh = fh
  /\ \/ call[t].pc \in {"inode", "rwlock", "work", "failed", "copyinode", "copyrwlock", "copyend"}
     \/ Copying(t)

(* A file is never truncated or written while another call reads or writes *)
(* it, and two calls never move one handle's offset at once.               *)
FileExclusive ==
  \A t, u \in Threads : t # u =>
    /\ \A i \in Inodes : Sound(i) /\ On(t, i) /\ On(u, i) /\ Alone(t) =>
         ~(Alone(u) \/ Reading(u) \/ Copying(u))
    /\ \A fh \in Handles : ~(HoldsHandle(t, fh) /\ HoldsHandle(u, fh))

(* A handle is never given out again under a call that is using it, with  *)
(* another file and offset, although tfs_close, which takes neither its    *)
(* lock nor asks who uses it, may free it meanwhile.                       *)
HandlesStable ==
  [][\A fh \in free_open_file_entries \ free_open_file_entries' :
       \A t \in Threads : ~HoldsHandle(t, fh)]_vars

(* An i-node that is taken has one entry in the directory, or one thread   *)
(* is about to add it or to give the i-node back; handles lead to files of *)
(* the directory.                                                          *)
DirectoryAgrees ==
  /\ \A k \in DOMAIN dir : dir[k].inum \notin freeinode_ts
  /\ \A i \in Inodes \ freeinode_ts :
       Cardinality({k \in DOMAIN dir : dir[k].inum = i})
         + Cardinality({t \in Threads : On(t, i) /\ call[t].pc \in {"entry", "delete"}}) = 1
  /\ \A fh \in Issued : \E k \in DOMAIN dir : dir[k].inum = of_inumber[fh]

(* A thread that is in no call holds no lock; but inode_create returns     *)
(* with that of the i-node table when there is no i-node left.             *)
LocksReturned ==
  \A t \in Threads : At(t, "idle") =>
    /\ open_file_table_lock.owner # t
    /\ \A fh \in Handles : file_lock[fh].owner # t
    /\ \A i \in Inodes : rwl[i].writer # t
    /\ inode_table_lock.owner = t => freeinode_ts = {}

(* Every call returns, whatever the others are doing: no two wait for one  *)
(* another, and readers do not keep a writer, or an open, waiting for ever *)
(* although their reads overlap. Of calls that neither copy nor truncate,  *)
(* while there is an i-node left.                                          *)
CallsReturn == \A t \in Threads : []<>At(t, "idle")

(* operations.h says of tfs_copy_to_external_fs "Returns 0 if successful,  *)
(* -1 otherwise": it returns.                                              *)
Kept == \E t \in Threads : At(t, "idle") /\ inode_table_lock.owner = t
CopiesReturn == \A t \in Threads : []<>(At(t, "idle") \/ Kept \/ \E i \in Inodes : ~Sound(i))

(* operations.h says of TFS_O_CREAT "create file if it does not exist": no *)
(* two entries of the directory have the same name.                        *)
NamesUnique == \A k, l \in DOMAIN dir : dir[k].name = dir[l].name => k = l
=============================================================================
