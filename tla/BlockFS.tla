------------------------------ MODULE BlockFS ------------------------------
(***************************************************************************)
(* The blocks of Projeto1's file system: an i-node has                     *)
(* INDIRECT_ACCESS_BLOCK direct blocks and one block of references to      *)
(* more (fs/state.c), which tfs_write, tfs_read and the truncation of      *)
(* tfs_open walk (fs/operations.c), from several threads at once.          *)
(*                                                                         *)
(* A write or a read is a step for each access to memory that another      *)
(* thread may see: the allocation of a block, the store of its number, the *)
(* filling of a new block of references, the copy. It holds its handle's   *)
(* file_lock and its file's rwl throughout; both are taken in its first    *)
(* step, since their order, and the directory, are the subject of FSLocks. *)
(* A block is counted in cells of sizeof(int) bytes, so that it has as     *)
(* many cells as it has references (INDIRECT_REFERENCES = BLOCK_SIZE), and *)
(* memory is one array: what lies behind a block is the next one.          *)
(***************************************************************************)
EXTENDS Integers, Sequences, FiniteSets

CONSTANTS
  Threads, NoThread,
  INODE_TABLE_SIZE, DATA_BLOCKS, BLOCK_SIZE, MAX_OPEN_FILES,
  INDIRECT_ACCESS_BLOCK,
  SIZE_T,      (* the modulus of size_t, above every length in use         *)
  Data,        (* what callers write: no block number, nor -1              *)
  Lengths,     (* bound: of the buffers callers pass                       *)
  MAX_CALLS    (* bound: of the calls they make                            *)

INDIRECT_REFERENCES == BLOCK_SIZE
MAX_FILE_SIZE == (INDIRECT_ACCESS_BLOCK + INDIRECT_REFERENCES) * BLOCK_SIZE

Inodes  == 1 .. INODE_TABLE_SIZE - 1   (* 0 is the root's                  *)
Blocks  == 0 .. DATA_BLOCKS - 1        (* 0 is the root's                  *)
Handles == 0 .. MAX_OPEN_FILES - 1
Cells   == 0 .. BLOCK_SIZE - 1
BlockRefs == 0 .. INDIRECT_ACCESS_BLOCK    (* of i_data_block              *)

ASSUME SizesAssumption ==
  /\ INODE_TABLE_SIZE \in Nat \ {0} /\ DATA_BLOCKS \in Nat \ {0}
  /\ BLOCK_SIZE \in Nat \ {0} /\ MAX_OPEN_FILES \in Nat \ {0}
  /\ INDIRECT_ACCESS_BLOCK \in Nat \ {0}
  /\ Lengths \subseteq Nat /\ MAX_CALLS \in Nat
  /\ SIZE_T \in Nat \ {0} /\ \A len \in Lengths : SIZE_T > MAX_CALLS * len

ASSUME DataAssumption ==
  Data \subseteq Int /\ Data \cap (Blocks \cup {-1}) = {}

ASSUME ThreadsAssumption == IsFiniteSet(Threads) /\ NoThread \notin Threads

VARIABLES
  inode_table, freeinode_ts, fs_data, free_blocks,
  open_file_table, free_open_file_entries,
  rwl,       (* of each i-node                                             *)
  call,      (* what each thread is in the middle of                       *)
  calls,     (* how many calls have been made                              *)
  damage     (* what has gone wrong: "freed", a block of references that   *)
             (* stays in use; "beyond", a reference past the end of its    *)
             (* block used; "raced", a reference overwritten by another,   *)
             (* or used before its block was filled                        *)

tables == <<inode_table, freeinode_ts, fs_data, free_blocks>>
handles == <<open_file_table, free_open_file_entries>>
vars == <<tables, handles, rwl, call, calls, damage>>

Lock == INSTANCE Rwlock

Min2(a, b) == IF a < b THEN a ELSE b
Max2(a, b) == IF a < b THEN b ELSE a
SizeSub(a, b) == (a - b) % SIZE_T

Notes(happened, what) == damage' = IF happened THEN damage \cup {what} ELSE damage

Idle == [pc |-> "idle"]
Dead == \E t \in Threads : call[t].pc = "dead"
Returns(t) == call' = [call EXCEPT ![t] = Idle]

NewFile == [i_size |-> 0, i_data_block |-> [k \in BlockRefs |-> -1]]

(* Static storage is zero; block 0 is the root directory's.                *)
Init ==
  /\ inode_table = [i \in Inodes |-> [i_size |-> 0, i_data_block |-> [k \in BlockRefs |-> 0]]]
  /\ freeinode_ts = Inodes
  /\ fs_data = [b \in Blocks |-> [k \in Cells |-> 0]]
  /\ free_blocks = Blocks \ {0}
  /\ open_file_table = [fh \in Handles |-> [of_inumber |-> 0, of_offset |-> 0]]
  /\ free_open_file_entries = Handles
  /\ rwl = [i \in Inodes |-> Lock!NewLock]
  /\ call = [t \in Threads |-> Idle]
  /\ calls = 0
  /\ damage = {}

(* A handle keeps leading to its file once it is closed, and neither write *)
(* nor read asks. file_lock belongs to the call that uses the handle.      *)
Issued == {fh \in Handles : open_file_table[fh].of_inumber # 0}
InLoop(t) == call[t].pc \in {"run", "got", "use", "fill"}
FileLockFree(fh) == \A t \in Threads : InLoop(t) => call[t].fh # fh

----------------------------------------------------------------------------
(* tfs_open *)

(* add_to_open_file_table gives out some handle that is free, and none if  *)
(* they were all taken when it looked at them.                             *)
AddToOpenFileTable(t, inum, offset) ==
  \/ /\ free_open_file_entries = {}
     /\ Returns(t)
     /\ UNCHANGED handles
  \/ \E fh \in free_open_file_entries :
       /\ FileLockFree(fh)
       /\ open_file_table' = [open_file_table EXCEPT
            ![fh] = [of_inumber |-> inum, of_offset |-> offset]]
       /\ free_open_file_entries' = free_open_file_entries \ {fh}
       /\ Returns(t)

Files == Inodes \ freeinode_ts

OpenCreate(t) ==
  /\ \E inum \in freeinode_ts :
       /\ \A i \in freeinode_ts : inum <= i
       /\ freeinode_ts' = freeinode_ts \ {inum}
       /\ inode_table' = [inode_table EXCEPT ![inum] = NewFile]
       /\ AddToOpenFileTable(t, inum, 0)
  /\ UNCHANGED <<fs_data, free_blocks, rwl, damage>>

OpenExisting(t, inum, append) ==
  /\ Lock!CanWrite(rwl[inum])
  /\ rwl' = [rwl EXCEPT ![inum] = Lock!Unlock(Lock!WrLock(@, t), t)]
  /\ AddToOpenFileTable(t, inum, IF append THEN inode_table[inum].i_size ELSE 0)
  /\ UNCHANGED <<tables, damage>>

(* How many of the references of block b, or of the direct ones, the loop  *)
(* frees: it ends at a -1, and fails at what is no block number.           *)
AllOf(refs, n) == n
Freed(refs, n) ==
  CHOOSE k \in 0 .. n :
    /\ \A j \in 0 .. k - 1 : refs[j] \in Blocks
    /\ k < n => refs[k] \notin Blocks

Blanked(refs, n) == [j \in DOMAIN refs |-> IF j < n THEN -1 ELSE refs[j]]

KeptRefs(i) == inode_table[i].i_data_block
ForgottenRefs(i) ==
  Blanked(inode_table[i].i_data_block, Freed(inode_table[i].i_data_block, INDIRECT_ACCESS_BLOCK))

First(refs, n) == {refs[k] : k \in 0 .. n - 1}
NoneFreed(refs) == {}
DirectFreed(refs) == First(refs, Freed(refs, INDIRECT_ACCESS_BLOCK))

(* The truncation. The block of references is freed, but the -1 that       *)
(* should take its place is assigned to a local variable. If it fails, the *)
(* direct blocks are gone and the size is not changed.                     *)
OpenTruncate(t, inum, append) ==
  LET refs == inode_table[inum].i_data_block
      last_block == refs[INDIRECT_ACCESS_BLOCK]
      bonus_block == fs_data[last_block]
      indirect == IF last_block = -1 THEN 0 ELSE Freed(bonus_block, INDIRECT_REFERENCES)
      failed == /\ last_block # -1 /\ indirect < INDIRECT_REFERENCES
                /\ bonus_block[indirect] # -1
      freed == DirectFreed(refs) \cup First(bonus_block, indirect)
                 \cup (IF last_block = -1 \/ failed THEN {} ELSE {last_block})
      locked == Lock!Unlock(Lock!WrLock(rwl[inum], t), t)
  IN  /\ Lock!CanWrite(rwl[inum])
      /\ rwl' = [rwl EXCEPT ![inum] = locked]
      /\ IF inode_table[inum].i_size = 0
         THEN UNCHANGED <<inode_table, fs_data, free_blocks, damage>>
         ELSE /\ inode_table' = [inode_table EXCEPT
                   ![inum].i_data_block = ForgottenRefs(inum),
                   ![inum].i_size = IF failed THEN @ ELSE 0]
              /\ fs_data' = IF last_block = -1 THEN fs_data
                            ELSE [fs_data EXCEPT ![last_block] = Blanked(@, indirect)]
              /\ free_blocks' = free_blocks \cup freed
              /\ Notes(last_block # -1, "freed")
      /\ call' = [call EXCEPT ![t] =
           IF inode_table[inum].i_size > 0 /\ failed THEN Idle
           ELSE [pc |-> "truncated", inum |-> inum, append |-> append]]
      /\ UNCHANGED <<freeinode_ts, handles>>

(* The offset, read after the lock has been released, and the second       *)
(* release of the same lock.                                               *)
OpenTruncated(t) ==
  LET inum == call[t].inum
  IN  /\ call[t].pc = "truncated"
      /\ rwl' = [rwl EXCEPT ![inum] = Lock!Unlock(@, t)]
      /\ AddToOpenFileTable(t, inum, IF call[t].append THEN inode_table[inum].i_size ELSE 0)
      /\ UNCHANGED <<tables, damage>>

(* Closing a handle that is free fails and changes nothing.                *)
TfsClose(t, fh) ==
  /\ fh \notin free_open_file_entries
  /\ free_open_file_entries' = free_open_file_entries \cup {fh}
  /\ Returns(t)
  /\ UNCHANGED <<tables, open_file_table, rwl, damage>>

----------------------------------------------------------------------------
(* tfs_write and tfs_read. "run" is the top of their loop.                 *)

Offset(t) == open_file_table[call[t].fh].of_offset

IndirectPlace == [blk |-> -1, at |-> INDIRECT_ACCESS_BLOCK]

Call(op, fh, byte, left) ==
  [pc |-> "run", op |-> op, fh |-> fh, inum |-> open_file_table[fh].of_inumber,
   byte |-> byte, left |-> left, start |-> open_file_table[fh].of_offset,
   size |-> inode_table[open_file_table[fh].of_inumber].i_size, buffer |-> <<>>,
   place |-> IndirectPlace, block |-> -1]

WriteBegin(t, fh, byte, len) ==
  LET inum == open_file_table[fh].of_inumber
  IN  /\ FileLockFree(fh) /\ Lock!CanWrite(rwl[inum])
      /\ rwl' = [rwl EXCEPT ![inum] = Lock!WrLock(@, t)]
      /\ call' = [call EXCEPT ![t] = Call("write", fh, byte, len)]
      /\ UNCHANGED <<tables, handles, damage>>

ToRead(size, offset, len) == Min2(SizeSub(size, offset), len)

ReadBegin(t, fh, len) ==
  LET entry == open_file_table[fh]
      to_read == ToRead(inode_table[entry.of_inumber].i_size, entry.of_offset, len)
  IN  /\ FileLockFree(fh) /\ Lock!CanRead(rwl[entry.of_inumber])
      /\ rwl' = [rwl EXCEPT ![entry.of_inumber] = Lock!RdLock(@)]
      /\ call' = [call EXCEPT ![t] = Call("read", fh, 0, to_read)]
      /\ UNCHANGED <<tables, handles, damage>>

(* Where the number of the block that holds an offset is kept: in the      *)
(* i-node, or in the block of references, whose end is not checked. Until  *)
(* there is one, it is the place for that block itself.                    *)
Place(i, offset) ==
  LET current_block == offset \div BLOCK_SIZE
      indirect_block == inode_table[i].i_data_block[INDIRECT_ACCESS_BLOCK]
      beyond == current_block - INDIRECT_ACCESS_BLOCK
  IN  IF current_block < INDIRECT_ACCESS_BLOCK THEN [blk |-> -1, at |-> current_block]
      ELSE IF indirect_block = -1 THEN IndirectPlace
      ELSE [blk |-> indirect_block + beyond \div BLOCK_SIZE, at |-> beyond % BLOCK_SIZE]

InMemory(place) == place.blk < DATA_BLOCKS

At(i, place) ==
  IF place.blk = -1 THEN inode_table[i].i_data_block[place.at] ELSE fs_data[place.blk][place.at]

Here(t) == Place(call[t].inum, Offset(t))

(* A block of references that its i-node has, but that is not filled yet.  *)
Filled(b) == \A t \in Threads : call[t].pc = "fill" => call[t].block # b

(* The reference is used: past the end of the block that should hold it,   *)
(* or before another thread has filled that block?                         *)
PastEnd(t) == Offset(t) >= MAX_FILE_SIZE
NotesUse(t) ==
  damage' = damage \cup (IF PastEnd(t) THEN {"beyond"} ELSE {})
                   \cup (IF Filled(Here(t).blk) THEN {} ELSE {"raced"})

IsFirst(b, S) == b \in S /\ \A c \in S : b <= c
AnyBlock(b) == b \in Blocks \ {0}
FirstFree(b) == IsFirst(b, free_blocks)

(* get_current_data_block and bonus_block_init: data_block_alloc, -1 when  *)
(* there is no free block.                                                 *)
Alloc(t) ==
  /\ call[t].pc = "run" /\ call[t].left > 0
  /\ InMemory(Here(t)) /\ At(call[t].inum, Here(t)) = -1
  /\ \E b \in Blocks \cup {-1} :
       /\ IF free_blocks = {} THEN b = -1 ELSE FirstFree(b)
       /\ free_blocks' = free_blocks \ {b}
       /\ call' = [call EXCEPT ![t] =
            [@ EXCEPT !.pc = "got", !.place = Here(t), !.block = b]]
  /\ NotesUse(t)
  /\ UNCHANGED <<inode_table, freeinode_ts, fs_data, handles, rwl>>

Leaves(t) ==
  /\ Returns(t)
  /\ rwl' = [rwl EXCEPT ![call[t].inum] = Lock!Unlock(@, t)]

(* The number is stored, also when it is -1: then the call fails.          *)
Store(t) ==
  LET place == call[t].place
      i == call[t].inum
      b == call[t].block
  IN  /\ call[t].pc = "got" /\ (b # -1 \/ place # IndirectPlace)
      /\ IF place.blk = -1
         THEN /\ inode_table' = [inode_table EXCEPT ![i].i_data_block[place.at] = b]
              /\ UNCHANGED fs_data
         ELSE /\ fs_data' = [fs_data EXCEPT ![place.blk][place.at] = b]
              /\ UNCHANGED inode_table
      /\ IF b = -1 THEN Leaves(t)
         ELSE /\ call' = [call EXCEPT ![t].pc = IF place = IndirectPlace THEN "fill" ELSE "use"]
              /\ UNCHANGED rwl
      /\ Notes(At(i, place) # -1, "raced")
      /\ UNCHANGED <<freeinode_ts, free_blocks, handles>>

(* bonus_block_init clears the new block of references.                    *)
Fill(t) ==
  LET b == call[t].block
  IN  /\ call[t].pc = "fill"
      /\ fs_data' = [fs_data EXCEPT ![b] = [k \in Cells |-> -1]]
      /\ inode_table' = [inode_table EXCEPT ![call[t].inum].i_data_block[INDIRECT_ACCESS_BLOCK] = b]
      /\ call' = [call EXCEPT ![t].pc = "run"]
      /\ UNCHANGED <<freeinode_ts, free_blocks, handles, rwl, damage>>

(* data_block_get gives NULL for what is no block number.                  *)
NoBlock(t) ==
  /\ call[t].pc \in {"run", "use"} /\ call[t].left > 0 /\ InMemory(Here(t))
  /\ At(call[t].inum, Here(t)) \notin IF call[t].pc = "run" THEN Blocks \cup {-1} ELSE Blocks
  /\ Leaves(t)
  /\ NotesUse(t)
  /\ UNCHANGED <<tables, handles>>

(* The block is there: copy up to its end.                                 *)
InBlock(t) == Offset(t) % BLOCK_SIZE
ChunkOfBuffer(t) == Min2(call[t].left, BLOCK_SIZE)
Chunk(t) == Min2(call[t].left, BLOCK_SIZE - InBlock(t))

Copying(t, op) ==
  /\ call[t].pc \in {"run", "use"} /\ call[t].op = op /\ call[t].left > 0
  /\ InMemory(Here(t)) /\ At(call[t].inum, Here(t)) \in Blocks
  /\ open_file_table' = [open_file_table EXCEPT ![call[t].fh].of_offset = @ + Chunk(t)]
  /\ NotesUse(t)

(* i_size grows by what is written, wherever in the file that is.          *)
CopyIn(t) ==
  /\ Copying(t, "write")
  /\ fs_data' = [fs_data EXCEPT ![At(call[t].inum, Here(t))] = [k \in Cells |->
       IF InBlock(t) <= k /\ k < InBlock(t) + Chunk(t) THEN call[t].byte ELSE @[k]]]
  /\ inode_table' = [inode_table EXCEPT ![call[t].inum].i_size = @ + Chunk(t)]
  /\ call' = [call EXCEPT ![t].pc = "run", ![t].left = @ - Chunk(t)]
  /\ UNCHANGED <<freeinode_ts, free_blocks, free_open_file_entries, rwl>>

FromStart(t, block) == [k \in 1 .. Chunk(t) |-> block[k - 1]]
FromOffset(t, block) == [k \in 1 .. Chunk(t) |-> block[InBlock(t) + k - 1]]

CopyOut(t) ==
  LET block == fs_data[At(call[t].inum, Here(t))]
  IN  /\ Copying(t, "read")
      /\ call' = [call EXCEPT
           ![t].pc = "run", ![t].left = @ - Chunk(t),
           ![t].buffer = @ \o FromOffset(t, block)]
      /\ UNCHANGED <<tables, free_open_file_entries, rwl>>

SizeAdded(t) == inode_table[call[t].inum].i_size
SizeWritten(t) ==
  IF call[t].start # call[t].size THEN Max2(Offset(t), call[t].size) ELSE SizeAdded(t)

WriteEnd(t) ==
  /\ call[t].pc = "run" /\ call[t].op = "write" /\ call[t].left = 0
  /\ inode_table' = [inode_table EXCEPT ![call[t].inum].i_size = SizeWritten(t)]
  /\ Leaves(t)
  /\ UNCHANGED <<freeinode_ts, fs_data, free_blocks, handles, damage>>

ReadEnd(t) ==
  /\ call[t].pc = "run" /\ call[t].op = "read" /\ call[t].left = 0
  /\ Leaves(t)
  /\ UNCHANGED <<tables, handles, damage>>

(* bonus_block_init writes through NULL when there was no block for it, or *)
(* a reference is looked for behind the last block: the process ends.      *)
Dies(t) ==
  /\ \/ call[t].pc = "got" /\ call[t].block = -1 /\ call[t].place = IndirectPlace
     \/ call[t].pc = "run" /\ call[t].left > 0 /\ ~InMemory(Here(t))
  /\ call' = [u \in Threads |-> [pc |-> "dead"]]
  /\ UNCHANGED <<tables, handles, rwl, damage>>

Begins(t) ==
  \/ OpenCreate(t)
  \/ \E inum \in Files, append \in BOOLEAN :
       OpenExisting(t, inum, append) \/ OpenTruncate(t, inum, append)
  \/ \E fh \in Issued :
       \/ TfsClose(t, fh)
       \/ \E len \in Lengths :
            ReadBegin(t, fh, len) \/ \E byte \in Data : WriteBegin(t, fh, byte, len)

GoesOn(t) ==
  \/ OpenTruncated(t)
  \/ Alloc(t) \/ Store(t) \/ Fill(t) \/ NoBlock(t) \/ CopyIn(t) \/ CopyOut(t)
  \/ WriteEnd(t) \/ ReadEnd(t) \/ Dies(t)

Next ==
  \E t \in Threads :
    \/ call[t].pc = "idle" /\ calls < MAX_CALLS /\ calls' = calls + 1 /\ Begins(t)
    \/ UNCHANGED calls /\ GoesOn(t)

Spec == Init /\ [][Next]_vars

----------------------------------------------------------------------------
References == [blk : Blocks \cup {-1}, at : BlockRefs \cup Cells]

Calls ==
  [pc : {"idle", "dead"}]
    \cup [pc : {"truncated"}, inum : Inodes, append : BOOLEAN]
    \cup [pc : {"run", "got", "use", "fill"}, op : {"write", "read"}, fh : Handles,
          inum : Inodes, byte : Data \cup {0}, left : Nat, start : Nat,
          size : Nat, buffer : Seq(Int), place : References, block : Blocks \cup {-1}]

(* Type correctness: an i-node's references are block numbers, no block is *)
(* put into a free list that is none, offsets stay in their bounds.        *)
TypeOK ==
  /\ inode_table \in [Inodes -> [i_size : Nat, i_data_block : [BlockRefs -> Blocks \cup {-1}]]]
  /\ freeinode_ts \subseteq Inodes
  /\ fs_data \in [Blocks -> [Cells -> Blocks \cup {-1} \cup Data]]
  /\ free_blocks \subseteq Blocks
  /\ open_file_table \in [Handles -> [of_inumber : Inodes \cup {0}, of_offset : Nat]]
  /\ free_open_file_entries \subseteq Handles
  /\ rwl \in [Inodes -> Lock!Rwlocks(Threads)]
  /\ call \in [Threads -> Calls]
  /\ calls \in 0 .. MAX_CALLS
  /\ damage \subseteq {"freed", "beyond", "raced"}

(* The places that refer to a block; one being filled holds no references. *)
Indirect(i) == inode_table[i].i_data_block[INDIRECT_ACCESS_BLOCK]

InUse ==
  {r \in Files \X
      ([blk : {-1}, at : BlockRefs] \cup [blk : {Indirect(i) : i \in Files} \ {-1}, at : Cells]) :
     /\ r[2].blk # -1 => r[2].blk = Indirect(r[1]) /\ Filled(r[2].blk)
     /\ At(r[1], r[2]) # -1}

OnItsWay == {t \in Threads : call[t].pc = "got" /\ call[t].block # -1}

(* Every reference leads to a block that is taken, and no two to one; nor  *)
(* is a block that a thread has just been given anyone else's: no order of *)
(* allocations by several threads, of truncations and of failures gives a  *)
(* block to two files (until damage has been done, or the process ended).  *)
BlocksOwned ==
  damage = {} /\ ~Dead =>
    /\ \A r \in InUse : At(r[1], r[2]) \in Blocks \ (free_blocks \cup {0})
    /\ \A r, s \in InUse : At(r[1], r[2]) = At(s[1], s[2]) => r = s
    /\ \A t \in OnItsWay :
         /\ call[t].block \notin free_blocks
         /\ \A r \in InUse : At(r[1], r[2]) # call[t].block
         /\ \A u \in OnItsWay : call[t].block = call[u].block => t = u

(* No block is lost: one that is taken is in use or on its way, also after *)
(* writes that fail half way.                                              *)
NoBlockLost ==
  damage = {} /\ ~Dead =>
    \A b \in Blocks \ (free_blocks \cup {0}) :
      \/ \E r \in InUse : At(r[1], r[2]) = b
      \/ \E t \in OnItsWay : call[t].block = b

(* The cell of a file at an offset, -1 where it has no block.              *)
CellAt(i, k) ==
  LET place == Place(i, k)
  IN  IF place = IndirectPlace \/ ~InMemory(place) THEN -1
      ELSE IF place.blk # -1 /\ ~Filled(place.blk) THEN -1
      ELSE LET b == At(i, place) IN IF b \in Blocks THEN fs_data[b][k % BLOCK_SIZE] ELSE -1

Doing(t, op) == InLoop(t) /\ call[t].op = op

(* What a write has written so far is in its file, at the offsets the      *)
(* handle has moved over, however many blocks they cross and whatever      *)
(* other threads write, read, open and close meanwhile.                    *)
WrittenSoFar ==
  damage = {} =>
    \A t \in Threads : Doing(t, "write") =>
      \A k \in call[t].start .. Offset(t) - 1 : CellAt(call[t].inum, k) = call[t].byte

Readers(i) == {t \in Threads : Doing(t, "read") /\ call[t].inum = i}

(* What a read has put into its buffer is what the file holds: nobody      *)
(* writes to a file that is being read, unless its lock has been released  *)
(* once too often.                                                         *)
ReadSoFar ==
  damage = {} =>
    \A t \in Threads :
      Doing(t, "read") /\ rwl[call[t].inum].readers >= Cardinality(Readers(call[t].inum)) =>
        \A k \in 1 .. Len(call[t].buffer) :
          call[t].buffer[k] = CellAt(call[t].inum, call[t].start + k - 1)

WritesCell(t, i, k) ==
  Doing(t, "write") /\ call[t].inum = i /\ Offset(t) <= k /\ k < Offset(t)'

Truncates(t, i) == call'[t].pc = "truncated" /\ call[t].pc = "idle" /\ call'[t].inum = i

Framed ==
  \A i \in Files, k \in 0 .. MAX_FILE_SIZE - 1 :
    k < inode_table[i].i_size /\ CellAt(i, k) # -1 /\ CellAt(i, k)' # CellAt(i, k) =>
      \E t \in Threads : WritesCell(t, i, k) \/ Truncates(t, i)

(* A cell within a file changes only when the file is truncated or a       *)
(* thread that writes to the file passes over it.                          *)
FramedWrites == [][damage' = {} => Framed]_vars

(* operations.h says of tfs_write "Writes to an open file, starting at the *)
(* current offset": it changes no other file, nor another part of its own. *)
WritesStayInFile == [][Framed]_vars

(* A write that succeeds leaves the file as long as the farther of its old *)
(* end and the end of what was written, although i_size has meanwhile      *)
(* grown with every block written, appended or not.                        *)
WriteSizes ==
  [][\A t \in Threads :
       Doing(t, "write") /\ call[t].left = 0 /\ call'[t].pc = "idle" =>
         inode_table'[call[t].inum].i_size = Max2(call[t].size, Offset(t))]_vars
=============================================================================
