----------------------------- MODULE TecnicoFS -----------------------------
(***************************************************************************)
(* The file system of Projeto2: fs/state.c (i-node table, root directory,  *)
(* data blocks, open file table) under the operations of fs/operations.c.  *)
(*                                                                         *)
(* Every operation runs inside single_global_lock from its first access to *)
(* the tables to its last one, so each is one action here. The lock, the   *)
(* can_open_files test made before it and the shutdown are the subject of  *)
(* ShutdownGate.                                                           *)
(*                                                                         *)
(* The free maps (freeinode_ts, free_blocks, free_open_file_entries) are   *)
(* kept as the sets of the entries marked FREE. The block of the root      *)
(* directory is kept apart, as the variable dir; that no file is ever      *)
(* stored in it is part of BlockAccounting.                                *)
(***************************************************************************)
EXTENDS Integers, FiniteSets

CONSTANTS
  INODE_TABLE_SIZE, DATA_BLOCKS, BLOCK_SIZE, MAX_OPEN_FILES,  (* config.h  *)
  MAX_DIR_ENTRIES,  (* entries in the root's block (state.h)               *)
  SIZE_T,           (* the modulus of size_t, above every length in use    *)
  Names,            (* what may follow the first character of a path       *)
  Empty,            (* ... when nothing follows it                         *)
  Stored,           (* the name that strncpy keeps of a name: itself, or   *)
                    (* its first MAX_FILE_NAME - 1 characters              *)
  Paths,            (* the paths callers pass to tfs_open                  *)
  Bytes,            (* the values callers write                            *)
  Junk,             (* a byte that no write put where it is read           *)
  MAX_LEN,          (* bound: the longest buffer callers pass              *)
  MAX_OFFSET        (* bound: how far reads may move an offset             *)

ROOT_DIR_INUM == 0
Inodes   == 0 .. INODE_TABLE_SIZE - 1
Blocks   == 0 .. DATA_BLOCKS - 1
Handles  == 0 .. MAX_OPEN_FILES - 1
DirSlots == 0 .. MAX_DIR_ENTRIES - 1
InBlock  == 0 .. BLOCK_SIZE - 1
Flags    == {"CREAT", "TRUNC", "APPEND"}

ASSUME SizesAssumption ==
  /\ INODE_TABLE_SIZE \in Nat \ {0} /\ DATA_BLOCKS \in Nat \ {0}
  /\ BLOCK_SIZE \in Nat \ {0}       /\ MAX_OPEN_FILES \in Nat \ {0}
  /\ MAX_DIR_ENTRIES \in Nat \ {0}  /\ MAX_LEN \in Nat
  /\ MAX_OFFSET \in Nat
  /\ SIZE_T \in Nat /\ SIZE_T > BLOCK_SIZE + MAX_OFFSET + MAX_LEN

(* A path is its first character, a slash or not, and what follows it.     *)
ASSUME NamesAssumption ==
  /\ Empty \notin Names
  /\ Paths \subseteq [abs : BOOLEAN, sub : Names \cup {Empty}]
  /\ Stored \in [Names -> Names]
  /\ \A n \in Names : Stored[Stored[n]] = Stored[n]
  /\ Junk \notin Bytes

VARIABLES
  inode_table, freeinode_ts, dir, fs_data, free_blocks,
  open_file_table, free_open_file_entries, open_files,
  reply,            (* what the last call returned to its caller           *)
  crashed           (* a memcpy ran off the end of the mapped memory       *)

disk == <<inode_table, freeinode_ts, dir, fs_data, free_blocks>>
table == <<open_file_table, free_open_file_entries, open_files>>
vars == <<disk, table, reply, crashed>>

Inode == [i_node_type : {"T_FILE", "T_DIRECTORY"}, i_size : 0 .. BLOCK_SIZE,
          i_data_block : Blocks \cup {-1}]
DirEntry == [d_inumber : Inodes \cup {-1}, d_name : Names \cup {Empty}]
OpenFileEntry == [of_inumber : Inodes, of_offset : 0 .. MAX_OFFSET + BLOCK_SIZE]
ByteValues == Bytes \cup {Junk}

(* What the loops over the free maps and the directory stop at.            *)
IsFirst(i, S) == i \in S /\ \A j \in S : i <= j

(* a - b on size_t.                                                        *)
SizeSub(a, b) == IF a >= b THEN a - b ELSE a - b + SIZE_T

----------------------------------------------------------------------------
(* state_init and the creation of the root i-node by tfs_init. Static      *)
(* storage starts as zeroes: T_FILE, size 0, block 0.                      *)
Init ==
  /\ inode_table = [i \in Inodes |->
       IF i = ROOT_DIR_INUM
       THEN [i_node_type |-> "T_DIRECTORY", i_size |-> BLOCK_SIZE, i_data_block |-> 0]
       ELSE [i_node_type |-> "T_FILE", i_size |-> 0, i_data_block |-> 0]]
  /\ freeinode_ts = Inodes \ {ROOT_DIR_INUM}
  /\ dir = [k \in DirSlots |-> [d_inumber |-> -1, d_name |-> Empty]]
  /\ fs_data = [b \in Blocks |-> [k \in InBlock |-> Junk]]
  /\ free_blocks = Blocks \ {0}
  /\ open_file_table = [fh \in Handles |-> [of_inumber |-> ROOT_DIR_INUM, of_offset |-> 0]]
  /\ free_open_file_entries = Handles
  /\ open_files = 0
  /\ reply = [ret |-> 0, data |-> <<>>]
  /\ crashed = FALSE

Returns(r) == reply' = [ret |-> r, data |-> <<>>]

(* The handles tfs_open has returned at least once, closed ones included:  *)
(* callers use no other, and entry 0-initialised means never opened.       *)
Issued == {fh \in Handles : open_file_table[fh].of_inumber # ROOT_DIR_INUM}

Node(fh) == inode_table[open_file_table[fh].of_inumber]
Offset(fh) == open_file_table[fh].of_offset

----------------------------------------------------------------------------
(* Directory *)

ValidPathname(path) == path.abs /\ path.sub # Empty

Matches(sub) == {k \in DirSlots : dir[k].d_inumber # -1 /\ dir[k].d_name = sub}
EmptySlots == {k \in DirSlots : dir[k].d_inumber = -1}

(* The i-node a path leads to, as a set: empty where the code returns -1.  *)
Lookup(path) ==
  {dir[k].d_inumber :
     k \in {j \in DirSlots : ValidPathname(path) /\ IsFirst(j, Matches(path.sub))}}

----------------------------------------------------------------------------
(* tfs_open *)

OpenCountUnchecked(r) == open_files + 1
OpenCount(r) == IF r # -1 THEN open_files + 1 ELSE open_files

AddToOpenFileTable(inum, offset) ==
  \/ /\ free_open_file_entries = {}
     /\ Returns(-1)
     /\ open_files' = OpenCount(-1)
     /\ UNCHANGED <<open_file_table, free_open_file_entries>>
  \/ \E fh \in Handles :
       /\ IsFirst(fh, free_open_file_entries)
       /\ open_file_table' = [open_file_table EXCEPT
            ![fh] = [of_inumber |-> inum, of_offset |-> offset]]
       /\ free_open_file_entries' = free_open_file_entries \ {fh}
       /\ Returns(fh)
       /\ open_files' = OpenCount(fh)

TruncatedAnySize(inode, flags) == "TRUNC" \in flags
Truncated(inode, flags) == "TRUNC" \in flags /\ inode.i_size > 0

(* The path names a file: truncate it if asked to. A size above 0 comes    *)
(* with a valid block (BlockAccounting), so data_block_free does not fail. *)
OpenExisting(path, flags) ==
  \E inum \in Lookup(path) :
    LET inode == inode_table[inum]
        size == IF Truncated(inode, flags) THEN 0 ELSE inode.i_size
    IN  /\ free_blocks' = IF Truncated(inode, flags)
                          THEN free_blocks \cup {inode.i_data_block} ELSE free_blocks
        /\ inode_table' = [inode_table EXCEPT ![inum].i_size = size]
        /\ AddToOpenFileTable(inum, IF "APPEND" \in flags THEN size ELSE 0)
        /\ UNCHANGED <<freeinode_ts, dir, fs_data, crashed>>

NewFile == [i_node_type |-> "T_FILE", i_size |-> 0, i_data_block |-> -1]

(* No file has the path, and inode_create and add_dir_entry both succeed.  *)
OpenCreate(path, flags) ==
  /\ Lookup(path) = {} /\ "CREAT" \in flags /\ path.sub # Empty
  /\ \E inum \in Inodes, k \in DirSlots :
       /\ IsFirst(inum, freeinode_ts)
       /\ IsFirst(k, EmptySlots)
       /\ freeinode_ts' = freeinode_ts \ {inum}
       /\ inode_table' = [inode_table EXCEPT ![inum] = NewFile]
       /\ dir' = [dir EXCEPT ![k] = [d_inumber |-> inum, d_name |-> Stored[path.sub]]]
       /\ AddToOpenFileTable(inum, 0)
  /\ UNCHANGED <<fs_data, free_blocks, crashed>>

NoInodeDelete(free, inum) == free
InodeDelete(free, inum) == free \cup {inum}

(* inode_create succeeds, add_dir_entry does not, and inode_delete undoes  *)
(* the first (the size is 0: no block to free).                            *)
OpenUndone(path, flags) ==
  /\ Lookup(path) = {} /\ "CREAT" \in flags
  /\ path.sub = Empty \/ EmptySlots = {}
  /\ \E inum \in Inodes :
       /\ IsFirst(inum, freeinode_ts)
       /\ freeinode_ts' = InodeDelete(freeinode_ts \ {inum}, inum)
       /\ inode_table' = [inode_table EXCEPT ![inum] = NewFile]
  /\ Returns(-1)
  /\ UNCHANGED <<dir, fs_data, free_blocks, table, crashed>>

(* No such file and none can be made.                                      *)
OpenRefused(path, flags) ==
  /\ Lookup(path) = {}
  /\ "CREAT" \notin flags \/ freeinode_ts = {}
  /\ Returns(-1)
  /\ UNCHANGED <<disk, table, crashed>>

TfsOpen(path, flags) ==
  \/ OpenExisting(path, flags)
  \/ OpenCreate(path, flags)
  \/ OpenUndone(path, flags)
  \/ OpenRefused(path, flags)

----------------------------------------------------------------------------
(* tfs_close: a handle out of range or already closed changes nothing.     *)
TfsClose(fh) ==
  /\ IF fh \in Handles \ free_open_file_entries
     THEN /\ free_open_file_entries' = free_open_file_entries \cup {fh}
          /\ open_files' = open_files - 1
          /\ Returns(0)
     ELSE /\ Returns(-1)
          /\ UNCHANGED <<free_open_file_entries, open_files>>
  /\ UNCHANGED <<disk, open_file_table, crashed>>

----------------------------------------------------------------------------
(* tfs_write of len copies of byte. get_open_file_entry does not ask       *)
(* whether the handle is still open. The subtraction is on size_t: past    *)
(* the block's end it wraps, and the length becomes enormous.              *)

ToWriteOffByOne(offset, len) ==
  IF len + offset > BLOCK_SIZE + 1 THEN SizeSub(BLOCK_SIZE + 1, offset) ELSE len
ToWrite(offset, len) ==
  IF len + offset > BLOCK_SIZE THEN SizeSub(BLOCK_SIZE, offset) ELSE len

WriteNothing(fh, len) ==
  /\ ToWrite(Offset(fh), len) = 0
  /\ Returns(0)
  /\ UNCHANGED <<disk, table, crashed>>

(* An empty file gets a block first. With none left its block becomes -1.  *)
WriteNoBlock(fh, len) ==
  /\ ToWrite(Offset(fh), len) > 0
  /\ Node(fh).i_size = 0 /\ free_blocks = {}
  /\ inode_table' = [inode_table EXCEPT ![open_file_table[fh].of_inumber].i_data_block = -1]
  /\ Returns(-1)
  /\ UNCHANGED <<freeinode_ts, dir, fs_data, free_blocks, table, crashed>>

AnyBlock(b) == b \in Blocks
DataBlockAlloc(b) == IsFirst(b, free_blocks)

WriteBytes(fh, byte, len) ==
  LET inum == open_file_table[fh].of_inumber
      offset == Offset(fh)
      to_write == ToWrite(offset, len)
      end == offset + to_write
  IN  /\ to_write > 0 /\ offset <= BLOCK_SIZE
      /\ \E b \in Blocks :
           /\ IF Node(fh).i_size = 0 THEN DataBlockAlloc(b) ELSE b = Node(fh).i_data_block
           /\ free_blocks' = free_blocks \ {b}
           /\ fs_data' = [fs_data EXCEPT ![b] =
                [k \in InBlock |-> IF offset <= k /\ k < end THEN byte ELSE @[k]]]
           /\ inode_table' = [inode_table EXCEPT
                ![inum].i_data_block = b,
                ![inum].i_size = IF end > @ THEN end ELSE @]
      /\ open_file_table' = [open_file_table EXCEPT ![fh].of_offset = end]
      /\ reply' = [ret |-> to_write, data |-> <<>>]
      /\ UNCHANGED <<freeinode_ts, dir, free_open_file_entries, open_files, crashed>>

(* The offset is past the block and the length has wrapped: memcpy runs    *)
(* through all the memory that is mapped and the process dies.             *)
WriteOverrun(fh, len) ==
  /\ ToWrite(Offset(fh), len) > 0 /\ Offset(fh) > BLOCK_SIZE
  /\ Node(fh).i_size > 0 \/ free_blocks # {}
  /\ crashed' = TRUE
  /\ UNCHANGED <<disk, table, reply>>

TfsWrite(fh, byte, len) ==
  \/ WriteNothing(fh, len)
  \/ WriteNoBlock(fh, len)
  \/ WriteBytes(fh, byte, len)
  \/ WriteOverrun(fh, len)

----------------------------------------------------------------------------
(* tfs_read. The subtraction is on size_t: an offset past the end, left    *)
(* behind by a truncation, makes it wrap and the whole of len is read, from*)
(* the block the file had, or off its end (Junk).                          *)

ToReadOfBlock(size, offset, len) ==
  IF SizeSub(BLOCK_SIZE, offset) > len THEN len ELSE SizeSub(BLOCK_SIZE, offset)
ToRead(size, offset, len) ==
  IF SizeSub(size, offset) > len THEN len ELSE SizeSub(size, offset)

ByteFromStart(b, offset, k) == fs_data[b][k]
ByteAt(b, offset, k) ==
  IF offset + k < BLOCK_SIZE THEN fs_data[b][offset + k] ELSE Junk

ReadBytes(fh, len) ==
  LET offset == Offset(fh)
      to_read == ToRead(Node(fh).i_size, offset, len)
      b == Node(fh).i_data_block
  IN  /\ to_read > 0 /\ b # -1
      /\ open_file_table' = [open_file_table EXCEPT ![fh].of_offset = offset + to_read]
      /\ reply' = [ret |-> to_read,
                   data |-> [k \in 1 .. to_read |-> ByteAt(b, offset, k - 1)]]
      /\ UNCHANGED <<disk, free_open_file_entries, open_files, crashed>>

(* At the end of the file, or with no block to read from (-1).             *)
ReadNothing(fh, len) ==
  LET to_read == ToRead(Node(fh).i_size, Offset(fh), len)
  IN  /\ to_read = 0 \/ Node(fh).i_data_block = -1
      /\ Returns(IF to_read = 0 THEN 0 ELSE -1)
      /\ UNCHANGED <<disk, table, crashed>>

TfsRead(fh, len) == ReadBytes(fh, len) \/ ReadNothing(fh, len)

----------------------------------------------------------------------------
(* Callers pass the paths, bytes and lengths of the constants, and handles *)
(* that tfs_open has given out (to tfs_close also one that is no handle).  *)
Next ==
  /\ ~crashed
  /\ \/ \E path \in Paths, flags \in SUBSET Flags : TfsOpen(path, flags)
     \/ \E fh \in Issued \cup {-1} : TfsClose(fh)
     \/ \E fh \in Issued, byte \in Bytes, len \in 0 .. MAX_LEN : TfsWrite(fh, byte, len)
     \/ \E fh \in Issued, len \in 0 .. MAX_LEN :
          Offset(fh) + len <= MAX_OFFSET /\ TfsRead(fh, len)

Spec == Init /\ [][Next]_vars

----------------------------------------------------------------------------
(* Type correctness: every size stays within a block, every block number   *)
(* and i-node number within its table.                                     *)
TypeOK ==
  /\ inode_table \in [Inodes -> Inode]
  /\ freeinode_ts \subseteq Inodes
  /\ dir \in [DirSlots -> DirEntry]
  /\ fs_data \in [Blocks -> [InBlock -> ByteValues]]
  /\ free_blocks \subseteq Blocks
  /\ open_file_table \in [Handles -> OpenFileEntry]
  /\ free_open_file_entries \subseteq Handles
  /\ open_files \in Nat
  /\ reply.ret \in Int
  /\ crashed \in BOOLEAN

Taken == Inodes \ freeinode_ts
Occupied == {i \in Taken : inode_table[i].i_size > 0}

(* Each block is free or belongs to exactly one i-node with contents: no   *)
(* sequence of opens, truncations and writes leaks a block, gives it to    *)
(* two files, or gives the directory's block to a file.                    *)
BlockAccounting ==
  /\ \A i \in Occupied : inode_table[i].i_data_block \in Blocks \ free_blocks
  /\ \A i, j \in Occupied :
       inode_table[i].i_data_block = inode_table[j].i_data_block => i = j
  /\ \A b \in Blocks \ free_blocks : \E i \in Occupied : inode_table[i].i_data_block = b
  /\ ROOT_DIR_INUM \in Occupied

(* The directory and the i-node table agree: each entry leads to a file of *)
(* its own that is allocated, and each allocated file has its entry, also  *)
(* after an open that failed half way.                                     *)
DirectoryExact ==
  /\ \A k \in DirSlots : dir[k].d_inumber # -1 =>
       /\ dir[k].d_inumber \in Taken \ {ROOT_DIR_INUM}
       /\ inode_table[dir[k].d_inumber].i_node_type = "T_FILE"
  /\ \A k, l \in DirSlots :
       dir[k].d_inumber = dir[l].d_inumber /\ dir[k].d_inumber # -1 => k = l
  /\ \A i \in Taken \ {ROOT_DIR_INUM} : \E k \in DirSlots : dir[k].d_inumber = i

(* A handle, open or closed, leads to a file that is still allocated, and  *)
(* open_files counts the handles that are open: tfs_destroy_after_all_     *)
(* closed waits for that counter to reach 0.                               *)
HandlesExact ==
  /\ \A fh \in Issued : open_file_table[fh].of_inumber \in Taken
  /\ Handles \ free_open_file_entries \subseteq Issued
  /\ open_files = Cardinality(Handles \ free_open_file_entries)

(* The contents of a file: the first i_size bytes of its block.            *)
Contents(i) ==
  LET inode == inode_table[i]
  IN  [k \in 0 .. inode.i_size - 1 |-> fs_data[inode.i_data_block][k]]

Moved(fh) ==
  /\ fh \in Issued
  /\ open_file_table'[fh].of_inumber = open_file_table[fh].of_inumber
  /\ open_file_table'[fh].of_offset > Offset(fh)

(* A step changes the contents of a file only by emptying it, or through a *)
(* handle of that file, and then only between the handle's old and new     *)
(* offsets: a write never reaches another file or another part of its own. *)
FramedWrites ==
  [][\A i \in Taken \ {ROOT_DIR_INUM} : Contents(i)' # Contents(i) =>
       \/ inode_table'[i].i_size = 0
       \/ \E fh \in Handles :
            /\ Moved(fh) /\ open_file_table[fh].of_inumber = i
            /\ \A k \in DOMAIN Contents(i) :
                 k < Offset(fh) \/ k >= open_file_table'[fh].of_offset
                   => Contents(i)'[k] = Contents(i)[k]]_vars

(* A read that starts within its file delivers that file's bytes from the  *)
(* handle's offset on, and advances the offset by as many.                 *)
ReadsDeliverContents ==
  [][reply'.data # <<>> /\ reply' # reply =>
       \E fh \in Handles :
         /\ Moved(fh)
         /\ reply'.ret = open_file_table'[fh].of_offset - Offset(fh)
         /\ Offset(fh) < Node(fh).i_size =>
              \A k \in 1 .. reply'.ret :
                reply'.data[k] = Contents(open_file_table[fh].of_inumber)[Offset(fh) + k - 1]]_vars

(* operations.h says of tfs_read that it "can be lower than 'len' if the   *)
(* file size was reached": no read moves past the end of its file.         *)
ReadsStopAtEnd ==
  [][\A fh \in Handles :
       Moved(fh) /\ reply'.data # <<>> => open_file_table'[fh].of_offset <= Node(fh).i_size]_vars
=============================================================================
