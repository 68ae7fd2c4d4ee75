-------------------------- MODULE TecnicoFS_proofs --------------------------
(* The invariants of TecnicoFS, for every size of its tables. None of the  *)
(* four is inductive on its own: that a file's block is its own rests on   *)
(* handles and directory entries leading to allocated i-nodes, that        *)
(* open_files never goes below 0 rests on its being an exact count.        *)
EXTENDS TecnicoFS, TLAPS, FiniteSetTheorems

IInv == TypeOK /\ BlockAccounting /\ DirectoryExact /\ HandlesExact

DiskType ==
  /\ inode_table \in [Inodes -> Inode]
  /\ freeinode_ts \subseteq Inodes
  /\ dir \in [DirSlots -> DirEntry]
  /\ fs_data \in [Blocks -> [InBlock -> ByteValues]]
  /\ free_blocks \subseteq Blocks

TableType ==
  /\ open_file_table \in [Handles -> OpenFileEntry]
  /\ free_open_file_entries \subseteq Handles
  /\ open_files \in Nat
  /\ reply.ret \in Int

(* What HandlesExact says without the i-nodes.                             *)
HandlesCounted ==
  /\ Handles \ free_open_file_entries \subseteq Issued
  /\ open_files = Cardinality(Handles \ free_open_file_entries)

OpenHandles == Handles \ free_open_file_entries

(* Handles are finitely many, so the open ones can be counted.             *)
LEMMA OpenFinite ==
  TypeOK => IsFiniteSet(OpenHandles) /\ IsFiniteSet(Handles)
  <1> USE SizesAssumption
  <1>1. IsFiniteSet(Handles)
    BY FS_Interval DEF Handles
  <1> QED BY <1>1, FS_Subset DEF OpenHandles

(* A path that is found leads to a file that is allocated.                 *)
LEMMA LookupAllocated ==
  ASSUME IInv, NEW path, NEW inum \in Lookup(path)
  PROVE  inum \in Taken \ {ROOT_DIR_INUM} /\ inum \in Inodes
  BY DEF IInv, DirectoryExact, Lookup, Matches, IsFirst, Taken

(* add_to_open_file_table keeps the table well formed and counted, and     *)
(* whatever happens the handles in use lead where they did or to inum.     *)
LEMMA TableAdded ==
  ASSUME IInv, NEW inum \in Inodes \ {ROOT_DIR_INUM}, NEW offset \in 0 .. BLOCK_SIZE,
         AddToOpenFileTable(inum, offset)
  PROVE  /\ TableType' /\ HandlesCounted'
         /\ \A fh \in Issued' : \/ fh \in Issued /\ open_file_table'[fh] = open_file_table[fh]
                                \/ open_file_table'[fh].of_inumber = inum
  <1> USE SizesAssumption
  <1>0. MAX_OFFSET \in Nat /\ BLOCK_SIZE \in Nat /\ MAX_OPEN_FILES \in Nat
    OBVIOUS
  <1>1. CASE free_open_file_entries = {} /\ Returns(-1) /\ open_files' = OpenCount(-1)
             /\ UNCHANGED <<open_file_table, free_open_file_entries>>
    <2>1. open_files' = open_files /\ reply'.ret \in Int /\ Issued' = Issued
      BY <1>1 DEF OpenCount, Returns, Issued
    <2> QED BY <1>1, <2>1 DEF IInv, TypeOK, HandlesExact, TableType, HandlesCounted, Issued
  <1>2. ASSUME NEW fh \in Handles, IsFirst(fh, free_open_file_entries),
               open_file_table' = [open_file_table EXCEPT
                 ![fh] = [of_inumber |-> inum, of_offset |-> offset]],
               free_open_file_entries' = free_open_file_entries \ {fh},
               Returns(fh), open_files' = OpenCount(fh)
        PROVE  /\ TableType' /\ HandlesCounted'
               /\ \A h \in Issued' :
                    \/ h \in Issued /\ open_file_table'[h] = open_file_table[h]
                    \/ open_file_table'[h].of_inumber = inum
    <2>1. fh \in free_open_file_entries /\ fh # -1 /\ fh \in Int
      BY <1>2 DEF IsFirst, Handles
    <2>2. open_file_table' \in [Handles -> OpenFileEntry]
      <3>1. [of_inumber |-> inum, of_offset |-> offset] \in OpenFileEntry
        BY <1>0 DEF OpenFileEntry
      <3> QED BY <1>2, <3>1 DEF IInv, TypeOK
    <2>3. open_files' = open_files + 1 /\ open_files \in Nat
      BY <1>2, <2>1 DEF OpenCount, IInv, TypeOK
    <2>4. OpenHandles' = OpenHandles \cup {fh} /\ fh \notin OpenHandles
      BY <1>2, <2>1 DEF OpenHandles
    <2>5. Cardinality(OpenHandles') = Cardinality(OpenHandles) + 1
      BY <2>4, OpenFinite, FS_AddElement DEF IInv
    <2>6. open_file_table'[fh].of_inumber = inum
          /\ \A h \in Handles \ {fh} : open_file_table'[h] = open_file_table[h]
      BY <1>2 DEF IInv, TypeOK
    <2>7. TableType'
      BY <1>2, <2>1, <2>2, <2>3 DEF TableType, Returns, IInv, TypeOK
    <2>8. HandlesCounted'
      BY <2>3, <2>4, <2>5, <2>6 DEF HandlesCounted, IInv, HandlesExact, Issued, OpenHandles
    <2> QED BY <2>6, <2>7, <2>8 DEF Issued
  <1> QED BY <1>1, <1>2 DEF AddToOpenFileTable

(* state_init and the root i-node make the invariant true.                 *)
THEOREM InitInv == Init => IInv
  <1> USE SizesAssumption, NamesAssumption
  <1> SUFFICES ASSUME Init PROVE IInv
    OBVIOUS
  <1>1. 0 \in Inodes /\ 0 \in Blocks
    BY DEF Inodes, Blocks
  <1>2. TypeOK
    <2>1. inode_table \in [Inodes -> Inode]
      BY <1>1 DEF Init, Inode, Inodes, ROOT_DIR_INUM
    <2>2. dir \in [DirSlots -> DirEntry]
      BY DEF Init, DirEntry
    <2>3. open_file_table \in [Handles -> OpenFileEntry]
      BY <1>1 DEF Init, OpenFileEntry, ROOT_DIR_INUM
    <2>4. fs_data \in [Blocks -> [InBlock -> ByteValues]]
      BY DEF Init, ByteValues
    <2>5. free_blocks \subseteq Blocks /\ freeinode_ts \subseteq Inodes
          /\ free_open_file_entries \subseteq Handles
      BY DEF Init
    <2>6. open_files \in Nat /\ reply.ret \in Int
      BY DEF Init
    <2>7. crashed \in BOOLEAN
      BY Zenon DEF Init
    <2> QED BY <2>1, <2>2, <2>3, <2>4, <2>5, <2>6, <2>7 DEF TypeOK
  <1>3. BlockAccounting
    BY <1>1 DEF Init, BlockAccounting, Occupied, Taken, ROOT_DIR_INUM
  <1>4. DirectoryExact
    BY DEF Init, DirectoryExact, Taken
  <1>5. HandlesExact
    BY FS_EmptySet DEF Init, HandlesExact, Issued
  <1> QED BY <1>2, <1>3, <1>4, <1>5 DEF IInv

(* An operation that leaves the i-nodes and the directory alone and the    *)
(* table well formed and counted keeps the invariant.                      *)
LEMMA DiskUnchanged ==
  ASSUME IInv, UNCHANGED disk, TableType', HandlesCounted', crashed' \in BOOLEAN,
         \A fh \in Issued' : /\ fh \in Issued
                             /\ open_file_table'[fh].of_inumber = open_file_table[fh].of_inumber
  PROVE  IInv'
  <1>1. TypeOK'
    BY DEF IInv, TypeOK, TableType, disk
  <1>2. BlockAccounting' /\ DirectoryExact' /\ Taken' = Taken
    BY DEF IInv, BlockAccounting, DirectoryExact, Occupied, Taken, disk
  <1>3. HandlesExact'
    BY <1>2 DEF IInv, HandlesExact, HandlesCounted
  <1> QED BY <1>1, <1>2, <1>3 DEF IInv

(* tfs_open of a file that exists, truncated or not.                       *)
LEMMA OpenExistingInv ==
  ASSUME IInv, NEW path, NEW flags, OpenExisting(path, flags)
  PROVE  IInv'
  <1> USE SizesAssumption
  <1>1. PICK inum \in Lookup(path) :
          LET inode == inode_table[inum]
              size == IF Truncated(inode, flags) THEN 0 ELSE inode.i_size
          IN  /\ free_blocks' = IF Truncated(inode, flags)
                                THEN free_blocks \cup {inode.i_data_block} ELSE free_blocks
              /\ inode_table' = [inode_table EXCEPT ![inum].i_size = size]
              /\ AddToOpenFileTable(inum, IF "APPEND" \in flags THEN size ELSE 0)
              /\ UNCHANGED <<freeinode_ts, dir, fs_data, crashed>>
    BY DEF OpenExisting
  <1>2. inum \in Taken \ {ROOT_DIR_INUM} /\ inum \in Inodes
    BY LookupAllocated
  <1> DEFINE inode == inode_table[inum]
             size == IF Truncated(inode, flags) THEN 0 ELSE inode.i_size
  <1>3. inode \in Inode /\ size \in 0 .. BLOCK_SIZE
    BY <1>2 DEF IInv, TypeOK, Inode
  <1>4. /\ inode_table'[inum] = [inode EXCEPT !.i_size = size]
        /\ \A i \in Inodes \ {inum} : inode_table'[i] = inode_table[i]
        /\ inode_table' \in [Inodes -> Inode]
    BY <1>1, <1>2, <1>3 DEF IInv, TypeOK, Inode
  <1>5. /\ TableType' /\ HandlesCounted'
        /\ \A fh \in Issued' : \/ fh \in Issued /\ open_file_table'[fh] = open_file_table[fh]
                               \/ open_file_table'[fh].of_inumber = inum
    <2>1. (IF "APPEND" \in flags THEN size ELSE 0) \in 0 .. BLOCK_SIZE
      BY <1>3
    <2> HIDE DEF size
    <2>2. AddToOpenFileTable(inum, IF "APPEND" \in flags THEN size ELSE 0)
      BY <1>1 DEF size
    <2> QED BY <1>2, <2>1, <2>2, TableAdded
  <1>6. Taken' = Taken
    BY <1>1 DEF Taken
  <1>7. HandlesExact'
    BY <1>2, <1>5, <1>6 DEF HandlesCounted, HandlesExact, IInv
  <1>8. DirectoryExact'
    BY <1>1, <1>2, <1>3, <1>4, <1>6 DEF DirectoryExact, IInv, Taken, Inode
  <1>9. CASE Truncated(inode, flags)
    <2>1. inum \in Occupied /\ inode.i_data_block \in Blocks \ free_blocks
      BY <1>2, <1>9 DEF Truncated, IInv, BlockAccounting, Occupied
    <2>2. Occupied' = Occupied \ {inum} /\ free_blocks' = free_blocks \cup {inode.i_data_block}
      BY <1>1, <1>2, <1>3, <1>4, <1>6, <1>9 DEF Occupied, Taken, Inode
    <2>3. \A i \in Occupied' : inode_table'[i] = inode_table[i]
      BY <1>4, <2>2 DEF Occupied, Taken
    <2>4. BlockAccounting'
      BY <1>2, <2>1, <2>2, <2>3 DEF BlockAccounting, IInv
    <2>5. TypeOK'
      BY <1>1, <1>4, <1>5, <2>1 DEF TypeOK, TableType, IInv
    <2> QED BY <1>7, <1>8, <2>4, <2>5 DEF IInv
  <1>10. CASE ~Truncated(inode, flags)
    <2>1. inode_table' = inode_table /\ free_blocks' = free_blocks
      BY <1>1, <1>2, <1>10 DEF IInv, TypeOK, Inode
    <2>2. BlockAccounting'
      BY <1>6, <2>1 DEF BlockAccounting, Occupied, IInv
    <2>3. TypeOK'
      BY <1>1, <1>4, <1>5, <2>1 DEF TypeOK, TableType, IInv
    <2> QED BY <1>7, <1>8, <2>2, <2>3 DEF IInv
  <1> QED BY <1>9, <1>10

(* tfs_open that creates its file.                                         *)
LEMMA OpenCreateInv ==
  ASSUME IInv, NEW path \in Paths, NEW flags, OpenCreate(path, flags)
  PROVE  IInv'
  <1> USE SizesAssumption
  <1>1. PICK inum \in Inodes, k \in DirSlots :
          /\ IsFirst(inum, freeinode_ts)
          /\ IsFirst(k, EmptySlots)
          /\ freeinode_ts' = freeinode_ts \ {inum}
          /\ inode_table' = [inode_table EXCEPT ![inum] = NewFile]
          /\ dir' = [dir EXCEPT ![k] = [d_inumber |-> inum, d_name |-> Stored[path.sub]]]
          /\ AddToOpenFileTable(inum, 0)
    BY DEF OpenCreate
  <1>2. /\ UNCHANGED <<fs_data, free_blocks, crashed>>
        /\ path.sub \in Names
    BY NamesAssumption DEF OpenCreate
  <1>3. inum \in freeinode_ts /\ inum # ROOT_DIR_INUM /\ dir[k].d_inumber = -1 /\ inum # -1
    BY <1>1 DEF IsFirst, EmptySlots, IInv, BlockAccounting, Occupied, Taken, Inodes
  <1>4. inode_table' \in [Inodes -> Inode]
    BY <1>1 DEF IInv, TypeOK, Inode, NewFile
  <1>5. Stored[path.sub] \in Names
    BY <1>2, NamesAssumption
  <1>6. dir' \in [DirSlots -> DirEntry]
    BY <1>1, <1>5 DEF IInv, TypeOK, DirEntry
  <1>7. /\ TableType' /\ HandlesCounted'
        /\ \A fh \in Issued' : \/ fh \in Issued /\ open_file_table'[fh] = open_file_table[fh]
                               \/ open_file_table'[fh].of_inumber = inum
    <2>1. 0 \in 0 .. BLOCK_SIZE
      OBVIOUS
    <2> QED BY <1>1, <1>3, <2>1, TableAdded
  <1>8. TypeOK'
    BY <1>1, <1>2, <1>4, <1>6, <1>7 DEF IInv, TypeOK, TableType
  <1>9. /\ Taken' = Taken \cup {inum} /\ inum \notin Taken
        /\ \A i \in Inodes \ {inum} : inode_table'[i] = inode_table[i]
        /\ inode_table'[inum] = NewFile
    BY <1>1, <1>3 DEF Taken, IInv, TypeOK
  <1>10. BlockAccounting'
    <2>1. Occupied' = Occupied /\ inum \notin Occupied
      BY <1>9 DEF Occupied, Taken, NewFile
    <2>2. \A i \in Occupied : inode_table'[i] = inode_table[i]
      BY <1>9, <2>1 DEF Occupied, Taken
    <2> QED BY <1>2, <2>1, <2>2 DEF IInv, BlockAccounting
  <1>11. DirectoryExact'
    <2>1. /\ dir'[k].d_inumber = inum
          /\ \A l \in DirSlots \ {k} : dir'[l] = dir[l]
      BY <1>1 DEF IInv, TypeOK
    <2>2. \A l \in DirSlots : dir[l].d_inumber # -1 => dir[l].d_inumber \in Taken \ {ROOT_DIR_INUM}
                                                      /\ dir[l].d_inumber \in Inodes
      BY DEF IInv, DirectoryExact, Taken
    <2>3. \A l \in DirSlots : dir'[l].d_inumber # -1 =>
            /\ dir'[l].d_inumber \in Taken' \ {ROOT_DIR_INUM}
            /\ inode_table'[dir'[l].d_inumber].i_node_type = "T_FILE"
      BY <1>3, <1>9, <2>1, <2>2 DEF IInv, DirectoryExact, NewFile
    <2>4. \A l, m \in DirSlots :
            dir'[l].d_inumber = dir'[m].d_inumber /\ dir'[l].d_inumber # -1 => l = m
      BY <1>9, <2>1, <2>2 DEF IInv, DirectoryExact
    <2>5. \A i \in Taken' \ {ROOT_DIR_INUM} : \E l \in DirSlots : dir'[l].d_inumber = i
      <3> SUFFICES ASSUME NEW i \in Taken' \ {ROOT_DIR_INUM}
                   PROVE  \E l \in DirSlots : dir'[l].d_inumber = i
        OBVIOUS
      <3>1. CASE i = inum
        BY <2>1, <3>1
      <3>2. CASE i # inum
        <4>1. PICK l \in DirSlots : dir[l].d_inumber = i
          BY <1>9, <3>2 DEF IInv, DirectoryExact
        <4>2. l # k
          BY <1>3, <4>1 DEF Taken, Inodes
        <4> QED BY <2>1, <4>1, <4>2
      <3> QED BY <3>1, <3>2
    <2> QED BY <2>3, <2>4, <2>5 DEF DirectoryExact
  <1>12. HandlesExact'
    BY <1>7, <1>9 DEF HandlesCounted, HandlesExact, IInv
  <1> QED BY <1>8, <1>10, <1>11, <1>12 DEF IInv

(* tfs_open that created an i-node and had to delete it.                   *)
LEMMA OpenUndoneInv ==
  ASSUME IInv, NEW path, NEW flags, OpenUndone(path, flags)
  PROVE  IInv'
  <1>1. PICK inum \in Inodes :
          /\ IsFirst(inum, freeinode_ts)
          /\ freeinode_ts' = InodeDelete(freeinode_ts \ {inum}, inum)
          /\ inode_table' = [inode_table EXCEPT ![inum] = NewFile]
    BY DEF OpenUndone
  <1>2. inum \in freeinode_ts /\ freeinode_ts' = freeinode_ts /\ Taken' = Taken
    BY <1>1 DEF IsFirst, InodeDelete, Taken
  <1>3. UNCHANGED <<dir, fs_data, free_blocks, table, crashed>> /\ reply'.ret \in Int
    BY DEF OpenUndone, Returns
  <1>4. inode_table' \in [Inodes -> Inode]
    BY <1>1, SizesAssumption DEF IInv, TypeOK, Inode, NewFile
  <1>5. TypeOK'
    BY <1>2, <1>3, <1>4 DEF IInv, TypeOK, table
  <1>6. \A i \in Taken : inode_table'[i] = inode_table[i]
    BY <1>1, <1>2 DEF IInv, TypeOK, Taken
  <1>7. BlockAccounting'
    <2>1. Occupied' = Occupied /\ \A i \in Occupied : inode_table'[i] = inode_table[i]
      BY <1>2, <1>6 DEF Occupied
    <2> QED BY <1>3, <2>1 DEF IInv, BlockAccounting
  <1>8. DirectoryExact'
    BY <1>2, <1>3, <1>6 DEF IInv, DirectoryExact
  <1>9. HandlesExact'
    BY <1>2, <1>3 DEF IInv, HandlesExact, Issued, table
  <1> QED BY <1>5, <1>7, <1>8, <1>9 DEF IInv

(* tfs_open that found nothing and made nothing.                           *)
LEMMA OpenRefusedInv ==
  ASSUME IInv, NEW path, NEW flags, OpenRefused(path, flags)
  PROVE  IInv'
  <1>1. UNCHANGED <<disk, table, crashed>> /\ reply'.ret \in Int
    BY DEF OpenRefused, Returns
  <1>2. TableType' /\ HandlesCounted' /\ Issued' = Issued
    BY <1>1 DEF IInv, TypeOK, HandlesExact, TableType, HandlesCounted, table, Issued
  <1>3. crashed' \in BOOLEAN
    BY <1>1, Zenon DEF IInv, TypeOK
  <1>4. UNCHANGED disk /\ UNCHANGED open_file_table
    BY <1>1 DEF table
  <1> QED BY <1>2, <1>3, <1>4, DiskUnchanged

(* tfs_close: of an open handle, and of any other.                         *)
LEMMA CloseInv ==
  ASSUME IInv, NEW fh, TfsClose(fh)
  PROVE  IInv'
  <1>1. UNCHANGED disk /\ UNCHANGED open_file_table /\ crashed' = crashed /\ reply'.ret \in Int
    BY DEF TfsClose, Returns
  <1>2. Issued' = Issued
    BY <1>1 DEF Issued
  <1>3. crashed' \in BOOLEAN
    BY <1>1, Zenon DEF IInv, TypeOK
  <1>4. CASE fh \in Handles \ free_open_file_entries
    <2>1. /\ free_open_file_entries' = free_open_file_entries \cup {fh}
          /\ open_files' = open_files - 1
      BY <1>4 DEF TfsClose
    <2>2. OpenHandles' = OpenHandles \ {fh} /\ fh \in OpenHandles
      BY <1>4, <2>1 DEF OpenHandles
    <2>3. /\ IsFiniteSet(OpenHandles')
          /\ Cardinality(OpenHandles') = Cardinality(OpenHandles) - 1
      BY <2>2, OpenFinite, FS_RemoveElement DEF IInv
    <2>4. open_files' = Cardinality(OpenHandles') /\ open_files' \in Nat
      BY <2>1, <2>3, FS_CardinalityType DEF IInv, HandlesExact, OpenHandles
    <2>5. TableType'
      BY <1>1, <1>4, <2>1, <2>4 DEF TableType, IInv, TypeOK
    <2>6. HandlesCounted'
      BY <1>2, <2>2, <2>4 DEF HandlesCounted, IInv, HandlesExact, OpenHandles
    <2> QED BY <1>1, <1>2, <1>3, <2>5, <2>6, DiskUnchanged
  <1>5. CASE fh \notin Handles \ free_open_file_entries
    <2>1. UNCHANGED <<free_open_file_entries, open_files>>
      BY <1>5 DEF TfsClose
    <2>2. TableType' /\ HandlesCounted'
      BY <1>1, <1>2, <2>1 DEF IInv, TypeOK, HandlesExact, TableType, HandlesCounted
    <2> QED BY <1>1, <1>2, <1>3, <2>2, DiskUnchanged
  <1> QED BY <1>4, <1>5

(* A write that starts within the block ends within it.                    *)
LEMMA ToWriteFits ==
  ASSUME NEW offset \in 0 .. BLOCK_SIZE, NEW len \in 0 .. MAX_LEN
  PROVE  ToWrite(offset, len) \in Nat /\ offset + ToWrite(offset, len) \in 0 .. BLOCK_SIZE
  BY SizesAssumption DEF ToWrite, SizeSub

(* A read asks for no more than the caller did, also when its length has   *)
(* wrapped.                                                                *)
LEMMA ToReadFits ==
  ASSUME NEW size \in 0 .. BLOCK_SIZE, NEW offset \in 0 .. MAX_OFFSET + BLOCK_SIZE,
         NEW len \in 0 .. MAX_LEN
  PROVE  ToRead(size, offset, len) \in 0 .. len
  BY SizesAssumption DEF ToRead, SizeSub

(* A handle in use leads to an i-node that is allocated and well formed.   *)
LEMMA IssuedTypes ==
  ASSUME IInv, NEW fh \in Issued
  PROVE  /\ fh \in Handles /\ open_file_table[fh] \in OpenFileEntry
         /\ open_file_table[fh].of_inumber \in Taken \ {ROOT_DIR_INUM}
         /\ open_file_table[fh].of_inumber \in Inodes
         /\ Node(fh) \in Inode /\ Offset(fh) \in 0 .. MAX_OFFSET + BLOCK_SIZE
  BY DEF IInv, TypeOK, HandlesExact, Issued, Taken, Node, Offset, OpenFileEntry

(* A handle's offset moves, nothing else of the table does.                *)
LEMMA OffsetMoved ==
  ASSUME IInv, NEW fh \in Issued, NEW end \in 0 .. MAX_OFFSET + BLOCK_SIZE,
         open_file_table' = [open_file_table EXCEPT ![fh].of_offset = end],
         UNCHANGED <<free_open_file_entries, open_files>>, reply'.ret \in Int
  PROVE  /\ TableType' /\ HandlesCounted' /\ Issued' = Issued
         /\ \A h \in Handles : open_file_table'[h].of_inumber = open_file_table[h].of_inumber
  <1>1. /\ open_file_table' \in [Handles -> OpenFileEntry]
        /\ \A h \in Handles : open_file_table'[h].of_inumber = open_file_table[h].of_inumber
    BY IssuedTypes DEF IInv, TypeOK, OpenFileEntry
  <1>2. Issued' = Issued
    BY <1>1 DEF Issued
  <1> QED BY <1>1, <1>2 DEF TableType, HandlesCounted, IInv, TypeOK, HandlesExact

(* tfs_write to an empty file with no block left.                          *)
LEMMA WriteNoBlockInv ==
  ASSUME IInv, NEW fh \in Issued, NEW len \in 0 .. MAX_LEN, WriteNoBlock(fh, len)
  PROVE  IInv'
  <1> DEFINE inum == open_file_table[fh].of_inumber
  <1>1. inum \in Taken \ {ROOT_DIR_INUM} /\ inum \in Inodes /\ inode_table[inum] \in Inode
    BY IssuedTypes DEF Node
  <1>2. /\ inode_table[inum].i_size = 0
        /\ inode_table' = [inode_table EXCEPT ![inum].i_data_block = -1]
        /\ UNCHANGED <<freeinode_ts, dir, fs_data, free_blocks, table, crashed>>
        /\ reply'.ret \in Int
    BY DEF WriteNoBlock, Node, Returns
  <1>3. /\ inode_table' \in [Inodes -> Inode]
        /\ inode_table'[inum] = [inode_table[inum] EXCEPT !.i_data_block = -1]
        /\ \A i \in Inodes \ {inum} : inode_table'[i] = inode_table[i]
    BY <1>1, <1>2 DEF IInv, TypeOK, Inode
  <1>4. TypeOK'
    BY <1>2, <1>3 DEF IInv, TypeOK, table
  <1>5. Taken' = Taken
    BY <1>2 DEF Taken
  <1>6. BlockAccounting'
    <2>1. Occupied' = Occupied /\ \A i \in Occupied : inode_table'[i] = inode_table[i]
      BY <1>1, <1>2, <1>3, <1>5 DEF Occupied, Taken, Inode
    <2>2. free_blocks' = free_blocks
      BY <1>2
    <2> QED BY <2>1, <2>2 DEF IInv, BlockAccounting
  <1>7. DirectoryExact'
    BY <1>1, <1>2, <1>3, <1>5 DEF IInv, DirectoryExact, Inode, Taken
  <1>8. HandlesExact'
    BY <1>2, <1>5 DEF IInv, HandlesExact, Issued, table
  <1> QED BY <1>4, <1>6, <1>7, <1>8 DEF IInv

(* tfs_write that copies: with a block of its own or a new one.            *)
LEMMA WriteBytesInv ==
  ASSUME IInv, NEW fh \in Issued, NEW byte \in Bytes, NEW len \in 0 .. MAX_LEN,
         WriteBytes(fh, byte, len)
  PROVE  IInv'
  <1> USE SizesAssumption
  <1> DEFINE inum == open_file_table[fh].of_inumber
             offset == Offset(fh)
             to_write == ToWrite(offset, len)
             end == offset + to_write
             inode == inode_table[inum]
  <1>1. inum \in Taken \ {ROOT_DIR_INUM} /\ inum \in Inodes /\ inode \in Inode
    BY IssuedTypes DEF Node
  <1>2. offset \in 0 .. BLOCK_SIZE /\ to_write > 0
    BY IssuedTypes DEF WriteBytes
  <1>3. end \in 0 .. BLOCK_SIZE /\ end > 0
    <2>1. to_write \in Nat /\ end \in 0 .. BLOCK_SIZE
      BY <1>2, ToWriteFits
    <2> HIDE DEF to_write, offset
    <2> QED BY <1>2, <2>1
  <1>4. PICK b \in Blocks :
          /\ IF inode.i_size = 0 THEN DataBlockAlloc(b) ELSE b = inode.i_data_block
          /\ free_blocks' = free_blocks \ {b}
          /\ fs_data' = [fs_data EXCEPT ![b] =
               [k \in InBlock |-> IF offset <= k /\ k < end THEN byte ELSE @[k]]]
          /\ inode_table' = [inode_table EXCEPT
               ![inum].i_data_block = b,
               ![inum].i_size = IF end > @ THEN end ELSE @]
    BY DEF WriteBytes, Node
  <1>5. /\ open_file_table' = [open_file_table EXCEPT ![fh].of_offset = end]
        /\ UNCHANGED <<freeinode_ts, dir, free_open_file_entries, open_files, crashed>>
        /\ reply'.ret \in Int
    <2>1. to_write \in Int
      BY <1>2, ToWriteFits
    <2> QED BY <2>1 DEF WriteBytes
  <1> HIDE DEF to_write, end, offset
  <1>6. /\ inode_table' \in [Inodes -> Inode]
        /\ inode_table'[inum].i_data_block = b /\ inode_table'[inum].i_size > 0
        /\ inode_table'[inum].i_node_type = inode.i_node_type
        /\ \A i \in Inodes \ {inum} : inode_table'[i] = inode_table[i]
    <2> DEFINE size == IF end > inode.i_size THEN end ELSE inode.i_size
    <2>1. size \in 0 .. BLOCK_SIZE /\ size > 0
      BY <1>1, <1>3 DEF Inode
    <2>2. inode_table \in [Inodes -> Inode]
      BY DEF IInv, TypeOK
    <2>3. inode_table' = [inode_table EXCEPT
            ![inum] = [inode EXCEPT !.i_data_block = b, !.i_size = size]]
      BY <1>1, <1>4, <2>2 DEF Inode
    <2> HIDE DEF size
    <2>4. [inode EXCEPT !.i_data_block = b, !.i_size = size] \in Inode
      BY <1>1, <2>1 DEF Inode
    <2> QED BY <1>1, <2>1, <2>2, <2>3, <2>4 DEF Inode
  <1>7. /\ TableType' /\ HandlesCounted' /\ Issued' = Issued
        /\ \A h \in Handles : open_file_table'[h].of_inumber = open_file_table[h].of_inumber
    <2>1. end \in 0 .. MAX_OFFSET + BLOCK_SIZE
      BY <1>3
    <2> QED BY <1>5, <2>1, OffsetMoved
  <1>8. Taken' = Taken
    BY <1>5 DEF Taken
  <1>9. Occupied' = Occupied \cup {inum}
    BY <1>1, <1>6, <1>8 DEF Occupied, Taken
  <1>10. TypeOK'
    <2>1. fs_data' \in [Blocks -> [InBlock -> ByteValues]]
      BY <1>4 DEF IInv, TypeOK, ByteValues
    <2>2. crashed' \in BOOLEAN
      BY <1>5, Zenon DEF IInv, TypeOK
    <2> QED BY <1>4, <1>5, <1>6, <1>7, <2>1, <2>2 DEF IInv, TypeOK, TableType
  <1>11. BlockAccounting'
    <2>1. CASE inode.i_size = 0
      <3>1. b \in free_blocks /\ inum \notin Occupied
        BY <1>4, <2>1 DEF DataBlockAlloc, IsFirst, Occupied
      <3>2. \A i \in Occupied : inode_table'[i] = inode_table[i]
        BY <1>6, <3>1 DEF Occupied, Taken
      <3>3. free_blocks' = free_blocks \ {b} /\ inode_table'[inum].i_data_block = b
        BY <1>4, <1>6
      <3> QED BY <1>9, <3>1, <3>2, <3>3 DEF IInv, BlockAccounting
    <2>2. CASE inode.i_size # 0
      <3>1. inum \in Occupied /\ b = inode.i_data_block
        BY <1>1, <1>4, <2>2 DEF Occupied, Inode
      <3>2. free_blocks' = free_blocks /\ Occupied' = Occupied
        BY <1>4, <1>9, <3>1 DEF IInv, BlockAccounting
      <3>3. \A i \in Occupied : inode_table'[i].i_data_block = inode_table[i].i_data_block
        BY <1>6, <3>1 DEF Occupied, Taken
      <3> QED BY <3>2, <3>3 DEF IInv, BlockAccounting
    <2> QED BY <2>1, <2>2
  <1>12. DirectoryExact'
    BY <1>5, <1>6, <1>8 DEF IInv, DirectoryExact, Taken
  <1>13. HandlesExact'
    BY <1>7, <1>8 DEF IInv, HandlesExact, HandlesCounted, Issued
  <1> QED BY <1>10, <1>11, <1>12, <1>13 DEF IInv

(* tfs_read that copies.                                                   *)
LEMMA ReadBytesInv ==
  ASSUME IInv, NEW fh \in Issued, NEW len \in 0 .. MAX_LEN,
         Offset(fh) + len <= MAX_OFFSET, ReadBytes(fh, len)
  PROVE  IInv'
  <1> DEFINE to_read == ToRead(Node(fh).i_size, Offset(fh), len)
  <1>1. to_read \in 0 .. len
    BY IssuedTypes, ToReadFits DEF Inode
  <1>2. Offset(fh) + to_read \in 0 .. MAX_OFFSET + BLOCK_SIZE
    <2> HIDE DEF to_read
    <2> QED BY <1>1, IssuedTypes, SizesAssumption
  <1>3. /\ open_file_table' = [open_file_table EXCEPT ![fh].of_offset = Offset(fh) + to_read]
        /\ UNCHANGED disk /\ UNCHANGED <<free_open_file_entries, open_files>>
        /\ crashed' = crashed /\ reply'.ret \in Int
    BY <1>1 DEF ReadBytes
  <1>4. /\ TableType' /\ HandlesCounted' /\ Issued' = Issued
        /\ \A h \in Handles : open_file_table'[h].of_inumber = open_file_table[h].of_inumber
    BY <1>2, <1>3, OffsetMoved
  <1>5. crashed' \in BOOLEAN
    BY <1>3, Zenon DEF IInv, TypeOK
  <1> QED BY <1>3, <1>4, <1>5, DiskUnchanged DEF Issued

(* The three operations that refuse, or end, without touching the tables.  *)
LEMMA NothingChangedInv ==
  ASSUME IInv, UNCHANGED <<disk, table>>, reply'.ret \in Int, crashed' \in BOOLEAN
  PROVE  IInv'
  <1>1. UNCHANGED disk /\ UNCHANGED open_file_table
    BY DEF table
  <1>2. TableType' /\ HandlesCounted' /\ Issued' = Issued
    BY DEF IInv, TypeOK, HandlesExact, TableType, HandlesCounted, table, Issued
  <1> QED BY <1>1, <1>2, DiskUnchanged

(* Every operation keeps the invariant.                                    *)
THEOREM StepInv == IInv /\ [Next]_vars => IInv'
  <1> SUFFICES ASSUME IInv, [Next]_vars PROVE IInv'
    OBVIOUS
  <1>1. ASSUME NEW path \in Paths, NEW flags, TfsOpen(path, flags) PROVE IInv'
    BY <1>1, OpenExistingInv, OpenCreateInv, OpenUndoneInv, OpenRefusedInv DEF TfsOpen
  <1>2. ASSUME NEW fh, TfsClose(fh) PROVE IInv'
    BY <1>2, CloseInv
  <1>3. ASSUME NEW fh \in Issued, NEW byte \in Bytes, NEW len \in 0 .. MAX_LEN,
               TfsWrite(fh, byte, len)
        PROVE  IInv'
    <2>1. CASE WriteNothing(fh, len)
      <3>1. UNCHANGED <<disk, table>> /\ reply'.ret \in Int /\ crashed' = crashed
        BY <2>1 DEF WriteNothing, Returns
      <3>2. crashed' \in BOOLEAN
        BY <3>1, Zenon DEF IInv, TypeOK
      <3> QED BY <3>1, <3>2, NothingChangedInv
    <2>2. CASE WriteOverrun(fh, len)
      <3>1. UNCHANGED <<disk, table>> /\ reply'.ret \in Int
        BY <2>2 DEF WriteOverrun, IInv, TypeOK
      <3>2. crashed' \in BOOLEAN
        BY <2>2, Zenon DEF WriteOverrun
      <3> QED BY <3>1, <3>2, NothingChangedInv
    <2> QED BY <1>3, <2>1, <2>2, WriteNoBlockInv, WriteBytesInv DEF TfsWrite
  <1>4. ASSUME NEW fh \in Issued, NEW len \in 0 .. MAX_LEN, Offset(fh) + len <= MAX_OFFSET,
               TfsRead(fh, len)
        PROVE  IInv'
    <2>1. CASE ReadNothing(fh, len)
      <3>1. UNCHANGED <<disk, table>> /\ reply'.ret \in Int /\ crashed' = crashed
        BY <2>1 DEF ReadNothing, Returns
      <3>2. crashed' \in BOOLEAN
        BY <3>1, Zenon DEF IInv, TypeOK
      <3> QED BY <3>1, <3>2, NothingChangedInv
    <2> QED BY <1>4, <2>1, ReadBytesInv DEF TfsRead
  <1>5. CASE UNCHANGED vars
    <2>1. UNCHANGED <<disk, table>> /\ reply' = reply /\ crashed' = crashed
      BY <1>5 DEF vars
    <2>2. reply'.ret \in Int
      BY <2>1 DEF IInv, TypeOK
    <2>3. crashed' \in BOOLEAN
      BY <2>1, Zenon DEF IInv, TypeOK
    <2> QED BY <2>1, <2>2, <2>3, NothingChangedInv
  <1> QED BY <1>1, <1>2, <1>3, <1>4, <1>5 DEF Next

(* The tables stay well formed.                                            *)
THEOREM TypeCorrect == Spec => []TypeOK
  <1>1. IInv => TypeOK
    BY DEF IInv
  <1> QED BY <1>1, InitInv, StepInv, PTL DEF Spec

(* Whatever the calls and their order, each block in use belongs to        *)
(* exactly one file (data_block_alloc, data_block_free, and the updates of *)
(* i_size and i_data_block in operations.c).                               *)
THEOREM BlocksAccounted == Spec => []BlockAccounting
  <1>1. IInv => BlockAccounting
    BY DEF IInv
  <1> QED BY <1>1, InitInv, StepInv, PTL DEF Spec

(* The directory and the i-node table agree (tfs_open's create path).      *)
THEOREM DirectoryAgrees == Spec => []DirectoryExact
  <1>1. IInv => DirectoryExact
    BY DEF IInv
  <1> QED BY <1>1, InitInv, StepInv, PTL DEF Spec

(* Handles lead to allocated files and open_files is the number of open    *)
(* handles (tfs_open, tfs_close).                                          *)
THEOREM HandlesCorrect == Spec => []HandlesExact
  <1>1. IInv => HandlesExact
    BY DEF IInv
  <1> QED BY <1>1, InitInv, StepInv, PTL DEF Spec

----------------------------------------------------------------------------
(* What the operations do to the contents of files *)

(* A byte of a file is the byte of its block.                              *)
LEMMA ContentsAt ==
  ASSUME NEW i, NEW k
  PROVE  /\ k \in 0 .. inode_table[i].i_size - 1 =>
              Contents(i)[k] = fs_data[inode_table[i].i_data_block][k]
         /\ k \in 0 .. inode_table'[i].i_size - 1 =>
              Contents(i)'[k] = fs_data'[inode_table'[i].i_data_block][k]
  BY DEF Contents

(* A file whose size stays, and whose block if it has contents stays with  *)
(* the bytes in it, has the contents it had.                               *)
LEMMA ContentsKept ==
  ASSUME IInv, NEW i \in Inodes, inode_table'[i].i_size = inode_table[i].i_size,
         inode_table[i].i_size > 0 =>
           /\ inode_table'[i].i_data_block = inode_table[i].i_data_block
           /\ fs_data'[inode_table[i].i_data_block] = fs_data[inode_table[i].i_data_block]
  PROVE  Contents(i)' = Contents(i)
  <1>1. inode_table[i].i_size \in Nat
    BY SizesAssumption DEF IInv, TypeOK, Inode
  <1>2. CASE inode_table[i].i_size = 0
    BY <1>2 DEF Contents
  <1>3. CASE inode_table[i].i_size > 0
    BY <1>3 DEF Contents
  <1> QED BY <1>1, <1>2, <1>3

(* tfs_open of a file that exists keeps the i-nodes of all others and      *)
(* either all of its own or, truncating, the file is empty.                *)
LEMMA OpenExistingEffect ==
  ASSUME IInv, NEW path, NEW flags, OpenExisting(path, flags)
  PROVE  \E inum \in Lookup(path) :
           LET size == IF "TRUNC" \in flags THEN 0 ELSE inode_table[inum].i_size
           IN  /\ inum \in Taken \ {ROOT_DIR_INUM} /\ inum \in Inodes
               /\ inode_table' = [inode_table EXCEPT ![inum].i_size = size]
               /\ inode_table'[inum].i_size = size
               /\ inode_table'[inum].i_data_block = inode_table[inum].i_data_block
               /\ \A i \in Inodes \ {inum} : inode_table'[i] = inode_table[i]
               /\ AddToOpenFileTable(inum, IF "APPEND" \in flags THEN size ELSE 0)
               /\ UNCHANGED <<freeinode_ts, dir, fs_data, crashed>>
  <1>1. PICK inum \in Lookup(path) :
          LET inode == inode_table[inum]
              size == IF Truncated(inode, flags) THEN 0 ELSE inode.i_size
          IN  /\ inode_table' = [inode_table EXCEPT ![inum].i_size = size]
              /\ AddToOpenFileTable(inum, IF "APPEND" \in flags THEN size ELSE 0)
              /\ UNCHANGED <<freeinode_ts, dir, fs_data, crashed>>
    BY DEF OpenExisting
  <1>2. inum \in Taken \ {ROOT_DIR_INUM} /\ inum \in Inodes
    BY LookupAllocated
  <1> DEFINE size == IF "TRUNC" \in flags THEN 0 ELSE inode_table[inum].i_size
  <1>3. inode_table[inum] \in Inode /\ inode_table[inum].i_size \in Nat
    BY <1>2, SizesAssumption DEF IInv, TypeOK, Inode
  <1>4. size = IF Truncated(inode_table[inum], flags) THEN 0 ELSE inode_table[inum].i_size
    BY <1>3 DEF Truncated
  <1>5. /\ inode_table' = [inode_table EXCEPT ![inum].i_size = size]
        /\ AddToOpenFileTable(inum, IF "APPEND" \in flags THEN size ELSE 0)
        /\ UNCHANGED <<freeinode_ts, dir, fs_data, crashed>>
    <2> HIDE DEF size
    <2> QED BY <1>1, <1>4
  <1> HIDE DEF size
  <1>6. /\ inode_table'[inum].i_size = size
        /\ inode_table'[inum].i_data_block = inode_table[inum].i_data_block
        /\ \A i \in Inodes \ {inum} : inode_table'[i] = inode_table[i]
    BY <1>2, <1>3, <1>5 DEF IInv, TypeOK, Inode
  <1> QED BY <1>2, <1>5, <1>6 DEF size

(* What a tfs_write that copies does: the handle's offset moves to end, the *)
(* block b gets the bytes between, and no other file has that block.       *)
BytesWritten(fh, byte, len, b, end) ==
  LET inum == open_file_table[fh].of_inumber
      inode == inode_table[inum]
  IN  /\ Offset(fh) \in 0 .. end - 1
      /\ end = Offset(fh) + ToWrite(Offset(fh), len)
      /\ inode_table'[inum].i_data_block = b
      /\ inode_table'[inum].i_size = IF end > inode.i_size THEN end ELSE inode.i_size
      /\ \A i \in Inodes \ {inum} : inode_table'[i] = inode_table[i]
      /\ inode.i_size > 0 => b = inode.i_data_block
      /\ \A i \in Occupied \ {inum} : inode_table[i].i_data_block # b
      /\ fs_data'[b] = [k \in InBlock |->
           IF Offset(fh) <= k /\ k < end THEN byte ELSE fs_data[b][k]]
      /\ \A c \in Blocks \ {b} : fs_data'[c] = fs_data[c]
      /\ open_file_table' = [open_file_table EXCEPT ![fh].of_offset = end]

(* Every tfs_write that copies does so.                                    *)
LEMMA WriteBytesEffect ==
  ASSUME IInv, NEW fh \in Issued, NEW byte \in Bytes, NEW len \in 0 .. MAX_LEN,
         WriteBytes(fh, byte, len)
  PROVE  \E b \in Blocks, end \in 1 .. BLOCK_SIZE : BytesWritten(fh, byte, len, b, end)
  <1> USE SizesAssumption
  <1> DEFINE inum == open_file_table[fh].of_inumber
             offset == Offset(fh)
             to_write == ToWrite(offset, len)
             end == offset + to_write
             inode == inode_table[inum]
             size == IF end > inode.i_size THEN end ELSE inode.i_size
  <1>1. inum \in Taken \ {ROOT_DIR_INUM} /\ inum \in Inodes /\ inode \in Inode
    BY IssuedTypes DEF Node
  <1>2. offset \in 0 .. BLOCK_SIZE /\ to_write > 0
    BY IssuedTypes DEF WriteBytes
  <1>3. end \in 1 .. BLOCK_SIZE /\ offset \in 0 .. end - 1
    <2>1. to_write \in Nat /\ end \in 0 .. BLOCK_SIZE
      BY <1>2, ToWriteFits
    <2> HIDE DEF to_write, offset
    <2> QED BY <1>2, <2>1
  <1>4. PICK b \in Blocks :
          /\ IF inode.i_size = 0 THEN DataBlockAlloc(b) ELSE b = inode.i_data_block
          /\ fs_data' = [fs_data EXCEPT ![b] =
               [k \in InBlock |-> IF offset <= k /\ k < end THEN byte ELSE @[k]]]
          /\ inode_table' = [inode_table EXCEPT
               ![inum].i_data_block = b,
               ![inum].i_size = IF end > @ THEN end ELSE @]
    BY DEF WriteBytes, Node
  <1>5. open_file_table' = [open_file_table EXCEPT ![fh].of_offset = end]
    BY DEF WriteBytes
  <1> HIDE DEF to_write, end, offset
  <1>6. /\ inode_table'[inum].i_data_block = b /\ inode_table'[inum].i_size = size
        /\ \A i \in Inodes \ {inum} : inode_table'[i] = inode_table[i]
    BY <1>1, <1>4 DEF IInv, TypeOK, Inode
  <1>7. /\ inode.i_size > 0 => b = inode.i_data_block
        /\ \A i \in Occupied \ {inum} : inode_table[i].i_data_block # b
    <2>1. CASE inode.i_size = 0
      BY <1>4, <2>1 DEF DataBlockAlloc, IsFirst, IInv, BlockAccounting
    <2>2. CASE inode.i_size > 0
      BY <1>1, <1>4, <2>2 DEF IInv, BlockAccounting, Occupied
    <2> QED BY <1>1, <2>1, <2>2 DEF Inode
  <1>8. /\ fs_data'[b] = [k \in InBlock |-> IF offset <= k /\ k < end THEN byte ELSE fs_data[b][k]]
        /\ \A c \in Blocks \ {b} : fs_data'[c] = fs_data[c]
    BY <1>4 DEF IInv, TypeOK
  <1> USE <1>3
  <1>9. WITNESS b \in Blocks, end \in 1 .. BLOCK_SIZE
  <1> QED BY <1>3, <1>5, <1>6, <1>7, <1>8 DEF BytesWritten, offset, end, to_write, size

(* tfs_write changes the file it writes between the handle's old and new   *)
(* offsets only, and no other file.                                        *)
LEMMA WriteBytesFramed ==
  ASSUME IInv, NEW fh \in Issued, NEW byte \in Bytes, NEW len \in 0 .. MAX_LEN,
         WriteBytes(fh, byte, len)
  PROVE  /\ Moved(fh)
         /\ \A i \in Taken :
              \/ Contents(i)' = Contents(i)
              \/ /\ open_file_table[fh].of_inumber = i
                 /\ \A k \in DOMAIN Contents(i) :
                      k < Offset(fh) \/ k >= open_file_table'[fh].of_offset =>
                        Contents(i)'[k] = Contents(i)[k]
  <1> USE SizesAssumption
  <1> DEFINE inum == open_file_table[fh].of_inumber
             inode == inode_table[inum]
             offset == Offset(fh)
  <1>1. PICK b \in Blocks, end \in 1 .. BLOCK_SIZE : BytesWritten(fh, byte, len, b, end)
    BY WriteBytesEffect
  <1>2. inum \in Taken \ {ROOT_DIR_INUM} /\ inum \in Inodes /\ inode \in Inode /\ fh \in Handles
    BY IssuedTypes DEF Node
  <1>3. \A i \in Taken \ {inum} : Contents(i)' = Contents(i)
    <2> SUFFICES ASSUME NEW i \in Taken \ {inum} PROVE Contents(i)' = Contents(i)
      OBVIOUS
    <2>1. i \in Inodes /\ inode_table'[i] = inode_table[i]
      BY <1>1 DEF BytesWritten, Taken
    <2>2. ASSUME inode_table[i].i_size > 0
          PROVE  fs_data'[inode_table[i].i_data_block] = fs_data[inode_table[i].i_data_block]
      <3>1. i \in Occupied \ {inum}
        BY <2>2 DEF Occupied
      <3>2. inode_table[i].i_data_block \in Blocks \ {b}
        BY <1>1, <3>1 DEF BytesWritten, IInv, BlockAccounting
      <3> QED BY <1>1, <3>2 DEF BytesWritten
    <2> QED BY <2>1, <2>2, ContentsKept
  <1>4. /\ open_file_table'[fh].of_inumber = inum /\ open_file_table'[fh].of_offset = end
    BY <1>1, <1>2 DEF BytesWritten, IInv, TypeOK, OpenFileEntry
  <1>5. Moved(fh)
    BY <1>1, <1>4 DEF BytesWritten, Moved
  <1>6. ASSUME NEW i \in Taken, i = inum,
               NEW k \in DOMAIN Contents(i), k < offset \/ k >= end
        PROVE  Contents(i)'[k] = Contents(i)[k]
    <2>1. inode.i_size \in 0 .. BLOCK_SIZE
      BY <1>2 DEF Inode
    <2>2. k \in 0 .. inode.i_size - 1
      BY <1>6 DEF Contents
    <2>3. /\ inode_table'[inum].i_size = IF end > inode.i_size THEN end ELSE inode.i_size
          /\ inode_table'[inum].i_data_block = b
          /\ inode.i_size > 0 => b = inode.i_data_block
      BY <1>1 DEF BytesWritten
    <2>4. k \in InBlock /\ inode.i_size > 0 /\ k \in 0 .. inode_table'[inum].i_size - 1
      <3> DEFINE size == inode.i_size
      <3> HIDE DEF inode
      <3> QED BY <2>1, <2>2, <2>3 DEF InBlock
    <2>5. Contents(i)[k] = fs_data[b][k] /\ Contents(i)'[k] = fs_data'[b][k]
      BY <1>6, <2>2, <2>3, <2>4, ContentsAt
    <2>6. fs_data'[b][k] = fs_data[b][k]
      BY <1>1, <1>6, <2>4 DEF BytesWritten, InBlock
    <2> QED BY <2>5, <2>6
  <1> QED BY <1>3, <1>4, <1>5, <1>6

(* Nothing but tfs_write, and tfs_open by truncating, touches the contents *)
(* of a file: a block given to one file was no other's.                    *)
LEMMA ContentsStep ==
  ASSUME IInv, Next, NEW i \in Taken \ {ROOT_DIR_INUM}
  PROVE  \/ Contents(i)' = Contents(i)
         \/ inode_table'[i].i_size = 0
         \/ \E fh \in Handles :
              /\ Moved(fh) /\ open_file_table[fh].of_inumber = i
              /\ \A k \in DOMAIN Contents(i) :
                   k < Offset(fh) \/ k >= open_file_table'[fh].of_offset =>
                     Contents(i)'[k] = Contents(i)[k]
  <1> DEFINE Goal == \/ Contents(i)' = Contents(i)
                     \/ inode_table'[i].i_size = 0
                     \/ \E fh \in Handles :
                          /\ Moved(fh) /\ open_file_table[fh].of_inumber = i
                          /\ \A k \in DOMAIN Contents(i) :
                               k < Offset(fh) \/ k >= open_file_table'[fh].of_offset =>
                                 Contents(i)'[k] = Contents(i)[k]
  <1> SUFFICES Goal
    OBVIOUS
  <1>0. i \in Inodes /\ i \in Taken /\ i \notin freeinode_ts
    BY DEF Taken
  <1>1. ASSUME UNCHANGED disk PROVE Goal
    BY <1>1 DEF disk, Contents
  <1>2. ASSUME NEW path \in Paths, NEW flags, TfsOpen(path, flags) PROVE Goal
    <2>1. CASE OpenExisting(path, flags)
      <3>1. PICK inum \in Lookup(path) :
              /\ \/ inode_table'[inum].i_size = 0
                 \/ inode_table'[inum].i_size = inode_table[inum].i_size
              /\ inode_table'[inum].i_data_block = inode_table[inum].i_data_block
              /\ \A j \in Inodes \ {inum} : inode_table'[j] = inode_table[j]
              /\ fs_data' = fs_data
        BY <2>1, OpenExistingEffect
      <3> QED BY <1>0, <3>1, ContentsKept
    <2>2. CASE OpenCreate(path, flags)
      <3>1. PICK inum \in Inodes : inum \in freeinode_ts
                                   /\ inode_table' = [inode_table EXCEPT ![inum] = NewFile]
        BY <2>2 DEF OpenCreate, IsFirst
      <3>2. inode_table'[i] = inode_table[i] /\ fs_data' = fs_data
        BY <1>0, <2>2, <3>1 DEF OpenCreate, IInv, TypeOK
      <3> QED BY <1>0, <3>2, ContentsKept
    <2>3. CASE OpenUndone(path, flags)
      <3>1. PICK inum \in Inodes : inum \in freeinode_ts
                                   /\ inode_table' = [inode_table EXCEPT ![inum] = NewFile]
        BY <2>3 DEF OpenUndone, IsFirst
      <3>2. inode_table'[i] = inode_table[i] /\ fs_data' = fs_data
        BY <1>0, <2>3, <3>1 DEF OpenUndone, IInv, TypeOK
      <3> QED BY <1>0, <3>2, ContentsKept
    <2>4. CASE OpenRefused(path, flags)
      BY <1>1, <2>4 DEF OpenRefused
    <2> QED BY <1>2, <2>1, <2>2, <2>3, <2>4 DEF TfsOpen
  <1>3. ASSUME NEW fh, TfsClose(fh) PROVE Goal
    BY <1>1, <1>3 DEF TfsClose
  <1>4. ASSUME NEW fh \in Issued, NEW byte \in Bytes, NEW len \in 0 .. MAX_LEN,
               TfsWrite(fh, byte, len)
        PROVE  Goal
    <2>1. CASE WriteNoBlock(fh, len)
      <3> DEFINE inum == open_file_table[fh].of_inumber
      <3>1. inum \in Inodes /\ inode_table[inum].i_size = 0
            /\ inode_table' = [inode_table EXCEPT ![inum].i_data_block = -1]
            /\ fs_data' = fs_data
        BY <2>1, IssuedTypes DEF WriteNoBlock, Node
      <3>2. inode_table'[inum].i_size = 0
        BY <3>1 DEF IInv, TypeOK, Inode
      <3>3. CASE i = inum
        BY <1>0, <3>1, <3>2, <3>3, ContentsKept
      <3>4. CASE i # inum
        <4>1. inode_table'[i] = inode_table[i]
          BY <1>0, <3>1, <3>4 DEF IInv, TypeOK
        <4> QED BY <1>0, <3>1, <4>1, ContentsKept
      <3> QED BY <3>3, <3>4
    <2>2. CASE WriteBytes(fh, byte, len)
      BY <1>0, <2>2, WriteBytesFramed DEF Issued
    <2>3. CASE WriteNothing(fh, len) \/ WriteOverrun(fh, len)
      BY <1>1, <2>3 DEF WriteNothing, WriteOverrun
    <2> QED BY <1>4, <2>1, <2>2, <2>3 DEF TfsWrite
  <1>5. ASSUME NEW fh \in Issued, NEW len \in 0 .. MAX_LEN, TfsRead(fh, len) PROVE Goal
    BY <1>1, <1>5 DEF TfsRead, ReadBytes, ReadNothing
  <1> QED BY <1>2, <1>3, <1>4, <1>5 DEF Next

(* No write reaches another file, or another part of its own (tfs_write's  *)
(* memcpy into the block data_block_get returns).                          *)
THEOREM WritesFramed == Spec => FramedWrites
  <1> DEFINE A == \A i \in Taken \ {ROOT_DIR_INUM} : Contents(i)' # Contents(i) =>
               \/ inode_table'[i].i_size = 0
               \/ \E fh \in Handles :
                    /\ Moved(fh) /\ open_file_table[fh].of_inumber = i
                    /\ \A k \in DOMAIN Contents(i) :
                         k < Offset(fh) \/ k >= open_file_table'[fh].of_offset
                           => Contents(i)'[k] = Contents(i)[k]
  <1>1. IInv /\ [Next]_vars => [A]_vars
    BY ContentsStep
  <1> QED BY <1>1, InitInv, StepInv, PTL DEF Spec, FramedWrites

(* A read within its file delivers the file's bytes and moves its handle   *)
(* by as many (tfs_read).                                                  *)
THEOREM ReadsCorrect == Spec => ReadsDeliverContents
  <1> DEFINE A == reply'.data # <<>> /\ reply' # reply =>
               \E fh \in Handles :
                 /\ Moved(fh)
                 /\ reply'.ret = open_file_table'[fh].of_offset - Offset(fh)
                 /\ Offset(fh) < Node(fh).i_size =>
                      \A k \in 1 .. reply'.ret :
                        reply'.data[k] = Contents(open_file_table[fh].of_inumber)[Offset(fh) + k - 1]
  <1>1. ASSUME IInv, Next PROVE A
    <2> USE SizesAssumption
    <2>1. ASSUME NEW path \in Paths, NEW flags, TfsOpen(path, flags) PROVE reply'.data = <<>>
      BY <2>1 DEF TfsOpen, OpenExisting, OpenCreate, OpenUndone, OpenRefused,
                  AddToOpenFileTable, Returns
    <2>2. ASSUME NEW fh, TfsClose(fh) PROVE reply'.data = <<>>
      BY <2>2 DEF TfsClose, Returns
    <2>3. ASSUME NEW fh \in Issued, NEW byte \in Bytes, NEW len \in 0 .. MAX_LEN,
                 TfsWrite(fh, byte, len)
          PROVE  reply'.data = <<>> \/ reply' = reply
      BY <2>3 DEF TfsWrite, WriteNothing, WriteNoBlock, WriteBytes, WriteOverrun, Returns
    <2>4. ASSUME NEW fh \in Issued, NEW len \in 0 .. MAX_LEN, ReadBytes(fh, len) PROVE A
      <3> DEFINE offset == Offset(fh)
                 size == Node(fh).i_size
                 to_read == ToRead(size, offset, len)
                 b == Node(fh).i_data_block
      <3>1. /\ offset \in Nat /\ size \in 0 .. BLOCK_SIZE /\ to_read \in Nat
            /\ fh \in Handles
        BY <1>1, IssuedTypes, ToReadFits DEF Inode
      <3>2. offset < size => offset + to_read <= size
        BY <3>1 DEF ToRead, SizeSub
      <3>3. /\ to_read > 0
            /\ open_file_table' = [open_file_table EXCEPT ![fh].of_offset = offset + to_read]
            /\ reply' = [ret |-> to_read,
                         data |-> [k \in 1 .. to_read |-> ByteAt(b, offset, k - 1)]]
        BY <2>4 DEF ReadBytes
      <3> HIDE DEF to_read, offset, size, b
      <3>4. /\ open_file_table'[fh].of_inumber = open_file_table[fh].of_inumber
            /\ open_file_table'[fh].of_offset = offset + to_read
        BY <1>1, <3>1, <3>3 DEF IInv, TypeOK, OpenFileEntry
      <3>5. Moved(fh) /\ reply'.ret = open_file_table'[fh].of_offset - Offset(fh)
        BY <3>1, <3>3, <3>4 DEF Moved, offset
      <3>6. ASSUME offset < size, NEW k \in 1 .. to_read
            PROVE  reply'.data[k] = Contents(open_file_table[fh].of_inumber)[offset + k - 1]
        <4>1. offset + (k - 1) < BLOCK_SIZE /\ offset + k - 1 \in 0 .. size - 1
              /\ offset + (k - 1) = offset + k - 1
          BY <3>1, <3>2, <3>6
        <4>2. reply'.data[k] = fs_data[b][offset + (k - 1)]
          BY <3>3, <4>1 DEF ByteAt
        <4>3. Contents(open_file_table[fh].of_inumber)[offset + k - 1] = fs_data[b][offset + k - 1]
          BY <4>1 DEF Contents, b, size, Node
        <4> QED BY <4>1, <4>2, <4>3
      <3> QED BY <3>1, <3>3, <3>5, <3>6 DEF offset, size
    <2>5. ASSUME NEW fh \in Issued, NEW len \in 0 .. MAX_LEN, ReadNothing(fh, len)
          PROVE  reply'.data = <<>>
      BY <2>5 DEF ReadNothing, Returns
    <2> QED BY <1>1, <2>1, <2>2, <2>3, <2>4, <2>5 DEF Next, TfsRead
  <1>2. IInv /\ [Next]_vars => [A]_vars
    BY <1>1
  <1> QED BY <1>2, InitInv, StepInv, PTL DEF Spec, ReadsDeliverContents
=============================================================================
