------------------------ MODULE StoreRefinement_proofs ------------------------
(* TecnicoFS implements FileStore, for every size of the tables: the       *)
(* initial states map to initial states, and each operation maps to one    *)
(* operation of the store. One lemma per operation.                        *)
EXTENDS StoreRefinement, TecnicoFS_proofs, WellFoundedInduction

(* The entries of the directory in use come before those that are not.     *)
(* add_dir_entry takes the first free one and none is ever freed, so a new *)
(* entry never hides an older one of the same name.                        *)
DirectoryPacked ==
  \A k, l \in DirSlots : k < l /\ dir[l].d_inumber # -1 => dir[k].d_inumber # -1

RInv == IInv /\ DirectoryPacked

(* The mapping, by its parts.                                              *)
AbsNames == [n \in Names |-> Lookup([abs |-> TRUE, sub |-> n])]
AbsFiles == Taken \ {ROOT_DIR_INUM}
AbsFile == [i \in Inodes \ {ROOT_DIR_INUM} |-> AbstractFile(i)]
AbsHandle == [fh \in Handles |-> [file |-> open_file_table[fh].of_inumber,
                                  pos |-> open_file_table[fh].of_offset]]
AbsOpen == Handles \ free_open_file_entries

(* Any set of numbers that is not empty has a least one.                   *)
LEMMA NatLeast ==
  ASSUME NEW S \in SUBSET Nat, S # {}
  PROVE  \E x \in S : \A y \in S : x <= y
  <1> DEFINE R == OpToRel(<, Nat)
  <1>1. IsWellFoundedOn(R, Nat)
    BY NatLessThanWellFounded
  <1>2. \A x, y \in Nat : <<y, x>> \in R <=> y < x
    BY DEF OpToRel
  <1> HIDE DEF R
  <1>3. PICK x \in S : \A y \in S : ~ (<<y, x>> \in R)
    BY <1>1, WFMin
  <1>4. ASSUME NEW y \in S PROVE x <= y
    <2>1. x \in Nat /\ y \in Nat /\ ~(<<y, x>> \in R)
      BY <1>3
    <2>2. ~(y < x)
      BY <1>2, <2>1
    <2> QED BY <2>1, <2>2
  <1> QED BY <1>3, <1>4

(* A name that any entry has is found.                                     *)
LEMMA FirstMatch ==
  ASSUME NEW n, Matches(n) # {}
  PROVE  \E k \in DirSlots : IsFirst(k, Matches(n))
  <1>1. Matches(n) \in SUBSET Nat /\ Matches(n) \subseteq DirSlots
    BY SizesAssumption DEF Matches, DirSlots
  <1>2. PICK k \in Matches(n) : \A l \in Matches(n) : k <= l
    BY <1>1, NatLeast
  <1> QED BY <1>1, <1>2 DEF IsFirst

(* The store finds what tfs_lookup finds.                                  *)
LEMMA LookupMaps ==
  ASSUME NEW path \in Paths
  PROVE  Store!Lookup(path) = Lookup(path)
  <1>1. path.sub \in Names \cup {Empty} /\ path.abs \in BOOLEAN
    BY NamesAssumption
  <1>2. CASE path.abs /\ path.sub # Empty
    <2>1. path.sub \in Names
      BY <1>1, <1>2
    <2>2. Store!Lookup(path) = Lookup([abs |-> TRUE, sub |-> path.sub])
      BY <1>2, <2>1 DEF Store!Lookup
    <2>3. ValidPathname([abs |-> TRUE, sub |-> path.sub]) /\ ValidPathname(path)
      BY <1>2 DEF ValidPathname
    <2> QED BY <2>2, <2>3 DEF Lookup
  <1>3. CASE ~(path.abs /\ path.sub # Empty)
    BY <1>3 DEF Store!Lookup, Lookup, ValidPathname
  <1> QED BY <1>2, <1>3

(* What an operation leaves alone the store sees unchanged: the names,     *)
LEMMA NamesKept ==
  ASSUME dir' = dir
  PROVE  AbsNames' = AbsNames
  BY DEF AbsNames, Lookup, Matches

(* ... the handles,                                                        *)
LEMMA HandlesKept ==
  ASSUME UNCHANGED <<open_file_table, free_open_file_entries>>
  PROVE  AbsHandle' = AbsHandle /\ AbsOpen' = AbsOpen
  BY DEF AbsHandle, AbsOpen

(* ... the files and their contents,                                       *)
LEMMA FilesKept ==
  ASSUME freeinode_ts' = freeinode_ts,
         \A i \in Taken \ {ROOT_DIR_INUM} :
           inode_table'[i].i_size = inode_table[i].i_size /\ Contents(i)' = Contents(i)
  PROVE  AbsFile' = AbsFile /\ AbsFiles' = AbsFiles
  <1>1. Taken' = Taken
    BY DEF Taken
  <1>2. ASSUME NEW i \in Inodes \ {ROOT_DIR_INUM} PROVE AbstractFile(i)' = AbstractFile(i)
    BY <1>1 DEF AbstractFile
  <1> QED BY <1>1, <1>2 DEF AbsFile, AbsFiles

(* ... and everything but the handles.                                     *)
LEMMA DiskKept ==
  ASSUME UNCHANGED disk
  PROVE  AbsNames' = AbsNames /\ AbsFile' = AbsFile /\ AbsFiles' = AbsFiles
  <1>1. \A i \in Taken : inode_table'[i].i_size = inode_table[i].i_size
                         /\ Contents(i)' = Contents(i)
    BY DEF disk, Contents
  <1> QED BY <1>1, NamesKept, FilesKept DEF disk

(* The initial states of the tables map to the store's.                    *)
LEMMA InitMaps ==
  Init => Store!Init /\ DirectoryPacked
  <1> SUFFICES ASSUME Init PROVE Store!Init /\ DirectoryPacked
    OBVIOUS
  <1>1. AbsNames = [n \in Names |-> {}]
    BY DEF Init, AbsNames, Lookup, Matches, IsFirst
  <1>2. Taken = {ROOT_DIR_INUM}
    BY SizesAssumption DEF Init, Taken, Inodes, ROOT_DIR_INUM
  <1>3. AbsFile = [i \in Inodes \ {ROOT_DIR_INUM} |-> [len |-> 0, bytes |-> [k \in {} |-> 0]]]
    BY <1>2 DEF AbsFile, AbstractFile
  <1>4. AbsHandle = [fh \in Handles |-> [file |-> ROOT_DIR_INUM, pos |-> 0]]
    BY DEF Init, AbsHandle
  <1>5. AbsFiles = {} /\ AbsOpen = {}
    BY <1>2 DEF Init, AbsFiles, AbsOpen
  <1>6. Store!Init
    BY <1>1, <1>3, <1>4, <1>5
       DEF Init, Store!Init, Store!EmptyFile, AbsNames, AbsFile, AbsFiles, AbsHandle, AbsOpen
  <1> QED BY <1>6 DEF Init, DirectoryPacked

----------------------------------------------------------------------------
(* tfs_open *)

(* add_to_open_file_table gives out a handle as the store does.            *)
LEMMA GiveMaps ==
  ASSUME TypeOK, NEW inum, NEW offset, AddToOpenFileTable(inum, offset)
  PROVE  Store!Give(inum, offset)
  <1>1. CASE free_open_file_entries = {} /\ Returns(-1)
             /\ UNCHANGED <<open_file_table, free_open_file_entries>>
    <2>1. AbsOpen = Handles /\ UNCHANGED <<AbsHandle, AbsOpen>>
      BY <1>1, HandlesKept DEF AbsOpen
    <2> QED BY <1>1, <2>1 DEF Store!Give, Store!Returns, Returns, AbsHandle, AbsOpen
  <1>2. ASSUME NEW fh \in Handles, IsFirst(fh, free_open_file_entries),
               open_file_table' = [open_file_table EXCEPT
                 ![fh] = [of_inumber |-> inum, of_offset |-> offset]],
               free_open_file_entries' = free_open_file_entries \ {fh},
               Returns(fh)
        PROVE  Store!Give(inum, offset)
    <2>1. fh \in Handles \ AbsOpen /\ AbsOpen' = AbsOpen \cup {fh}
      BY <1>2 DEF IsFirst, AbsOpen
    <2>2. AbsHandle' = [AbsHandle EXCEPT ![fh] = [file |-> inum, pos |-> offset]]
      BY <1>2 DEF AbsHandle, TypeOK
    <2> QED BY <1>2, <2>1, <2>2 DEF Store!Give, Store!Returns, Returns, AbsHandle, AbsOpen
  <1> QED BY <1>1, <1>2 DEF AddToOpenFileTable

(* A file that is truncated looks like one that is new.                    *)
LEMMA EmptyMaps ==
  ASSUME NEW i \in Taken', inode_table'[i].i_size = 0
  PROVE  AbstractFile(i)' = Store!EmptyFile
  <1>1. Contents(i)' = [k \in {} |-> 0]
    BY DEF Contents
  <1> QED BY <1>1 DEF AbstractFile, Store!EmptyFile

(* tfs_open of a file that exists is the store's Open.                     *)
LEMMA OpenExistingMaps ==
  ASSUME RInv, NEW path \in Paths, NEW flags, OpenExisting(path, flags)
  PROVE  Store!Open(path, "TRUNC" \in flags, "APPEND" \in flags) /\ DirectoryPacked'
  <1> DEFINE trunc == "TRUNC" \in flags
             append == "APPEND" \in flags
  <1>1. PICK inum \in Lookup(path) :
          LET size == IF trunc THEN 0 ELSE inode_table[inum].i_size
          IN  /\ inum \in Taken \ {ROOT_DIR_INUM} /\ inum \in Inodes
              /\ inode_table'[inum].i_size = size
              /\ inode_table'[inum].i_data_block = inode_table[inum].i_data_block
              /\ \A i \in Inodes \ {inum} : inode_table'[i] = inode_table[i]
              /\ AddToOpenFileTable(inum, IF append THEN size ELSE 0)
              /\ UNCHANGED <<freeinode_ts, dir, fs_data, crashed>>
    BY OpenExistingEffect DEF RInv
  <1> DEFINE now == IF trunc THEN Store!EmptyFile ELSE AbsFile[inum]
  <1>2. Taken' = Taken
    BY <1>1 DEF Taken
  <1>3. AbsFile[inum] = [len |-> inode_table[inum].i_size, bytes |-> Contents(inum)]
    BY <1>1 DEF AbsFile, AbstractFile
  <1>4. now.len = IF trunc THEN 0 ELSE inode_table[inum].i_size
    BY <1>3 DEF Store!EmptyFile
  <1>5. AbstractFile(inum)' = now
    <2>1. CASE trunc
      BY <1>1, <1>2, <2>1, EmptyMaps
    <2>2. CASE ~trunc
      <3>1. Contents(inum)' = Contents(inum) /\ inode_table'[inum].i_size = inode_table[inum].i_size
        BY <1>1, <2>2, ContentsKept DEF RInv
      <3> QED BY <1>1, <1>2, <1>3, <2>2, <3>1 DEF AbstractFile
    <2> QED BY <2>1, <2>2
  <1>6. ASSUME NEW i \in Inodes \ {ROOT_DIR_INUM, inum} PROVE AbstractFile(i)' = AbstractFile(i)
    <2>1. inode_table'[i] = inode_table[i] /\ fs_data' = fs_data
      BY <1>1
    <2> QED BY <1>2, <2>1 DEF AbstractFile, Contents
  <1>7. AbsFile' = [AbsFile EXCEPT ![inum] = now]
    <2> HIDE DEF now
    <2>1. AbsFile' = [i \in Inodes \ {ROOT_DIR_INUM} |-> AbstractFile(i)']
      BY DEF AbsFile
    <2> QED BY <1>1, <1>5, <1>6, <2>1 DEF AbsFile
  <1>8. AbsNames' = AbsNames /\ AbsFiles' = AbsFiles /\ crashed' = crashed
    BY <1>1, <1>2, NamesKept DEF AbsFiles
  <1>9. \E pos : pos = (IF append THEN now.len ELSE 0) /\ Store!Give(inum, pos)
    <2>1. PICK pos : pos = IF append THEN now.len ELSE 0
      OBVIOUS
    <2>2. AddToOpenFileTable(inum, pos)
      BY <1>1, <1>4, <2>1 DEF AddToOpenFileTable
    <2>3. Store!Give(inum, pos)
      BY <2>2, GiveMaps DEF RInv, IInv
    <2> QED BY <2>1, <2>3
  <1>10. inum \in Store!Lookup(path)
    BY LookupMaps
  <1>11. Store!Open(path, trunc, append)
    <2> HIDE DEF trunc, append
    <2> QED BY <1>7, <1>8, <1>9, <1>10
           DEF Store!Open, Store!Give, AbsFile, AbsNames, AbsFiles, AbsHandle, AbsOpen
  <1>12. DirectoryPacked'
    BY <1>1 DEF RInv, DirectoryPacked
  <1> QED BY <1>11, <1>12

(* tfs_open that creates its file is the store's Create: the new entry is  *)
(* found by its name unless an older one has it.                           *)
LEMMA OpenCreateMaps ==
  ASSUME RInv, NEW path \in Paths, NEW flags, OpenCreate(path, flags)
  PROVE  Store!Create(path) /\ DirectoryPacked'
  <1>1. PICK inum \in Inodes, k \in DirSlots :
          /\ IsFirst(inum, freeinode_ts)
          /\ IsFirst(k, EmptySlots)
          /\ freeinode_ts' = freeinode_ts \ {inum}
          /\ inode_table' = [inode_table EXCEPT ![inum] = NewFile]
          /\ dir' = [dir EXCEPT ![k] = [d_inumber |-> inum, d_name |-> Stored[path.sub]]]
          /\ AddToOpenFileTable(inum, 0)
    BY DEF OpenCreate
  <1>2. /\ UNCHANGED <<fs_data, free_blocks, crashed>>
        /\ path.sub \in Names /\ path.sub # Empty /\ Lookup(path) = {}
    BY NamesAssumption DEF OpenCreate
  <1> DEFINE n == Stored[path.sub]
  <1>3. n \in Names /\ n # Empty
    BY <1>2, NamesAssumption
  <1>4. inum \in freeinode_ts /\ inum # ROOT_DIR_INUM /\ dir[k].d_inumber = -1 /\ inum # -1
    BY <1>1, SizesAssumption
       DEF IsFirst, EmptySlots, RInv, IInv, BlockAccounting, Occupied, Taken, Inodes
  <1>5. /\ dir'[k] = [d_inumber |-> inum, d_name |-> n]
        /\ \A l \in DirSlots \ {k} : dir'[l] = dir[l]
    BY <1>1 DEF RInv, IInv, TypeOK
  <1>6. \A l \in DirSlots : dir[l].d_inumber # -1 <=> l < k
    <2>1. \A l \in DirSlots : l \in Nat
      BY SizesAssumption DEF DirSlots
    <2> QED BY <1>1, <1>4, <2>1 DEF IsFirst, EmptySlots, RInv, DirectoryPacked
  <1>7. DirectoryPacked'
    <2> SUFFICES ASSUME NEW j \in DirSlots, NEW l \in DirSlots, j < l, dir'[l].d_inumber # -1
                 PROVE  dir'[j].d_inumber # -1
      BY DEF DirectoryPacked
    <2>1. j \in Nat /\ l \in Nat /\ k \in Nat
      BY SizesAssumption DEF DirSlots
    <2>2. l = k \/ l < k
      BY <1>5, <1>6
    <2> QED BY <1>4, <1>5, <1>6, <2>1, <2>2
  <1>8. /\ Matches(n)' = Matches(n) \cup {k} /\ \A l \in Matches(n) : l < k
        /\ \A m \in Names \ {n} : Matches(m)' = Matches(m)
    <2>1. \A l \in Matches(n) : l < k
      BY <1>6 DEF Matches
    <2>2. Matches(n)' = Matches(n) \cup {k}
      BY <1>4, <1>5 DEF Matches
    <2>3. \A m \in Names \ {n} : Matches(m)' = Matches(m)
      BY <1>4, <1>5 DEF Matches
    <2> QED BY <2>1, <2>2, <2>3
  <1> DEFINE At(m) == [abs |-> TRUE, sub |-> m]
  <1>9. \A m \in Names : ValidPathname(At(m)) /\ At(m).sub = m
    BY NamesAssumption DEF ValidPathname
  <1> HIDE DEF n
  <1>10. ASSUME NEW m \in Names \ {n} PROVE Lookup(At(m))' = Lookup(At(m))
    <2>1. \A l \in Matches(m) : l \in DirSlots /\ dir'[l] = dir[l]
      BY <1>4, <1>5 DEF Matches
    <2> QED BY <1>8, <1>9, <2>1 DEF Lookup, IsFirst
  <1>11. Lookup(At(n))' = IF Lookup(At(n)) = {} THEN {inum} ELSE Lookup(At(n))
    <2>0. k \in Int /\ Matches(n) \subseteq Int
      BY SizesAssumption DEF DirSlots, Matches
    <2>1. CASE Matches(n) = {}
      <3>1. Lookup(At(n)) = {}
        BY <2>1 DEF Lookup, IsFirst
      <3>2. Lookup(At(n))' = {inum}
        <4>1. \A j \in DirSlots : IsFirst(j, Matches(n)') <=> j = k
          BY <1>8, <2>0, <2>1 DEF IsFirst
        <4> QED BY <1>3, <1>5, <1>9, <4>1 DEF Lookup, IsFirst
      <3> QED BY <3>1, <3>2
    <2>2. CASE Matches(n) # {}
      <3>1. PICK j \in DirSlots : IsFirst(j, Matches(n))
        BY <2>2, FirstMatch
      <3>2. Lookup(At(n)) # {}
        BY <1>3, <1>9, <3>1 DEF Lookup
      <3>3. \A l \in DirSlots : IsFirst(l, Matches(n)') <=> IsFirst(l, Matches(n))
        BY <1>8, <2>0, <3>1 DEF IsFirst
      <3>4. \A l \in DirSlots : IsFirst(l, Matches(n)) => dir'[l] = dir[l]
        BY <1>4, <1>5 DEF IsFirst, Matches
      <3>5. Lookup(At(n))' = Lookup(At(n))
        BY <1>3, <1>9, <3>3, <3>4 DEF Lookup, IsFirst
      <3> QED BY <3>2, <3>5
    <2> QED BY <2>1, <2>2
  <1>12. AbsNames' = [AbsNames EXCEPT ![n] = IF @ = {} THEN {inum} ELSE @]
    <2>1. AbsNames' = [m \in Names |-> Lookup(At(m))'] /\ AbsNames = [m \in Names |-> Lookup(At(m))]
      BY DEF AbsNames
    <2> HIDE DEF At
    <2> QED BY <1>3, <1>10, <1>11, <2>1
  <1>13. Taken' = Taken \cup {inum} /\ inum \notin Taken
    BY <1>1, <1>4 DEF Taken, RInv, IInv, TypeOK
  <1>14. inum \in (Inodes \ {ROOT_DIR_INUM}) \ AbsFiles /\ AbsFiles' = AbsFiles \cup {inum}
    BY <1>4, <1>13 DEF AbsFiles
  <1>15. AbsFile' = [AbsFile EXCEPT ![inum] = Store!EmptyFile]
    <2>1. /\ \A i \in Inodes \ {inum} : inode_table'[i] = inode_table[i]
          /\ inode_table'[inum].i_size = 0
      BY <1>1 DEF RInv, IInv, TypeOK, NewFile
    <2>2. AbstractFile(inum)' = Store!EmptyFile
      BY <1>13, <2>1, EmptyMaps
    <2>3. ASSUME NEW i \in Inodes \ {ROOT_DIR_INUM, inum} PROVE AbstractFile(i)' = AbstractFile(i)
      BY <1>2, <1>13, <2>1 DEF AbstractFile, Contents
    <2>4. AbsFile' = [i \in Inodes \ {ROOT_DIR_INUM} |-> AbstractFile(i)']
      BY DEF AbsFile
    <2> QED BY <1>4, <2>2, <2>3, <2>4 DEF AbsFile
  <1>16. Store!Give(inum, 0)
    BY <1>1, GiveMaps DEF RInv, IInv
  <1>17. Store!Create(path)
    BY <1>2, <1>12, <1>14, <1>15, <1>16, LookupMaps
       DEF Store!Create, AbsFile, AbsFiles, AbsNames, n
  <1> QED BY <1>7, <1>17

(* tfs_open that returns -1 is the store's Refuse, also when an i-node was *)
(* created and deleted again.                                              *)
LEMMA OpenRefusedMaps ==
  ASSUME RInv, NEW path \in Paths, NEW flags, OpenUndone(path, flags) \/ OpenRefused(path, flags)
  PROVE  Store!Refuse(path) /\ DirectoryPacked'
  <1>1. /\ Store!Lookup(path) = {} /\ Returns(-1) /\ UNCHANGED <<dir, table, crashed>>
    BY LookupMaps DEF OpenUndone, OpenRefused, disk
  <1>2. AbsFile' = AbsFile /\ AbsFiles' = AbsFiles
    <2>1. CASE OpenUndone(path, flags)
      <3>1. PICK inum \in Inodes :
              /\ IsFirst(inum, freeinode_ts)
              /\ freeinode_ts' = InodeDelete(freeinode_ts \ {inum}, inum)
              /\ inode_table' = [inode_table EXCEPT ![inum] = NewFile]
        BY <2>1 DEF OpenUndone
      <3>2. freeinode_ts' = freeinode_ts /\ \A i \in Taken : inode_table'[i] = inode_table[i]
        BY <3>1 DEF IsFirst, InodeDelete, Taken, RInv, IInv, TypeOK
      <3>3. fs_data' = fs_data
        BY <2>1 DEF OpenUndone
      <3>4. \A i \in Taken : Contents(i)' = Contents(i)
        BY <3>2, <3>3 DEF Contents
      <3> QED BY <3>2, <3>4, FilesKept
    <2>2. CASE OpenRefused(path, flags)
      BY <2>2, DiskKept DEF OpenRefused
    <2> QED BY <2>1, <2>2
  <1>3. AbsNames' = AbsNames /\ AbsHandle' = AbsHandle /\ AbsOpen' = AbsOpen
    BY <1>1, NamesKept, HandlesKept DEF table
  <1>4. DirectoryPacked'
    BY <1>1 DEF RInv, DirectoryPacked
  <1> QED BY <1>1, <1>2, <1>3, <1>4
       DEF Store!Refuse, Store!Returns, Returns, AbsNames, AbsFile, AbsFiles, AbsHandle, AbsOpen

----------------------------------------------------------------------------
(* tfs_close, tfs_write, tfs_read *)

(* A handle that tfs_open has returned is the store's, with its file and   *)
(* its position.                                                           *)
LEMMA IssuedMaps ==
  ASSUME IInv, NEW fh \in Issued
  PROVE  /\ fh \in Store!Issued /\ fh \in Handles
         /\ AbsHandle[fh].file = open_file_table[fh].of_inumber /\ AbsHandle[fh].pos = Offset(fh)
         /\ AbsFile[AbsHandle[fh].file].len = Node(fh).i_size
         /\ AbsFile[AbsHandle[fh].file].bytes = Contents(open_file_table[fh].of_inumber)
         /\ Node(fh).i_size \in 0 .. BLOCK_SIZE
  <1>1. /\ fh \in Handles /\ open_file_table[fh].of_inumber \in Taken \ {ROOT_DIR_INUM}
        /\ open_file_table[fh].of_inumber \in Inodes /\ Node(fh).i_size \in 0 .. BLOCK_SIZE
    BY IssuedTypes DEF Inode
  <1>2. AbsHandle[fh].file = open_file_table[fh].of_inumber /\ AbsHandle[fh].pos = Offset(fh)
    BY <1>1 DEF AbsHandle, Offset
  <1>3. fh \in Store!Issued
    BY <1>1 DEF Store!Issued
  <1> QED BY <1>1, <1>2, <1>3 DEF AbsFile, AbstractFile, Node

(* tfs_close is the store's Close.                                         *)
LEMMA CloseMaps ==
  ASSUME RInv, NEW fh \in Handles \cup {-1}, TfsClose(fh)
  PROVE  Store!Close(fh) /\ DirectoryPacked'
  <1>1. UNCHANGED disk /\ UNCHANGED <<open_file_table, crashed>>
    BY DEF TfsClose
  <1>2. AbsNames' = AbsNames /\ AbsFile' = AbsFile /\ AbsFiles' = AbsFiles /\ AbsHandle' = AbsHandle
    BY <1>1, DiskKept DEF AbsHandle
  <1>3. IF fh \in AbsOpen THEN AbsOpen' = AbsOpen \ {fh} /\ Returns(0)
                          ELSE AbsOpen' = AbsOpen /\ Returns(-1)
    BY DEF TfsClose, AbsOpen
  <1>4. DirectoryPacked'
    BY <1>1 DEF RInv, DirectoryPacked, disk
  <1> QED BY <1>1, <1>2, <1>3, <1>4
       DEF Store!Close, Store!Returns, Returns, AbsNames, AbsFile, AbsFiles, AbsHandle, AbsOpen

(* tfs_write of nothing, to a full block or of no bytes.                   *)
LEMMA WriteNothingMaps ==
  ASSUME RInv, NEW fh \in Issued, NEW len \in 0 .. MAX_LEN, WriteNothing(fh, len)
  PROVE  Store!WriteNothing(fh, len)
  <1>1. UNCHANGED disk /\ UNCHANGED <<open_file_table, free_open_file_entries, crashed>> /\ Returns(0)
    BY DEF WriteNothing, table
  <1>2. len = 0 \/ Offset(fh) = BLOCK_SIZE
    <2>1. Offset(fh) \in 0 .. MAX_OFFSET + BLOCK_SIZE
      BY IssuedTypes DEF RInv
    <2> QED BY <2>1, SizesAssumption DEF WriteNothing, ToWrite, SizeSub
  <1>3. AbsHandle[fh].pos = Offset(fh)
    BY IssuedMaps DEF RInv
  <1> QED BY <1>1, <1>2, <1>3, DiskKept, HandlesKept
       DEF Store!WriteNothing, Store!Returns, Returns, AbsNames, AbsFile, AbsFiles, AbsHandle, AbsOpen

(* tfs_write to an empty file with no block left: the i-node's block is    *)
(* set to -1, which no caller sees.                                        *)
LEMMA WriteNoBlockMaps ==
  ASSUME RInv, NEW fh \in Issued, NEW len \in 0 .. MAX_LEN, WriteNoBlock(fh, len)
  PROVE  Store!WriteFull(fh)
  <1> DEFINE inum == open_file_table[fh].of_inumber
  <1>1. /\ inum \in Inodes /\ inode_table[inum].i_size = 0
        /\ inode_table' = [inode_table EXCEPT ![inum].i_data_block = -1]
        /\ UNCHANGED <<freeinode_ts, dir, fs_data>> /\ Returns(-1)
        /\ UNCHANGED <<open_file_table, free_open_file_entries, crashed>>
    BY IssuedTypes DEF WriteNoBlock, Node, table, RInv
  <1>2. inode_table'[inum].i_size = 0
    BY <1>1 DEF RInv, IInv, TypeOK, Inode
  <1>3. ASSUME NEW i \in Taken \ {ROOT_DIR_INUM}
        PROVE  inode_table'[i].i_size = inode_table[i].i_size /\ Contents(i)' = Contents(i)
    <2>0. i \in Inodes
      BY DEF Taken
    <2>1. CASE i = inum
      BY <1>1, <1>2, <2>0, <2>1, ContentsKept DEF RInv
    <2>2. CASE i # inum
      <3>1. inode_table'[i] = inode_table[i]
        BY <1>1, <2>0, <2>2 DEF RInv, IInv, TypeOK
      <3> QED BY <1>1, <3>1 DEF Contents
    <2> QED BY <2>1, <2>2
  <1>4. AbsFile' = AbsFile /\ AbsFiles' = AbsFiles
    BY <1>1, <1>3, FilesKept
  <1>5. AbsFile[AbsHandle[fh].file].len = 0
    BY <1>1, IssuedMaps DEF RInv, Node
  <1> QED BY <1>1, <1>4, <1>5, NamesKept, HandlesKept
       DEF Store!WriteFull, Store!Returns, Returns, AbsNames, AbsFile, AbsFiles, AbsHandle, AbsOpen

(* tfs_write past a block the offset has left: the process dies.           *)
LEMMA WriteOverrunMaps ==
  ASSUME RInv, NEW fh \in Issued, NEW len \in 0 .. MAX_LEN, WriteOverrun(fh, len)
  PROVE  Store!Overrun(fh)
  <1>1. /\ UNCHANGED disk /\ UNCHANGED <<open_file_table, free_open_file_entries, reply>>
        /\ crashed' = TRUE /\ Offset(fh) > BLOCK_SIZE
    BY DEF WriteOverrun, table
  <1>2. AbsHandle[fh].pos = Offset(fh)
    BY IssuedMaps DEF RInv
  <1> QED BY <1>1, <1>2, DiskKept, HandlesKept
       DEF Store!Overrun, AbsNames, AbsFile, AbsFiles, AbsHandle, AbsOpen

(* tfs_write that copies. Between the old end of the file and the offset   *)
(* is what the block holds: the store's hole.                              *)
LEMMA WriteBytesMaps ==
  ASSUME RInv, NEW fh \in Issued, NEW byte \in Bytes, NEW len \in 0 .. MAX_LEN,
         WriteBytes(fh, byte, len)
  PROVE  Store!WriteBytes(fh, byte, len)
  <1> USE SizesAssumption
  <1>0. IInv
    BY DEF RInv
  <1>1. PICK b \in Blocks, end \in 1 .. BLOCK_SIZE : BytesWritten(fh, byte, len, b, end)
    BY <1>0, WriteBytesEffect
  <1>2. PICK f, from, flen :
          /\ f = open_file_table[fh].of_inumber /\ from = Offset(fh) /\ flen = inode_table[f].i_size
    OBVIOUS
  <1> DEFINE size == IF end > flen THEN end ELSE flen
  <1>3. /\ f \in Taken \ {ROOT_DIR_INUM} /\ f \in Inodes /\ fh \in Handles
        /\ flen \in 0 .. BLOCK_SIZE /\ from \in 0 .. end - 1
        /\ AbsHandle[fh].file = f /\ AbsHandle[fh].pos = from
        /\ AbsFile[f].len = flen /\ AbsFile[f].bytes = Contents(f)
    BY <1>0, <1>1, <1>2, IssuedTypes, IssuedMaps DEF BytesWritten, Node
  <1>4. end = Store!Min2(from + len, BLOCK_SIZE) /\ size = Store!Max2(flen, end)
    <2>1. end = from + ToWrite(from, len)
      BY <1>1, <1>2 DEF BytesWritten
    <2>2. end = Store!Min2(from + len, BLOCK_SIZE)
      BY <1>3, <2>1 DEF ToWrite, SizeSub, Store!Min2
    <2> QED BY <1>3, <2>2 DEF Store!Max2
  <1>5. /\ reply' = [ret |-> end - from, data |-> <<>>]
        /\ UNCHANGED <<freeinode_ts, dir, free_open_file_entries, crashed>>
    <2>1. /\ reply' = [ret |-> ToWrite(from, len), data |-> <<>>]
          /\ UNCHANGED <<freeinode_ts, dir, free_open_file_entries, crashed>>
      BY <1>2 DEF WriteBytes
    <2>2. end = from + ToWrite(from, len) /\ ToWrite(from, len) \in Nat
      BY <1>1, <1>2, <1>3, ToWriteFits DEF BytesWritten
    <2> QED BY <1>3, <2>1, <2>2
  <1>6. AbsHandle' = [AbsHandle EXCEPT ![fh].pos = end]
    <2>1. open_file_table' = [open_file_table EXCEPT ![fh].of_offset = end]
          /\ open_file_table \in [Handles -> OpenFileEntry]
      BY <1>0, <1>1 DEF BytesWritten, IInv, TypeOK
    <2>2. \A h \in Handles : open_file_table[h] \in OpenFileEntry
      BY <2>1
    <2> QED BY <1>3, <2>1, <2>2 DEF AbsHandle, OpenFileEntry
  <1>7. Taken' = Taken /\ AbsFiles' = AbsFiles /\ AbsNames' = AbsNames
        /\ AbsOpen' = AbsOpen
    BY <1>5, NamesKept DEF Taken, AbsFiles, AbsOpen
  <1> DEFINE hole == [k \in flen .. from - 1 |-> fs_data[b][k]]
             bytes == [k \in 0 .. size - 1 |->
                         IF from <= k /\ k < end THEN byte
                         ELSE IF k < flen THEN Contents(f)[k] ELSE hole[k]]
  <1>8. hole \in [flen .. from - 1 -> ByteValues]
    <2>1. \A k \in flen .. from - 1 : k \in InBlock
      BY <1>3 DEF InBlock
    <2> QED BY <1>0, <2>1 DEF IInv, TypeOK
  <1>9. AbstractFile(f)' = [len |-> size, bytes |-> bytes]
    <2>1. /\ inode_table'[f].i_size = size /\ inode_table'[f].i_data_block = b
          /\ flen > 0 => b = inode_table[f].i_data_block
          /\ fs_data'[b] = [k \in InBlock |-> IF from <= k /\ k < end THEN byte ELSE fs_data[b][k]]
      BY <1>1, <1>2 DEF BytesWritten
    <2>2. size \in 1 .. BLOCK_SIZE /\ size \in {flen, end}
      BY <1>3
    <2> HIDE DEF size
    <2>3. Contents(f)' = [k \in 0 .. size - 1 |-> fs_data'[b][k]]
      BY <2>1 DEF Contents
    <2>4. ASSUME NEW k \in 0 .. size - 1
          PROVE  fs_data'[b][k] = bytes[k]
      <3>1. k \in InBlock
        BY <2>2 DEF InBlock
      <3>2. fs_data'[b][k] = IF from <= k /\ k < end THEN byte ELSE fs_data[b][k]
        BY <2>1, <3>1
      <3>3. CASE k < flen
        <4>1. Contents(f)[k] = fs_data[b][k]
          BY <1>2, <1>3, <2>1, <2>2, <3>3, ContentsAt
        <4> QED BY <3>2, <3>3, <4>1
      <3>4. CASE ~(k < flen) /\ k < from
        <4>1. k \in flen .. from - 1
          BY <1>3, <2>2, <3>4
        <4>2. hole[k] = fs_data[b][k]
          BY <4>1
        <4> HIDE DEF hole
        <4> QED BY <1>3, <2>2, <3>2, <3>4, <4>2
      <3>5. CASE ~(k < flen) /\ ~(k < from)
        <4>1. from <= k /\ k < end
          BY <1>3, <2>2, <3>5 DEF size
        <4> HIDE DEF hole
        <4> QED BY <3>2, <4>1
      <3> QED BY <3>3, <3>4, <3>5
    <2>5. Contents(f)' = bytes
      <3> HIDE DEF hole
      <3> QED BY <2>3, <2>4
    <2> HIDE DEF bytes
    <2> QED BY <1>3, <1>7, <2>1, <2>5 DEF AbstractFile
  <1>10. ASSUME NEW i \in Inodes \ {ROOT_DIR_INUM, f} PROVE AbstractFile(i)' = AbstractFile(i)
    <2>1. inode_table'[i] = inode_table[i]
      BY <1>1, <1>2 DEF BytesWritten
    <2>2. ASSUME i \in Taken PROVE Contents(i)' = Contents(i)
      BY <1>0, <1>2, <2>2, WriteBytesFramed
    <2> QED BY <1>7, <2>1, <2>2 DEF AbstractFile
  <1>11. AbsFile' = [AbsFile EXCEPT ![f] = [len |-> size, bytes |-> bytes]]
    <2>1. AbsFile' = [i \in Inodes \ {ROOT_DIR_INUM} |-> AbstractFile(i)']
      BY DEF AbsFile
    <2> HIDE DEF size, bytes
    <2> QED BY <1>3, <1>9, <1>10, <2>1 DEF AbsFile
  <1>12. AbsFile' = [AbsFile EXCEPT ![f] =
           [len |-> size,
            bytes |-> [k \in 0 .. size - 1 |->
                         IF from <= k /\ k < end THEN byte
                         ELSE IF k < @.len THEN @.bytes[k] ELSE hole[k]]]]
    <2> HIDE DEF size, hole
    <2> QED BY <1>3, <1>11
  <1> HIDE DEF size, hole, bytes
  <1>13. from < end
    BY <1>3
  <1> DEFINE F == AbsHandle[fh].file
             P == AbsHandle[fh].pos
             To == Store!Min2(P + len, BLOCK_SIZE)
             Sz == Store!Max2(AbsFile[F].len, To)
  <1>14. F = f /\ P = from /\ To = end /\ Sz = size /\ AbsFile[F].len = flen
    BY <1>3, <1>4
  <1> HIDE DEF F, P, To, Sz
  <1>15. AbsFile' = [AbsFile EXCEPT ![F] =
           [len |-> Sz,
            bytes |-> [k \in 0 .. Sz - 1 |->
                         IF P <= k /\ k < To THEN byte
                         ELSE IF k < @.len THEN @.bytes[k] ELSE hole[k]]]]
    BY <1>12, <1>14
  <1>16. /\ P < To /\ reply' = [ret |-> To - P, data |-> <<>>]
         /\ AbsHandle' = [AbsHandle EXCEPT ![fh].pos = To]
         /\ hole \in [AbsFile[F].len .. P - 1 -> ByteValues]
    BY <1>5, <1>6, <1>8, <1>13, <1>14
  <1>17. \E h \in [AbsFile[F].len .. P - 1 -> ByteValues] :
           AbsFile' = [AbsFile EXCEPT ![F] =
             [len |-> Sz,
              bytes |-> [k \in 0 .. Sz - 1 |->
                           IF P <= k /\ k < To THEN byte
                           ELSE IF k < @.len THEN @.bytes[k] ELSE h[k]]]]
    BY <1>15, <1>16
  <1> QED BY <1>5, <1>7, <1>16, <1>17
       DEF Store!WriteBytes, Store!Returns, F, P, To, Sz,
           AbsNames, AbsFile, AbsFiles, AbsHandle, AbsOpen

(* tfs_read that copies: the bytes of the file, or, from an offset beyond  *)
(* its end, whatever is read.                                              *)
LEMMA ReadBytesMaps ==
  ASSUME RInv, NEW fh \in Issued, NEW len \in 0 .. MAX_LEN, ReadBytes(fh, len)
  PROVE  Store!Read(fh, len) \/ Store!ReadStale(fh, len)
  <1> USE SizesAssumption
  <1>0. IInv
    BY DEF RInv
  <1>1. PICK f, from, flen, n, b :
          /\ f = open_file_table[fh].of_inumber /\ from = Offset(fh) /\ flen = Node(fh).i_size
          /\ n = ToRead(flen, from, len) /\ b = Node(fh).i_data_block
    OBVIOUS
  <1>2. /\ AbsHandle[fh].file = f /\ AbsHandle[fh].pos = from
        /\ AbsFile[f].len = flen /\ AbsFile[f].bytes = Contents(f)
        /\ flen \in 0 .. BLOCK_SIZE /\ from \in 0 .. MAX_OFFSET + BLOCK_SIZE
        /\ fh \in Handles /\ b \in Blocks \cup {-1}
    BY <1>0, <1>1, IssuedTypes, IssuedMaps DEF Inode
  <1>3. /\ n \in 1 .. len /\ b # -1
        /\ open_file_table' = [open_file_table EXCEPT ![fh].of_offset = from + n]
        /\ reply' = [ret |-> n, data |-> [k \in 1 .. n |-> ByteAt(b, from, k - 1)]]
        /\ UNCHANGED disk /\ UNCHANGED <<free_open_file_entries, crashed>>
    BY SMTT(30), <1>1, <1>2, ToReadFits DEF ReadBytes
  <1>4. AbsHandle' = [AbsHandle EXCEPT ![fh].pos = from + n]
    <2>1. \A h \in Handles : open_file_table[h] \in OpenFileEntry
      BY <1>0 DEF IInv, TypeOK
    <2> QED BY <1>0, <1>2, <1>3, <2>1 DEF AbsHandle, OpenFileEntry, IInv, TypeOK
  <1>5. /\ AbsNames' = AbsNames /\ AbsFiles' = AbsFiles /\ AbsFile' = AbsFile
        /\ AbsOpen' = AbsOpen /\ crashed' = crashed
    BY <1>3, DiskKept DEF AbsOpen
  <1> DEFINE F == AbsHandle[fh].file
             P == AbsHandle[fh].pos
  <1>6. F = f /\ P = from /\ AbsFile[F].len = flen /\ AbsFile[F].bytes = Contents(f)
    BY <1>2
  <1> HIDE DEF F, P
  <1>7. CASE from <= flen
    <2> DEFINE N == Store!Min2(len, AbsFile[F].len - P)
    <2>1. N = n /\ n <= flen - from
      <3>1. N = Store!Min2(len, flen - from)
        BY <1>6
      <3> QED BY <1>1, <1>2, <1>3, <1>7, <3>1 DEF ToRead, SizeSub, Store!Min2
    <2> HIDE DEF N
    <2>2. ASSUME NEW k \in 1 .. n
          PROVE  ByteAt(b, from, k - 1) = AbsFile[F].bytes[P + k - 1]
      <3>1. /\ from + (k - 1) < BLOCK_SIZE /\ from + k - 1 \in 0 .. flen - 1
            /\ from + (k - 1) = from + k - 1
        <4>1. n \in Nat /\ n <= flen - from /\ from \in Nat /\ flen \in 0 .. BLOCK_SIZE
          BY <1>2, <1>3, <2>1
        <4> QED BY <4>1
      <3>2. ByteAt(b, from, k - 1) = fs_data[b][from + k - 1]
        BY <3>1 DEF ByteAt
      <3>3. Contents(f)[from + k - 1] = fs_data[b][from + k - 1]
        BY <1>1, <3>1, ContentsAt DEF Node
      <3> QED BY <1>6, <3>2, <3>3
    <2>3. reply' = [ret |-> N, data |-> [k \in 1 .. N |-> AbsFile[F].bytes[P + k - 1]]]
      BY <1>3, <2>1, <2>2
    <2>4. AbsHandle' = [AbsHandle EXCEPT ![fh].pos = P + N] /\ P <= AbsFile[F].len
      BY <1>4, <1>6, <1>7, <2>1
    <2>5. Store!Read(fh, len)
      BY <1>5, <2>3, <2>4
         DEF Store!Read, N, F, P, AbsNames, AbsFile, AbsFiles, AbsHandle, AbsOpen
    <2> QED BY <2>5
  <1>8. CASE from > flen
    <2>1. n = len
      BY <1>1, <1>2, <1>8 DEF ToRead, SizeSub
    <2> DEFINE data == [k \in 1 .. len |-> ByteAt(b, from, k - 1)]
    <2>2. \A k \in 1 .. len : ByteAt(b, from, k - 1) \in ByteValues
      <3> SUFFICES ASSUME NEW k \in 1 .. len PROVE ByteAt(b, from, k - 1) \in ByteValues
        OBVIOUS
      <3>1. CASE from + (k - 1) < BLOCK_SIZE
        <4>1. from + (k - 1) \in InBlock /\ b \in Blocks
          BY SMTT(30), <1>2, <1>3, <3>1 DEF InBlock
        <4> QED BY <1>0, <3>1, <4>1 DEF ByteAt, IInv, TypeOK
      <3>2. CASE ~(from + (k - 1) < BLOCK_SIZE)
        BY <3>2 DEF ByteAt, ByteValues
      <3> QED BY <3>1, <3>2
    <2>3. data \in [1 .. len -> ByteValues] /\ reply' = [ret |-> len, data |-> data]
      BY <1>3, <2>1, <2>2
    <2> HIDE DEF data
    <2>4. AbsHandle' = [AbsHandle EXCEPT ![fh].pos = P + len] /\ P > AbsFile[F].len
      BY <1>4, <1>6, <1>8, <2>1
    <2>5. AbsHandle' = [AbsHandle EXCEPT ![fh].pos = @ + len]
      BY <2>4 DEF P
    <2>6. Store!ReadStale(fh, len)
      BY <1>5, <2>3, <2>4, <2>5
         DEF Store!ReadStale, F, P, AbsNames, AbsFile, AbsFiles, AbsHandle, AbsOpen
    <2> QED BY <2>6
  <1> QED BY <1>2, <1>7, <1>8

(* tfs_read of nothing: the end of the file, no bytes asked for, or no     *)
(* block (-1) under an offset left behind by a truncation.                 *)
LEMMA ReadNothingMaps ==
  ASSUME RInv, NEW fh \in Issued, NEW len \in 0 .. MAX_LEN, ReadNothing(fh, len)
  PROVE  Store!Read(fh, len) \/ Store!ReadStale(fh, len)
  <1> USE SizesAssumption
  <1>0. IInv
    BY DEF RInv
  <1>1. PICK from, flen, n :
          /\ from = Offset(fh) /\ flen = Node(fh).i_size /\ n = ToRead(flen, from, len)
    OBVIOUS
  <1> DEFINE F == AbsHandle[fh].file
             P == AbsHandle[fh].pos
  <1>2. /\ P = from /\ AbsFile[F].len = flen
        /\ flen \in 0 .. BLOCK_SIZE /\ from \in 0 .. MAX_OFFSET + BLOCK_SIZE /\ n \in 0 .. len
        /\ fh \in Handles
    BY <1>0, <1>1, IssuedTypes, IssuedMaps, ToReadFits
  <1>3. /\ n = 0 \/ Node(fh).i_data_block = -1
        /\ Returns(IF n = 0 THEN 0 ELSE -1)
        /\ UNCHANGED disk /\ UNCHANGED <<open_file_table, free_open_file_entries, crashed>>
    BY <1>1 DEF ReadNothing, table
  <1>4. /\ AbsNames' = AbsNames /\ AbsFiles' = AbsFiles /\ AbsFile' = AbsFile
        /\ AbsHandle' = AbsHandle /\ AbsOpen' = AbsOpen /\ crashed' = crashed
    BY <1>3, DiskKept, HandlesKept
  <1>5. AbsHandle = [AbsHandle EXCEPT ![fh].pos = P + 0]
    BY <1>2 DEF AbsHandle
  <1> HIDE DEF F, P
  <1>6. CASE n = 0 /\ from <= flen
    <2> DEFINE N == Store!Min2(len, AbsFile[F].len - P)
    <2>1. N = 0
      <3>1. N = Store!Min2(len, flen - from)
        BY <1>2
      <3> QED BY <1>1, <1>2, <1>6, <3>1 DEF ToRead, SizeSub, Store!Min2
    <2> HIDE DEF N
    <2>2. [k \in 1 .. N |-> AbsFile[F].bytes[P + k - 1]] = <<>>
      BY <2>1
    <2>3. reply' = [ret |-> N, data |-> [k \in 1 .. N |-> AbsFile[F].bytes[P + k - 1]]]
      BY <1>3, <1>6, <2>1, <2>2 DEF Returns
    <2>4. AbsHandle' = [AbsHandle EXCEPT ![fh].pos = P + N] /\ P <= AbsFile[F].len
      BY <1>2, <1>4, <1>5, <1>6, <2>1
    <2>5. Store!Read(fh, len)
      BY <1>4, <2>3, <2>4
         DEF Store!Read, N, F, P, AbsNames, AbsFile, AbsFiles, AbsHandle, AbsOpen
    <2> QED BY <2>5
  <1>7. CASE n = 0 /\ from > flen
    <2>1. len = 0
      BY <1>1, <1>2, <1>7 DEF ToRead, SizeSub
    <2>2. <<>> \in [1 .. len -> ByteValues] /\ reply' = [ret |-> len, data |-> <<>>]
      BY <1>3, <1>7, <2>1 DEF Returns
    <2>3. AbsHandle' = [AbsHandle EXCEPT ![fh].pos = @ + len] /\ P > AbsFile[F].len
      BY <1>2, <1>4, <1>5, <1>7, <2>1 DEF P
    <2>4. \E data \in [1 .. len -> ByteValues] : reply' = [ret |-> len, data |-> data]
      BY <2>2
    <2>5. Store!ReadStale(fh, len)
      BY <1>4, <2>3, <2>4
         DEF Store!ReadStale, F, P, AbsNames, AbsFile, AbsFiles, AbsHandle, AbsOpen
    <2> QED BY <2>5
  <1>8. CASE n # 0
    <2>1. flen = 0
      <3>1. open_file_table[fh].of_inumber \in Taken
        BY <1>0, IssuedTypes
      <3>2. flen > 0 => open_file_table[fh].of_inumber \in Occupied
        BY <1>1, <3>1 DEF Occupied, Node
      <3> QED BY <1>0, <1>2, <1>3, <1>8, <3>2 DEF IInv, BlockAccounting, Blocks, Node
    <2>2. from > flen
      BY <1>1, <1>2, <1>8, <2>1 DEF ToRead, SizeSub
    <2>3. P > AbsFile[F].len /\ Returns(-1)
      BY <1>2, <1>3, <1>8, <2>2
    <2>4. Store!ReadStale(fh, len)
      BY <1>4, <2>3
         DEF Store!ReadStale, Store!Returns, Returns, F, P,
             AbsNames, AbsFile, AbsFiles, AbsHandle, AbsOpen
    <2> QED BY <2>4
  <1> QED BY <1>2, <1>6, <1>7, <1>8

----------------------------------------------------------------------------
(* Every step of the tables is a step of the store or one it does not see. *)
LEMMA StepMaps ==
  ASSUME RInv, Next
  PROVE  Store!Next /\ DirectoryPacked'
  <1>0. IInv /\ DirectoryPacked /\ ~crashed
    BY DEF RInv, Next
  <1>1. ASSUME NEW path \in Paths, NEW flags, TfsOpen(path, flags)
        PROVE  Store!Next /\ DirectoryPacked'
    <2>1. \/ \E trunc, append \in BOOLEAN : Store!Open(path, trunc, append)
          \/ Store!Create(path) \/ Store!Refuse(path)
      <3>1. CASE OpenExisting(path, flags)
        <4>0. ASSUME NEW name PROVE \E is \in BOOLEAN : is = (name \in flags)
          <5>1. CASE name \in flags
            <6>1. TRUE = (name \in flags)
              BY <5>1
            <6> QED BY <6>1, Zenon
          <5>2. CASE name \notin flags
            <6>1. FALSE = (name \in flags)
              BY <5>2
            <6> QED BY <6>1, Zenon
          <5> QED BY <5>1, <5>2
        <4>1. PICK trunc \in BOOLEAN, append \in BOOLEAN :
                trunc = ("TRUNC" \in flags) /\ append = ("APPEND" \in flags)
          BY <4>0, Zenon
        <4>2. Store!Open(path, trunc, append)
          BY <3>1, <4>1, OpenExistingMaps
        <4> QED BY <4>2
      <3> QED BY <1>1, <3>1, OpenCreateMaps, OpenRefusedMaps DEF TfsOpen
    <2>2. DirectoryPacked'
      BY <1>1, OpenExistingMaps, OpenCreateMaps, OpenRefusedMaps DEF TfsOpen
    <2> QED BY <1>0, <2>1, <2>2 DEF Store!Next
  <1>2. ASSUME NEW fh \in Issued \cup {-1}, TfsClose(fh)
        PROVE  Store!Next /\ DirectoryPacked'
    <2>1. fh \in Handles \cup {-1}
      BY DEF Issued
    <2>2. Store!Close(fh) /\ DirectoryPacked'
      BY <1>2, <2>1, CloseMaps
    <2> QED BY <1>0, <2>1, <2>2 DEF Store!Next
  <1>3. ASSUME NEW fh \in Issued, NEW byte \in Bytes, NEW len \in 0 .. MAX_LEN,
               TfsWrite(fh, byte, len)
        PROVE  Store!Next /\ DirectoryPacked'
    <2>1. fh \in Store!Issued
      BY <1>0, IssuedMaps
    <2>2. \/ Store!WriteBytes(fh, byte, len) \/ Store!WriteNothing(fh, len)
          \/ Store!WriteFull(fh) \/ Store!Overrun(fh)
      BY <1>3, WriteNothingMaps, WriteNoBlockMaps, WriteBytesMaps, WriteOverrunMaps DEF TfsWrite
    <2>3. dir' = dir
      BY <1>3 DEF TfsWrite, WriteNothing, WriteNoBlock, WriteBytes, WriteOverrun, disk
    <2> QED BY <1>0, <2>1, <2>2, <2>3 DEF Store!Next, DirectoryPacked
  <1>4. ASSUME NEW fh \in Issued, NEW len \in 0 .. MAX_LEN, TfsRead(fh, len)
        PROVE  Store!Next /\ DirectoryPacked'
    <2>1. fh \in Store!Issued
      BY <1>0, IssuedMaps
    <2>2. Store!Read(fh, len) \/ Store!ReadStale(fh, len)
      BY <1>4, ReadBytesMaps, ReadNothingMaps DEF TfsRead
    <2>3. dir' = dir
      BY <1>4 DEF TfsRead, ReadBytes, ReadNothing, disk
    <2> QED BY <1>0, <2>1, <2>2, <2>3 DEF Store!Next, DirectoryPacked
  <1> QED BY <1>1, <1>2, <1>3, <1>4 DEF Next

(* The tables of fs/state.c under the operations of fs/operations.c do     *)
(* what fs/operations.h says, and where they do not, what FileStore's      *)
(* ReadStale, Overrun and hole say.                                        *)
THEOREM StoreImplemented == Spec => ImplementsStore
  <1>1. Init => RInv /\ Store!Init
    BY InitInv, InitMaps DEF RInv
  <1>2. RInv /\ [Next]_vars => RInv'
    <2> SUFFICES ASSUME RInv, [Next]_vars PROVE RInv'
      OBVIOUS
    <2>1. IInv'
      BY StepInv DEF RInv
    <2>2. CASE Next
      BY <2>1, <2>2, StepMaps DEF RInv
    <2>3. CASE UNCHANGED vars
      BY <2>1, <2>3 DEF RInv, DirectoryPacked, vars, disk
    <2> QED BY <2>2, <2>3
  <1>3. RInv /\ [Next]_vars => [Store!Next]_(Store!vars)
    <2> SUFFICES ASSUME RInv, [Next]_vars PROVE [Store!Next]_(Store!vars)
      OBVIOUS
    <2>1. CASE Next
      BY <2>1, StepMaps
    <2>2. CASE UNCHANGED vars
      <3>1. UNCHANGED disk /\ UNCHANGED <<open_file_table, free_open_file_entries, reply, crashed>>
        BY <2>2 DEF vars, table
      <3> QED BY <3>1, DiskKept, HandlesKept
           DEF Store!vars, AbsNames, AbsFile, AbsFiles, AbsHandle, AbsOpen
    <2> QED BY <2>1, <2>2
  <1> QED BY <1>1, <1>2, <1>3, PTL DEF Spec, ImplementsStore, Store!Spec
===============================================================================
