--------------------------- MODULE StoreRefinement ---------------------------
(***************************************************************************)
(* TecnicoFS implements FileStore: a file is an i-node other than the      *)
(* root's, its contents the first i_size bytes of its block; a name leads  *)
(* where the first matching entry of the directory leads.                  *)
(***************************************************************************)
EXTENDS TecnicoFS

AbstractFile(i) ==
  IF i \in Taken
  THEN [len |-> inode_table[i].i_size, bytes |-> Contents(i)]
  ELSE [len |-> 0, bytes |-> [k \in {} |-> 0]]

Store == INSTANCE FileStore WITH
  Files <- Inodes \ {ROOT_DIR_INUM},
  NoFile <- ROOT_DIR_INUM,
  MAX_FILE_SIZE <- BLOCK_SIZE,
  names <- [n \in Names |-> Lookup([abs |-> TRUE, sub |-> n])],
  files <- Taken \ {ROOT_DIR_INUM},
  file <- [i \in Inodes \ {ROOT_DIR_INUM} |-> AbstractFile(i)],
  handle <- [fh \in Handles |-> [file |-> open_file_table[fh].of_inumber,
                                 pos |-> open_file_table[fh].of_offset]],
  open <- Handles \ free_open_file_entries,
  dead <- crashed

(* Every step of the tables is a step of the store, or changes nothing the *)
(* store's callers can see: no order of opens, truncations, writes and     *)
(* closes makes a block, a free map or a directory entry show.             *)
ImplementsStore == Store!Spec
=============================================================================
