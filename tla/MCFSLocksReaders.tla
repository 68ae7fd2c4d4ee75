-------------------------- MODULE MCFSLocksReaders --------------------------
(* An instance of FSLocks for liveness: two threads whose reads of a file  *)
(* may overlap, and one that opens and writes files. It begins when two    *)
(* files have been created and opened, which fill the directory.           *)
EXTENDS FSLocks

CONSTANTS Reader, ReaderCloser, Writer, File1, File2

Roles == [t \in Threads |->
  CASE t = Reader       -> {"read"}
    [] t = ReaderCloser -> {"read", "close"}
    [] t = Writer       -> {"write", "open"}]

TwoFilesOpened ==
  /\ inode_table_lock = Free /\ open_file_table_lock = Free
  /\ file_lock = [fh \in Handles |-> Free]
  /\ rwl = [i \in Inodes |-> Lock!NewLock]
  /\ freeinode_ts = Inodes \ {1, 2}
  /\ dir = <<[name |-> File1, inum |-> 1], [name |-> File2, inum |-> 2]>>
  /\ of_inumber = [fh \in Handles |-> fh + 1]
  /\ free_open_file_entries = {}
  /\ call = [t \in Threads |-> Idle]

ReadersSpec == TwoFilesOpened /\ [][Next]_vars /\ Fairness
============================================================================
