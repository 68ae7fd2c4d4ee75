SPECIFICATION Spec
CONSTANTS
  Threads = {t1, t2}
  NoThread = NoThread
  INODE_TABLE_SIZE = 3
  MAX_OPEN_FILES = 2
  MAX_DIR_ENTRIES = 2
  Names = {"f", "g"}
  Operations <- Creations
  Flags = {{"CREAT"}}
  MAX_OFF = 1
INVARIANTS NamesUnique
CHECK_DEADLOCK FALSE
