SPECIFICATION Spec
CONSTANTS
  Threads = {t1, t2}
  NoThread = NoThread
  INODE_TABLE_SIZE = 4
  MAX_OPEN_FILES = 2
  MAX_DIR_ENTRIES = 2
  Names = {f, g}
  Operations <- Every
  Flags = {{"CREAT"}, {"CREAT", "TRUNC"}}
  MAX_OFF = 1
INVARIANTS TypeOK FileExclusive DirectoryAgrees LocksReturned
PROPERTIES HandlesStable
SYMMETRY Symmetry
CHECK_DEADLOCK FALSE
