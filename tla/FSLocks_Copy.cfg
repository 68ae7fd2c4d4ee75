SPECIFICATION FairSpec
CONSTANTS
  Threads = {t1, t2}
  NoThread = NoThread
  INODE_TABLE_SIZE = 3
  MAX_OPEN_FILES = 2
  MAX_DIR_ENTRIES = 1
  Names = {"f"}
  Operations <- Copies
  Flags = {{}, {"CREAT"}}
  MAX_OFF = 1
PROPERTIES CopiesReturn
CHECK_DEADLOCK FALSE
