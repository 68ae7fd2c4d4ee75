SPECIFICATION Spec
CONSTANTS
  INODE_TABLE_SIZE = 3
  DATA_BLOCKS = 3
  BLOCK_SIZE = 2
  MAX_OPEN_FILES = 2
  MAX_DIR_ENTRIES = 2
  SIZE_T = 1000
  Names <- MCNames
  Empty = "Empty"
  Stored <- MCStored
  Paths <- MCPaths
  Bytes = {"a"}
  Junk = "junk"
  MAX_LEN = 2
  MAX_OFFSET = 3
INVARIANTS TypeOK BlockAccounting DirectoryExact HandlesExact
PROPERTIES FramedWrites ReadsDeliverContents ImplementsStore
CHECK_DEADLOCK FALSE
