SPECIFICATION Spec
CONSTANTS
  Threads = {t1, t2}
  NoThread = NoThread
  INODE_TABLE_SIZE = 3
  DATA_BLOCKS = 5
  BLOCK_SIZE = 2
  MAX_OPEN_FILES = 2
  INDIRECT_ACCESS_BLOCK = 1
  SIZE_T = 1000
  Data = {100}
  Lengths = {1, 3}
  MAX_CALLS = 6
SYMMETRY Symmetry
INVARIANTS TypeOK BlocksOwned NoBlockLost WrittenSoFar ReadSoFar
PROPERTIES FramedWrites WriteSizes
CHECK_DEADLOCK FALSE
