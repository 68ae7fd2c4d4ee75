SPECIFICATION Spec
CONSTANTS
  Threads = {t1}
  NoThread = NoThread
  INODE_TABLE_SIZE = 3
  DATA_BLOCKS = 5
  BLOCK_SIZE = 2
  MAX_OPEN_FILES = 2
  INDIRECT_ACCESS_BLOCK = 1
  SIZE_T = 1000
  Data = {100, 101}
  Lengths = {3, 4}
  MAX_CALLS = 6
PROPERTIES WritesStayInFile
CHECK_DEADLOCK FALSE
