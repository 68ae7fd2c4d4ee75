SPECIFICATION ReadersSpec
CONSTANTS
  Reader = reader
  ReaderCloser = closer
  Writer = writer
  File1 = f
  File2 = g
  Threads = {reader, closer, writer}
  NoThread = NoThread
  INODE_TABLE_SIZE = 4
  MAX_OPEN_FILES = 2
  MAX_DIR_ENTRIES = 2
  Names = {f, g, h}
  Operations <- Roles
  Flags = {{"CREAT"}}
  MAX_OFF = 1
PROPERTIES CallsReturn
CHECK_DEADLOCK FALSE
