CONSTANTS
  Threads = {t1, t2}
  NumSlots = 2
  BufferSize = 2
  Limit = 0
  PayloadSize = 1
  MaxCounter = 255
  MaxRecords = 3
  MaxArgs = 2
  None = None
SPECIFICATION FairSpec
INVARIANTS
  SlotsAccounted
  OutputInOrder
PROPERTIES
  FreeSlotFound
  CallsReturn
CHECK_DEADLOCK FALSE
