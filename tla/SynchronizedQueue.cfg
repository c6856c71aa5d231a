CONSTANTS
  Senders = {s1, s2}
  MaxLength = 2
  MaxPushes = 3
  Reader = reader
  None = None
SPECIFICATION QueueFairSpec
INVARIANTS
  SignalMeansItem
PROPERTIES
  NothingOverlooked
  ItemEndsWait
CHECK_DEADLOCK FALSE
