SPECIFICATION Spec
CONSTANTS
  Readers = {reader1}
  Awaiters = {awaiter1, awaiter2}
  Callbacks = {cb}
  Kinds = {"value"}
  MaxYields = 3
  MayFail = FALSE
  MayStop = FALSE
  MayShort = TRUE
PROPERTIES
  ReadersReleased
CHECK_DEADLOCK FALSE
