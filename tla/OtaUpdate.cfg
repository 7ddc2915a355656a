SPECIFICATION FairSpec
CONSTANTS
  ble = ble
  http = http
  Chunk = {"x", "y", "z"}
  Images <- Firmware
  Capacity = 3
  MaxUploads = 2
  Hasty = FALSE
  GivesLength = TRUE
  None = None
  Erased = Erased
  Garbage = Garbage
INVARIANTS
  BootsWhatWasAnnounced
  NoOrphan
PROPERTIES
  SessionsEnd
  HandlersReturn
