\* createPacketBuffer on names of every critical length.
CONSTANTS
  ServerNameLengths <- AddressLengths
  FileNameLengths <- NameLengths
  HardwareTypes <- Types
  BufferSize = 400
SPECIFICATION Spec
INVARIANTS
  LaidOut
  NamesTerminated
\* createPacketBuffer returns or throws, and is over.
CHECK_DEADLOCK FALSE
