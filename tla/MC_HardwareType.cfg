\* createPacketBuffer on hardware types the table has and has not.
CONSTANTS
  ServerNameLengths <- RealAddressLengths
  FileNameLengths <- BootFileLengths
  HardwareTypes <- Types
  BufferSize = 400
SPECIFICATION Spec
\* createPacketBuffer returns or throws, and is over.
CHECK_DEADLOCK FALSE
INVARIANT HardwareTypeGiven
