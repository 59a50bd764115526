\* createPacketBuffer on the names of real boot files.
CONSTANTS
  ServerNameLengths <- RealAddressLengths
  FileNameLengths <- BootFileLengths
  HardwareTypes <- Types
  BufferSize = 400
SPECIFICATION Spec
\* createPacketBuffer returns or throws, and is over.
CHECK_DEADLOCK FALSE
INVARIANT FileNamePadded
