\* Options of every kind, written and read back, before or after another
\* datagram.
CONSTANTS
  Undefined = Undefined
  Datagrams <- OtherDatagrams
  MaxDatagrams = 2
  OptionSets <- SomeOptions
  StaleBytes = {0, 171}
  Room = 300
SPECIFICATION RoundTripSpec
\* The packet has been read, or was refused.
CHECK_DEADLOCK FALSE
INVARIANT ReadsBack
PROPERTY PacketsKeepStill
