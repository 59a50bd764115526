\* Every datagram of up to four bytes of options, and two options of every
\* kind after each other, cut anywhere.
CONSTANTS
  Undefined = Undefined
  Datagrams <- SomeDatagrams
  MaxDatagrams = 1
SPECIFICATION FairSpec
\* Nothing more arrives.
CHECK_DEADLOCK FALSE
INVARIANTS
  Framed
  ValuesInFrame
PROPERTIES
  CursorAdvances
  EveryParseEnds
