------------------------- MODULE PacketBufferProofs -------------------------
(***************************************************************************)
(* The layout of an acknowledgement, for all lengths of its two names.     *)
(***************************************************************************)
EXTENDS PacketBuffer, Integers, TLAPS

\* Until the file name is written, nothing beyond the cursor has been.
Ahead ==
  stage \in {"header", "sname", "fname"} =>
    \A b \in Byte : i <= b => p[b] = "stale"

\* LaidOut is inductive once the lengths are known to have been checked.
IInv ==
  /\ sname \in Nat /\ fname \in Nat \ {0}
  /\ stage \notin {"header", "thrown"} => sname <= 64 /\ fname <= 128
  /\ Ahead
  /\ LaidOut

\* An empty buffer is laid out as far as the cursor has come.
LEMMA InitIInv == Init => IInv
BY PacketAssumption DEF Init, IInv, Ahead, LaidOut, Cursor, Stages, Byte

\* One field: the bytes before it stay, its own are as the format says.
LEMMA FieldKeeps ==
  ASSUME IInv, packet' = packet, sname <= 64, fname <= 128,
         stage' \in Stages \ {"header", "thrown"}, i' = Cursor',
         \A b \in Byte : b < i' => p'[b] = Expected(b), Ahead'
  PROVE  IInv'
BY DEF packet, IInv, LaidOut, Expected, FileField, HardwareType

\* Each write leaves the cursor where the next field starts and the bytes
\* behind it as the format says.
LEMMA NextIInv == IInv /\ [Next]_vars => IInv'
<1> SUFFICES ASSUME IInv, [Next]_vars PROVE IInv'
  OBVIOUS
<1>1. CASE TooLong
  BY <1>1, PacketAssumption
  DEF packet, TooLong, IInv, Ahead, LaidOut, Cursor, Stages, Byte
<1>2. CASE WriteHeader
  <2>1. /\ i = 0 /\ i' = 44 /\ stage' = "sname"
        /\ UNCHANGED packet /\ sname <= 64 /\ fname <= 128
        /\ sname \in Nat /\ fname \in Nat \ {0}
    BY <1>2 DEF WriteHeader, Put, IInv, LaidOut, Cursor
  <2>2. ASSUME NEW b \in Byte, b < i' PROVE p'[b] = Expected(b)
    BY <1>2, <2>1, <2>2, PacketAssumption
    DEF WriteHeader, Put, Write, IInv, LaidOut, Expected, FileField,
        HardwareType, Byte
  <2>3. i' = Cursor' BY <2>1 DEF Cursor, packet
  <2>4. Ahead'
    BY <1>2, <2>1, PacketAssumption
    DEF WriteHeader, Put, Write, IInv, Ahead, LaidOut, Byte
  <2>5. QED BY <2>1, <2>2, <2>3, <2>4, FieldKeeps DEF Stages
<1>3. CASE WriteServerName
  <2>1. /\ i = 44 /\ i' = 108 /\ stage' = "fname"
        /\ UNCHANGED packet /\ sname <= 64 /\ fname <= 128
        /\ sname \in Nat /\ fname \in Nat \ {0}
    BY <1>3 DEF WriteServerName, IInv, LaidOut, Cursor
  <2>2. ASSUME NEW b \in Byte, b < i' PROVE p'[b] = Expected(b)
    BY <1>3, <2>1, <2>2, PacketAssumption
    DEF WriteServerName, Write, IInv, LaidOut, Expected, FileField,
        HardwareType, Byte
  <2>3. i' = Cursor' BY <2>1 DEF Cursor, packet
  <2>4. Ahead'
    BY <1>3, <2>1, PacketAssumption
    DEF WriteServerName, Write, IInv, Ahead, LaidOut, Byte
  <2>5. QED BY <2>1, <2>2, <2>3, <2>4, FieldKeeps DEF Stages
<1>4. CASE WriteFileName
  <2>1. /\ i = 108 /\ i' = 236 /\ stage' = "magic"
        /\ UNCHANGED packet /\ sname <= 64 /\ fname <= 128
        /\ sname \in Nat /\ fname \in Nat \ {0}
    BY <1>4 DEF WriteFileName, IInv, LaidOut, Cursor
  <2>2. ASSUME NEW b \in Byte, b < i' PROVE p'[b] = Expected(b)
    BY <1>4, <2>1, <2>2, PacketAssumption
    DEF WriteFileName, Write, IInv, Ahead, LaidOut, Expected, FileField,
        HardwareType, Byte
  <2>3. i' = Cursor' BY <2>1 DEF Cursor, packet
  <2>4. QED BY <2>1, <2>2, <2>3, FieldKeeps DEF Stages, Ahead
<1>5. CASE WriteMagic
  <2>1. /\ i = 236 /\ i' = 240 /\ stage' = "type"
        /\ UNCHANGED packet /\ sname <= 64 /\ fname <= 128
        /\ sname \in Nat /\ fname \in Nat \ {0}
    BY <1>5 DEF WriteMagic, Put, IInv, LaidOut, Cursor
  <2>2. ASSUME NEW b \in Byte, b < i' PROVE p'[b] = Expected(b)
    BY <1>5, <2>1, <2>2, PacketAssumption
    DEF WriteMagic, Put, Write, IInv, LaidOut, Expected, FileField,
        HardwareType, Byte
  <2>3. i' = Cursor' BY <2>1 DEF Cursor, packet
  <2>4. QED BY <2>1, <2>2, <2>3, FieldKeeps DEF Stages, Ahead
<1>6. CASE WriteMessageType
  <2>1. /\ i = 240 /\ i' = 243 /\ stage' = "file"
        /\ UNCHANGED packet /\ sname <= 64 /\ fname <= 128
        /\ sname \in Nat /\ fname \in Nat \ {0}
    BY <1>6 DEF WriteMessageType, Put, IInv, LaidOut, Cursor
  <2>2. ASSUME NEW b \in Byte, b < i' PROVE p'[b] = Expected(b)
    BY <1>6, <2>1, <2>2, PacketAssumption
    DEF WriteMessageType, Put, Write, IInv, LaidOut, Expected, FileField,
        HardwareType, Byte
  <2>3. i' = Cursor' BY <2>1 DEF Cursor, packet
  <2>4. QED BY <2>1, <2>2, <2>3, FieldKeeps DEF Stages, Ahead
<1>7. CASE WriteBootFileName
  <2>1. /\ i = 243 /\ i' = 246 + fname /\ stage' = "end"
        /\ UNCHANGED packet /\ sname <= 64 /\ fname <= 128
        /\ sname \in Nat /\ fname \in Nat \ {0}
    BY <1>7 DEF WriteBootFileName, Put, IInv, LaidOut, Cursor
  <2>2. ASSUME NEW b \in Byte, b < i' PROVE p'[b] = Expected(b)
    BY <1>7, <2>1, <2>2, PacketAssumption
    DEF WriteBootFileName, Put, Write, IInv, LaidOut, Expected, FileField,
        HardwareType, Byte
  <2>3. i' = Cursor' BY <2>1 DEF Cursor, packet
  <2>4. QED BY <2>1, <2>2, <2>3, FieldKeeps DEF Stages, Ahead
<1>8. CASE WriteEnd
  <2>1. /\ i = 246 + fname /\ i' = 248 + fname /\ stage' = "fill"
        /\ UNCHANGED packet /\ sname <= 64 /\ fname <= 128
        /\ sname \in Nat /\ fname \in Nat \ {0}
    BY <1>8 DEF WriteEnd, IInv, LaidOut, Cursor
  <2>2. ASSUME NEW b \in Byte, b < i' PROVE p'[b] = Expected(b)
    BY <1>8, <2>1, <2>2, PacketAssumption
    DEF WriteEnd, Write, IInv, LaidOut, Expected, FileField,
        HardwareType, Byte
  <2>3. i' = Cursor' BY <2>1 DEF Cursor, packet
  <2>4. QED BY <2>1, <2>2, <2>3, FieldKeeps DEF Stages, Ahead
<1>9. CASE Fill
  <2>1. /\ i = 248 + fname /\ stage' = "returned"
        /\ UNCHANGED packet /\ sname <= 64 /\ fname <= 128
        /\ sname \in Nat /\ fname \in Nat \ {0}
    BY <1>9 DEF Fill, IInv, LaidOut, Cursor
  <2>2. i' = IF fname > 52 THEN 248 + fname ELSE 300
    BY <1>9, <2>1 DEF Fill
  <2>3. ASSUME NEW b \in Byte, b < i' PROVE p'[b] = Expected(b)
    BY <1>9, <2>1, <2>2, <2>3, PacketAssumption
    DEF Fill, Write, IInv, LaidOut, Expected, FileField,
        HardwareType, Byte
  <2>4. i' = Cursor' BY <2>1, <2>2 DEF Cursor, packet
  <2>5. QED BY <2>1, <2>3, <2>4, FieldKeeps DEF Stages, Ahead
<1>10. CASE UNCHANGED vars
  BY <1>10 DEF vars, packet, IInv, Ahead, LaidOut, Cursor, Expected, FileField,
       HardwareType
<1>11. QED
  BY <1>1, <1>2, <1>3, <1>4, <1>5, <1>6, <1>7, <1>8, <1>9, <1>10 DEF Next

\* Every field is where the parser looks for it, whatever the names' lengths.
THEOREM Layout == Spec => []LaidOut
<1>1. IInv => LaidOut BY DEF IInv
<1>2. QED BY <1>1, InitIInv, NextIInv, PTL DEF Spec

\* The two names are followed by a zero wherever their field has room for one.
THEOREM Termination == Spec => []NamesTerminated
<1>1. IInv => NamesTerminated
  BY PacketAssumption
  DEF IInv, LaidOut, NamesTerminated, Cursor, Expected, FileField, Byte
<1>2. QED BY <1>1, InitIInv, NextIInv, PTL DEF Spec

\* The padding of the file field falls short of a name shorter than the
\* server's, and of no other: what the length of the wrong name does.
THEOREM PaddedUnlessShorter ==
  Spec => [](stage = "returned" => (FileNamePadded <=> sname <= fname))
<1>1. ASSUME IInv, stage = "returned"
      PROVE  FileNamePadded <=> sname <= fname
  <2>1. /\ sname \in Nat /\ fname \in Nat \ {0} /\ sname <= 64
        /\ i \in Int /\ i >= 236
        /\ \A b \in Byte : b < i => p[b] = Expected(b)
    BY <1>1 DEF IInv, LaidOut, Cursor
  <2>2. CASE sname <= fname
    <3>1. ASSUME NEW b \in 108 + fname .. 235 PROVE p[b] = "zero"
      <4>1. b \in Byte /\ b < i /\ b >= 108 + sname /\ b < 236 + fname - sname
        BY <2>1, <2>2, PacketAssumption DEF Byte
      <4>2. p[b] = Expected(b) BY <2>1, <4>1
      <4>3. b \in Int /\ 108 + fname <= b /\ b < 236 BY <2>1
      <4>4. QED BY <2>1, <4>1, <4>2, <4>3 DEF Expected, FileField
    <3>2. QED BY <1>1, <2>2, <3>1 DEF FileNamePadded
  <2>3. CASE sname > fname
    <3>1. 235 \in 108 + fname .. 235 /\ 235 \in Byte
      BY <2>1, <2>3, PacketAssumption DEF Byte
    <3>2. p[235] = Expected(235)
      <4>1. 235 < i BY <2>1
      <4>2. QED BY <2>1, <3>1, <4>1
    <3>3. Expected(235) = "stale"
      BY <2>1, <2>3 DEF Expected, FileField
    <3>4. QED BY <1>1, <2>1, <2>3, <3>1, <3>2, <3>3 DEF FileNamePadded
  <2>4. QED BY <2>1, <2>2, <2>3
<1>2. QED BY <1>1, InitIInv, NextIInv, PTL DEF Spec
=============================================================================
