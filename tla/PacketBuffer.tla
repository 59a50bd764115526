---------------------------- MODULE PacketBuffer ----------------------------
(***************************************************************************)
(* createPacketBuffer of lib/packet.js on a proxyDHCP acknowledgement: a   *)
(* cursor moves over a buffer of memory nobody has cleared, and every      *)
(* field is a write at the cursor.                                         *)
(*                                                                         *)
(* The contents of a byte are what was written there last: "stale" is what *)
(* `new Buffer(1500)' left in it.  sname and fname are the lengths of the  *)
(* two names, htype is the hardware type the datagram had; nothing else of *)
(* the packet changes the layout.                                          *)
(***************************************************************************)
EXTENDS DHCPOptions

CONSTANTS
  ServerNameLengths,  \* lengths of tftpBindAddress
  FileNameLengths,    \* lengths of a boot file name
  HardwareTypes,      \* hardware types of a datagram
  BufferSize

ASSUME PacketAssumption ==
  /\ ServerNameLengths \subseteq Nat
  /\ FileNameLengths \subseteq Nat \ {0}
  /\ BufferSize \in Nat /\ BufferSize >= 400

VARIABLES
  sname, fname,
  htype,  \* chaddr.type is its entry in the table, or undefined
  stage,  \* the field createPacketBuffer is about to write
  i,      \* its cursor
  p       \* its buffer

packet == <<sname, fname, htype>>
vars == <<packet, stage, i, p>>

Byte == 0 .. BufferSize - 1
Stages == {"header", "sname", "fname", "magic", "type", "file", "end", "fill",
           "returned", "thrown"}

\* n bytes written from offset at on.
Write(buf, at, n, what) ==
  [b \in Byte |-> IF at <= b /\ b < at + n THEN what ELSE buf[b]]

Init ==
  /\ sname \in ServerNameLengths
  /\ fname \in FileNameLengths
  /\ htype \in HardwareTypes
  /\ stage = "header"
  /\ i = 0
  /\ p = [b \in Byte |-> "stale"]

Put(from, to, length, what) ==
  /\ stage = from /\ stage' = to
  /\ p' = Write(p, i, length, what)
  /\ i' = i + length
  /\ UNCHANGED packet

TooLong ==
  /\ stage = "header"
  /\ sname > 64 \/ fname > 128
  /\ stage' = "thrown"
  /\ UNCHANGED <<packet, i, p>>

\* pkt.htype is a number here, so the type is chaddr's; the test for a missing
\* one compares typeof with undefined, and a missing one is written as 0.
HardwareType == IF htype \in ARPHardwareType THEN "header" ELSE "zero"

\* op to chaddr, and ten bytes of padding to the hardware address.
WriteHeader ==
  /\ sname <= 64 /\ fname <= 128
  /\ stage = "header" /\ stage' = "sname"
  /\ p' = Write(Write(p, i, 44, "header"), i + 1, 1, HardwareType)
  /\ i' = i + 44
  /\ UNCHANGED packet

\* Mutant: the padding is counted from the other field's length.
WriteServerNameSwapped ==
  /\ stage = "sname" /\ stage' = "fname"
  /\ p' = Write(Write(p, i, sname, "sname"), i + sname, 64 - fname, "zero")
  /\ i' = i + 64
  /\ UNCHANGED packet

WriteServerName ==
  /\ stage = "sname" /\ stage' = "fname"
  /\ p' = Write(Write(p, i, sname, "sname"), i + sname, 64 - sname, "zero")
  /\ i' = i + 64
  /\ UNCHANGED packet

\* Mutant: the cursor moves by the length that is padded.
WriteFileNameShort ==
  /\ stage = "fname" /\ stage' = "magic"
  /\ p' = Write(Write(p, i, fname, "fname"), i + fname, 128 - sname, "zero")
  /\ i' = i + fname + 128 - sname
  /\ UNCHANGED packet

\* The padding is as long as sname leaves it, not fname.
WriteFileName ==
  /\ stage = "fname" /\ stage' = "magic"
  /\ p' = Write(Write(p, i, fname, "fname"), i + fname, 128 - sname, "zero")
  /\ i' = i + 128
  /\ UNCHANGED packet

WriteMagic == Put("magic", "type", 4, "magic")

\* Options 53 and 67, the only two an acknowledgement has; 67 is the name and
\* a NUL.
WriteMessageType  == Put("type", "file", 3, "option")
WriteBootFileName == Put("file", "end", 2 + fname + 1, "option")

\* The end option, and padding: one byte at an odd cursor, two at an even one,
\* of which the cursor passes one.
WriteEnd ==
  /\ stage = "end" /\ stage' = "fill"
  /\ p' = Write(Write(p, i, 1, "end"), i + 1, IF i % 2 = 0 THEN 1 ELSE 2, "zero")
  /\ i' = i + 2
  /\ UNCHANGED packet

\* Zeros up to 300 bytes; the buffer is cut at the cursor.
Fill ==
  /\ stage = "fill" /\ stage' = "returned"
  /\ \/ i < 300 /\ p' = Write(p, i, 300 - i, "zero") /\ i' = 300
     \/ i >= 300 /\ UNCHANGED <<i, p>>
  /\ UNCHANGED packet

Next ==
  \/ TooLong \/ WriteHeader \/ WriteServerName \/ WriteFileName \/ WriteMagic
  \/ WriteMessageType \/ WriteBootFileName \/ WriteEnd \/ Fill

Spec == Init /\ [][Next]_vars

-----------------------------------------------------------------------------
(* Properties. *)

\* Where the fields before a stage leave the cursor.
Cursor ==
  IF stage \in {"header", "thrown"} THEN 0
  ELSE IF stage = "sname" THEN 44
  ELSE IF stage = "fname" THEN 108
  ELSE IF stage = "magic" THEN 236
  ELSE IF stage = "type"  THEN 240
  ELSE IF stage = "file"  THEN 243
  ELSE IF stage = "end"   THEN 246 + fname
  ELSE IF stage = "fill"  THEN 248 + fname
  ELSE IF fname > 52 THEN 248 + fname ELSE 300

\* What a byte the cursor has passed holds.  The file field: its name, zeros,
\* and what the padding does not reach.
FileField(b) ==
  IF b < 108 + fname THEN "fname"
  ELSE IF b < 236 + fname - sname THEN "zero" ELSE "stale"

Expected(b) ==
  IF b = 1 THEN HardwareType
  ELSE IF b < 44 THEN "header"
  ELSE IF b < 44 + sname THEN "sname"
  ELSE IF b < 108 THEN "zero"
  ELSE IF b < 236 THEN FileField(b)
  ELSE IF b < 240 THEN "magic"
  ELSE IF b < 246 + fname THEN "option"
  ELSE IF b = 246 + fname THEN "end"
  ELSE "zero"

\* createPacketBuffer puts every field where parser.parse looks for it
\* (lib/parser.js:112 to 115), with the name its own padding ends, and fills
\* the datagram to at least 300 bytes: for all lengths of the two names, the
\* whole buffer is as the format says, but for the end of the file field.
LaidOut ==
  /\ stage \in Stages
  /\ i = Cursor
  /\ \A b \in Byte : b < i => p[b] = Expected(b)

\* The names end where they should: what follows a name shorter than its
\* field is a zero, so parser.trimNulls, or the client, reads the name and no
\* byte more.  The padding of the file name may be too short, never empty.
NamesTerminated ==
  stage = "returned" =>
    /\ sname < 64 => p[44 + sname] = "zero"
    /\ fname < 128 => p[108 + fname] = "zero"

\* packet.js:188, "fill in the rest of the fname padding": no byte of the
\* field is left as it was found.
FileNamePadded ==
  stage = "returned" => \A b \in 108 + fname .. 235 : p[b] = "zero"

\* packet.js:141, "packet Type may be pkt.type or pkt.chaddr.type": where the
\* one is missing the other is written, and createProxyDhcpAck has set htype.
HardwareTypeGiven == stage = "returned" => p[1] = "header"
=============================================================================
