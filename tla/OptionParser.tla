---------------------------- MODULE OptionParser ----------------------------
(***************************************************************************)
(* lib/parser.js: one parser object reads every datagram.  parse builds a  *)
(* packet from the header and walks over the options with a cursor that    *)
(* each case of its switch moves by arithmetic of its own.                 *)
(*                                                                         *)
(* A value is kept as the parts of the datagram it was read from, [from,   *)
(* to) in offsets of the source; "at" is where its option starts.  parse   *)
(* never yields, so one action per option loses nothing.                   *)
(***************************************************************************)
EXTENDS DHCPOptions, Sequences

CONSTANTS
  Datagrams,    \* what may arrive
  Undefined,
  MaxDatagrams  \* bound: packets parsed

\* short: it ends before the options; body: its bytes from offset 240.
Datagram == [short : BOOLEAN, hlen : 0 .. 255, body : Seq(0 .. 255)]

ASSUME ParserAssumption ==
  /\ Datagrams \subseteq Datagram
  /\ Undefined \notin [from : Int, to : Int]
  /\ MaxDatagrams \in Nat

VARIABLES
  stage,     \* idle, at the switch, or in the loop of one of its cases
  datagram,
  offset,
  len,       \* this.len
  at,        \* where the last code was read, 0 before the first
  packets    \* the packets parse has made; this.packet is the last

vars == <<stage, datagram, offset, len, at, packets>>

End == 240 + Len(datagram.body)
Byte(o) == datagram.body[o - 239]

\* Empty when to is not beyond from, as in toString.
Part(from, to) == [from |-> from, to |-> to]

\* Where the option at o ends by its own length.
EndOf(o) == IF Byte(o) \in {0, 255} THEN o + 1 ELSE o + 2 + Byte(o + 1)

Init ==
  /\ stage = "idle"
  /\ datagram = Undefined
  /\ offset = 0 /\ len = 0 /\ at = 0
  /\ packets = <<>>

-----------------------------------------------------------------------------
(* The header. *)

\* The magic cookie ends at 240; the hardware address has hlen bytes from 28.
HeaderReadable(d) == ~d.short /\ 28 + d.hlen <= 240 + Len(d.body)

NewPacket(d) ==
  [of |-> d, state |-> "parsing", options |-> [c \in {} |-> Undefined]]

\* Mutant: the parser has one packet, cleared for each datagram.
ParseInPlace(d) ==
  /\ HeaderReadable(d)
  /\ stage' = "options" /\ datagram' = d
  /\ offset' = 240 /\ len' = 0 /\ at' = 0
  /\ packets' = IF packets = <<>> THEN <<NewPacket(d)>>
                ELSE [packets EXCEPT ![Len(packets)] = NewPacket(d)]

Parse(d) ==
  /\ HeaderReadable(d)
  /\ stage' = "options" /\ datagram' = d
  /\ offset' = 240 /\ len' = 0 /\ at' = 0
  /\ packets' = Append(packets, NewPacket(d))

\* A read past the end throws before there is a packet.
RejectHeader(d) ==
  /\ ~HeaderReadable(d)
  /\ datagram' = d /\ len' = 0
  /\ UNCHANGED <<stage, offset, at, packets>>

Receive ==
  /\ stage = "idle" /\ Len(packets) < MaxDatagrams
  /\ \E d \in Datagrams : Parse(d) \/ RejectHeader(d)

-----------------------------------------------------------------------------
(* The options. *)

Current == Len(packets)

Store(c, parts) ==
  packets' = [packets EXCEPT ![Current].options =
    [x \in DOMAIN @ \cup {c} |->
       IF x = c THEN [at |-> at', parts |-> parts] ELSE @[x]]]

Push(c, part) ==
  packets' = [packets EXCEPT ![Current].options[c].parts = Append(@, part)]

\* The condition of the loop over the options.
More == (at # 0 => Byte(at) # 255) /\ offset < End

\* readIpRaw: of an address that starts with 0 nothing else is read.
IpReadable(o) == o < End /\ (Byte(o) = 0 \/ o + 4 <= End)
Ip(o) == IF Byte(o) = 0 THEN Undefined ELSE Part(o, o + 4)

\* What is missing of a text at the end of the datagram is left out.
Text(from, to) == Part(from, IF to < End THEN to ELSE End)

\* No read of the option at the cursor passes the end, and no assertion on
\* its length or value fails; o is where its value starts.
Readable ==
  LET c == Byte(offset)
      n == Byte(offset + 1)
      o == offset + 2
  IN c \notin {0, 255} =>
       /\ offset + 1 < End
       /\ c \in AddressOptions => n = 4 /\ IpReadable(o)
       /\ c \in NumberOptions => n = Width(c) /\ o + n <= End
       /\ c = 53 => Byte(o) \in 1 .. 8
       /\ c \in ListOptions => n % 4 = 0
       /\ c = ClientIdentifier => o < End /\ o + n <= End
       /\ c = QualifiedDomainName => o < End

Option(codes) ==
  /\ stage = "options" /\ More
  /\ Byte(offset) \in codes /\ Readable
  /\ at' = offset
  /\ UNCHANGED datagram

\* A case that reads its value in one go: the length, and the parts.
ReadParts(codes, parts) ==
  /\ Option(codes)
  /\ Store(Byte(offset), parts)
  /\ len' = Byte(offset + 1)
  /\ offset' = offset + 2 + len'
  /\ UNCHANGED stage

\* Mutant: `continue' comes before the cursor has moved.
SkipByteBefore ==
  /\ Option({0, 255})
  /\ offset' = IF Byte(offset) = 0 THEN offset ELSE offset + 1
  /\ UNCHANGED <<stage, len, packets>>

\* Padding, and the end option.
SkipByte ==
  /\ Option({0, 255})
  /\ offset' = offset + 1
  /\ UNCHANGED <<stage, len, packets>>

ReadIp == ReadParts(AddressOptions, <<Ip(offset + 2)>>)

\* A message type of 8 passes the assertion and has no name.
ReadNumber ==
  LET o == offset + 2
  IN ReadParts(NumberOptions,
       IF Byte(offset) = 53 /\ Byte(o) \notin DHCPMessageType
       THEN <<Undefined>> ELSE <<Part(o, o + Width(Byte(offset)))>>)

\* Mutant: the end of the text is counted as if it belonged to it.
ReadStringInclusive ==
  ReadParts(TextOptions, <<Text(offset + 2, offset + 3 + Byte(offset + 1))>>)

ReadString ==
  ReadParts(TextOptions, <<Text(offset + 2, offset + 2 + Byte(offset + 1))>>)

\* The type is read whatever the length, and the address is what is left.
\* What is stored is the type's name: of 0 and of 10 to 255 there is none.
ReadClientIdentifier ==
  LET o == offset + 2
      type == IF Byte(o) \in ARPHardwareType THEN Part(o, o + 1) ELSE Undefined
  IN ReadParts({ClientIdentifier}, <<type, Part(o + 1, o + Byte(offset + 1))>>)

\* Mutant: the cursor moves by the name's length, as if the flags were no
\* part of the option.
ReadDomainNameShort ==
  LET o == offset + 2
      n == Byte(offset + 1)
  IN /\ Option({QualifiedDomainName})
     /\ Store(81, <<Part(o, o + 1), Text(o + 3, o + n)>>)
     /\ len' = n
     /\ offset' = IF n < 3 THEN o ELSE o + n - 3
     /\ UNCHANGED stage

\* Flags, two bytes passed over, and the name.
ReadDomainName ==
  LET o == offset + 2
  IN ReadParts({QualifiedDomainName}, <<Part(o, o + 1), Text(o + 3, o + Byte(offset + 1))>>)

\* Mutant: the length is read as a signed byte.
SkipOptionSigned ==
  /\ Option((0 .. 255) \ (Handled \cup {0, 255}))
  /\ len' = IF Byte(offset + 1) < 128 THEN Byte(offset + 1)
            ELSE Byte(offset + 1) - 256
  /\ offset' = offset + 2 + len'
  /\ UNCHANGED <<stage, packets>>

SkipOption ==
  /\ Option((0 .. 255) \ (Handled \cup {0, 255}))
  /\ len' = Byte(offset + 1)
  /\ offset' = offset + 2 + len'
  /\ UNCHANGED <<stage, packets>>

\* The cases with a loop; len is what is left of the option.
BeginLoop(codes, loop) ==
  /\ Option(codes)
  /\ Store(Byte(offset), <<>>)
  /\ len' = Byte(offset + 1)
  /\ offset' = offset + 2
  /\ stage' = IF len' > 0 THEN loop ELSE "options"

BeginList   == BeginLoop(ListOptions, "addresses")
BeginBytes  == BeginLoop({ParameterRequestList}, "bytes")
BeginVendor == BeginLoop({VendorOptions}, "vendor")

Iterate(loop, readable, n, part) ==
  /\ stage = loop /\ readable
  /\ Push(Byte(at), part)
  /\ offset' = offset + n /\ len' = len - n
  /\ stage' = IF len' > 0 THEN loop ELSE "options"
  /\ UNCHANGED <<datagram, at>>

NextAddress == Iterate("addresses", IpReadable(offset), 4, Ip(offset))

\* (The count ends at -1, which nothing reads.)
NextByte == Iterate("bytes", offset < End, 1, Part(offset, offset + 1))

\* Nothing keeps an inner option within the outer one.  What the datagram
\* does not hold of it is what the new Buffer happened to contain.
NextVendorOption ==
  LET n == 2 + Byte(offset + 1)
  IN Iterate("vendor", offset + 1 < End, n, Part(offset, offset + n))

-----------------------------------------------------------------------------

Finish(state) ==
  /\ stage' = "idle"
  /\ packets' = [packets EXCEPT ![Current].state = state]
  /\ UNCHANGED <<datagram, offset, len, at>>

Return == stage = "options" /\ ~More /\ Finish("returned")

Throw ==
  /\ \/ stage = "options" /\ More /\ ~Readable
     \/ stage = "addresses" /\ ~IpReadable(offset)
     \/ stage = "bytes" /\ offset >= End
     \/ stage = "vendor" /\ offset + 1 >= End
  /\ Finish("thrown")

Step ==
  \/ SkipByte \/ ReadIp \/ ReadNumber \/ ReadString \/ ReadClientIdentifier
  \/ ReadDomainName \/ SkipOption
  \/ BeginList \/ BeginBytes \/ BeginVendor
  \/ NextAddress \/ NextByte \/ NextVendorOption
  \/ Return \/ Throw

Next == Receive \/ Step

Spec == Init /\ [][Next]_vars

\* parse runs to its end once it is called.
FairSpec == Spec /\ WF_vars(Step)

-----------------------------------------------------------------------------
(* Properties. *)

\* The cursor between two options.  Whatever case has read an option, the
\* cursor is where the option's own length says it ends, so the next code is
\* read from a code.  Of the vendor options this holds when the inner ones
\* fill the outer one; otherwise the cursor is past its end.
Framed ==
  stage = "options" /\ at # 0 =>
    IF Byte(at) = VendorOptions THEN offset >= EndOf(at) /\ (len = 0 => offset = EndOf(at))
    ELSE offset = EndOf(at)

\* Options that read a byte although they have none.
Overreads(o) == Byte(o) \in {ClientIdentifier, QualifiedDomainName} /\ Byte(o + 1) = 0

\* A part lies in the option at o: past its length, and not past its end but
\* for the vendor options and the overreads.
PartInFrame(o, part) ==
  /\ o + 2 <= part.from
  /\ \/ part.to <= EndOf(o)
     \/ Byte(o) = VendorOptions
     \/ Overreads(o) /\ part.to <= EndOf(o) + 1

InFrame(c, option) ==
  /\ Byte(option.at) = c
  /\ \A k \in DOMAIN option.parts :
       \/ option.parts[k] = Undefined
       \/ PartInFrame(option.at, option.parts[k])

\* A value of the packet under construction is made of bytes of its own
\* option, never of the one after it, but for two reads that do not look at
\* the length and the vendor options.
ValuesInFrame ==
  stage # "idle" =>
    \A c \in DOMAIN packets[Current].options :
      InFrame(c, packets[Current].options[c])

\* The chain of a datagram holds the packet long after parse has returned it;
\* the same parser object goes on to read others.  No later parse changes it.
PacketsKeepStill ==
  [][\A k \in DOMAIN packets : packets[k].state # "parsing" =>
       packets'[k] = packets[k]]_packets

\* Every pass through a loop moves the cursor on: what bounds the parse.
CursorAdvances ==
  [][stage # "idle" /\ stage' # "idle" => offset' > offset]_vars

\* A parse that has begun returns or throws, whatever the datagram holds.
EveryParseEnds == stage # "idle" ~> stage = "idle"
=============================================================================
