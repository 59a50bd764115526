------------------------------ MODULE RoundTrip ------------------------------
(***************************************************************************)
(* lib/packet.js and lib/parser.js share no code, only a format: a packet  *)
(* createPacketBuffer has written is parsed, by the parser object that     *)
(* reads every other datagram too.                                         *)
(***************************************************************************)
EXTENDS OptionParser

CONSTANTS OptionSets, StaleBytes, Room

\* The values option c takes: addresses have four bytes, numbers their width,
\* a client identifier and a domain name two parts, of which the first is a
\* byte; a vendor option has a key.  A message type has a name or is 8.
\* Texts are ASCII, as toString('ascii') reads them: their bytes are below 128.
IsValue(c, v) ==
  /\ v \in Seq(Seq(0 .. 255))
  /\ c \in AddressOptions => Len(v) = 1 /\ Len(v[1]) \in {0, 4}
  /\ c \in NumberOptions => Len(v) = 1 /\ Len(v[1]) = Width(c)
  /\ c = 53 => v[1][1] <= 8
  /\ c \in ListOptions => \A k \in DOMAIN v : Len(v[k]) = 4
  /\ c \in TextOptions => Len(v) = 1 /\ v[1] \in Seq(0 .. 127)
  /\ c = ParameterRequestList => \A k \in DOMAIN v : Len(v[k]) = 1
  /\ c \in {ClientIdentifier, QualifiedDomainName} =>
       Len(v) = 2 /\ Len(v[1]) = 1
  /\ c = QualifiedDomainName => v[2] \in Seq(0 .. 127)
  /\ c = VendorOptions => \A k \in DOMAIN v : v[k] # <<>>

ASSUME WriterAssumption ==
  /\ \A o \in OptionSets :
       DOMAIN o \subseteq Handled /\ \A c \in DOMAIN o : IsValue(c, o[c])
  /\ StaleBytes \subseteq 0 .. 255
  /\ Room \in Nat /\ Room >= 60

VARIABLES made, options, todo, buf, i

Writer == INSTANCE OptionWriter

writerVars == <<made, options, todo, buf, i>>
allVars == <<vars, writerVars>>

Start == Init /\ Writer!Init

\* The datagram that is sent is the buffer that was returned.
Written == [short |-> FALSE, hlen |-> 6, body |-> buf]

Send ==
  /\ made = "returned" /\ stage = "idle" /\ Len(packets) < MaxDatagrams
  /\ \A k \in DOMAIN packets : packets[k].of # Written
  /\ Parse(Written)
  /\ UNCHANGED writerVars

\* The parser also reads datagrams that others have sent, before and after.
ReceiveOther == made = "returned" /\ Receive /\ UNCHANGED writerVars

Travel ==
  \/ Writer!Next /\ UNCHANGED vars
  \/ Send \/ ReceiveOther
  \/ Step /\ UNCHANGED writerVars

RoundTripSpec == Start /\ [][Travel]_allVars

-----------------------------------------------------------------------------

\* The value of option c of the k-th packet.
Read(k, c) ==
  LET Bytes(part) == IF part = Undefined THEN Undefined
                     ELSE SubSeq(buf, part.from - 239, part.to - 240)
      parts == packets[k].options[c].parts
  IN [n \in DOMAIN parts |-> Bytes(parts[n])]

\* What becomes of a value: an address of network 0, a message type without a
\* name and the type of a client identifier that has none are undefined, a
\* vendor option is read with its length.
Returned(c, v) ==
  [k \in DOMAIN v |->
     IF \/ c \in AddressOptions \cup ListOptions /\ v[k][1] = 0
        \/ c = 53 /\ v[k][1] \notin DHCPMessageType
        \/ c = ClientIdentifier /\ k = 1 /\ v[k][1] \notin ARPHardwareType
     THEN Undefined
     ELSE IF c = VendorOptions THEN Writer!Inner(v[k])
     ELSE v[k]]

\* The parser reads every option of a packet createPacketBuffer returned with
\* the value it was given, and no other; only values that count as false are
\* lost (an archType of 0, of a BIOS, is one), and the parts Returned names
\* undefined.  This holds for client identifiers of any type, for lists and
\* texts up to what a length byte can say, whatever the buffer contained
\* before, when options were too many for the buffer, and whatever the same
\* parser object has read before, or reads after it.
ReadsBack ==
  \A k \in DOMAIN packets :
    packets[k].of = Written /\ packets[k].state # "parsing" =>
      /\ packets[k].state = "returned"
      /\ DOMAIN packets[k].options =
           {c \in DOMAIN options : ~Writer!Falsy(c, options[c])}
      /\ \A c \in DOMAIN packets[k].options :
           Read(k, c) = Returned(c, options[c])
=============================================================================
