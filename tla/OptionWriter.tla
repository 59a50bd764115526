---------------------------- MODULE OptionWriter ----------------------------
(***************************************************************************)
(* The options part of createPacketBuffer in lib/packet.js: one `if' per   *)
(* option in ascending order, each writing code, length and value at a     *)
(* cursor.  p.write... throws past the end of the buffer, copy drops what  *)
(* does not fit, and the cursor moves on all the same.                     *)
(*                                                                         *)
(* A value is the sequence of its parts, each a string of bytes: the       *)
(* addresses of a list, type and address of a client identifier, flags and *)
(* name, keys with their values; one part otherwise.                       *)
(***************************************************************************)
EXTENDS DHCPOptions, Sequences, SequencesExt

CONSTANTS
  OptionSets,  \* what pkt.options may be: options to their values
  StaleBytes,  \* what the memory of a new Buffer may hold
  Room         \* bytes of the buffer from offset 240

VARIABLES
  made,     \* writing, returned or thrown
  options,  \* pkt.options
  todo,     \* the options still to be written
  buf, i    \* the buffer, and the cursor, from offset 240

vars == <<made, options, todo, buf, i>>

\* What `if (pkt.options.x)' takes for an absent value.
Falsy(c, v) ==
  \/ c \in NumberOptions /\ \A k \in DOMAIN v[1] : v[1][k] = 0
  \/ c \in TextOptions \cup AddressOptions /\ v[1] = <<>>

Init ==
  /\ made = "writing"
  /\ options \in OptionSets
  /\ todo = {c \in DOMAIN options : ~Falsy(c, options[c])}
  /\ buf = <<>> /\ i = 0

\* The sums of the first numbers of a sequence.
Sums(s) ==
  LET sum[k \in 0 .. Len(s)] == IF k = 0 THEN 0 ELSE sum[k - 1] + s[k]
  IN sum

\* A key, a length and a value each, counted from the keys and values.
VendorLength(v) == Sums([k \in DOMAIN v |-> 1 + Len(v[k])])[Len(v)]

\* Mutant: the flags of a domain name are counted as the one byte written.
DeclaredFlagsOnce(c, v) ==
  IF c \in ListOptions THEN 4 * Len(v)
  ELSE IF c = VendorOptions THEN VendorLength(v)
  ELSE IF c = ParameterRequestList THEN Len(v)
  ELSE IF c = ClientIdentifier THEN Len(v[2]) + 1
  ELSE IF c = QualifiedDomainName THEN Len(v[2]) + 1
  ELSE Len(v[1])

\* The length that is written, however many bytes follow.
Declared(c, v) ==
  IF c \in ListOptions THEN 4 * Len(v)
  ELSE IF c = VendorOptions THEN VendorLength(v)
  ELSE IF c = ParameterRequestList THEN Len(v)
  ELSE IF c = ClientIdentifier THEN Len(v[2]) + 1
  ELSE IF c = QualifiedDomainName THEN Len(v[2]) + 3
  ELSE Len(v[1])

\* A vendor option: its key, the length of its value, and that.
Inner(x) == <<Head(x), Len(x) - 1>> \o Tail(x)

\* The bytes the cursor passes.  Two after the flags are never written.
Payload(c, v, stale) ==
  IF c = VendorOptions THEN FlattenSeq([k \in DOMAIN v |-> Inner(v[k])])
  ELSE IF c = QualifiedDomainName THEN v[1] \o stale \o v[2]
  ELSE FlattenSeq(v)

\* How many bytes of a value are written and not copied, up to the last one.
Strict(c, v) ==
  IF c \in NumberOptions THEN Width(c)
  ELSE IF c \in {ClientIdentifier, QualifiedDomainName} THEN 1
  ELSE IF c = VendorOptions /\ v # <<>> THEN Declared(c, v) - Len(Last(v)) + 1
  ELSE 0

\* Neither a length byte nor the option's own test refuses the value.
Fits(c, v) ==
  /\ Declared(c, v) <= 255
  /\ c = ClientIdentifier => Len(v[2]) = 6

WriteOption ==
  /\ made = "writing" /\ todo # {}
  /\ LET c == Min(todo)
         v == options[c]
     IN /\ Fits(c, v) /\ i + 2 + Strict(c, v) <= Room
        /\ \E stale \in [1 .. 2 -> StaleBytes] :
             LET bytes == <<c, Declared(c, v)>> \o Payload(c, v, stale)
             IN /\ buf' = SubSeq(buf \o bytes, 1, Min({Room, i + Len(bytes)}))
                /\ i' = i + Len(bytes)
        /\ todo' = todo \ {c}
  /\ UNCHANGED <<made, options>>

\* The end option and its padding, as long as they can be written, and zeros
\* up to 300 bytes.
EndFits == i + (IF i % 2 = 0 THEN 2 ELSE 3) <= Room

WriteEnd ==
  /\ made = "writing" /\ todo = {} /\ EndFits
  /\ made' = "returned"
  /\ i' = IF i + 2 > 60 THEN i + 2 ELSE 60
  /\ buf' = buf \o <<255>> \o [k \in 1 .. i' - i - 1 |-> 0]
  /\ UNCHANGED <<options, todo>>

Refuse ==
  /\ made = "writing"
  /\ IF todo = {} THEN ~EndFits
     ELSE LET c == Min(todo)
          IN ~Fits(c, options[c]) \/ i + 2 + Strict(c, options[c]) > Room
  /\ made' = "thrown"
  /\ UNCHANGED <<options, todo, buf, i>>

Next == WriteOption \/ WriteEnd \/ Refuse

Spec == Init /\ [][Next]_vars
=============================================================================
