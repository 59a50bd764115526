------------------------- MODULE OptionParserProofs -------------------------
(***************************************************************************)
(* The parser, for every datagram and any number of them: where the cursor *)
(* stands between two options and that it only moves on, that a finished   *)
(* packet stays as it is, and what bytes a value is made of.               *)
(***************************************************************************)
EXTENDS OptionParser, SequenceTheorems, TLAPS

Loops == {"addresses", "bytes", "vendor"}

\* A code has been read where the datagram has a byte, and its length too.
CodeRead ==
  /\ datagram \in Datagram
  /\ offset \in Int /\ offset >= 240 /\ len \in Int /\ at \in Int
  /\ at # 0 => /\ 240 <= at /\ at < offset /\ at < End
               /\ Byte(at) \notin {0, 255} => at + 1 < End

\* Within a loop the cursor and what is left of the option add up to its end.
InLoop ==
  /\ at # 0 /\ Byte(at) \notin {0, 255}
  /\ len > 0 /\ offset + len = EndOf(at)
  /\ stage = "addresses" => Byte(at) \in ListOptions /\ len % 4 = 0
  /\ stage = "bytes" => Byte(at) = ParameterRequestList
  /\ stage = "vendor" => Byte(at) = VendorOptions

\* After it, only the vendor options may have left the cursor further on.
AtSwitch ==
  at # 0 => IF Byte(at) = VendorOptions THEN offset + len = EndOf(at) /\ len <= 0
            ELSE offset = EndOf(at)

IInv ==
  /\ stage \in {"idle", "options"} \cup Loops
  /\ stage # "idle" => CodeRead
  /\ stage \in Loops => InLoop
  /\ stage = "options" => AtSwitch

\* What the cursor is on is a byte.
LEMMA BytesInDatagram ==
  ASSUME datagram \in Datagram, NEW o \in Int, 240 <= o, o < End
  PROVE  Byte(o) \in 0 .. 255
<1>1. datagram.body \in Seq(0 .. 255) BY DEF Datagram
<1>2. Len(datagram.body) \in Nat /\ o - 239 \in 1 .. Len(datagram.body)
  BY <1>1 DEF End
<1>3. QED BY <1>1, <1>2, ElementOfSeq DEF Byte

\* What a case of the switch knows of the option it is about to read.
LEMMA CaseKnows ==
  ASSUME IInv, NEW codes, Option(codes)
  PROVE  /\ stage = "options" /\ datagram' = datagram /\ at' = offset
         /\ datagram \in Datagram /\ offset \in Int /\ 240 <= offset
         /\ offset < End /\ End \in Int /\ len \in Int
         /\ Byte(offset) \in 0 .. 255 /\ Byte(offset) \in codes
         /\ Byte(offset) \notin {0, 255} =>
              offset + 1 < End /\ Byte(offset + 1) \in 0 .. 255
<1>1. stage = "options" /\ datagram \in Datagram /\ offset \in Int
      /\ 240 <= offset /\ offset < End /\ len \in Int
  BY DEF Option, More, IInv, CodeRead
<1>2. Byte(offset) \in 0 .. 255 BY <1>1, BytesInDatagram
<1>3. ASSUME Byte(offset) \notin {0, 255}
      PROVE  offset + 1 < End /\ Byte(offset + 1) \in 0 .. 255
  <2>1. offset + 1 < End BY <1>3 DEF Option, Readable
  <2>2. QED BY <1>1, <2>1, BytesInDatagram
<1>4. End \in Int
  <2>1. datagram.body \in Seq(0 .. 255) BY <1>1 DEF Datagram
  <2>2. QED BY <2>1 DEF End
<1>5. QED BY <1>1, <1>2, <1>3, <1>4 DEF Option

\* A case that ends where the option's length says keeps the invariant.
LEMMA WholeOptionKeeps ==
  ASSUME IInv, NEW codes, Option(codes), len' \in Int,
         stage' = "options", VendorOptions \notin codes,
         offset' = EndOf(offset)
  PROVE  IInv'
<1>1. EndOf(offset) \in Int /\ EndOf(offset) > offset
  BY CaseKnows DEF EndOf
<1>2. Byte(at)' = Byte(offset) /\ EndOf(at)' = EndOf(offset) /\ End' = End
  BY CaseKnows DEF Byte, EndOf, End
<1>3. CodeRead' BY <1>1, <1>2, CaseKnows DEF CodeRead
<1>4. AtSwitch' BY <1>2, CaseKnows DEF AtSwitch
<1>5. QED BY <1>3, <1>4 DEF IInv, Loops

\* So does the beginning of a loop.
LEMMA BeginLoopKeeps ==
  ASSUME IInv, NEW codes, NEW loop \in Loops, BeginLoop(codes, loop),
         loop = "addresses" => codes = ListOptions,
         loop = "bytes" => codes = {ParameterRequestList},
         loop = "vendor" => codes = {VendorOptions}
  PROVE  IInv' /\ offset' > offset
<1>1. Option(codes) BY DEF BeginLoop
<1>a. Byte(offset) \in codes BY <1>1, CaseKnows
<1>b. Byte(offset) \notin {0, 255}
  BY <1>a DEF Loops, ListOptions, ParameterRequestList, VendorOptions
<1>2. /\ Byte(offset) \notin {0, 255} /\ offset + 1 < End
      /\ len' = Byte(offset + 1) /\ len' \in 0 .. 255
      /\ offset' = offset + 2 /\ offset \in Int /\ datagram' = datagram
      /\ at' = offset
  BY <1>1, <1>b, CaseKnows DEF BeginLoop
<1>3. /\ Byte(at)' = Byte(offset) /\ EndOf(at)' = EndOf(offset) /\ End' = End
      /\ EndOf(offset) = offset + 2 + len'
  BY <1>2 DEF Byte, EndOf, End
<1>4. CodeRead' BY <1>1, <1>2, <1>3, CaseKnows DEF CodeRead
<1>5. CASE len' > 0
  <2>1. stage' = loop BY <1>5 DEF BeginLoop
  <2>2. InLoop'
    <3>1. Byte(offset) \in codes BY <1>1, CaseKnows
    <3>2. loop = "addresses" => len' % 4 = 0
      BY <1>1, <1>2, <3>1 DEF Option, Readable
    <3>3. at' # 0 /\ offset' + len' = EndOf(offset)
      BY <1>1, <1>2, <1>3, CaseKnows
    <3>4. QED BY <1>2, <1>3, <1>5, <2>1, <3>1, <3>2, <3>3 DEF InLoop
  <2>3. QED BY <1>2, <1>4, <2>1, <2>2 DEF IInv, Loops
<1>6. CASE ~(len' > 0)
  <2>1. stage' = "options" BY <1>6 DEF BeginLoop
  <2>2. len' = 0 /\ offset' = EndOf(offset) BY <1>2, <1>3, <1>6
  <2>3. AtSwitch' BY <1>2, <1>3, <2>2 DEF AtSwitch
  <2>4. QED BY <1>2, <1>4, <2>1, <2>3 DEF IInv, Loops
<1>7. QED BY <1>5, <1>6

\* And every pass of one: a list's because its length is a multiple of 4.
LEMMA IterateKeeps ==
  ASSUME IInv, NEW loop \in Loops, NEW n, NEW ok, NEW part,
         Iterate(loop, ok, n, part), n \in Int, n > 0,
         loop = "addresses" => n = 4, loop = "bytes" => n = 1
  PROVE  IInv' /\ offset' > offset
<1>1. /\ stage = loop /\ offset' = offset + n /\ len' = len - n
      /\ datagram' = datagram /\ at' = at
      /\ stage' = IF len' > 0 THEN loop ELSE "options"
  BY DEF Iterate
<1>2. CodeRead /\ InLoop BY <1>1 DEF IInv, Loops
<1>3. /\ Byte(at)' = Byte(at) /\ EndOf(at)' = EndOf(at) /\ End' = End
      /\ (Byte(at + 1))' = Byte(at + 1)
  BY <1>1 DEF Byte, EndOf, End
<1>4. /\ offset \in Int /\ len \in Int /\ len > 0 /\ offset' > offset
      /\ offset' \in Int /\ len' \in Int /\ offset' + len' = offset + len
  BY <1>1, <1>2 DEF CodeRead, InLoop
<1>5. CodeRead' BY <1>1, <1>2, <1>3, <1>4 DEF CodeRead
<1>6. loop = "addresses" => len' % 4 = 0
  BY <1>1, <1>2, <1>4 DEF InLoop
<1>7. loop # "vendor" => len' >= 0
  BY <1>1, <1>2, <1>4, <1>6 DEF InLoop, Loops
<1>8. CASE len' > 0
  <2>1. InLoop' BY <1>1, <1>2, <1>3, <1>4, <1>6, <1>8 DEF InLoop, Loops
  <2>2. QED BY <1>1, <1>4, <1>5, <1>8, <2>1 DEF IInv, Loops
<1>9. CASE ~(len' > 0)
  <2>1. Byte(at) = VendorOptions <=> loop = "vendor"
    BY <1>1, <1>2 DEF InLoop, Loops, ListOptions, ParameterRequestList,
       VendorOptions
  <2>2. AtSwitch' BY <1>1, <1>2, <1>3, <1>4, <1>7, <1>9, <2>1
    DEF InLoop, AtSwitch
  <2>3. QED BY <1>1, <1>4, <1>5, <1>9, <2>2 DEF IInv, Loops
<1>10. QED BY <1>8, <1>9

\* No packet and no code has been read.
LEMMA InitIInv == Init => IInv
BY DEF Init, IInv, Loops

\* A parse begins at the first option.
LEMMA ParseKeeps ==
  ASSUME NEW d \in Datagram, Parse(d) PROVE IInv'
BY DEF Parse, IInv, CodeRead, AtSwitch, Loops

\* Every step keeps the invariant, and a step within a parse moves the cursor.
LEMMA NextIInv ==
  IInv /\ [Next]_vars =>
    /\ IInv'
    /\ stage # "idle" /\ stage' # "idle" => offset' > offset \/ UNCHANGED vars
<1> SUFFICES ASSUME IInv, [Next]_vars
             PROVE  /\ IInv'
                    /\ stage # "idle" /\ stage' # "idle" =>
                         offset' > offset \/ UNCHANGED vars
  OBVIOUS
<1>1. CASE Receive
  <2>1. PICK d \in Datagrams : Parse(d) \/ RejectHeader(d)
    BY <1>1 DEF Receive
  <2>2. CASE Parse(d) BY <1>1, <2>2, ParseKeeps, ParserAssumption DEF Receive
  <2>3. CASE RejectHeader(d)
    BY <1>1, <2>3 DEF Receive, RejectHeader, IInv, Loops
  <2>4. QED BY <2>1, <2>2, <2>3
<1>2. ASSUME NEW codes, NEW parts, ReadParts(codes, parts),
             \A c \in codes : c \notin {0, 255, VendorOptions}
      PROVE  IInv' /\ offset' > offset
  <2>1. Option(codes) BY <1>2 DEF ReadParts
  <2>2. /\ Byte(offset) \notin {0, 255} /\ VendorOptions \notin codes
        /\ Byte(offset + 1) \in 0 .. 255 /\ offset \in Int /\ stage = "options"
    BY <1>2, <2>1, CaseKnows
  <2>3. /\ len' \in Int /\ offset' = EndOf(offset) /\ offset' > offset
        /\ stage' = "options"
    BY <1>2, <2>2 DEF ReadParts, EndOf
  <2>4. QED BY <2>1, <2>2, <2>3, WholeOptionKeeps
<1>3. CASE SkipByte
  <2>1. Option({0, 255}) BY <1>3 DEF SkipByte
  <2>2. /\ offset' = EndOf(offset) /\ offset' > offset /\ len' \in Int
        /\ stage' = "options"
    BY <1>3, <2>1, CaseKnows DEF SkipByte, EndOf
  <2>3. QED BY <2>1, <2>2, WholeOptionKeeps DEF VendorOptions
<1>4. CASE ReadIp BY <1>2, <1>4 DEF ReadIp, AddressOptions, VendorOptions
<1>5. CASE ReadNumber
  BY <1>2, <1>5 DEF ReadNumber, NumberOptions, VendorOptions
<1>6. CASE ReadString
  BY <1>2, <1>6 DEF ReadString, TextOptions, VendorOptions
<1>7. CASE ReadClientIdentifier
  BY <1>2, <1>7 DEF ReadClientIdentifier, ClientIdentifier, VendorOptions
<1>8. CASE ReadDomainName
  BY <1>2, <1>8 DEF ReadDomainName, QualifiedDomainName, VendorOptions
<1>9. CASE SkipOption
  <2> DEFINE codes == (0 .. 255) \ (Handled \cup {0, 255})
  <2>1. Option(codes) BY <1>9 DEF SkipOption
  <2>2. /\ VendorOptions \notin codes /\ Byte(offset) \notin {0, 255}
        /\ Byte(offset + 1) \in 0 .. 255 /\ offset \in Int /\ stage = "options"
    BY <2>1, CaseKnows DEF Handled
  <2>3. /\ len' \in Int /\ offset' = EndOf(offset) /\ offset' > offset
        /\ stage' = "options"
    BY <1>9, <2>2 DEF SkipOption, EndOf
  <2>4. QED BY <2>1, <2>2, <2>3, WholeOptionKeeps
<1>10. CASE BeginList \/ BeginBytes \/ BeginVendor
  BY <1>10, BeginLoopKeeps DEF BeginList, BeginBytes, BeginVendor, Loops
<1>11. CASE NextAddress \/ NextByte
  BY <1>11, IterateKeeps DEF NextAddress, NextByte, Loops
<1>12. CASE NextVendorOption
  <2> DEFINE n == 2 + Byte(offset + 1)
  <2>1. /\ Iterate("vendor", offset + 1 < End, n, Part(offset, offset + n))
        /\ stage = "vendor" /\ offset + 1 < End
    BY <1>12 DEF NextVendorOption, Iterate
  <2>2. datagram \in Datagram /\ offset \in Int /\ 240 <= offset + 1
    BY <2>1 DEF IInv, CodeRead
  <2>3. n \in Int /\ n > 0 BY <2>1, <2>2, BytesInDatagram
  <2> HIDE DEF n
  <2>4. QED BY <2>1, <2>3, IterateKeeps DEF Loops
<1>13. CASE Return \/ Throw
  BY <1>13 DEF Return, Throw, Finish, IInv, Loops
<1>14. CASE UNCHANGED vars
  BY <1>14 DEF vars, IInv, CodeRead, InLoop, AtSwitch, EndOf, Byte, End
<1>15. QED
  BY <1>1, <1>3, <1>4, <1>5, <1>6, <1>7, <1>8, <1>9, <1>10, <1>11, <1>12,
     <1>13, <1>14 DEF Next, Step

\* Whatever a case has read, the cursor stands at the end of its option, or
\* past it after vendor options that overran theirs.
THEOREM Framing == Spec => []Framed
<1>1. IInv => Framed
  <2> SUFFICES ASSUME IInv, stage = "options", at # 0
               PROVE  IF Byte(at) = VendorOptions
                      THEN offset >= EndOf(at) /\ (len = 0 => offset = EndOf(at))
                      ELSE offset = EndOf(at)
    BY DEF Framed
  <2>1. offset \in Int /\ len \in Int BY DEF IInv, CodeRead
  <2>2. CASE Byte(at) = VendorOptions
    <3>1. offset + len = EndOf(at) /\ len <= 0 BY <2>2 DEF IInv, AtSwitch
    <3>2. QED BY <2>1, <2>2, <3>1
  <2>3. CASE Byte(at) # VendorOptions BY <2>3 DEF IInv, AtSwitch
  <2>4. QED BY <2>2, <2>3
<1>2. QED BY <1>1, InitIInv, NextIInv, PTL DEF Spec

\* No pass of any loop leaves the cursor where it was: with the end of the
\* datagram as a bound, the argument that every parse ends.
THEOREM Advancing == Spec => CursorAdvances
<1>1. IInv /\ [Next]_vars =>
        [stage # "idle" /\ stage' # "idle" => offset' > offset]_vars
  BY NextIInv
<1>2. QED BY <1>1, InitIInv, NextIInv, PTL DEF Spec, CursorAdvances

-----------------------------------------------------------------------------
(* The packets. *)

IsPacket(q) == q = [of |-> q.of, state |-> q.state, options |-> q.options]

\* Of the packets only the last can be under construction, and it is as long
\* as parse runs.
OneInParse ==
  /\ packets \in Seq({packets[k] : k \in DOMAIN packets})
  /\ stage # "idle" => packets # <<>>
  /\ \A k \in DOMAIN packets :
       /\ IsPacket(packets[k])
       /\ packets[k].state = "parsing" <=> k = Current /\ stage # "idle"

\* What a step does to the packets of finished parses.
OthersStill ==
  \A k \in DOMAIN packets : packets[k].state # "parsing" =>
    k \in DOMAIN packets' /\ packets'[k] = packets[k]

\* A sequence is one of its own elements.
LEMMA SeqOfItsElements ==
  ASSUME NEW S, NEW s \in Seq(S)
  PROVE  s \in Seq({s[k] : k \in DOMAIN s})
<1> DEFINE T == {s[k] : k \in DOMAIN s}
<1>1. s = [k \in 1 .. Len(s) |-> s[k]] /\ Len(s) \in Nat BY LenProperties
<1>2. \A k \in 1 .. Len(s) : s[k] \in T BY LenProperties
<1> HIDE DEF T
<1>3. s \in [1 .. Len(s) -> T] BY <1>1, <1>2
<1>4. s \in Seq(T) BY <1>1, <1>3, SeqDef
<1>5. QED BY <1>4 DEF T

\* The object this.packet refers to.
LEMMA CurrentPacket ==
  ASSUME OneInParse, stage # "idle"
  PROVE  /\ Current \in DOMAIN packets /\ IsPacket(packets[Current])
         /\ DOMAIN packets = 1 .. Len(packets) /\ Len(packets) \in Nat
         /\ packets[Current].state = "parsing"
<1> DEFINE S == {packets[k] : k \in DOMAIN packets}
<1>1. packets \in Seq(S) /\ packets # <<>> BY DEF OneInParse
<1> HIDE DEF S
<1>2. /\ DOMAIN packets = 1 .. Len(packets) /\ Len(packets) \in Nat
      /\ Len(packets) # 0
  BY <1>1
<1>3. Current \in DOMAIN packets BY <1>2 DEF Current
<1>4. QED BY <1>2, <1>3 DEF OneInParse

\* Replacing it leaves the others alone.
LEMMA ReplaceKeeps ==
  ASSUME OneInParse, stage # "idle", NEW q, IsPacket(q),
         packets' = [packets EXCEPT ![Current] = q],
         q.state = "parsing" <=> stage' # "idle"
  PROVE  OneInParse' /\ OthersStill /\ packets'[Current] = q
         /\ Current' = Current
<1> DEFINE S == {packets[k] : k \in DOMAIN packets} \cup {q}
<1>1. /\ Current \in DOMAIN packets /\ Len(packets) \in Nat
      /\ DOMAIN packets = 1 .. Len(packets)
  BY CurrentPacket
<1>2. packets \in Seq(S) /\ q \in S
  <2>1. packets \in Seq({packets[k] : k \in DOMAIN packets})
    BY DEF OneInParse
  <2>2. QED BY <2>1
<1> HIDE DEF S
<1>3. packets' \in Seq(S) /\ Len(packets') = Len(packets)
  BY <1>1, <1>2, ExceptSeq
<1>4. /\ DOMAIN packets' = 1 .. Len(packets)
      /\ \A k \in DOMAIN packets :
           packets'[k] = IF k = Current THEN q ELSE packets[k]
  BY <1>1, <1>2
<1>5. packets' \in Seq({packets'[k] : k \in DOMAIN packets'})
  <2>1. \A s \in Seq(S) : s \in Seq({s[k] : k \in DOMAIN s})
    BY SeqOfItsElements
  <2>2. QED BY <1>3, <2>1
<1>6. Current' = Current /\ packets' # <<>>
  BY <1>1, <1>3, <1>4 DEF Current
<1>7. ASSUME NEW k \in DOMAIN packets'
      PROVE  /\ IsPacket(packets'[k])
             /\ packets'[k].state = "parsing" <=>
                  k = Current /\ stage' # "idle"
  BY <1>1, <1>4, <1>7 DEF OneInParse
<1>8. OneInParse'
  BY <1>5, <1>6, <1>7 DEF OneInParse, IsPacket
<1>9. OthersStill
  BY <1>1, <1>4, CurrentPacket DEF OthersStill
<1>10. QED BY <1>1, <1>4, <1>6, <1>8, <1>9

\* A new packet comes behind the others, once the one before is finished.
LEMMA AppendKeeps ==
  ASSUME OneInParse, stage = "idle", NEW d, stage' = "options",
         packets' = Append(packets, NewPacket(d))
  PROVE  OneInParse' /\ OthersStill
<1> DEFINE S == {packets[k] : k \in DOMAIN packets} \cup {NewPacket(d)}
<1>1. packets \in Seq({packets[k] : k \in DOMAIN packets}) BY DEF OneInParse
<1>2. packets \in Seq(S) /\ NewPacket(d) \in S BY <1>1
<1> HIDE DEF S
<1>3. /\ packets' \in Seq(S) /\ Len(packets) \in Nat
      /\ Len(packets') = Len(packets) + 1
      /\ DOMAIN packets = 1 .. Len(packets)
      /\ DOMAIN packets' = 1 .. Len(packets')
      /\ packets'[Len(packets) + 1] = NewPacket(d)
      /\ \A k \in DOMAIN packets : packets'[k] = packets[k]
  BY <1>2
<1>4. packets' \in Seq({packets'[k] : k \in DOMAIN packets'})
  BY <1>3, SeqOfItsElements
<1>5. ASSUME NEW k \in DOMAIN packets'
      PROVE  /\ IsPacket(packets'[k])
             /\ packets'[k].state = "parsing" <=> k = Len(packets')
  <2>1. CASE k = Len(packets') BY <1>3, <2>1 DEF IsPacket, NewPacket
  <2>2. CASE k # Len(packets') BY <1>3, <2>2 DEF OneInParse
  <2>3. QED BY <2>1, <2>2
<1>6. packets' # <<>> BY <1>3
<1>7. OneInParse' BY <1>4, <1>5, <1>6 DEF OneInParse, Current, IsPacket
<1>8. QED BY <1>3, <1>7 DEF OthersStill

\* A step within a parse replaces the options of the current packet, or its
\* state when it is the last.
LEMMA PacketChangeKeeps ==
  ASSUME OneInParse, stage # "idle", NEW options, NEW state,
         packets' = [packets EXCEPT ![Current] =
                       [of |-> @.of, state |-> state, options |-> options]],
         state = "parsing" <=> stage' # "idle"
  PROVE  /\ OneInParse' /\ OthersStill /\ Current' = Current
         /\ packets'[Current].options = options
         /\ packets'[Current].of = packets[Current].of
         /\ packets'[Current].state = state
<1> DEFINE q == [of |-> packets[Current].of, state |-> state,
                 options |-> options]
<1>1. /\ IsPacket(q) /\ q.state = state /\ q.options = options
      /\ q.of = packets[Current].of
  BY DEF IsPacket
<1>2. packets' = [packets EXCEPT ![Current] = q] OBVIOUS
<1> HIDE DEF q
<1>3. QED BY <1>1, <1>2, ReplaceKeeps

\* An entry is made in the options.
LEMMA StoreIs ==
  ASSUME OneInParse, stage # "idle", NEW c, NEW parts, Store(c, parts),
         stage' # "idle"
  PROVE  /\ OneInParse' /\ OthersStill /\ Current' = Current
         /\ packets'[Current].options =
              [x \in DOMAIN packets[Current].options \cup {c} |->
                 IF x = c THEN [at |-> at', parts |-> parts]
                 ELSE packets[Current].options[x]]
<1> DEFINE options == [x \in DOMAIN packets[Current].options \cup {c} |->
                         IF x = c THEN [at |-> at', parts |-> parts]
                         ELSE packets[Current].options[x]]
<1>1. packets' = [packets EXCEPT ![Current].options = options]
  BY DEF Store
<1> HIDE DEF options
<1>2. IsPacket(packets[Current]) /\ packets[Current].state = "parsing"
  BY CurrentPacket
<1>3. [packets[Current] EXCEPT !.options = options] =
        [of |-> packets[Current].of, state |-> "parsing", options |-> options]
  BY <1>2 DEF IsPacket
<1>4. packets' = [packets EXCEPT ![Current] =
                    [of |-> @.of, state |-> "parsing", options |-> options]]
  BY <1>1, <1>3
<1>5. QED BY <1>4, PacketChangeKeeps DEF options

\* A part is added to an entry.
LEMMA PushIs ==
  ASSUME OneInParse, stage # "idle", NEW c, NEW part, Push(c, part),
         stage' # "idle"
  PROVE  /\ OneInParse' /\ OthersStill /\ Current' = Current
         /\ packets'[Current].options =
              [packets[Current].options EXCEPT ![c].parts = Append(@, part)]
<1> DEFINE options ==
      [packets[Current].options EXCEPT ![c].parts = Append(@, part)]
<1>1. packets' = [packets EXCEPT ![Current].options = options]
  BY DEF Push
<1> HIDE DEF options
<1>2. IsPacket(packets[Current]) /\ packets[Current].state = "parsing"
  BY CurrentPacket
<1>3. [packets[Current] EXCEPT !.options = options] =
        [of |-> packets[Current].of, state |-> "parsing", options |-> options]
  BY <1>2 DEF IsPacket
<1>4. packets' = [packets EXCEPT ![Current] =
                    [of |-> @.of, state |-> "parsing", options |-> options]]
  BY <1>1, <1>3
<1>5. QED BY <1>4, PacketChangeKeeps DEF options

\* Neither changes the datagram a packet is of.
LEMMA SameDatagram ==
  ASSUME OneInParse, stage # "idle", NEW c, NEW x,
         Store(c, x) \/ Push(c, x), stage' # "idle"
  PROVE  Current' = Current /\ packets'[Current].of = packets[Current].of
<1>1. PICK opts : packets' = [packets EXCEPT ![Current].options = opts]
  BY DEF Store, Push
<1>2. IsPacket(packets[Current]) /\ packets[Current].state = "parsing"
  BY CurrentPacket
<1>3. [packets[Current] EXCEPT !.options = opts] =
        [of |-> packets[Current].of, state |-> "parsing", options |-> opts]
  BY <1>2 DEF IsPacket
<1>4. packets' = [packets EXCEPT ![Current] =
                    [of |-> @.of, state |-> "parsing", options |-> opts]]
  BY <1>1, <1>3
<1>5. QED BY <1>4, PacketChangeKeeps

\* The state of the packet is the last thing to change.
LEMMA FinishIs ==
  ASSUME OneInParse, stage # "idle", NEW state \in {"returned", "thrown"},
         Finish(state)
  PROVE  /\ OneInParse' /\ OthersStill /\ Current' = Current
         /\ packets'[Current].options = packets[Current].options
         /\ packets'[Current].of = packets[Current].of
         /\ packets'[Current].state = state
<1>1. packets' = [packets EXCEPT ![Current].state = state]
      /\ stage' = "idle"
  BY DEF Finish
<1>2. IsPacket(packets[Current]) BY CurrentPacket
<1>3. [packets[Current] EXCEPT !.state = state] =
        [of |-> packets[Current].of, state |-> state,
         options |-> packets[Current].options]
  BY <1>2 DEF IsPacket
<1> PICK opts : opts = packets[Current].options
  OBVIOUS
<1>4. packets' = [packets EXCEPT ![Current] =
                    [of |-> @.of, state |-> state, options |-> opts]]
  BY <1>1, <1>3
<1>5. state # "parsing" OBVIOUS
<1>6. QED BY <1>1, <1>4, <1>5, PacketChangeKeeps

\* Every step keeps the finished packets as they are.
LEMMA NextOneInParse ==
  IInv /\ OneInParse /\ [Next]_vars => OneInParse' /\ OthersStill
<1> SUFFICES ASSUME IInv, OneInParse, [Next]_vars
             PROVE  OneInParse' /\ OthersStill
  OBVIOUS
<1>0. ASSUME UNCHANGED packets, stage' # "idle" <=> stage # "idle"
      PROVE  OneInParse' /\ OthersStill
  BY <1>0 DEF OneInParse, OthersStill, Current, IsPacket
<1>1. CASE Receive
  <2>1. PICK d \in Datagrams : Parse(d) \/ RejectHeader(d)
    BY <1>1 DEF Receive
  <2>2. CASE Parse(d) BY <1>1, <2>2, AppendKeeps DEF Receive, Parse
  <2>3. CASE RejectHeader(d) BY <1>0, <2>3 DEF RejectHeader
  <2>4. QED BY <2>1, <2>2, <2>3
<1>2. ASSUME NEW codes, NEW parts, ReadParts(codes, parts)
      PROVE  OneInParse' /\ OthersStill
  BY <1>2, StoreIs DEF ReadParts, Option
<1>3. CASE ReadIp \/ ReadNumber \/ ReadString \/ ReadClientIdentifier
           \/ ReadDomainName
  BY <1>2, <1>3 DEF ReadIp, ReadNumber, ReadString, ReadClientIdentifier,
     ReadDomainName
<1>4. CASE SkipByte \/ SkipOption
  BY <1>0, <1>4 DEF SkipByte, SkipOption, Option
<1>5. ASSUME NEW codes, NEW loop \in Loops, BeginLoop(codes, loop)
      PROVE  OneInParse' /\ OthersStill
  BY <1>5, StoreIs DEF BeginLoop, Option, Loops
<1>6. CASE BeginList \/ BeginBytes \/ BeginVendor
  BY <1>5, <1>6 DEF BeginList, BeginBytes, BeginVendor, Loops
<1>7. ASSUME NEW loop \in Loops, NEW ok, NEW n, NEW part,
             Iterate(loop, ok, n, part)
      PROVE  OneInParse' /\ OthersStill
  BY <1>7, PushIs DEF Iterate, Loops
<1>8. CASE NextAddress \/ NextByte \/ NextVendorOption
  BY <1>7, <1>8 DEF NextAddress, NextByte, NextVendorOption, Loops
<1>9. CASE Return \/ Throw
  BY <1>9, FinishIs DEF Return, Throw
<1>10. CASE UNCHANGED vars BY <1>0, <1>10 DEF vars
<1>11. QED
  BY <1>1, <1>3, <1>4, <1>6, <1>8, <1>9, <1>10 DEF Next, Step

\* A packet a chain holds is never changed by a later parse of the object it
\* came from.
THEOREM FinishedKeepStill == Spec => PacketsKeepStill
<1>1. Init => OneInParse BY DEF Init, OneInParse
<1>2. OthersStill =>
        [\A k \in DOMAIN packets : packets[k].state # "parsing" =>
           packets'[k] = packets[k]]_packets
  BY DEF OthersStill
<1>3. IInv /\ OneInParse /\ [Next]_vars =>
        [\A k \in DOMAIN packets : packets[k].state # "parsing" =>
           packets'[k] = packets[k]]_packets
  BY <1>2, NextOneInParse
<1>4. IInv /\ OneInParse /\ [Next]_vars => (IInv /\ OneInParse)'
  BY NextIInv, NextOneInParse
<1>5. QED BY <1>1, <1>3, <1>4, InitIInv, PTL DEF Spec, PacketsKeepStill

-----------------------------------------------------------------------------
(* The values. *)

PartRecord == [from : Int, to : Int]

\* An entry of the options: of a code the datagram has, and with a length.
Entry(c, e) ==
  /\ e = [at |-> e.at, parts |-> e.parts]
  /\ e.parts \in Seq(PartRecord \cup {Undefined})
  /\ e.at \in Int /\ 240 <= e.at /\ e.at + 1 < End
  /\ InFrame(c, e)

Options == packets[Current].options

\* What makes ValuesInFrame inductive: a loop has opened the entry it adds
\* to, and is past its length.
Entries ==
  /\ stage # "idle" =>
       /\ Options = [c \in DOMAIN Options |-> Options[c]]
       /\ \A c \in DOMAIN Options : Entry(c, Options[c])
  /\ stage \in Loops =>
       /\ Byte(at) \in DOMAIN Options /\ Options[Byte(at)].at = at
       /\ at + 2 <= offset

\* An entry speaks of nothing but the datagram.
LEMMA EntryStays ==
  ASSUME datagram' = datagram, NEW c, NEW e, Entry(c, e)
  PROVE  Entry(c, e)'
BY DEF Entry, InFrame, PartInFrame, Overreads, EndOf, Byte, End

\* Entries survive a change of one of them that is in frame.
LEMMA ChangeKeeps ==
  ASSUME Entries, stage # "idle", stage' # "idle", datagram' = datagram,
         NEW c, NEW e, Entry(c, e), Byte(at)' = c, e.at = at',
         Options' = [x \in DOMAIN Options \cup {c} |->
                       IF x = c THEN e ELSE Options[x]],
         at' + 2 <= offset'
  PROVE  Entries'
<1>1. /\ DOMAIN Options' = DOMAIN Options \cup {c} /\ Options'[c] = e
      /\ \A x \in DOMAIN Options : x # c => Options'[x] = Options[x]
      /\ Options' = [x \in DOMAIN Options' |-> Options'[x]]
  OBVIOUS
<1>2. ASSUME NEW x \in DOMAIN Options' PROVE Entry(x, Options[x])'
  <2>1. CASE x = c
    <3>1. Entry(c, e)' BY EntryStays
    <3>2. PICK f : f = Options'[x] OBVIOUS
    <3>3. f = e BY <1>1, <2>1, <3>2
    <3>4. Entry(x, f)' BY <2>1, <3>1, <3>3
    <3>5. QED BY <3>2, <3>4 DEF Entry, InFrame
  <2>2. CASE x # c
    <3>1. PICK f : f = Options[x] OBVIOUS
    <3>2. Entry(x, f)
      BY <1>1, <1>2, <2>2, <3>1 DEF Entries
    <3>3. Entry(x, f)' BY <3>2, EntryStays
    <3>4. Options'[x] = f BY <1>1, <1>2, <2>2, <3>1
    <3>5. QED BY <3>3, <3>4 DEF Entry, InFrame
  <2>3. QED BY <2>1, <2>2
<1>3. QED BY <1>1, <1>2 DEF Entries

\* A case of the switch may make an entry that is in frame.
LEMMA StoreKeeps ==
  ASSUME IInv, OneInParse, Entries, NEW codes, Option(codes),
         NEW parts \in Seq(PartRecord \cup {Undefined}),
         Store(Byte(offset), parts), stage' # "idle",
         Byte(offset) \notin {0, 255},
         \A k \in DOMAIN parts :
           parts[k] = Undefined \/ PartInFrame(offset, parts[k]),
         offset + 2 <= offset'
  PROVE  Entries'
<1>1. /\ datagram' = datagram /\ at' = offset /\ stage # "idle"
      /\ offset \in Int /\ 240 <= offset /\ offset + 1 < End
  BY CaseKnows
<1>2. PICK c : c = Byte(offset) OBVIOUS
<1>3. PICK e : e = [at |-> offset, parts |-> parts] OBVIOUS
<1>4. e.at = offset /\ e.parts = parts BY <1>3
<1>5. Entry(c, e)
  BY <1>1, <1>2, <1>3, <1>4 DEF Entry, InFrame
<1>6. Store(c, parts) BY <1>2
<1>7. Options' = [x \in DOMAIN Options \cup {c} |->
                    IF x = c THEN [at |-> at', parts |-> parts]
                    ELSE Options[x]]
  <2>1. Current' = Current
        /\ packets'[Current].options =
              [x \in DOMAIN packets[Current].options \cup {c} |->
                 IF x = c THEN [at |-> at', parts |-> parts]
                 ELSE packets[Current].options[x]]
    BY <1>1, <1>6, StoreIs
  <2>2. QED BY <2>1 DEF Options
<1>8. Options' = [x \in DOMAIN Options \cup {c} |->
                    IF x = c THEN e ELSE Options[x]]
  BY <1>1, <1>3, <1>7
<1>9. Byte(at)' = c BY <1>1, <1>2 DEF Byte
<1>10. e.at = at' /\ at' + 2 <= offset' BY <1>1, <1>4
<1>11. QED BY <1>1, <1>5, <1>8, <1>9, <1>10, ChangeKeeps

\* And a pass of a loop may add a part that is.
LEMMA PushKeeps ==
  ASSUME IInv, OneInParse, Entries, NEW loop \in Loops, NEW ok, NEW n \in Int,
         n > 0, NEW part \in PartRecord \cup {Undefined},
         Iterate(loop, ok, n, part),
         part = Undefined \/ PartInFrame(at, part)
  PROVE  Entries'
<1>1. /\ datagram' = datagram /\ at' = at /\ stage = loop /\ stage # "idle"
      /\ stage' # "idle" /\ offset' = offset + n
      /\ Push(Byte(at), part)
  BY DEF Iterate, Loops
<1>2. offset \in Int /\ at \in Int BY <1>1 DEF IInv, CodeRead
<1>3. PICK c : c = Byte(at) OBVIOUS
<1>4. PICK f : f = Options[c] OBVIOUS
<1>5. /\ c \in DOMAIN Options /\ Entry(c, f) /\ f.at = at
      /\ at + 2 <= offset
      /\ Options = [x \in DOMAIN Options |-> Options[x]]
  BY <1>1, <1>3, <1>4 DEF Entries
<1>6. PICK e : e = [at |-> f.at, parts |-> Append(f.parts, part)] OBVIOUS
<1>7. e.at = f.at /\ e.parts = Append(f.parts, part) BY <1>6
<1>8. /\ e.parts \in Seq(PartRecord \cup {Undefined})
      /\ \A k \in DOMAIN e.parts :
           \/ k \in DOMAIN f.parts /\ e.parts[k] = f.parts[k]
           \/ e.parts[k] = part
  <2>1. f.parts \in Seq(PartRecord \cup {Undefined}) BY <1>5 DEF Entry
  <2>2. QED BY <1>7, <2>1, AppendProperties
<1>9. InFrame(c, e)
  BY <1>3, <1>5, <1>7, <1>8 DEF Entry, InFrame
<1>10. Entry(c, e) BY <1>5, <1>6, <1>7, <1>8, <1>9 DEF Entry
<1>11. Push(c, part) BY <1>1, <1>3
<1>12. Options' = [Options EXCEPT ![c].parts = Append(@, part)]
  BY <1>1, <1>11, PushIs DEF Options
<1>13. f = [at |-> f.at, parts |-> f.parts] BY <1>5 DEF Entry
<1>14. [f EXCEPT !.parts = Append(@, part)] = e
  <2>1. PICK a, q, x : a = f.at /\ q = f.parts /\ x = Append(f.parts, part)
    OBVIOUS
  <2>2. f = [at |-> a, parts |-> q] /\ e = [at |-> a, parts |-> x]
    BY <1>6, <1>13, <2>1
  <2>3. [f EXCEPT !.parts = x] = [at |-> a, parts |-> x] BY <2>2
  <2>4. [f EXCEPT !.parts = Append(@, part)] = [f EXCEPT !.parts = x]
    BY <2>1
  <2>5. QED BY <2>2, <2>3, <2>4
<1>15. Options' = [Options EXCEPT ![c] = e] BY <1>4, <1>12, <1>14
<1>16. Options' = [x \in DOMAIN Options \cup {c} |->
                    IF x = c THEN e ELSE Options[x]]
  BY <1>5, <1>15
<1>17. Byte(at)' = c BY <1>1, <1>3 DEF Byte
<1>18. e.at = at' /\ at' + 2 <= offset' BY <1>1, <1>2, <1>5, <1>7
<1>19. QED BY <1>1, <1>10, <1>16, <1>17, <1>18, ChangeKeeps

\* A case that reads its value in one go passes the length of the option.
LEMMA ReadPartsMoves ==
  ASSUME IInv, NEW codes, 0 \notin codes, 255 \notin codes, NEW parts,
         ReadParts(codes, parts)
  PROVE  /\ Option(codes) /\ Store(Byte(offset), parts) /\ stage' # "idle"
         /\ Byte(offset) \notin {0, 255} /\ offset + 2 <= offset'
<1>1. /\ Option(codes) /\ Store(Byte(offset), parts) /\ stage' # "idle"
      /\ len' = Byte(offset + 1) /\ offset' = offset + 2 + len'
  BY DEF ReadParts, Option
<1>2. /\ Byte(offset) \notin {0, 255} /\ offset \in Int
      /\ Byte(offset + 1) \in 0 .. 255
  BY <1>1, CaseKnows
<1>3. QED BY <1>1, <1>2

\* It makes an entry of one part,
LEMMA ReadOneKeeps ==
  ASSUME IInv, OneInParse, Entries, NEW codes, 0 \notin codes,
         255 \notin codes, NEW p \in PartRecord \cup {Undefined},
         ReadParts(codes, <<p>>), p = Undefined \/ PartInFrame(offset, p)
  PROVE  Entries'
<1>1. PICK parts : parts = <<p>> OBVIOUS
<1>2. /\ parts \in Seq(PartRecord \cup {Undefined})
      /\ \A k \in DOMAIN parts :
           parts[k] = Undefined \/ PartInFrame(offset, parts[k])
  BY <1>1
<1>3. ReadParts(codes, parts) BY <1>1
<1>4. QED BY <1>2, <1>3, ReadPartsMoves, StoreKeeps

\* or of two.
LEMMA ReadTwoKeeps ==
  ASSUME IInv, OneInParse, Entries, NEW codes, 0 \notin codes,
         255 \notin codes, NEW p \in PartRecord \cup {Undefined},
         NEW r \in PartRecord, ReadParts(codes, <<p, r>>),
         p = Undefined \/ PartInFrame(offset, p), PartInFrame(offset, r)
  PROVE  Entries'
<1>1. PICK parts : parts = <<p, r>> OBVIOUS
<1>2. /\ parts \in Seq(PartRecord \cup {Undefined})
      /\ \A k \in DOMAIN parts :
           parts[k] = Undefined \/ PartInFrame(offset, parts[k])
  BY <1>1
<1>3. ReadParts(codes, parts) BY <1>1
<1>4. QED BY <1>2, <1>3, ReadPartsMoves, StoreKeeps

\* The beginning of a loop makes an entry without parts.
LEMMA BeginLoopEntry ==
  ASSUME IInv, OneInParse, Entries, NEW codes, 0 \notin codes,
         255 \notin codes, NEW loop \in Loops, BeginLoop(codes, loop)
  PROVE  Entries'
<1>1. /\ Option(codes) /\ Store(Byte(offset), <<>>) /\ stage' # "idle"
      /\ offset' = offset + 2
  BY DEF BeginLoop, Loops
<1>2. Byte(offset) \notin {0, 255} /\ offset \in Int
  BY <1>1, CaseKnows
<1>3. PICK parts : parts = <<>> OBVIOUS
<1>4. /\ parts \in Seq(PartRecord \cup {Undefined})
      /\ \A k \in DOMAIN parts :
           parts[k] = Undefined \/ PartInFrame(offset, parts[k])
  BY <1>3
<1>5. Store(Byte(offset), parts) BY <1>1, <1>3
<1>6. QED BY <1>1, <1>2, <1>4, <1>5, StoreKeeps

\* The text of the option ends with it, and where the datagram ends.
LEMMA TextInFrame ==
  ASSUME IInv, NEW codes, Option(codes), Byte(offset) \notin {0, 255},
         NEW from \in Int, offset + 2 <= from,
         NEW to \in Int, to = EndOf(offset)
  PROVE  /\ Text(from, to) \in PartRecord
         /\ PartInFrame(offset, Text(from, to))
<1>1. End \in Int /\ offset \in Int BY CaseKnows
<1>2. QED BY <1>1 DEF Text, Part, PartRecord, PartInFrame

\* Every step keeps the entries.
LEMMA NextEntries ==
  IInv /\ OneInParse /\ Entries /\ [Next]_vars => Entries'
<1> SUFFICES ASSUME IInv, OneInParse, Entries, [Next]_vars PROVE Entries'
  OBVIOUS
<1>1. CASE Receive
  <2>1. PICK d \in Datagrams : Parse(d) \/ RejectHeader(d)
    BY <1>1 DEF Receive
  <2>2. CASE Parse(d)
    <3>1. stage' = "options" BY <2>2 DEF Parse
    <3>2. PICK q : q = NewPacket(d) OBVIOUS
    <3>3. q.options = [c \in {} |-> Undefined] BY <3>2 DEF NewPacket
    <3>4. packets'[Len(packets')] = q
      <4> DEFINE S == {packets[k] : k \in DOMAIN packets} \cup {q}
      <4>1. packets \in Seq({packets[k] : k \in DOMAIN packets})
        BY DEF OneInParse
      <4>2. packets \in Seq(S) /\ q \in S BY <4>1
      <4>3. packets' = Append(packets, q) BY <2>2, <3>2 DEF Parse
      <4> HIDE DEF S
      <4>4. QED BY <4>2, <4>3
    <3>5. Options' = q.options BY <3>4 DEF Options, Current
    <3>6. QED BY <3>1, <3>3, <3>5 DEF Entries, Loops
  <2>3. CASE RejectHeader(d)
    BY <1>1, <2>3 DEF Receive, RejectHeader, Entries, Loops
  <2>4. QED BY <2>1, <2>2, <2>3
<1>2. ASSUME NEW codes, Option(codes), UNCHANGED packets,
             stage' = "options"
      PROVE  Entries'
  <2>1. datagram' = datagram /\ stage # "idle" BY <1>2 DEF Option
  <2>2. Options' = Options BY <1>2 DEF Options, Current
  <2>3. ASSUME NEW c \in DOMAIN Options PROVE Entry(c, Options[c])'
    <3>1. PICK f : f = Options[c] OBVIOUS
    <3>2. Entry(c, f) BY <2>1, <3>1 DEF Entries
    <3>3. Entry(c, f)' BY <2>1, <3>2, EntryStays
    <3>4. f = Options'[c] BY <2>2, <3>1
    <3>5. QED BY <3>3, <3>4 DEF Entry, InFrame
  <2>4. QED BY <1>2, <2>1, <2>2, <2>3 DEF Entries, Loops
<1>3. CASE SkipByte \/ SkipOption
  <2>1. stage' = "options" /\ UNCHANGED packets
    BY <1>3 DEF SkipByte, SkipOption, Option
  <2>2. QED BY <1>2, <1>3, <2>1 DEF SkipByte, SkipOption
<1>4. CASE ReadIp
  <2>1. Option(AddressOptions) BY <1>4 DEF ReadIp, ReadParts
  <2>2. /\ Byte(offset) \in AddressOptions /\ offset \in Int
        /\ 0 \notin AddressOptions /\ 255 \notin AddressOptions
    BY <2>1, CaseKnows DEF AddressOptions
  <2>3. Byte(offset + 1) = 4 /\ EndOf(offset) = offset + 6
    BY <2>1, <2>2 DEF Option, Readable, EndOf
  <2>4. PICK p : p = Ip(offset + 2) OBVIOUS
  <2>5. /\ p \in PartRecord \cup {Undefined}
        /\ p = Undefined \/ PartInFrame(offset, p)
    BY <2>2, <2>3, <2>4 DEF Ip, Part, PartRecord, PartInFrame
  <2>6. ReadParts(AddressOptions, <<p>>) BY <1>4, <2>4 DEF ReadIp
  <2>7. QED BY <2>2, <2>5, <2>6, ReadOneKeeps
<1>5. CASE ReadNumber
  <2> DEFINE o == offset + 2
  <2>1. Option(NumberOptions) BY <1>5 DEF ReadNumber, ReadParts
  <2>2. /\ Byte(offset) \in NumberOptions /\ offset \in Int
        /\ 0 \notin NumberOptions /\ 255 \notin NumberOptions
    BY <2>1, CaseKnows DEF NumberOptions
  <2>3. /\ Width(Byte(offset)) \in Int
        /\ EndOf(offset) = o + Width(Byte(offset))
    BY <2>1, <2>2 DEF Option, Readable, EndOf, Width, NumberOptions
  <2>4. PICK p : p = IF Byte(offset) = 53 /\ Byte(o) \notin DHCPMessageType
                     THEN Undefined ELSE Part(o, o + Width(Byte(offset)))
    OBVIOUS
  <2>5. /\ p \in PartRecord \cup {Undefined}
        /\ p = Undefined \/ PartInFrame(offset, p)
    BY <2>2, <2>3, <2>4 DEF Part, PartRecord, PartInFrame
  <2>6. ReadParts(NumberOptions, <<p>>) BY <1>5, <2>4 DEF ReadNumber
  <2>7. QED BY <2>2, <2>5, <2>6, ReadOneKeeps
<1>6. CASE ReadString
  <2>1. Option(TextOptions) BY <1>6 DEF ReadString, ReadParts
  <2>2. /\ Byte(offset) \notin {0, 255} /\ offset \in Int
        /\ Byte(offset + 1) \in 0 .. 255
        /\ 0 \notin TextOptions /\ 255 \notin TextOptions
    BY <2>1, CaseKnows DEF TextOptions
  <2>3. PICK p : p = Text(offset + 2, offset + 2 + Byte(offset + 1)) OBVIOUS
  <2>4. EndOf(offset) = offset + 2 + Byte(offset + 1) BY <2>2 DEF EndOf
  <2>5. p \in PartRecord /\ PartInFrame(offset, p)
    BY <2>1, <2>2, <2>3, <2>4, TextInFrame
  <2>6. ReadParts(TextOptions, <<p>>) BY <1>6, <2>3 DEF ReadString
  <2>7. QED BY <2>2, <2>5, <2>6, ReadOneKeeps
<1>7. CASE ReadClientIdentifier
  <2>1. Option({ClientIdentifier}) BY <1>7 DEF ReadClientIdentifier, ReadParts
  <2>2. /\ Byte(offset) = ClientIdentifier /\ offset \in Int
        /\ Byte(offset + 1) \in 0 .. 255
        /\ Byte(offset) \notin {0, 255}
    BY <2>1, CaseKnows DEF ClientIdentifier
  <2>3. EndOf(offset) = offset + 2 + Byte(offset + 1) BY <2>2 DEF EndOf
  <2>4. PICK p : p = IF Byte(offset + 2) \in ARPHardwareType
                     THEN Part(offset + 2, offset + 3) ELSE Undefined
    OBVIOUS
  <2>5. PICK r : r = Part(offset + 3, offset + 2 + Byte(offset + 1)) OBVIOUS
  <2>6. /\ p \in PartRecord \cup {Undefined}
        /\ p = Undefined \/ PartInFrame(offset, p)
    BY <2>2, <2>3, <2>4 DEF Part, PartRecord, PartInFrame, Overreads
  <2>7. r \in PartRecord /\ PartInFrame(offset, r)
    BY <2>2, <2>3, <2>5 DEF Part, PartRecord, PartInFrame
  <2>8. ReadParts({ClientIdentifier}, <<p, r>>)
    BY <1>7, <2>2, <2>4, <2>5 DEF ReadClientIdentifier
  <2>9. PICK codes : codes = {ClientIdentifier} OBVIOUS
  <2>10. 0 \notin codes /\ 255 \notin codes /\ ReadParts(codes, <<p, r>>)
    BY <2>8, <2>9 DEF ClientIdentifier
  <2>11. QED BY <2>6, <2>7, <2>10, ReadTwoKeeps
<1>8. CASE ReadDomainName
  <2>1. Option({QualifiedDomainName}) BY <1>8 DEF ReadDomainName, ReadParts
  <2>2. /\ Byte(offset) = QualifiedDomainName /\ offset \in Int
        /\ Byte(offset + 1) \in 0 .. 255
        /\ Byte(offset) \notin {0, 255}
    BY <2>1, CaseKnows DEF QualifiedDomainName
  <2>3. EndOf(offset) = offset + 2 + Byte(offset + 1) BY <2>2 DEF EndOf
  <2>4. PICK p : p = Part(offset + 2, offset + 3) OBVIOUS
  <2>5. PICK r : r = Text(offset + 5, offset + 2 + Byte(offset + 1)) OBVIOUS
  <2>6. p \in PartRecord /\ PartInFrame(offset, p)
    BY <2>2, <2>3, <2>4 DEF Part, PartRecord, PartInFrame, Overreads
  <2>7. r \in PartRecord /\ PartInFrame(offset, r)
    BY <2>1, <2>2, <2>3, <2>5, TextInFrame
  <2>8. ReadParts({QualifiedDomainName}, <<p, r>>)
    BY <1>8, <2>2, <2>4, <2>5 DEF ReadDomainName
  <2>9. PICK codes : codes = {QualifiedDomainName} OBVIOUS
  <2>10. 0 \notin codes /\ 255 \notin codes /\ ReadParts(codes, <<p, r>>)
    BY <2>8, <2>9 DEF QualifiedDomainName
  <2>11. QED BY <2>6, <2>7, <2>10, ReadTwoKeeps
<1>9. CASE BeginList \/ BeginBytes \/ BeginVendor
  BY <1>9, BeginLoopEntry DEF BeginList, BeginBytes, BeginVendor, Loops,
     ListOptions, ParameterRequestList, VendorOptions
<1>10. ASSUME NEW loop \in Loops, stage = loop
       PROVE  /\ CodeRead /\ InLoop /\ at + 2 <= offset
              /\ at \in Int /\ offset \in Int /\ len \in Int
  BY <1>10 DEF IInv, CodeRead, Entries, Loops
<1>11. CASE NextAddress
  <2>1. stage = "addresses" BY <1>11 DEF NextAddress, Iterate
  <2>2. /\ at + 2 <= offset /\ at \in Int /\ offset \in Int /\ len \in Int
        /\ len > 0 /\ len % 4 = 0 /\ offset + len = EndOf(at)
    BY <1>10, <2>1 DEF Loops, InLoop
  <2>3. offset + 4 <= EndOf(at) BY <2>2
  <2>4. PICK p : p = Ip(offset) OBVIOUS
  <2>5. /\ p \in PartRecord \cup {Undefined}
        /\ p = Undefined \/ PartInFrame(at, p)
    BY <2>2, <2>3, <2>4 DEF Ip, Part, PartRecord, PartInFrame
  <2>6. Iterate("addresses", IpReadable(offset), 4, p)
    BY <1>11, <2>4 DEF NextAddress
  <2>7. QED BY <2>5, <2>6, PushKeeps DEF Loops
<1>12. CASE NextByte
  <2>1. stage = "bytes" BY <1>12 DEF NextByte, Iterate
  <2>2. /\ at + 2 <= offset /\ at \in Int /\ offset \in Int /\ len \in Int
        /\ len > 0 /\ offset + len = EndOf(at)
    BY <1>10, <2>1 DEF Loops, InLoop
  <2>3. PICK p : p = Part(offset, offset + 1) OBVIOUS
  <2>4. p \in PartRecord /\ PartInFrame(at, p)
    BY <2>2, <2>3 DEF Part, PartRecord, PartInFrame
  <2>5. Iterate("bytes", offset < End, 1, p)
    BY <1>12, <2>3 DEF NextByte
  <2>6. QED BY <2>4, <2>5, PushKeeps DEF Loops
<1>13. CASE NextVendorOption
  <2>1. stage = "vendor" /\ offset + 1 < End
    BY <1>13 DEF NextVendorOption, Iterate
  <2>2. /\ at + 2 <= offset /\ at \in Int /\ offset \in Int
        /\ Byte(at) = VendorOptions /\ CodeRead
    BY <1>10, <2>1 DEF Loops, InLoop
  <2>3. datagram \in Datagram /\ 240 <= offset + 1 BY <2>2 DEF CodeRead
  <2>4. Byte(offset + 1) \in 0 .. 255
    BY <2>1, <2>2, <2>3, BytesInDatagram
  <2>5. PICK n : n = 2 + Byte(offset + 1) OBVIOUS
  <2>6. n \in Int /\ n > 0 BY <2>4, <2>5
  <2>7. PICK p : p = Part(offset, offset + n) OBVIOUS
  <2>8. p \in PartRecord /\ PartInFrame(at, p)
    BY <2>2, <2>6, <2>7 DEF Part, PartRecord, PartInFrame
  <2>9. Iterate("vendor", offset + 1 < End, n, p)
    BY <1>13, <2>5, <2>7 DEF NextVendorOption
  <2>10. QED BY <2>6, <2>8, <2>9, PushKeeps DEF Loops
<1>14. CASE Return \/ Throw
  BY <1>14 DEF Return, Throw, Finish, Entries, Loops
<1>15. CASE UNCHANGED vars
  <2>1. UNCHANGED <<stage, datagram, offset, at, packets>>
    BY <1>15 DEF vars
  <2>2. Options' = Options BY <2>1 DEF Options, Current
  <2>3. QED BY <2>1, <2>2 DEF Entries, Entry, InFrame, PartInFrame, Overreads,
          EndOf, Byte, End
<1>16. QED
  BY <1>1, <1>3, <1>4, <1>5, <1>6, <1>7, <1>8, <1>9, <1>11, <1>12, <1>13,
     <1>14, <1>15 DEF Next, Step

\* Whatever the datagram holds, a value is made of bytes of its own option,
\* but for two reads that do not look at the length and the vendor options.
THEOREM ValuesFramed == Spec => []ValuesInFrame
<1>1. Init => OneInParse /\ Entries
  BY DEF Init, OneInParse, Entries, Loops
<1>2. IInv /\ OneInParse /\ Entries /\ [Next]_vars =>
        (IInv /\ OneInParse /\ Entries)'
  BY NextIInv, NextOneInParse, NextEntries
<1>3. Entries => ValuesInFrame
  BY DEF Entries, Entry, ValuesInFrame, Options
<1>4. QED BY <1>1, <1>2, <1>3, InitIInv, PTL DEF Spec
=============================================================================
