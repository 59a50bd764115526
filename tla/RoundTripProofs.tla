---------------------------- MODULE RoundTripProofs ----------------------------
(***************************************************************************)
(* The parser on a buffer the writer has laid out, for every value of      *)
(* every option: case by case it reads what is there, and comes to the end *)
(* option behind the last.                                                 *)
(***************************************************************************)
EXTENDS RoundTripLayout, OptionParserProofs

\* What a part of a value stands for.
BytesOf(part) ==
  IF part = Undefined THEN Undefined
  ELSE SubSeq(buf, part.from - 239, part.to - 240)

\* In entry x, the first j parts of the value of option c have been read.
PartsRead(c, x, j) ==
  /\ x = [at |-> x.at, parts |-> x.parts]
  /\ x.parts \in Seq(PartRecord \cup {Undefined}) /\ Len(x.parts) = j
  /\ \A n \in 1 .. j : BytesOf(x.parts[n]) = Returned(c, options[c])[n]

Whole(c, x) == PartsRead(c, x, Len(options[c]))

\* Of the options W each has been read to its end, and no other has.
AllRead(opts, W) ==
  opts = [c \in W |-> opts[c]] /\ \A c \in W : Whole(c, opts[c])

\* Where the options are in the buffer.
Placed(pos, e) ==
  /\ buf \in Seq(Octet) /\ Layout(buf, options, Present, pos, e)
  /\ e < Len(buf) /\ buf[e + 1] = 255

\* The cursor between two options: those below n have been read.
Between(pos, e, n) ==
  /\ Stands(Present, pos, e, offset - 240, n)
  /\ at # 0 => Byte(at) # 255
  /\ AllRead(Options, {d \in Present : d < n})

\* The cursor behind the end option.
AtEnd == at # 0 /\ Byte(at) = 255 /\ AllRead(Options, Present)

\* The options below c have been read, and the first j parts of c.
ReadUpTo(c, j, opts) ==
  /\ opts = [d \in {x \in Present : x < c + 1} |-> opts[d]]
  /\ \A d \in Present : d < c => Whole(d, opts[d])
  /\ PartsRead(c, opts[c], j)

\* The cursor in the loop over the parts of option c, behind the first j.
Within(pos, c, j) ==
  LET ends == Ends(Chunks(c, options[c]))
  IN /\ c \in Present /\ c = Byte(at) /\ at = 240 + pos[c]
     /\ j \in Nat /\ j < Len(options[c])
     /\ offset = at + 2 + ends[j]
     /\ len = Writer!Declared(c, options[c]) - ends[j]
     /\ ReadUpTo(c, j, Options)

\* How far the parser is with the writer's packet.
Progress(pos, e) ==
  /\ stage = "options" => AtEnd \/ \E n \in Nat : Between(pos, e, n)
  /\ stage \in Loops => \E c, j : Within(pos, c, j)

\* The parser is at work on that packet.
Reader(pos, e) ==
  /\ IInv /\ OneInParse
  /\ options \in OptionSets
  /\ datagram = Written
  /\ Placed(pos, e)

-----------------------------------------------------------------------------
(* What the parser finds. *)

\* A byte of the datagram is a byte of the buffer.
LEMMA BytesAre ==
  ASSUME datagram = Written
  PROVE  /\ End = 240 + Len(buf)
         /\ \A o \in Int : Byte(o) = buf[o - 239]
BY DEF Written, End, Byte

\* Bytes the buffer holds are read as they are.
LEMMA HeldIs ==
  ASSUME datagram = Written, buf \in Seq(Octet), NEW t \in Seq(Octet),
         NEW o \in Nat, Holds(buf, o, t)
  PROVE  /\ Part(240 + o, 240 + o + Len(t)) \in PartRecord
         /\ BytesOf(Part(240 + o, 240 + o + Len(t))) = t
         /\ 240 + o + Len(t) <= End /\ Len(t) \in Nat /\ End \in Int
         /\ \A j \in 1 .. Len(t) : Byte(239 + o + j) = t[j]
<1> PICK l : l = Len(t)
  OBVIOUS
<1> PICK p : p = Part(240 + o, 240 + o + l)
  OBVIOUS
<1>1. /\ l \in Nat /\ Len(buf) \in Nat /\ o + l <= Len(buf)
      /\ \A j \in 1 .. l : buf[o + j] = t[j]
  BY LenProperties DEF Holds
<1>2. p \in PartRecord /\ p.from = 240 + o /\ p.to = 240 + o + l
  BY <1>1 DEF Part, PartRecord
<1>3. p # Undefined BY <1>2, ParserAssumption DEF PartRecord
<1>4. p.from - 239 = o + 1 /\ p.to - 240 = o + l BY <1>1, <1>2
<1>5. BytesOf(p) = SubSeq(buf, o + 1, o + l) BY <1>3, <1>4 DEF BytesOf
<1>6. SubSeq(buf, o + 1, o + l) = t
  <2> PICK s : s = SubSeq(buf, o + 1, o + l)
    OBVIOUS
  <2>1. \A m \in o + 1 .. o + l : buf[m] \in Octet
    <3>1. \A m \in o + 1 .. o + l : m \in 1 .. Len(buf) BY <1>1
    <3>2. QED BY <3>1, ElementOfSeq
  <2>2. /\ s \in Seq(Octet)
        /\ Len(s) = IF o + 1 <= o + l THEN (o + l) - (o + 1) + 1 ELSE 0
        /\ \A m \in 1 .. (o + l) - (o + 1) + 1 : s[m] = buf[(o + 1) + m - 1]
    <3>1. o + 1 \in Int /\ o + l \in Int BY <1>1
    <3>2. QED BY <2>1, <3>1, SubSeqProperties
  <2>3. (o + l) - (o + 1) + 1 = l /\ Len(s) = l BY <1>1, <2>2
  <2>4. ASSUME NEW m \in 1 .. l PROVE s[m] = t[m]
    <3>1. (o + 1) + m - 1 = o + m BY <1>1
    <3>2. QED BY <1>1, <2>2, <2>3, <3>1
  <2>5. s = t BY <2>2, <2>3, <2>4, SeqEqual
  <2>6. QED BY <2>5
<1>7. ASSUME NEW j \in 1 .. l PROVE Byte(239 + o + j) = t[j]
  <2>1. 239 + o + j \in Int /\ (239 + o + j) - 239 = o + j BY <1>1
  <2>2. QED BY <1>1, <2>1, BytesAre
<1>8. 240 + o + l <= End /\ End \in Int BY <1>1, BytesAre
<1>9. QED BY <1>1, <1>2, <1>5, <1>6, <1>7, <1>8

\* The head of an option.
LEMMA HeadIs ==
  ASSUME NEW pos, NEW e, Reader(pos, e), NEW c \in Present
  PROVE  /\ c \in Handled /\ c \in Nat /\ IsValue(c, options[c])
         /\ ~Writer!Falsy(c, options[c]) /\ Writer!Fits(c, options[c])
         /\ pos[c] \in Nat /\ Writer!Declared(c, options[c]) \in Octet
         /\ Byte(240 + pos[c]) = c
         /\ Byte(240 + pos[c] + 1) = Writer!Declared(c, options[c])
         /\ 240 + pos[c] + 2 + Writer!Declared(c, options[c]) <= End
         /\ ValueHeld(buf, c, options[c], pos[c] + 2)
<1> PICK v, p, d : v = options[c] /\ p = pos[c] /\ d = Writer!Declared(c, v)
  OBVIOUS
<1>1. c \in Handled /\ c \in Nat /\ IsValue(c, v) /\ ~Writer!Falsy(c, v)
  <2>1. AreOptions(options, Present) /\ Present \subseteq Nat
    BY PresentAre DEF Reader
  <2>2. QED BY <2>1 DEF AreOptions, Present
<1>2. Writer!Fits(c, v) /\ p \in Nat /\ Laid(buf, c, v, p)
  BY DEF Reader, Placed, Layout
<1>3. d \in Octet BY <1>1, <1>2, ChunksAre
<1>4. <<c, d>> \in Seq(Octet) /\ Len(<<c, d>>) = 2
  BY <1>1, <1>3, Codes
<1>5. Holds(buf, p, <<c, d>>) /\ ValueHeld(buf, c, v, p + 2)
      /\ p + 2 + d <= Len(buf)
  BY <1>2 DEF Laid
<1>6. datagram = Written /\ buf \in Seq(Octet) BY DEF Reader, Placed
<1>7. Byte(240 + p) = c /\ Byte(240 + p + 1) = d
  <2> PICK h : h = <<c, d>>
    OBVIOUS
  <2>1. h \in Seq(Octet) /\ Len(h) = 2 /\ Holds(buf, p, h) /\ p \in Nat
    BY <1>2, <1>4, <1>5
  <2>2. \A j \in 1 .. Len(h) : Byte(239 + p + j) = h[j]
    BY ONLY <1>6, <2>1, HeldIs
  <2>3. 239 + p + 1 = 240 + p /\ 239 + p + 2 = 240 + p + 1 BY <1>2
  <2>4. h[1] = c /\ h[2] = d OBVIOUS
  <2>5. QED BY <2>1, <2>2, <2>3, <2>4
<1>8. 240 + p + 2 + d <= End
  <2>1. End = 240 + Len(buf) /\ Len(buf) \in Nat BY <1>6, BytesAre, LenProperties
  <2>2. d \in Nat BY <1>3, OctetsAre
  <2>3. QED BY <1>2, <1>5, <2>1, <2>2
<1>9. QED BY <1>1, <1>2, <1>3, <1>5, <1>7, <1>8

\* c is the option that comes next when those below n have been read.
Next1(pos, n, c) ==
  /\ c \in Present /\ offset = 240 + pos[c] /\ c = Byte(offset)
  /\ c \notin {d \in Present : d < n}
  /\ {d \in Present : d < c + 1} = {d \in Present : d < n} \cup {c}

\* Between two options the cursor is on a code or on the end option.
LEMMA OnCode ==
  ASSUME NEW pos, NEW e, Reader(pos, e), NEW n \in Nat, Between(pos, e, n),
         offset \in Int
  PROVE  \/ /\ Byte(offset) = 255 /\ offset < End /\ offset # 0
            /\ Present = {d \in Present : d < n}
         \/ \E c : Next1(pos, n, c)
<1>1. Present \subseteq Nat /\ options \in OptionSets
  BY PresentAre DEF Reader
<1>2. CASE (\A d \in Present : d < n) /\ offset - 240 = e
  <2>1. /\ End = 240 + Len(buf) /\ Byte(offset) = buf[offset - 239]
        /\ Len(buf) \in Nat /\ e \in Nat
    BY BytesAre, LenProperties DEF Reader, Placed, Layout
  <2>2. e < Len(buf) /\ buf[e + 1] = 255 BY DEF Reader, Placed
  <2>3. offset = 240 + e /\ offset - 239 = e + 1 BY <1>2, <2>1
  <2>4. offset < End /\ offset # 0 BY <2>1, <2>2, <2>3
  <2>5. QED BY <1>2, <2>1, <2>2, <2>3, <2>4
<1>3. ASSUME NEW c \in Present, n <= c,
             \A d \in Present : n <= d => c <= d, offset - 240 = pos[c]
      PROVE  Next1(pos, n, c)
  <2>1. pos[c] \in Nat /\ Byte(240 + pos[c]) = c BY HeadIs
  <2>2. offset = 240 + pos[c] BY <1>3, <2>1
  <2>3. \A d \in Present : d < c + 1 <=> d < n \/ d = c BY <1>1, <1>3
  <2>4. c \notin {d \in Present : d < n} BY <1>1, <1>3
  <2>5. QED BY <2>1, <2>2, <2>3, <2>4 DEF Next1
<1>4. QED BY <1>2, <1>3 DEF Between, Stands

-----------------------------------------------------------------------------
(* Reading an option in one go. *)

\* The parser's work leaves the buffer alone.
LEMMA ReaderStays ==
  ASSUME NEW pos, NEW e, Reader(pos, e), UNCHANGED writerVars,
         datagram' = datagram
  PROVE  /\ buf' = buf /\ options' = options /\ Present' = Present
         /\ Written' = Written /\ datagram' = Written'
         /\ Placed(pos, e)' /\ End' = End
         /\ \A o : Byte(o)' = Byte(o)
         /\ \A c, x, j : PartsRead(c, x, j)' <=> PartsRead(c, x, j)
<1>1. buf' = buf /\ options' = options BY DEF writerVars
<1>2. Present' = Present BY <1>1 DEF Present
<1>3. Written' = Written BY <1>1 DEF Written
<1>4. Placed(pos, e)'
  <2> HIDE DEF Present
  <2>1. Placed(pos, e) BY DEF Reader
  <2>2. QED BY <1>1, <1>2, <2>1 DEF Placed
<1>5. \A o : Byte(o)' = Byte(o) BY DEF Byte
<1>6. ASSUME NEW c, NEW x, NEW j
      PROVE  PartsRead(c, x, j)' <=> PartsRead(c, x, j)
  BY <1>1 DEF PartsRead, BytesOf
<1>7. datagram' = Written' BY <1>3 DEF Reader
<1>8. End' = End BY DEF End
<1>9. QED BY <1>1, <1>2, <1>3, <1>4, <1>5, <1>6, <1>7, <1>8

\* What has been read of an option is read of it later.
LEMMA StoreReads ==
  ASSUME NEW pos, NEW e, Reader(pos, e), NEW n \in Nat, Between(pos, e, n),
         stage # "idle", NEW c, Next1(pos, n, c), NEW parts, NEW j \in Nat,
         Store(c, parts), stage' # "idle",
         datagram' = datagram, UNCHANGED writerVars,
         parts \in Seq(PartRecord \cup {Undefined}), Len(parts) = j,
         \A k \in 1 .. j : BytesOf(parts[k]) = Returned(c, options[c])[k]
  PROVE  ReadUpTo(c, j, Options')
<1> DEFINE W == {d \in Present : d < n}
<1>1. AllRead(Options, W) BY DEF Between
<1>2. Options' = [x \in DOMAIN Options \cup {c} |->
                   IF x = c THEN [at |-> at', parts |-> parts]
                   ELSE Options[x]]
  <2>1. /\ Current' = Current
        /\ packets'[Current].options =
              [x \in DOMAIN packets[Current].options \cup {c} |->
                 IF x = c THEN [at |-> at', parts |-> parts]
                 ELSE packets[Current].options[x]]
    <3>1. OneInParse BY DEF Reader
    <3>2. QED BY ONLY <3>1, stage # "idle", stage' # "idle",
                 Store(c, parts), StoreIs
  <2>2. QED BY <2>1 DEF Options
<1>3. DOMAIN Options = W BY <1>1 DEF AllRead
<1>4. /\ c \in Present /\ c \notin W
      /\ {d \in Present : d < c + 1} = W \cup {c}
  BY DEF Next1
<1>5. Present \subseteq Nat BY PresentAre DEF Reader
<1> HIDE DEF W
<1>6. Options' = [d \in W \cup {c} |-> Options'[d]]
      /\ DOMAIN Options' = W \cup {c}
  BY <1>2, <1>3
<1>7. PartsRead(c, Options'[c], j)
  <2>1. PICK x : x = [at |-> at', parts |-> parts]
    OBVIOUS
  <2>2. x.parts = parts /\ x = [at |-> x.at, parts |-> x.parts] BY <2>1
  <2>3. Options'[c] = x BY <1>2, <2>1
  <2>4. PartsRead(c, x, j) BY <2>2 DEF PartsRead
  <2>5. QED BY <2>3, <2>4
<1>8. ASSUME NEW d \in Present, d < c PROVE Whole(d, Options'[d])
  <2>1. d \in W /\ d # c BY <1>4, <1>5, <1>8
  <2>2. Options'[d] = Options[d] BY <1>2, <1>3, <2>1
  <2>3. QED BY <1>1, <2>1, <2>2 DEF AllRead
<1>9. QED BY <1>4, <1>6, <1>7, <1>8 DEF ReadUpTo

\* Behind an option that has been read whole the next one starts.
LEMMA ComesNext ==
  ASSUME NEW pos, NEW e, Reader(pos, e), UNCHANGED writerVars,
         datagram' = datagram, stage' = "options",
         NEW c \in Present, at' = 240 + pos[c],
         offset' = at' + 2 + Writer!Declared(c, options[c]),
         ReadUpTo(c, Len(options[c]), Options')
  PROVE  Progress(pos, e)'
<1> PICK p, d : p = pos[c] /\ d = Writer!Declared(c, options[c])
  OBVIOUS
<1>1. c \in Nat /\ c # 255 /\ p \in Nat /\ d \in Nat /\ Byte(240 + p) = c
  <2>1. c \in Handled /\ p \in Nat /\ d \in Octet /\ Byte(240 + p) = c
    BY HeadIs
  <2>2. c \in Nat /\ c # 255 BY <2>1, Codes
  <2>3. d \in Nat BY <2>1, OctetsAre
  <2>4. QED BY <2>1, <2>2, <2>3
<1>2. Stands(Present, pos, e, offset' - 240, c + 1)
  <2>1. at' = 240 + p /\ offset' = at' + 2 + d OBVIOUS
  <2>2. offset' - 240 = p + 2 + d BY ONLY <1>1, <2>1
  <2>3. offset' - 240 = After(options, pos, c) BY <2>2 DEF After
  <2>4. Layout(buf, options, Present, pos, e) BY DEF Reader, Placed
  <2>5. QED BY <2>3, <2>4 DEF Layout
<1>3. /\ buf' = buf /\ options' = options /\ Present' = Present
      /\ \A o : Byte(o)' = Byte(o)
      /\ \A f, x, j : PartsRead(f, x, j)' <=> PartsRead(f, x, j)
  BY ReaderStays
<1>4. ASSUME NEW f \in {x \in Present : x < c + 1}
      PROVE  Whole(f, Options'[f])
  <2>1. Present \subseteq Nat BY PresentAre DEF Reader
  <2>2. f < c \/ f = c BY <1>1, <2>1
  <2>3. QED BY <2>2 DEF ReadUpTo, Whole
<1>5. AllRead(Options', {x \in Present : x < c + 1})
  BY <1>4 DEF ReadUpTo, AllRead
<1>6. Between(pos, e, c + 1)'
  <2>1. Byte(at)' # 255 BY <1>1, <1>3 DEF Byte
  <2>2. AllRead(Options, {f \in Present : f < c + 1})'
    <3>1. \A f, x : Whole(f, x)' <=> Whole(f, x) BY <1>3 DEF Whole
    <3> HIDE DEF Present, Whole, Options
    <3>2. QED BY <1>3, <1>5, <3>1 DEF AllRead
  <2>3. Stands(Present, pos, e, offset - 240, c + 1)'
    <3> HIDE DEF Present
    <3>1. QED BY <1>2, <1>3 DEF Stands
  <2>4. QED BY <2>1, <2>2, <2>3 DEF Between
<1>7. c + 1 \in Nat BY <1>1
<1>8. QED BY <1>6, <1>7 DEF Progress, Loops

\* A case that ends with the option has read it whole.
LEMMA WholeRead ==
  ASSUME NEW pos, NEW e, Reader(pos, e), NEW n \in Nat, Between(pos, e, n),
         NEW codes, Option(codes), NEW c, Next1(pos, n, c), NEW parts,
         Store(c, parts), stage' = "options", UNCHANGED writerVars,
         offset' = offset + 2 + Byte(offset + 1),
         parts \in Seq(PartRecord \cup {Undefined}),
         Len(parts) = Len(options[c]),
         \A k \in 1 .. Len(options[c]) :
           BytesOf(parts[k]) = Returned(c, options[c])[k]
  PROVE  Progress(pos, e)'
<1> PICK l : l = Len(options[c])
  OBVIOUS
<1>1. /\ stage = "options" /\ datagram' = datagram /\ at' = offset
  BY CaseKnows DEF Reader
<1>2. l \in Nat BY LenProperties
<1>3. c \in Present /\ offset = 240 + pos[c] BY DEF Next1
<1>4. Byte(offset + 1) = Writer!Declared(c, options[c]) BY <1>3, HeadIs
<1>5. ReadUpTo(c, l, Options') BY <1>1, <1>2, StoreReads
<1>6. QED BY <1>1, <1>3, <1>4, <1>5, ComesNext

\* What is returned of a part that is held, by the kind of the option.
LEMMA ReturnedIs ==
  ASSUME NEW c \in Handled, NEW v, NEW k \in DOMAIN v
  PROVE  /\ DOMAIN Returned(c, v) = DOMAIN v
         /\ c \in AddressOptions \cup ListOptions =>
              Returned(c, v)[k] = IF v[k][1] = 0 THEN Undefined ELSE v[k]
         /\ c = 53 => Returned(c, v)[k] =
              IF v[k][1] \notin DHCPMessageType THEN Undefined ELSE v[k]
         /\ c \in NumberOptions \cup TextOptions \cup {ParameterRequestList,
                  QualifiedDomainName} /\ c # 53 =>
              Returned(c, v)[k] = v[k]
         /\ c = ClientIdentifier => Returned(c, v)[k] =
              IF k = 1 /\ v[k][1] \notin ARPHardwareType
              THEN Undefined ELSE v[k]
         /\ c = VendorOptions => Returned(c, v)[k] = Chunks(c, v)[k]
BY DEF Returned, Chunks, AddressOptions, ListOptions, NumberOptions,
   TextOptions, VendorOptions, ParameterRequestList, ClientIdentifier,
   QualifiedDomainName

\* A value of one part.
LEMMA SinglePart ==
  ASSUME NEW pos, NEW e, Reader(pos, e), NEW c \in Present,
         c \in AddressOptions \cup NumberOptions \cup TextOptions
  PROVE  LET v == options[c]
             o == 240 + pos[c] + 2
         IN /\ Len(v) = 1 /\ v[1] \in Seq(Octet) /\ Len(v[1]) \in Nat
            /\ DOMAIN v = {1}
            /\ Byte(240 + pos[c] + 1) = Len(v[1])
            /\ o + Len(v[1]) <= End /\ o \in Int /\ End \in Int
            /\ Part(o, o + Len(v[1])) \in PartRecord
            /\ BytesOf(Part(o, o + Len(v[1]))) = v[1]
            /\ \A j \in 1 .. Len(v[1]) : Byte(o + j - 1) = v[1][j]
<1> PICK v, p, o : v = options[c] /\ p = pos[c] /\ o = 240 + p + 2
  OBVIOUS
<1>1. /\ c \in Handled /\ IsValue(c, v) /\ Writer!Fits(c, v) /\ p \in Nat
      /\ Byte(240 + p + 1) = Writer!Declared(c, v)
      /\ ValueHeld(buf, c, v, p + 2)
  BY HeadIs
<1>2. v \in Seq(Seq(Octet)) /\ Chunks(c, v) \in Seq(Seq(Octet))
      /\ Writer!Declared(c, v) \in Nat
  <2>1. Writer!Declared(c, v) \in Octet BY <1>1, ChunksAre
  <2>2. QED BY <1>1, <2>1, ChunksAre, OctetsAre
<1>3. Len(v) = 1
  BY <1>1 DEF IsValue
<1>4. v[1] \in Seq(Octet) /\ Len(v[1]) \in Nat /\ DOMAIN v = {1}
  <2>1. DOMAIN v = 1 .. 1 BY <1>2, <1>3, LenProperties
  <2>2. v[1] \in Seq(Octet) BY <1>2, <1>3, ElementOfSeq
  <2>3. QED BY <2>1, <2>2, LenProperties
<1>5. c # VendorOptions /\ c # QualifiedDomainName /\ c # ClientIdentifier
      /\ c # ParameterRequestList /\ c \notin ListOptions
  BY DEF AddressOptions, ListOptions, NumberOptions, TextOptions,
     VendorOptions, ParameterRequestList, ClientIdentifier,
     QualifiedDomainName
<1>6. Writer!Declared(c, v) = Len(v[1])
  BY <1>5 DEF Writer!Declared, Writer!ListOptions, Writer!VendorOptions,
     Writer!ClientIdentifier, Writer!ParameterRequestList,
     Writer!QualifiedDomainName, ListOptions, VendorOptions,
     ParameterRequestList, ClientIdentifier, QualifiedDomainName
<1>7. Holds(buf, p + 2, v[1])
  <2>1. Chunks(c, v) = v BY <1>5 DEF Chunks
  <2>2. Ends(v)[0] = 0 BY <1>2, EndsIs
  <2>3. Holds(buf, (p + 2) + Ends(v)[1 - 1], v[1])
    BY <1>1, <1>3, <1>5, <2>1 DEF ValueHeld
  <2>4. (p + 2) + Ends(v)[1 - 1] = p + 2 BY <1>1, <2>2
  <2>5. QED BY <2>3, <2>4
<1>8. datagram = Written /\ buf \in Seq(Octet) BY DEF Reader, Placed
<1> PICK t, q : t = v[1] /\ q = p + 2
  OBVIOUS
<1>9. /\ q \in Nat /\ 240 + q = o /\ o \in Int
      /\ t \in Seq(Octet) /\ Holds(buf, q, t)
  BY <1>1, <1>4, <1>7
<1>10. /\ Part(240 + q, 240 + q + Len(t)) \in PartRecord
       /\ BytesOf(Part(240 + q, 240 + q + Len(t))) = t
       /\ 240 + q + Len(t) <= End /\ End \in Int
       /\ \A j \in 1 .. Len(t) : Byte(239 + q + j) = t[j]
  BY ONLY <1>8, <1>9, HeldIs
<1>11. \A j \in 1 .. Len(t) : Byte(o + j - 1) = t[j]
  <2>1. \A j \in 1 .. Len(t) : o + j - 1 = 239 + q + j BY <1>4, <1>9
  <2>2. QED BY <1>10, <2>1
<1>12. QED BY <1>1, <1>3, <1>4, <1>6, <1>9, <1>10, <1>11

\* A case that reads its value in one go, when the value is the option's.
LEMMA ReadPartsIs ==
  ASSUME NEW pos, NEW e, Reader(pos, e), NEW n \in Nat, Between(pos, e, n),
         NEW codes, NEW parts, ReadParts(codes, parts),
         NEW c, Next1(pos, n, c), UNCHANGED writerVars,
         parts \in Seq(PartRecord \cup {Undefined}),
         Len(parts) = Len(options[c]),
         \A k \in 1 .. Len(options[c]) :
           BytesOf(parts[k]) = Returned(c, options[c])[k]
  PROVE  Progress(pos, e)'
<1>1. /\ Option(codes) /\ Store(Byte(offset), parts) /\ stage' = "options"
      /\ offset' = offset + 2 + Byte(offset + 1)
  BY DEF ReadParts, Option
<1>2. c = Byte(offset) BY DEF Next1
<1>3. Store(c, parts) BY <1>1, <1>2
<1>4. QED BY <1>1, <1>3, WholeRead

\* The values of one part.
LEMMA ReadOneIs ==
  ASSUME NEW pos, NEW e, Reader(pos, e), NEW n \in Nat, Between(pos, e, n),
         NEW codes, NEW p \in PartRecord \cup {Undefined},
         ReadParts(codes, <<p>>),
         NEW c, Next1(pos, n, c), UNCHANGED writerVars,
         Len(options[c]) = 1, BytesOf(p) = Returned(c, options[c])[1]
  PROVE  Progress(pos, e)'
<1> PICK parts : parts = <<p>>
  OBVIOUS
<1>1. /\ parts \in Seq(PartRecord \cup {Undefined}) /\ Len(parts) = 1
      /\ parts[1] = p /\ ReadParts(codes, parts)
  OBVIOUS
<1>2. \A k \in 1 .. Len(options[c]) :
        BytesOf(parts[k]) = Returned(c, options[c])[k]
  BY <1>1
<1>3. QED BY <1>1, <1>2, ReadPartsIs

\* What is known where an option is read: its code is one of the case's, and
\* it comes next.
LEMMA CaseIs ==
  ASSUME NEW pos, NEW e, Reader(pos, e), Progress(pos, e),
         NEW codes, Option(codes)
  PROVE  /\ offset \in Int /\ 240 <= offset /\ Byte(offset) \in codes
         /\ \E n \in Nat : Between(pos, e, n)
         /\ \A n \in Nat : Between(pos, e, n) /\ 255 \notin codes =>
              \E c \in Present : Next1(pos, n, c) /\ c \in codes
<1>1. /\ stage = "options" /\ offset \in Int /\ 240 <= offset
      /\ Byte(offset) \in codes
  BY CaseKnows DEF Reader
<1>2. at # 0 => Byte(at) # 255 BY DEF Option, More
<1>3. \E n \in Nat : Between(pos, e, n) BY <1>1, <1>2 DEF Progress, AtEnd
<1>4. ASSUME NEW n \in Nat, Between(pos, e, n), 255 \notin codes
      PROVE  \E c \in Present : Next1(pos, n, c) /\ c \in codes
  <2>1. PICK c : Next1(pos, n, c) BY <1>1, <1>4, OnCode
  <2>2. c \in Present /\ c \in codes BY <1>1, <2>1 DEF Next1
  <2>3. QED BY <2>1, <2>2
<1>5. QED BY <1>1, <1>3, <1>4

\* An address, or nothing when it starts with 0.
LEMMA ReadIpIs ==
  ASSUME NEW pos, NEW e, Reader(pos, e), Progress(pos, e), ReadIp,
         UNCHANGED writerVars
  PROVE  Progress(pos, e)'
<1> PICK codes : codes = AddressOptions
  OBVIOUS
<1>1. ReadParts(codes, <<Ip(offset + 2)>>) BY DEF ReadIp
<1>2. Option(codes) BY <1>1 DEF ReadParts
<1>3. 255 \notin codes BY DEF AddressOptions
<1>4. PICK n \in Nat : Between(pos, e, n) BY <1>2, CaseIs
<1>5. PICK c \in Present : Next1(pos, n, c) /\ c \in codes
  BY <1>2, <1>3, <1>4, CaseIs
<1> PICK v, t, o : v = options[c] /\ t = v[1] /\ o = offset + 2
  OBVIOUS
<1>6. offset = 240 + pos[c] BY <1>5 DEF Next1
<1>7. /\ Len(v) = 1 /\ DOMAIN v = {1}
      /\ o + Len(t) <= End /\ o \in Int /\ End \in Int
      /\ Part(o, o + Len(t)) \in PartRecord
      /\ BytesOf(Part(o, o + Len(t))) = t
      /\ \A j \in 1 .. Len(t) : Byte(o + j - 1) = t[j]
  BY <1>5, <1>6, SinglePart
<1>8. Len(t) = 4 /\ c \in Handled
  <2>1. c \in Handled /\ IsValue(c, v) /\ ~Writer!Falsy(c, v) BY HeadIs
  <2>2. Len(t) \in {0, 4} BY <1>5, <2>1 DEF IsValue
  <2>3. t # <<>>
    BY <1>5, <2>1 DEF Writer!Falsy, AddressOptions, Writer!AddressOptions
  <2>4. t \in Seq(Octet) BY <1>5, SinglePart
  <2>5. QED BY <2>1, <2>2, <2>3, <2>4, EmptySeq
<1>9. Byte(o) = t[1]
  <2>1. 1 \in 1 .. Len(t) /\ o + 1 - 1 = o BY <1>7, <1>8
  <2>2. QED BY <1>7, <2>1
<1>10. Returned(c, v)[1] = IF t[1] = 0 THEN Undefined ELSE t
  BY <1>5, <1>7, <1>8, ReturnedIs
<1> PICK p : p = Ip(o)
  OBVIOUS
<1>11. p = IF t[1] = 0 THEN Undefined ELSE Part(o, o + 4)
  BY <1>9 DEF Ip
<1>12. p \in PartRecord \cup {Undefined} /\ BytesOf(p) = Returned(c, v)[1]
  BY <1>7, <1>8, <1>10, <1>11 DEF BytesOf
<1>13. ReadParts(codes, <<p>>) BY <1>1
<1>14. QED BY <1>4, <1>5, <1>7, <1>12, <1>13, ReadOneIs

\* A number of the width of its option.
LEMMA ReadNumberIs ==
  ASSUME NEW pos, NEW e, Reader(pos, e), Progress(pos, e), ReadNumber,
         UNCHANGED writerVars
  PROVE  Progress(pos, e)'
<1> PICK codes, o : codes = NumberOptions /\ o = offset + 2
  OBVIOUS
<1> PICK p : p = IF Byte(offset) = 53 /\ Byte(o) \notin DHCPMessageType
                 THEN Undefined ELSE Part(o, o + Width(Byte(offset)))
  OBVIOUS
<1>1. ReadParts(codes, <<p>>) BY DEF ReadNumber
<1>2. Option(codes) BY <1>1 DEF ReadParts
<1>3. 255 \notin codes BY DEF NumberOptions
<1>4. PICK n \in Nat : Between(pos, e, n) BY <1>2, CaseIs
<1>5. PICK c \in Present : Next1(pos, n, c) /\ c \in codes
  BY <1>2, <1>3, <1>4, CaseIs
<1> PICK v, t : v = options[c] /\ t = v[1]
  OBVIOUS
<1>6. offset = 240 + pos[c] /\ Byte(offset) = c BY <1>5 DEF Next1
<1>7. /\ Len(v) = 1 /\ DOMAIN v = {1}
      /\ o + Len(t) <= End /\ o \in Int /\ End \in Int
      /\ Part(o, o + Len(t)) \in PartRecord
      /\ BytesOf(Part(o, o + Len(t))) = t
      /\ \A j \in 1 .. Len(t) : Byte(o + j - 1) = t[j]
  BY <1>5, <1>6, SinglePart
<1>8. Len(t) = Width(c) /\ c \in Handled
  <2>1. c \in Handled /\ IsValue(c, v) BY HeadIs
  <2>2. QED BY <1>5, <2>1 DEF IsValue
<1>9. c = 53 => Byte(o) = t[1]
  <2>1. c = 53 => 1 \in 1 .. Len(t) BY <1>8 DEF Width
  <2>2. o + 1 - 1 = o BY <1>7
  <2>3. QED BY <1>7, <2>1, <2>2
<1>10. Returned(c, v)[1] = IF c = 53 /\ t[1] \notin DHCPMessageType
                           THEN Undefined ELSE t
  BY <1>5, <1>7, <1>8, ReturnedIs
<1>11. p = IF c = 53 /\ t[1] \notin DHCPMessageType THEN Undefined
           ELSE Part(o, o + Len(t))
  BY <1>6, <1>8, <1>9
<1>12. p \in PartRecord \cup {Undefined} /\ BytesOf(p) = Returned(c, v)[1]
  BY <1>7, <1>10, <1>11 DEF BytesOf
<1>13. QED BY <1>1, <1>4, <1>5, <1>7, <1>12, ReadOneIs

\* A text, up to its end.
LEMMA ReadStringIs ==
  ASSUME NEW pos, NEW e, Reader(pos, e), Progress(pos, e), ReadString,
         UNCHANGED writerVars
  PROVE  Progress(pos, e)'
<1> PICK codes, o : codes = TextOptions /\ o = offset + 2
  OBVIOUS
<1> PICK p : p = Text(o, o + Byte(offset + 1))
  OBVIOUS
<1>1. ReadParts(codes, <<p>>) BY DEF ReadString
<1>2. Option(codes) BY <1>1 DEF ReadParts
<1>3. 255 \notin codes BY DEF TextOptions
<1>4. PICK n \in Nat : Between(pos, e, n) BY <1>2, CaseIs
<1>5. PICK c \in Present : Next1(pos, n, c) /\ c \in codes
  BY <1>2, <1>3, <1>4, CaseIs
<1> PICK v, t : v = options[c] /\ t = v[1]
  OBVIOUS
<1>6. offset = 240 + pos[c] /\ Byte(offset) = c BY <1>5 DEF Next1
<1>7. /\ Len(v) = 1 /\ DOMAIN v = {1} /\ Byte(offset + 1) = Len(t)
      /\ o + Len(t) <= End /\ o \in Int /\ End \in Int /\ Len(t) \in Nat
      /\ Part(o, o + Len(t)) \in PartRecord
      /\ BytesOf(Part(o, o + Len(t))) = t
  BY <1>5, <1>6, SinglePart
<1>8. p = Part(o, o + Len(t))
  <2>1. o + Len(t) < End \/ o + Len(t) = End BY <1>7
  <2>2. QED BY <1>7, <2>1 DEF Text
<1>9. c # 53 BY <1>5 DEF TextOptions
<1>10. c \in Handled BY HeadIs
<1>11. Returned(c, v)[1] = t BY <1>5, <1>7, <1>9, <1>10, ReturnedIs
<1>12. QED BY <1>1, <1>4, <1>5, <1>7, <1>8, <1>11, ReadOneIs

\* A part of a value of several.
LEMMA ChunkIs ==
  ASSUME NEW pos, NEW e, Reader(pos, e), NEW c \in Present,
         c # QualifiedDomainName, NEW k \in 1 .. Len(options[c])
  PROVE  LET w == Chunks(c, options[c])
             o == 240 + pos[c] + 2 + Ends(w)[k - 1]
         IN /\ w[k] \in Seq(Octet) /\ Len(w[k]) \in Nat /\ o \in Int
            /\ Ends(w)[k - 1] \in Nat
            /\ Ends(w)[k] = Ends(w)[k - 1] + Len(w[k])
            /\ o + Len(w[k]) <= End /\ End \in Int
            /\ Part(o, o + Len(w[k])) \in PartRecord
            /\ BytesOf(Part(o, o + Len(w[k]))) = w[k]
            /\ \A j \in 1 .. Len(w[k]) : Byte(o + j - 1) = w[k][j]
            /\ Len(w[k]) > 0 => Byte(o) = w[k][1]
<1> PICK v, w, p : v = options[c] /\ w = Chunks(c, v) /\ p = pos[c]
  OBVIOUS
<1>1. /\ c \in Handled /\ IsValue(c, v) /\ Writer!Fits(c, v) /\ p \in Nat
      /\ ValueHeld(buf, c, v, p + 2)
  BY HeadIs
<1>2. w \in Seq(Seq(Octet)) /\ Len(w) = Len(v) /\ Len(v) \in Nat
  BY <1>1, ChunksAre
<1>3. k \in 1 .. Len(w) /\ k - 1 \in 0 .. Len(w) BY <1>2
<1>4. /\ w[k] \in Seq(Octet) /\ Len(w[k]) \in Nat /\ Ends(w)[k - 1] \in Nat
      /\ Ends(w)[k] = Ends(w)[k - 1] + Len(w[k])
  BY <1>2, <1>3, EndsIs
<1>5. Holds(buf, (p + 2) + Ends(w)[k - 1], w[k])
  BY <1>1, <1>3 DEF ValueHeld
<1> PICK t, q, o : /\ t = w[k] /\ q = (p + 2) + Ends(w)[k - 1]
                   /\ o = 240 + p + 2 + Ends(w)[k - 1]
  OBVIOUS
<1>6. /\ q \in Nat /\ 240 + q = o /\ o \in Int
      /\ t \in Seq(Octet) /\ Holds(buf, q, t)
  BY <1>1, <1>4, <1>5
<1>7. datagram = Written /\ buf \in Seq(Octet) BY DEF Reader, Placed
<1>8. /\ Part(240 + q, 240 + q + Len(t)) \in PartRecord
      /\ BytesOf(Part(240 + q, 240 + q + Len(t))) = t
      /\ 240 + q + Len(t) <= End /\ End \in Int
      /\ \A j \in 1 .. Len(t) : Byte(239 + q + j) = t[j]
  BY ONLY <1>6, <1>7, HeldIs
<1>9. \A j \in 1 .. Len(t) : Byte(o + j - 1) = t[j]
  <2>1. \A j \in 1 .. Len(t) : o + j - 1 = 239 + q + j BY <1>4, <1>6
  <2>2. QED BY <1>8, <2>1
<1>10. Len(t) > 0 => Byte(o) = t[1]
  <2>1. Len(t) > 0 => 1 \in 1 .. Len(t) BY <1>4, <1>6
  <2>2. o + 1 - 1 = o BY <1>6
  <2>3. QED BY <1>9, <2>1, <2>2
<1>11. QED BY <1>4, <1>6, <1>8, <1>9, <1>10

\* A type and an address of six bytes.
LEMMA ReadClientIdentifierIs ==
  ASSUME NEW pos, NEW e, Reader(pos, e), Progress(pos, e),
         ReadClientIdentifier, UNCHANGED writerVars
  PROVE  Progress(pos, e)'
<1> PICK codes, o : codes = {ClientIdentifier} /\ o = offset + 2
  OBVIOUS
<1> PICK type : type = IF Byte(o) \in ARPHardwareType THEN Part(o, o + 1)
                       ELSE Undefined
  OBVIOUS
<1> PICK parts : parts = <<type, Part(o + 1, o + Byte(offset + 1))>>
  OBVIOUS
<1>1. ReadParts(codes, parts) BY DEF ReadClientIdentifier
<1>2. Option(codes) BY <1>1 DEF ReadParts
<1>3. 255 \notin codes BY DEF ClientIdentifier
<1>4. PICK n \in Nat : Between(pos, e, n) BY <1>2, CaseIs
<1>5. PICK c \in Present : Next1(pos, n, c) /\ c \in codes
  BY <1>2, <1>3, <1>4, CaseIs
<1> PICK v, p : v = options[c] /\ p = pos[c]
  OBVIOUS
<1>6. offset = 240 + p /\ c = ClientIdentifier BY <1>5 DEF Next1
<1>7. /\ c \in Handled /\ IsValue(c, v) /\ Writer!Fits(c, v) /\ p \in Nat
      /\ Byte(offset + 1) = Writer!Declared(c, v)
  BY <1>6, HeadIs
<1>8. Len(v) = 2 /\ Len(v[1]) = 1 /\ Len(v[2]) = 6
      /\ v \in Seq(Seq(Octet)) /\ DOMAIN v = 1 .. 2
  <2>1. Len(v) = 2 /\ Len(v[1]) = 1 BY <1>6, <1>7 DEF IsValue
  <2>2. Len(v[2]) = 6
    BY <1>6, <1>7 DEF Writer!Fits, ClientIdentifier, Writer!ClientIdentifier
  <2>3. v \in Seq(Seq(Octet)) BY <1>7, ChunksAre
  <2>4. QED BY <2>1, <2>2, <2>3, LenProperties
<1>9. Byte(offset + 1) = 7
  <2>1. Writer!Declared(c, v) = Len(v[2]) + 1
    BY <1>6 DEF Writer!Declared, Writer!ListOptions,
       Writer!VendorOptions, Writer!ClientIdentifier,
       Writer!ParameterRequestList, ListOptions, VendorOptions,
       ParameterRequestList, ClientIdentifier
  <2>2. QED BY <1>7, <1>8, <2>1
<1>10. Chunks(c, v) = v BY <1>6 DEF Chunks, ClientIdentifier, VendorOptions
<1>11. c # QualifiedDomainName
  BY <1>6 DEF ClientIdentifier, QualifiedDomainName
<1>12. Ends(v)[0] = 0 BY <1>8, EndsIs
<1>13. /\ o + 0 = 240 + p + 2 + Ends(v)[1 - 1] /\ o \in Int
       /\ Part(o, o + 1) \in PartRecord /\ BytesOf(Part(o, o + 1)) = v[1]
       /\ Byte(o) = v[1][1] /\ Ends(v)[1] = 1
  <2>1. 1 \in 1 .. Len(v) /\ 1 - 1 = 0 BY <1>8
  <2>2. 240 + p + 2 + Ends(v)[1 - 1] = o BY <1>6, <1>7, <1>12, <2>1
  <2>3. o \in Int /\ o + 0 = o BY <1>6, <1>7
  <2>4. /\ Ends(v)[1] = Ends(v)[0] + Len(v[1])
        /\ Part(o, o + Len(v[1])) \in PartRecord
        /\ BytesOf(Part(o, o + Len(v[1]))) = v[1]
        /\ Len(v[1]) > 0 => Byte(o) = v[1][1]
    BY <1>10, <1>11, <2>1, <2>2, ChunkIs
  <2>5. QED BY <1>8, <1>12, <2>2, <2>3, <2>4
<1>14. /\ Part(o + 1, o + 7) \in PartRecord
       /\ BytesOf(Part(o + 1, o + 7)) = v[2]
  <2>1. 2 \in 1 .. Len(v) /\ 2 - 1 = 1 BY <1>8
  <2>2. 240 + p + 2 + Ends(v)[2 - 1] = o + 1
    BY <1>6, <1>7, <1>13, <2>1
  <2>3. /\ Part(o + 1, (o + 1) + Len(v[2])) \in PartRecord
        /\ BytesOf(Part(o + 1, (o + 1) + Len(v[2]))) = v[2]
    BY <1>10, <1>11, <2>1, <2>2, ChunkIs
  <2>4. (o + 1) + Len(v[2]) = o + 7 BY <1>8, <1>13
  <2>5. QED BY <2>3, <2>4
<1>15. /\ Returned(c, v)[1] = IF v[1][1] \notin ARPHardwareType
                              THEN Undefined ELSE v[1]
       /\ Returned(c, v)[2] = v[2]
  <2>1. 1 \in DOMAIN v /\ 2 \in DOMAIN v BY <1>8
  <2>2. QED BY <1>6, <1>7, <2>1, ReturnedIs
<1>16. /\ type \in PartRecord \cup {Undefined}
       /\ BytesOf(type) = Returned(c, v)[1]
  BY <1>13, <1>15 DEF BytesOf
<1>17. /\ parts \in Seq(PartRecord \cup {Undefined}) /\ Len(parts) = 2
       /\ parts[1] = type /\ parts[2] = Part(o + 1, o + 7)
  BY <1>9, <1>14, <1>16
<1>18. \A k \in 1 .. Len(v) : BytesOf(parts[k]) = Returned(c, v)[k]
  <2>1. \A k \in 1 .. Len(v) : k = 1 \/ k = 2 BY <1>8
  <2>2. QED BY <1>14, <1>15, <1>16, <1>17, <2>1
<1>19. QED BY <1>1, <1>4, <1>5, <1>8, <1>17, <1>18, ReadPartsIs

\* Flags, and a name behind two bytes that are not looked at.
LEMMA ReadDomainNameIs ==
  ASSUME NEW pos, NEW e, Reader(pos, e), Progress(pos, e),
         ReadDomainName, UNCHANGED writerVars
  PROVE  Progress(pos, e)'
<1> PICK codes, o : codes = {QualifiedDomainName} /\ o = offset + 2
  OBVIOUS
<1> PICK parts : parts = <<Part(o, o + 1),
                           Text(o + 3, o + Byte(offset + 1))>>
  OBVIOUS
<1>1. ReadParts(codes, parts) BY DEF ReadDomainName
<1>2. Option(codes) BY <1>1 DEF ReadParts
<1>3. 255 \notin codes BY DEF QualifiedDomainName
<1>4. PICK n \in Nat : Between(pos, e, n) BY <1>2, CaseIs
<1>5. PICK c \in Present : Next1(pos, n, c) /\ c \in codes
  BY <1>2, <1>3, <1>4, CaseIs
<1> PICK v, p : v = options[c] /\ p = pos[c]
  OBVIOUS
<1>6. offset = 240 + p /\ c = QualifiedDomainName BY <1>5 DEF Next1
<1>7. /\ c \in Handled /\ IsValue(c, v) /\ Writer!Fits(c, v) /\ p \in Nat
      /\ Byte(offset + 1) = Writer!Declared(c, v)
      /\ ValueHeld(buf, c, v, p + 2)
  BY <1>6, HeadIs
<1>8. Len(v) = 2 /\ Len(v[1]) = 1
      /\ v \in Seq(Seq(Octet)) /\ DOMAIN v = 1 .. 2
  <2>1. Len(v) = 2 /\ Len(v[1]) = 1 BY <1>6, <1>7 DEF IsValue
  <2>2. v \in Seq(Seq(Octet)) BY <1>7, ChunksAre
  <2>3. QED BY <2>1, <2>2, LenProperties
<1> PICK f, t : f = v[1] /\ t = v[2]
  OBVIOUS
<1>9. f \in Seq(Octet) /\ t \in Seq(Octet) /\ Len(t) \in Nat /\ Len(f) = 1
  <2>1. 1 \in 1 .. Len(v) /\ 2 \in 1 .. Len(v) BY <1>8
  <2>2. f \in Seq(Octet) /\ t \in Seq(Octet) BY <1>8, <2>1, ElementOfSeq
  <2>3. QED BY <1>8, <2>2, LenProperties
<1>10. Byte(offset + 1) = Len(t) + 3
  BY <1>6, <1>7 DEF Writer!Declared, Writer!ListOptions,
     Writer!VendorOptions, Writer!ClientIdentifier,
     Writer!ParameterRequestList, Writer!QualifiedDomainName, ListOptions,
     VendorOptions, ParameterRequestList, ClientIdentifier,
     QualifiedDomainName
<1> PICK q, r : q = p + 2 /\ r = (p + 2) + 3
  OBVIOUS
<1>11. /\ q \in Nat /\ r \in Nat /\ o = 240 + q /\ o + 3 = 240 + r
       /\ o \in Int /\ Holds(buf, q, f) /\ Holds(buf, r, t)
  BY <1>6, <1>7 DEF ValueHeld
<1>12. datagram = Written /\ buf \in Seq(Octet) BY DEF Reader, Placed
<1>13. Part(o, o + 1) \in PartRecord /\ BytesOf(Part(o, o + 1)) = f
  <2>1. /\ Part(240 + q, 240 + q + Len(f)) \in PartRecord
        /\ BytesOf(Part(240 + q, 240 + q + Len(f))) = f
    BY ONLY <1>9, <1>11, <1>12, HeldIs
  <2>2. QED BY <1>9, <1>11, <2>1
<1>14. /\ Text(o + 3, o + Byte(offset + 1)) \in PartRecord
       /\ BytesOf(Text(o + 3, o + Byte(offset + 1))) = t
  <2>1. /\ Part(240 + r, 240 + r + Len(t)) \in PartRecord
        /\ BytesOf(Part(240 + r, 240 + r + Len(t))) = t
        /\ 240 + r + Len(t) <= End /\ End \in Int
    BY ONLY <1>9, <1>11, <1>12, HeldIs
  <2> PICK m : m = 240 + r + Len(t)
    OBVIOUS
  <2>2. o + Byte(offset + 1) = m /\ m \in Int
    <3> PICK l : l = Len(t)
      OBVIOUS
    <3>1. /\ l \in Nat /\ o \in Int /\ r \in Nat /\ o + 3 = 240 + r
          /\ Byte(offset + 1) = l + 3 /\ m = 240 + r + l
      BY <1>9, <1>10, <1>11
    <3>2. QED BY ONLY <3>1
  <2>3. m < End \/ m = End BY <2>1, <2>2
  <2>4. Text(o + 3, m) = Part(240 + r, m) BY <1>11, <2>3 DEF Text
  <2>5. QED BY <2>1, <2>2, <2>4
<1>15. Returned(c, v)[1] = f /\ Returned(c, v)[2] = t
  <2>1. 1 \in DOMAIN v /\ 2 \in DOMAIN v /\ c # 53
    BY <1>6, <1>8 DEF QualifiedDomainName
  <2>2. QED BY <1>6, <1>7, <2>1, ReturnedIs
<1>16. /\ parts \in Seq(PartRecord \cup {Undefined}) /\ Len(parts) = 2
       /\ BytesOf(parts[1]) = f /\ BytesOf(parts[2]) = t
  BY <1>13, <1>14
<1>17. \A k \in 1 .. Len(v) : BytesOf(parts[k]) = Returned(c, v)[k]
  <2>1. \A k \in 1 .. Len(v) : k = 1 \/ k = 2 BY <1>8
  <2>2. QED BY <1>15, <1>16, <2>1
<1>18. QED BY <1>1, <1>4, <1>5, <1>8, <1>16, <1>17, ReadPartsIs

\* There is no padding before the end option.
LEMMA SkipByteIs ==
  ASSUME NEW pos, NEW e, Reader(pos, e), Progress(pos, e),
         SkipByte, UNCHANGED writerVars
  PROVE  Progress(pos, e)'
<1>1. /\ Option({0, 255}) /\ stage' = "options" /\ packets' = packets
      /\ stage = "options"
  BY DEF SkipByte, Option
<1>2. /\ at' = offset /\ datagram' = datagram /\ offset \in Int
      /\ Byte(offset) \in {0, 255}
  BY <1>1, CaseKnows DEF Reader
<1>3. PICK n \in Nat : Between(pos, e, n) BY <1>1, CaseIs
<1>4. ASSUME NEW c, Next1(pos, n, c) PROVE FALSE
  <2>1. c \in Present /\ c \in {0, 255} BY <1>2, <1>4 DEF Next1
  <2>2. c \in Handled BY <2>1, HeadIs
  <2>3. QED BY <2>1, <2>2, Codes
<1>5. /\ Byte(offset) = 255 /\ offset # 0
      /\ Present = {d \in Present : d < n}
  BY <1>2, <1>3, <1>4, OnCode
<1>6. AllRead(Options, Present) BY <1>3, <1>5 DEF Between
<1>7. /\ Present' = Present /\ options' = options
      /\ \A o : Byte(o)' = Byte(o)
      /\ \A d, x, j : PartsRead(d, x, j)' <=> PartsRead(d, x, j)
  BY <1>2, ReaderStays
<1>8. AtEnd'
  <2>1. at' # 0 /\ Byte(at)' = 255 BY <1>2, <1>5, <1>7 DEF Byte
  <2>2. Options' = Options BY <1>1 DEF Options, Current
  <2>3. AllRead(Options, Present)'
    <3>1. \A d, x : Whole(d, x)' <=> Whole(d, x) BY <1>7 DEF Whole
    <3> HIDE DEF Present, Whole, Options
    <3>2. QED BY <1>6, <1>7, <2>2, <3>1 DEF AllRead
  <2>4. QED BY <2>1, <2>3 DEF AtEnd
<1>9. QED BY <1>1, <1>8 DEF Progress, Loops

\* Every code is one the parser handles.
LEMMA NoSkipOption ==
  ASSUME NEW pos, NEW e, Reader(pos, e), Progress(pos, e), SkipOption
  PROVE  FALSE
<1> PICK codes : codes = (0 .. 255) \ (Handled \cup {0, 255})
  OBVIOUS
<1>1. Option(codes) BY DEF SkipOption
<1>2. 255 \notin codes OBVIOUS
<1>3. PICK n \in Nat : Between(pos, e, n) BY <1>1, CaseIs
<1>4. PICK c \in Present : c \in codes BY <1>1, <1>2, <1>3, CaseIs
<1>5. c \in Handled BY HeadIs
<1>6. QED BY <1>4, <1>5

-----------------------------------------------------------------------------
(* The cases with a loop. *)

LoopOptions == ListOptions \cup {ParameterRequestList, VendorOptions}

\* What is left of the option is what is left of its parts.
LEMMA PartsLeft ==
  ASSUME NEW pos, NEW e, Reader(pos, e), NEW c \in Present,
         c \in LoopOptions, NEW j \in 0 .. Len(options[c])
  PROVE  LET left == Writer!Declared(c, options[c])
                       - Ends(Chunks(c, options[c]))[j]
         IN /\ Ends(Chunks(c, options[c]))[j] \in Nat
            /\ Writer!Declared(c, options[c]) \in Nat
            /\ Len(options[c]) \in Nat
            /\ j < Len(options[c]) => left > 0
            /\ j = Len(options[c]) => left = 0
            /\ Ends(Chunks(c, options[c]))[0] = 0
<1> PICK v, w, l : v = options[c] /\ w = Chunks(c, v) /\ l = Len(v)
  OBVIOUS
<1>1. c \in Handled /\ IsValue(c, v) /\ Writer!Fits(c, v) BY HeadIs
<1>2. c # QualifiedDomainName
  BY DEF LoopOptions, ListOptions, ParameterRequestList, VendorOptions,
     QualifiedDomainName
<1>3. /\ w \in Seq(Seq(Octet)) /\ Len(w) = l /\ l \in Nat
      /\ v \in Seq(Seq(Octet))
      /\ Writer!Declared(c, v) = Ends(w)[l]
  BY <1>1, <1>2, ChunksAre
<1> PICK f : f = Ends(w)
  OBVIOUS
<1>4. /\ f \in [0 .. l -> Nat] /\ f[0] = 0
      /\ \A k \in 1 .. l : /\ f[k] = f[k - 1] + Len(w[k]) /\ f[k] <= f[l]
                           /\ Len(w[k]) \in Nat /\ w[k] \in Seq(Octet)
  BY <1>3, EndsIs
<1>5. ASSUME NEW k \in 1 .. l PROVE Len(w[k]) > 0
  <2>1. DOMAIN v = 1 .. l BY <1>3, LenProperties
  <2>2. CASE c \in ListOptions
    <3>1. w[k] = v[k] BY <2>2 DEF Chunks, ListOptions, VendorOptions
    <3>2. Len(v[k]) = 4 BY <1>1, <2>1, <2>2 DEF IsValue
    <3>3. QED BY <3>1, <3>2
  <2>3. CASE c = ParameterRequestList
    <3>1. w[k] = v[k]
      BY <2>3 DEF Chunks, ParameterRequestList, VendorOptions
    <3>2. Len(v[k]) = 1 BY <1>1, <2>1, <2>3 DEF IsValue
    <3>3. QED BY <3>1, <3>2
  <2>4. CASE c = VendorOptions
    <3>1. Len(v[k]) \in Nat /\ Len(w[k]) = 1 + Len(v[k])
      BY <1>1, <2>4, ChunksAre
    <3>2. QED BY <3>1
  <2>5. QED BY <2>2, <2>3, <2>4 DEF LoopOptions
<1>6. f[j] \in Nat /\ f[l] \in Nat
  <2>1. j \in 0 .. l /\ l \in 0 .. l BY <1>3
  <2>2. QED BY <1>4, <2>1
<1>7. ASSUME j < l PROVE f[l] - f[j] > 0
  <2>1. j + 1 \in 1 .. l /\ (j + 1) - 1 = j BY <1>3, <1>7
  <2>2. f[j + 1] = f[j] + Len(w[j + 1]) /\ f[j + 1] <= f[l]
        /\ Len(w[j + 1]) \in Nat /\ Len(w[j + 1]) > 0
    BY <1>4, <1>5, <2>1
  <2> PICK a, b, d, m : /\ a = f[j] /\ b = f[j + 1] /\ d = f[l]
                        /\ m = Len(w[j + 1])
    OBVIOUS
  <2>3. a \in Nat /\ d \in Nat /\ m \in Nat /\ b = a + m /\ b <= d /\ m > 0
    BY <1>6, <2>2
  <2>4. d - a > 0 BY ONLY <2>3
  <2>5. QED BY <2>4
<1>8. j = l => f[l] - f[j] = 0 BY <1>6
<1>9. QED BY <1>3, <1>4, <1>6, <1>7, <1>8

\* With parts left the loop goes on; without, the next option comes.
LEMMA LoopGoesOn ==
  ASSUME NEW pos, NEW e, Reader(pos, e), UNCHANGED writerVars,
         datagram' = datagram, NEW c \in Present, c \in LoopOptions,
         NEW loop \in Loops, NEW j \in 0 .. Len(options[c]),
         at' = 240 + pos[c],
         offset' = at' + 2 + Ends(Chunks(c, options[c]))[j],
         len' = Writer!Declared(c, options[c])
                  - Ends(Chunks(c, options[c]))[j],
         stage' = IF len' > 0 THEN loop ELSE "options",
         ReadUpTo(c, j, Options')
  PROVE  Progress(pos, e)'
<1> PICK l, d, f : /\ l = Len(options[c]) /\ d = Writer!Declared(c, options[c])
                   /\ f = Ends(Chunks(c, options[c]))[j]
  OBVIOUS
<1>1. /\ f \in Nat /\ d \in Nat /\ l \in Nat /\ j \in Nat
      /\ j < l => d - f > 0
      /\ j = l => d - f = 0
      /\ j <= l
  BY PartsLeft
<1>2. /\ buf' = buf /\ options' = options /\ Present' = Present
      /\ \A o : Byte(o)' = Byte(o)
      /\ \A g, x, k : PartsRead(g, x, k)' <=> PartsRead(g, x, k)
  BY ReaderStays
<1>3. Byte(240 + pos[c]) = c BY HeadIs
<1>4. CASE j < l
  <2>1. stage' = loop /\ loop # "options" /\ stage' # "options"
    BY <1>1, <1>4 DEF Loops
  <2>2. Within(pos, c, j)'
    <3>1. Byte(at)' = c BY <1>2, <1>3 DEF Byte
    <3>2. ReadUpTo(c, j, Options)'
      <4>1. \A g, x : Whole(g, x)' <=> Whole(g, x) BY <1>2 DEF Whole
      <4> HIDE DEF Present, Whole, Options, PartsRead
      <4>2. QED BY <1>2, <4>1 DEF ReadUpTo
    <3> HIDE DEF Present, Options, PartsRead, ReadUpTo, Ends, Chunks
    <3>3. QED BY <1>1, <1>2, <1>4, <3>1, <3>2 DEF Within
  <2>3. QED BY <2>1, <2>2 DEF Progress
<1>5. CASE j = l
  <2>1. len' = 0 /\ stage' = "options" BY <1>1, <1>5
  <2>2. offset' = at' + 2 + d
    <3>1. d = f BY <1>1, <1>5
    <3>2. QED BY <3>1
  <2>3. QED BY <1>5, <2>1, <2>2, ComesNext
<1>6. QED BY <1>1, <1>4, <1>5

\* A loop begins with none of the parts read.
LEMMA BeginLoopIs ==
  ASSUME NEW pos, NEW e, Reader(pos, e), Progress(pos, e),
         NEW codes, codes \subseteq LoopOptions, NEW loop \in Loops,
         BeginLoop(codes, loop), UNCHANGED writerVars
  PROVE  Progress(pos, e)'
<1> PICK parts : parts = <<>>
  OBVIOUS
<1>1. /\ Option(codes) /\ Store(Byte(offset), parts)
      /\ len' = Byte(offset + 1) /\ offset' = offset + 2
      /\ stage' = IF len' > 0 THEN loop ELSE "options"
      /\ stage = "options"
  BY DEF BeginLoop, Option
<1>2. 255 \notin codes
  BY DEF LoopOptions, ListOptions, ParameterRequestList, VendorOptions
<1>3. PICK n \in Nat : Between(pos, e, n) BY <1>1, CaseIs
<1>4. PICK c \in Present : Next1(pos, n, c) /\ c \in codes
  BY <1>1, <1>2, <1>3, CaseIs
<1>5. /\ offset = 240 + pos[c] /\ c = Byte(offset) BY <1>4 DEF Next1
<1>6. at' = offset /\ datagram' = datagram BY <1>1, CaseKnows DEF Reader
<1>7. /\ Byte(offset + 1) = Writer!Declared(c, options[c])
      /\ pos[c] \in Nat
  BY <1>5, HeadIs
<1>8. 0 \in 0 .. Len(options[c])
  <2>1. c \in Handled /\ IsValue(c, options[c])
        /\ Writer!Fits(c, options[c])
    BY HeadIs
  <2>2. Len(options[c]) \in Nat BY <2>1, ChunksAre
  <2>3. QED BY <2>2
<1>9. /\ Ends(Chunks(c, options[c]))[0] = 0
      /\ Writer!Declared(c, options[c]) \in Nat
  BY <1>4, <1>8, PartsLeft
<1>10. stage' # "idle" BY <1>1 DEF Loops
<1>11. ReadUpTo(c, 0, Options')
  <2>1. parts \in Seq(PartRecord \cup {Undefined}) /\ Len(parts) = 0
    OBVIOUS
  <2>2. Store(c, parts) BY <1>1, <1>5
  <2>3. \A k \in 1 .. 0 : BytesOf(parts[k]) = Returned(c, options[c])[k]
    OBVIOUS
  <2>4. QED BY <1>1, <1>3, <1>4, <1>6, <1>10, <2>1, <2>2, <2>3, StoreReads
<1>12. /\ at' = 240 + pos[c]
       /\ offset' = at' + 2 + Ends(Chunks(c, options[c]))[0]
       /\ len' = Writer!Declared(c, options[c])
                   - Ends(Chunks(c, options[c]))[0]
  <2> PICK p, d, f : /\ p = pos[c] /\ d = Writer!Declared(c, options[c])
                     /\ f = Ends(Chunks(c, options[c]))[0]
    OBVIOUS
  <2>1. /\ p \in Nat /\ d \in Nat /\ f = 0 /\ offset = 240 + p
        /\ at' = offset /\ offset' = offset + 2 /\ len' = d
    BY <1>1, <1>5, <1>6, <1>7, <1>9
  <2>2. at' = 240 + p /\ offset' = at' + 2 + f /\ len' = d - f
    BY ONLY <2>1
  <2>3. QED BY <2>2
<1>13. c \in LoopOptions BY <1>4
<1>14. QED BY <1>1, <1>6, <1>8, <1>11, <1>12, <1>13, LoopGoesOn

\* Where a loop is: before part j + 1 of an option of its kind.
LEMMA InLoopIs ==
  ASSUME NEW pos, NEW e, Reader(pos, e), Progress(pos, e), stage \in Loops
  PROVE  \E c \in Present : \E j :
           /\ Within(pos, c, j) /\ c \in LoopOptions
           /\ stage = "addresses" => c \in ListOptions
           /\ stage = "bytes" => c = ParameterRequestList
           /\ stage = "vendor" => c = VendorOptions
<1>1. PICK c, j : Within(pos, c, j) BY DEF Progress
<1>2. c \in Present /\ c = Byte(at) BY <1>1 DEF Within
<1>3. InLoop BY DEF Reader, IInv
<1>4. /\ stage = "addresses" => c \in ListOptions
      /\ stage = "bytes" => c = ParameterRequestList
      /\ stage = "vendor" => c = VendorOptions
  BY <1>2, <1>3 DEF InLoop
<1>5. c \in LoopOptions BY <1>4 DEF LoopOptions, Loops
<1>6. QED BY <1>1, <1>2, <1>4, <1>5

\* The part a loop is at.
LEMMA PartIs ==
  ASSUME NEW pos, NEW e, Reader(pos, e), NEW c \in Present, NEW j,
         c \in LoopOptions, Within(pos, c, j)
  PROVE  LET v == options[c]
             t == Chunks(c, v)[j + 1]
         IN /\ c \in Handled /\ IsValue(c, v) /\ Writer!Fits(c, v)
            /\ j + 1 \in DOMAIN v /\ j + 1 \in 1 .. Len(v)
            /\ v \in Seq(Seq(Octet)) /\ t \in Seq(Octet) /\ Len(t) \in Nat
            /\ offset \in Int /\ End \in Int /\ offset + Len(t) <= End
            /\ Part(offset, offset + Len(t)) \in PartRecord
            /\ BytesOf(Part(offset, offset + Len(t))) = t
            /\ \A k \in 1 .. Len(t) : Byte(offset + k - 1) = t[k]
<1> PICK v, o : /\ v = options[c]
                /\ o = 240 + pos[c] + 2 + Ends(Chunks(c, v))[j]
  OBVIOUS
<1>1. c \in Handled /\ IsValue(c, v) /\ Writer!Fits(c, v) BY HeadIs
<1>2. v \in Seq(Seq(Octet)) /\ Len(v) \in Nat BY <1>1, ChunksAre
<1>3. /\ j \in Nat /\ j < Len(v) /\ at = 240 + pos[c]
      /\ offset = at + 2 + Ends(Chunks(c, v))[j]
  BY DEF Within
<1>4. j + 1 \in 1 .. Len(v) /\ (j + 1) - 1 = j BY <1>2, <1>3
<1>5. DOMAIN v = 1 .. Len(v) BY <1>2, LenProperties
<1>6. offset = o BY <1>3
<1>7. c # QualifiedDomainName
  BY DEF LoopOptions, ListOptions, ParameterRequestList, VendorOptions,
     QualifiedDomainName
<1> PICK t : t = Chunks(c, v)[j + 1]
  OBVIOUS
<1>8. /\ t \in Seq(Octet) /\ Len(t) \in Nat /\ o \in Int
      /\ o + Len(t) <= End /\ End \in Int
      /\ Part(o, o + Len(t)) \in PartRecord
      /\ BytesOf(Part(o, o + Len(t))) = t
      /\ \A k \in 1 .. Len(t) : Byte(o + k - 1) = t[k]
  BY <1>4, <1>7, ChunkIs
<1>9. QED BY <1>1, <1>2, <1>4, <1>5, <1>6, <1>8

\* A pass of a loop that reads the next part.
LEMMA IterateIs ==
  ASSUME NEW pos, NEW e, Reader(pos, e), NEW c \in Present, NEW j,
         Within(pos, c, j), c \in LoopOptions,
         NEW loop \in Loops, NEW ok, NEW m, NEW part,
         Iterate(loop, ok, m, part), UNCHANGED writerVars,
         m = Len(Chunks(c, options[c])[j + 1]),
         part \in PartRecord \cup {Undefined},
         BytesOf(part) = Returned(c, options[c])[j + 1]
  PROVE  Progress(pos, e)'
<1> PICK v, w : v = options[c] /\ w = Chunks(c, v)
  OBVIOUS
<1>1. /\ stage = loop /\ stage # "idle" /\ stage' # "idle"
      /\ Push(Byte(at), part) /\ offset' = offset + m /\ len' = len - m
      /\ stage' = IF len' > 0 THEN loop ELSE "options"
      /\ datagram' = datagram /\ at' = at
  BY DEF Iterate, Loops
<1>2. /\ c = Byte(at) /\ at = 240 + pos[c] /\ j \in Nat /\ j < Len(v)
      /\ offset = at + 2 + Ends(w)[j]
      /\ len = Writer!Declared(c, v) - Ends(w)[j]
      /\ ReadUpTo(c, j, Options)
  BY DEF Within
<1>3. /\ j + 1 \in 1 .. Len(v) /\ Len(v) \in Nat /\ j \in 0 .. Len(v)
      /\ j + 1 \in 0 .. Len(v) /\ (j + 1) - 1 = j
  <2>1. j + 1 \in 1 .. Len(v) /\ v \in Seq(Seq(Octet)) BY PartIs
  <2>2. Len(v) \in Nat BY <2>1, LenProperties
  <2>3. QED BY <1>2, <2>1, <2>2
<1>4. /\ Ends(w)[j + 1] = Ends(w)[j] + m /\ Ends(w)[j] \in Nat
      /\ m \in Nat
  <2>1. c # QualifiedDomainName
    BY DEF LoopOptions, ListOptions, ParameterRequestList, VendorOptions,
       QualifiedDomainName
  <2>2. QED BY <1>3, <2>1, ChunkIs
<1>5. pos[c] \in Nat /\ c \in Nat /\ Writer!Declared(c, v) \in Nat
  BY <1>3, HeadIs, PartsLeft
<1>6. /\ at' = 240 + pos[c] /\ offset' = at' + 2 + Ends(w)[j + 1]
      /\ len' = Writer!Declared(c, v) - Ends(w)[j + 1]
  <2> PICK p, d, f, g : /\ p = pos[c] /\ d = Writer!Declared(c, v)
                        /\ f = Ends(w)[j] /\ g = Ends(w)[j + 1]
    OBVIOUS
  <2>1. /\ p \in Nat /\ d \in Nat /\ f \in Nat /\ m \in Nat /\ g = f + m
        /\ at = 240 + p /\ offset = at + 2 + f /\ len = d - f
        /\ at' = at /\ offset' = offset + m /\ len' = len - m
    BY <1>1, <1>2, <1>4, <1>5
  <2>2. at' = 240 + p /\ offset' = at' + 2 + g /\ len' = d - g
    BY ONLY <2>1
  <2>3. QED BY <2>2
<1>7. Options' = [Options EXCEPT ![c].parts = Append(@, part)]
  <2>1. OneInParse BY DEF Reader
  <2>2. Push(c, part) BY <1>1, <1>2
  <2>3. /\ Current' = Current
        /\ packets'[Current].options =
             [packets[Current].options EXCEPT ![c].parts = Append(@, part)]
    BY ONLY <1>1, <2>1, <2>2, PushIs
  <2>4. QED BY <2>3 DEF Options
<1> PICK f : f = Options[c]
  OBVIOUS
<1> PICK x : x = [at |-> f.at, parts |-> Append(f.parts, part)]
  OBVIOUS
<1>8. PartsRead(c, f, j) /\ c \in DOMAIN Options
      /\ Options = [d \in {y \in Present : y < c + 1} |-> Options[d]]
  <2>1. Options = [d \in {y \in Present : y < c + 1} |-> Options[d]]
        /\ PartsRead(c, f, j)
    BY <1>2 DEF ReadUpTo
  <2>2. c \in {y \in Present : y < c + 1} BY <1>5
  <2>3. QED BY <2>1, <2>2
<1>9. [f EXCEPT !.parts = Append(@, part)] = x
  <2>1. PICK a, q, r : a = f.at /\ q = f.parts /\ r = Append(f.parts, part)
    OBVIOUS
  <2>2. f = [at |-> a, parts |-> q] /\ x = [at |-> a, parts |-> r]
    BY <1>8, <2>1 DEF PartsRead
  <2>3. [f EXCEPT !.parts = r] = [at |-> a, parts |-> r] BY <2>2
  <2>4. [f EXCEPT !.parts = Append(@, part)] = [f EXCEPT !.parts = r]
    BY <2>1
  <2>5. QED BY <2>2, <2>3, <2>4
<1>10. Options' = [Options EXCEPT ![c] = x] BY <1>7, <1>9
<1>11. PartsRead(c, x, j + 1)
  <2>1. x.at = f.at /\ x.parts = Append(f.parts, part) OBVIOUS
  <2>2. f.parts \in Seq(PartRecord \cup {Undefined}) /\ Len(f.parts) = j
        /\ \A n \in 1 .. j : BytesOf(f.parts[n]) = Returned(c, v)[n]
    BY <1>8 DEF PartsRead
  <2>3. /\ x.parts \in Seq(PartRecord \cup {Undefined})
        /\ Len(x.parts) = j + 1
        /\ \A n \in 1 .. j : x.parts[n] = f.parts[n]
        /\ x.parts[j + 1] = part
    <3> PICK S, q : S = PartRecord \cup {Undefined} /\ q = f.parts
      OBVIOUS
    <3>1. q \in Seq(S) /\ part \in S BY <2>2
    <3>2. /\ Append(q, part) \in Seq(S) /\ Len(Append(q, part)) = Len(q) + 1
          /\ \A n \in 1 .. Len(q) : Append(q, part)[n] = q[n]
          /\ Append(q, part)[Len(q) + 1] = part
      BY <3>1, AppendProperties
    <3>3. QED BY <2>1, <2>2, <3>2
  <2>4. \A n \in 1 .. j + 1 : BytesOf(x.parts[n]) = Returned(c, v)[n]
    <3>1. \A n \in 1 .. j + 1 : n \in 1 .. j \/ n = j + 1 BY <1>2
    <3>2. QED BY <2>2, <2>3, <3>1
  <2>5. QED BY <2>1, <2>3, <2>4 DEF PartsRead
<1>12. ReadUpTo(c, j + 1, Options')
  <2> DEFINE W == {y \in Present : y < c + 1}
  <2>1. DOMAIN Options = W BY <1>8
  <2>2. ASSUME NEW d \in Present, d < c PROVE Whole(d, Options'[d])
    <3>1. Whole(d, Options[d]) BY <1>2, <2>2 DEF ReadUpTo
    <3>2. d \in Nat
      <4>1. Present \subseteq Nat BY PresentAre DEF Reader
      <4>2. QED BY <4>1
    <3>3. d \in W /\ d # c BY <1>5, <2>2, <3>2
    <3>4. Options'[d] = Options[d] BY <1>10, <2>1, <3>3
    <3>5. QED BY <3>1, <3>4
  <2>3. Options' = [d \in W |-> Options'[d]]
    <3> HIDE DEF W, Options
    <3>1. QED BY <1>8, <1>10, <2>1
  <2>4. Options'[c] = x BY <1>8, <1>10
  <2>5. QED BY <1>11, <2>2, <2>3, <2>4 DEF ReadUpTo
<1>13. QED BY <1>1, <1>3, <1>6, <1>12, LoopGoesOn

\* An address of a list.
LEMMA NextAddressIs ==
  ASSUME NEW pos, NEW e, Reader(pos, e), Progress(pos, e),
         NextAddress, UNCHANGED writerVars
  PROVE  Progress(pos, e)'
<1>1. Iterate("addresses", IpReadable(offset), 4, Ip(offset))
      /\ stage = "addresses" /\ "addresses" \in Loops
  BY DEF NextAddress, Iterate, Loops
<1>2. PICK c \in Present : \E j : Within(pos, c, j) /\ c \in LoopOptions
                                 /\ c \in ListOptions
  BY <1>1, InLoopIs
<1>3. PICK j : Within(pos, c, j) BY <1>2
<1> PICK v, t, k : v = options[c] /\ k = j + 1 /\ t = Chunks(c, v)[k]
  OBVIOUS
<1>4. /\ c \in Handled /\ IsValue(c, v) /\ k \in DOMAIN v
      /\ Part(offset, offset + Len(t)) \in PartRecord
      /\ BytesOf(Part(offset, offset + Len(t))) = t
      /\ offset \in Int
      /\ \A n \in 1 .. Len(t) : Byte(offset + n - 1) = t[n]
  BY <1>2, <1>3, PartIs
<1>5. t = v[k] /\ Len(t) = 4
  <2>1. t = v[k] BY <1>2 DEF Chunks, ListOptions, VendorOptions
  <2>2. Len(v[k]) = 4 BY <1>2, <1>4 DEF IsValue
  <2>3. QED BY <2>1, <2>2
<1>6. Byte(offset) = t[1]
  <2>1. 1 \in 1 .. Len(t) /\ offset + 1 - 1 = offset BY <1>4, <1>5
  <2>2. QED BY <1>4, <2>1
<1>7. Returned(c, v)[k] = IF t[1] = 0 THEN Undefined ELSE t
  BY <1>2, <1>4, <1>5, ReturnedIs
<1> PICK p : p = Ip(offset)
  OBVIOUS
<1>8. p \in PartRecord \cup {Undefined} /\ BytesOf(p) = Returned(c, v)[k]
  BY <1>4, <1>5, <1>6, <1>7 DEF Ip, BytesOf
<1>9. Iterate("addresses", IpReadable(offset), 4, p) BY <1>1
<1>10. QED BY <1>1, <1>2, <1>3, <1>5, <1>8, <1>9, IterateIs

\* A code of the parameter request list.
LEMMA NextByteIs ==
  ASSUME NEW pos, NEW e, Reader(pos, e), Progress(pos, e),
         NextByte, UNCHANGED writerVars
  PROVE  Progress(pos, e)'
<1> PICK p : p = Part(offset, offset + 1)
  OBVIOUS
<1>1. Iterate("bytes", offset < End, 1, p)
      /\ stage = "bytes" /\ "bytes" \in Loops
  BY DEF NextByte, Iterate, Loops
<1>2. PICK c \in Present : \E j : Within(pos, c, j) /\ c \in LoopOptions
                                 /\ c = ParameterRequestList
  BY <1>1, InLoopIs
<1>3. PICK j : Within(pos, c, j) BY <1>2
<1> PICK v, t, k : v = options[c] /\ k = j + 1 /\ t = Chunks(c, v)[k]
  OBVIOUS
<1>4. /\ c \in Handled /\ IsValue(c, v) /\ k \in DOMAIN v
      /\ Part(offset, offset + Len(t)) \in PartRecord
      /\ BytesOf(Part(offset, offset + Len(t))) = t
  BY <1>2, <1>3, PartIs
<1>5. t = v[k] /\ Len(t) = 1
  <2>1. t = v[k] BY <1>2 DEF Chunks, ParameterRequestList, VendorOptions
  <2>2. Len(v[k]) = 1 BY <1>2, <1>4 DEF IsValue
  <2>3. QED BY <2>1, <2>2
<1>6. Returned(c, v)[k] = t
  <2>1. c # 53 BY <1>2 DEF ParameterRequestList
  <2>2. QED BY <1>2, <1>4, <1>5, <2>1, ReturnedIs
<1>7. p \in PartRecord /\ BytesOf(p) = Returned(c, v)[k]
  BY <1>4, <1>5, <1>6
<1>8. QED BY <1>1, <1>2, <1>3, <1>5, <1>7, IterateIs

\* A vendor option, whose length is written in its second byte.
LEMMA NextVendorOptionIs ==
  ASSUME NEW pos, NEW e, Reader(pos, e), Progress(pos, e),
         NextVendorOption, UNCHANGED writerVars
  PROVE  Progress(pos, e)'
<1> PICK m : m = 2 + Byte(offset + 1)
  OBVIOUS
<1> PICK p : p = Part(offset, offset + m)
  OBVIOUS
<1>1. Iterate("vendor", offset + 1 < End, m, p)
      /\ stage = "vendor" /\ "vendor" \in Loops
  BY DEF NextVendorOption, Iterate, Loops
<1>2. PICK c \in Present : \E j : Within(pos, c, j) /\ c \in LoopOptions
                                 /\ c = VendorOptions
  BY <1>1, InLoopIs
<1>3. PICK j : Within(pos, c, j) BY <1>2
<1> PICK v, t, k : v = options[c] /\ k = j + 1 /\ t = Chunks(c, v)[k]
  OBVIOUS
<1>4. /\ c \in Handled /\ IsValue(c, v) /\ Writer!Fits(c, v)
      /\ k \in DOMAIN v /\ k \in 1 .. Len(v)
      /\ Part(offset, offset + Len(t)) \in PartRecord
      /\ BytesOf(Part(offset, offset + Len(t))) = t
      /\ offset \in Int
      /\ \A n \in 1 .. Len(t) : Byte(offset + n - 1) = t[n]
  BY <1>2, <1>3, PartIs
<1>5. /\ Len(v[k]) \in Nat /\ Len(v[k]) # 0 /\ Len(t) = 1 + Len(v[k])
      /\ t[2] = Len(v[k]) - 1
  BY <1>2, <1>4, ChunksAre
<1>6. m = Len(t)
  <2>1. 2 \in 1 .. Len(t) /\ offset + 2 - 1 = offset + 1 BY <1>4, <1>5
  <2>2. Byte(offset + 1) = t[2] BY <1>4, <2>1
  <2>3. QED BY <1>5, <2>2
<1>7. Returned(c, v)[k] = t BY <1>2, <1>4, ReturnedIs
<1>8. p \in PartRecord /\ BytesOf(p) = Returned(c, v)[k]
  BY <1>4, <1>6, <1>7
<1>9. QED BY <1>1, <1>2, <1>3, <1>6, <1>8, IterateIs

-----------------------------------------------------------------------------
(* No read fails, and the parse ends behind the last option. *)

\* Every option the writer writes passes the parser's tests.
LEMMA ReadableIs ==
  ASSUME NEW pos, NEW e, Reader(pos, e), NEW n \in Nat,
         NEW c, Next1(pos, n, c)
  PROVE  Readable /\ offset < End
<1> PICK v, d : v = options[c] /\ d = Writer!Declared(c, v)
  OBVIOUS
<1>1. c \in Present /\ offset = 240 + pos[c] /\ c = Byte(offset)
  BY DEF Next1
<1>2. /\ c \in Handled /\ IsValue(c, v) /\ ~Writer!Falsy(c, v)
      /\ Writer!Fits(c, v) /\ pos[c] \in Nat /\ d \in Nat
      /\ Byte(offset + 1) = d /\ offset + 2 + d <= End
      /\ offset \in Int
  <2>1. /\ c \in Handled /\ IsValue(c, v) /\ ~Writer!Falsy(c, v)
        /\ Writer!Fits(c, v) /\ pos[c] \in Nat /\ d \in Octet
        /\ Byte(offset + 1) = d /\ offset + 2 + d <= End
    BY <1>1, HeadIs
  <2>2. d \in Nat BY <2>1, OctetsAre
  <2>3. QED BY <1>1, <2>1, <2>2
<1>3. End \in Int
  <2>1. End = 240 + Len(buf) /\ buf \in Seq(Octet)
    BY BytesAre DEF Reader, Placed
  <2>2. QED BY <2>1, LenProperties
<1>4. v \in Seq(Seq(Octet)) /\ Len(v) \in Nat BY <1>2, ChunksAre
<1>5. offset + 1 < End /\ offset < End BY <1>2, <1>3
<1> PICK t, o : t = v[1] /\ o = offset + 2
  OBVIOUS
<1>6. ASSUME c \in AddressOptions \cup NumberOptions
      PROVE  /\ d = Len(t) /\ t \in Seq(Octet)
             /\ o + Len(t) <= End /\ o \in Int
             /\ \A j \in 1 .. Len(t) : Byte(o + j - 1) = t[j]
  <2>1. c \in AddressOptions \cup NumberOptions \cup TextOptions
        /\ c \in Present
    BY <1>1, <1>6
  <2>2. o = 240 + pos[c] + 2 /\ Byte(240 + pos[c] + 1) = d
    BY <1>1, <1>2
  <2>3. /\ Byte(240 + pos[c] + 1) = Len(t) /\ t \in Seq(Octet)
        /\ o + Len(t) <= End /\ o \in Int
        /\ \A j \in 1 .. Len(t) : Byte(o + j - 1) = t[j]
    BY <2>1, <2>2, SinglePart
  <2>4. QED BY <2>2, <2>3
<1>7. c \in AddressOptions => d = 4 /\ IpReadable(o)
  <2> SUFFICES ASSUME c \in AddressOptions PROVE d = 4 /\ IpReadable(o)
    OBVIOUS
  <2>1. Len(t) \in {0, 4} BY <1>2 DEF IsValue
  <2>2. t # <<>>
    BY <1>2 DEF Writer!Falsy, AddressOptions, Writer!AddressOptions
  <2>3. d = 4 BY <1>6, <2>1, <2>2, EmptySeq
  <2>4. o + 4 <= End /\ o < End BY <1>2, <1>3, <1>6, <2>3
  <2>5. QED BY <2>3, <2>4 DEF IpReadable
<1>8. c \in NumberOptions => d = Width(c) /\ o + d <= End
  <2> SUFFICES ASSUME c \in NumberOptions PROVE d = Width(c) /\ o + d <= End
    OBVIOUS
  <2>1. Len(t) = Width(c) BY <1>2 DEF IsValue
  <2>2. QED BY <1>2, <1>6, <2>1
<1>9. c = 53 => Byte(o) \in 1 .. 8
  <2> SUFFICES ASSUME c = 53 PROVE Byte(o) \in 1 .. 8
    OBVIOUS
  <2>1. c \in NumberOptions BY DEF NumberOptions
  <2>2. Len(t) = 1 /\ t[1] <= 8
    BY <1>2, <2>1 DEF IsValue, Width
  <2>3. t \in Seq(Octet) /\ o \in Int /\ 1 \in 1 .. Len(t)
        /\ \A j \in 1 .. Len(t) : Byte(o + j - 1) = t[j]
    <3>1. 1 \in 1 .. 1 OBVIOUS
    <3>2. 1 \in 1 .. Len(t) BY <2>2, <3>1
    <3>3. QED BY <1>6, <2>1, <3>2
  <2>4. t[1] \in Octet /\ DOMAIN t = 1 .. 1
    BY <2>2, <2>3, ElementOfSeq, LenProperties
  <2>5. t[1] # 0
    <3>1. ~(\A k \in DOMAIN t : t[k] = 0)
      BY <1>2, <2>1 DEF Writer!Falsy, NumberOptions, Writer!NumberOptions
    <3>2. QED BY <2>4, <3>1
  <2>6. Byte(o) = t[1]
    <3>1. o + 1 - 1 = o BY <2>3
    <3>2. QED BY <2>3, <3>1
  <2>7. t[1] \in Nat BY <2>4, OctetsAre
  <2>8. QED BY <2>2, <2>5, <2>6, <2>7
<1>10. c \in ListOptions => d % 4 = 0
  <2> SUFFICES ASSUME c \in ListOptions PROVE d % 4 = 0
    OBVIOUS
  <2>1. d = 4 * Len(v)
    BY DEF Writer!Declared, ListOptions, Writer!ListOptions
  <2> PICK m : m = Len(v)
    OBVIOUS
  <2>2. m \in Nat /\ d = 4 * m BY <1>4, <2>1
  <2>3. QED BY ONLY <2>2
<1>11. c = ClientIdentifier => o < End /\ o + d <= End
  <2> SUFFICES ASSUME c = ClientIdentifier PROVE o < End /\ o + d <= End
    OBVIOUS
  <2>1. Len(v[2]) = 6
    BY <1>2 DEF Writer!Fits, ClientIdentifier, Writer!ClientIdentifier
  <2>2. d = Len(v[2]) + 1
    BY DEF Writer!Declared, Writer!ListOptions,
       Writer!VendorOptions, Writer!ClientIdentifier,
       Writer!ParameterRequestList, ListOptions, VendorOptions,
       ParameterRequestList, ClientIdentifier
  <2>3. QED BY <1>2, <1>3, <2>1, <2>2
<1>12. c = QualifiedDomainName => o < End
  <2> SUFFICES ASSUME c = QualifiedDomainName PROVE o < End
    OBVIOUS
  <2>1. Len(v) = 2
    BY <1>2 DEF IsValue, QualifiedDomainName, ClientIdentifier
  <2>2. 2 \in 1 .. Len(v)
    <3>1. 2 \in 1 .. 2 OBVIOUS
    <3>2. QED BY <2>1, <3>1
  <2>3. v[2] \in Seq(Octet) BY <1>4, <2>2, ElementOfSeq
  <2>4. d = Len(v[2]) + 3
    BY DEF Writer!Declared, Writer!ListOptions,
       Writer!VendorOptions, Writer!ClientIdentifier,
       Writer!ParameterRequestList, Writer!QualifiedDomainName, ListOptions,
       VendorOptions, ParameterRequestList, ClientIdentifier,
       QualifiedDomainName
  <2>5. Len(v[2]) \in Nat BY <2>3, LenProperties
  <2>6. QED BY <1>2, <1>3, <2>4, <2>5
<1>13. Readable
  BY <1>1, <1>2, <1>5, <1>7, <1>8, <1>9, <1>10, <1>11, <1>12 DEF Readable
<1>14. QED BY <1>5, <1>13

\* The cursor is a number while the parser works.
LEMMA CursorIs ==
  ASSUME NEW pos, NEW e, Reader(pos, e), stage # "idle"
  PROVE  offset \in Int
BY DEF Reader, IInv, CodeRead

\* No read of a packet the writer has made throws.
LEMMA NoThrow ==
  ASSUME NEW pos, NEW e, Reader(pos, e), Progress(pos, e), Throw
  PROVE  FALSE
<1>1. ASSUME stage = "options", More, ~Readable PROVE FALSE
  <2>1. at # 0 => Byte(at) # 255 BY <1>1 DEF More
  <2>2. PICK n \in Nat : Between(pos, e, n)
    BY <1>1, <2>1 DEF Progress, AtEnd
  <2>3. offset \in Int BY <1>1, CursorIs
  <2>4. CASE Byte(offset) = 255 BY <1>1, <2>4 DEF Readable
  <2>5. ASSUME NEW c, Next1(pos, n, c) PROVE FALSE
    BY <1>1, <2>5, ReadableIs
  <2>6. QED BY <2>2, <2>3, <2>4, <2>5, OnCode
<1>2. ASSUME stage \in Loops
      PROVE  /\ stage = "addresses" => IpReadable(offset)
             /\ stage = "bytes" => offset < End
             /\ stage = "vendor" => offset + 1 < End
  <2>1. PICK c \in Present : \E j :
          /\ Within(pos, c, j) /\ c \in LoopOptions
          /\ stage = "addresses" => c \in ListOptions
          /\ stage = "bytes" => c = ParameterRequestList
          /\ stage = "vendor" => c = VendorOptions
    BY <1>2, InLoopIs
  <2>2. PICK j : Within(pos, c, j) BY <2>1
  <2> PICK v, k : v = options[c] /\ k = j + 1
    OBVIOUS
  <2> PICK l : l = Len(Chunks(c, v)[k])
    OBVIOUS
  <2>3. /\ c \in Handled /\ IsValue(c, v) /\ Writer!Fits(c, v)
        /\ k \in DOMAIN v /\ k \in 1 .. Len(v)
        /\ offset \in Int /\ End \in Int /\ offset + l <= End /\ l \in Nat
    BY <2>1, <2>2, PartIs
  <2>4. ASSUME stage = "addresses" PROVE IpReadable(offset)
    <3>1. Chunks(c, v) = v
      BY <2>1, <2>4 DEF Chunks, ListOptions, VendorOptions
    <3>2. Len(v[k]) = 4 BY <2>1, <2>3, <2>4 DEF IsValue
    <3>3. offset + 4 <= End /\ offset < End BY <2>3, <3>1, <3>2
    <3>4. QED BY <3>3 DEF IpReadable
  <2>5. ASSUME stage = "bytes" PROVE offset < End
    <3>1. Chunks(c, v) = v
      BY <2>1, <2>5 DEF Chunks, ParameterRequestList, VendorOptions
    <3>2. Len(v[k]) = 1 BY <2>1, <2>3, <2>5 DEF IsValue
    <3>3. QED BY <2>3, <3>1, <3>2
  <2>6. ASSUME stage = "vendor" PROVE offset + 1 < End
    <3>1. Len(v[k]) \in Nat /\ Len(v[k]) # 0 /\ l = 1 + Len(v[k])
      BY <2>1, <2>3, <2>6, ChunksAre
    <3>2. QED BY <2>3, <3>1
  <2>7. QED BY <2>4, <2>5, <2>6
<1>3. ASSUME stage \in Loops PROVE offset \in Int /\ End \in Int
  <2>1. offset \in Int BY <1>3, CursorIs DEF Loops
  <2>2. End = 240 + Len(buf) /\ buf \in Seq(Octet)
    BY BytesAre DEF Reader, Placed
  <2>3. QED BY <2>1, <2>2, LenProperties
<1>4. QED BY <1>1, <1>2, <1>3 DEF Throw, Loops

\* The parse returns behind the end option, with all the options read.
LEMMA ReturnIs ==
  ASSUME NEW pos, NEW e, Reader(pos, e), Progress(pos, e), Return
  PROVE  AllRead(Options, Present)
<1>1. stage = "options" /\ ~More BY DEF Return
<1>2. ASSUME NEW n \in Nat, Between(pos, e, n) PROVE FALSE
  <2>1. offset \in Int BY <1>1, CursorIs
  <2>2. \A c : Next1(pos, n, c) => offset < End BY ReadableIs
  <2>3. offset < End BY <1>2, <2>1, <2>2, OnCode
  <2>4. QED BY <1>1, <1>2, <2>3 DEF More, Between
<1>3. QED BY <1>1, <1>2 DEF Progress, AtEnd

\* Every step of the parse keeps to the layout.
LEMMA StepIs ==
  ASSUME NEW pos, NEW e, Reader(pos, e), Progress(pos, e), Step,
         UNCHANGED writerVars
  PROVE  /\ Progress(pos, e)' /\ ~Throw
         /\ Return => AllRead(Options, Present)
<1>1. ~Throw /\ (Return => AllRead(Options, Present))
  BY NoThrow, ReturnIs
<1>2. Return => Progress(pos, e)'
  BY DEF Return, Finish, Progress, Loops
<1>3. CASE BeginList \/ BeginBytes \/ BeginVendor
  <2>1. /\ ListOptions \subseteq LoopOptions
        /\ {ParameterRequestList} \subseteq LoopOptions
        /\ {VendorOptions} \subseteq LoopOptions
    BY DEF LoopOptions
  <2>2. {"addresses", "bytes", "vendor"} \subseteq Loops BY DEF Loops
  <2>3. CASE BeginList
    <3>1. BeginLoop(ListOptions, "addresses") BY <2>3 DEF BeginList
    <3>2. QED BY <1>1, <2>1, <2>2, <3>1, BeginLoopIs
  <2>4. CASE BeginBytes
    <3>1. BeginLoop({ParameterRequestList}, "bytes") BY <2>4 DEF BeginBytes
    <3>2. QED BY <1>1, <2>1, <2>2, <3>1, BeginLoopIs
  <2>5. CASE BeginVendor
    <3>1. BeginLoop({VendorOptions}, "vendor") BY <2>5 DEF BeginVendor
    <3>2. QED BY <1>1, <2>1, <2>2, <3>1, BeginLoopIs
  <2>6. QED BY <1>3, <2>3, <2>4, <2>5
<1>4. QED
  BY <1>1, <1>2, <1>3, SkipByteIs, ReadIpIs, ReadNumberIs, ReadStringIs,
     ReadClientIdentifierIs, ReadDomainNameIs, NoSkipOption, NextAddressIs,
     NextByteIs, NextVendorOptionIs DEF Step

-----------------------------------------------------------------------------
(* From the parse of one packet to every packet of the system. *)

\* What has been read stays read as long as the writer is at rest.
LEMMA ReadingStays ==
  ASSUME UNCHANGED writerVars
  PROVE  /\ Written' = Written /\ Present' = Present
         /\ made' = made /\ options' = options /\ buf' = buf
         /\ \A pos, e : Placed(pos, e)' <=> Placed(pos, e)
         /\ \A opts : AllRead(opts, Present)' <=> AllRead(opts, Present)
<1>1. made' = made /\ options' = options /\ buf' = buf BY DEF writerVars
<1>2. Written' = Written BY <1>1 DEF Written
<1>3. Present' = Present BY <1>1 DEF Present
<1>4. \A c, x : Whole(c, x)' <=> Whole(c, x)
  BY <1>1 DEF Whole, PartsRead, BytesOf
<1> HIDE DEF Present, Whole
<1>5. \A pos, e : Placed(pos, e)' <=> Placed(pos, e)
  BY <1>1, <1>3 DEF Placed
<1>6. \A opts : AllRead(opts, Present)' <=> AllRead(opts, Present)
  BY <1>3, <1>4 DEF AllRead
<1>7. QED BY <1>1, <1>2, <1>3, <1>5, <1>6

\* A parse begins with an empty packet of its datagram,
LEMMA ParseBegins ==
  ASSUME OneInParse, stage = "idle", NEW d \in Datagram, Parse(d)
  PROVE  /\ IInv' /\ OneInParse' /\ OthersStill
         /\ stage' = "options" /\ datagram' = d
         /\ packets'[Current'].of = d
         /\ Options' = [c \in {} |-> Undefined]
         /\ DOMAIN packets' = DOMAIN packets \cup {Current'}
<1>1. /\ stage' = "options" /\ datagram' = d
      /\ packets' = Append(packets, NewPacket(d))
  BY DEF Parse
<1>2. PICK q : q = NewPacket(d) OBVIOUS
<1>3. q.options = [c \in {} |-> Undefined] /\ q.of = d
  BY <1>2 DEF NewPacket
<1> DEFINE S == {packets[k] : k \in DOMAIN packets} \cup {q}
<1>4. packets \in Seq(S) /\ q \in S
  <2>1. packets \in Seq({packets[k] : k \in DOMAIN packets})
    BY DEF OneInParse
  <2>2. QED BY <2>1
<1>5. packets' = Append(packets, q) BY <1>1, <1>2
<1> HIDE DEF S
<1>6. /\ packets'[Len(packets')] = q
      /\ DOMAIN packets' = DOMAIN packets \cup {Len(packets')}
  BY <1>4, <1>5
<1>7. QED
  BY <1>1, <1>3, <1>6, AppendKeeps, ParseKeeps DEF Options, Current

\* and of the writer's packet with the cursor on its first option.
LEMMA ParseProgress ==
  ASSUME OneInParse, stage = "idle", NEW d \in Datagram, Parse(d),
         options \in OptionSets, NEW pos, NEW e, Placed(pos, e),
         UNCHANGED writerVars
  PROVE  Progress(pos, e)'
<1>1. Stands(Present, pos, e, 0, 0) BY DEF Placed, Layout
<1>2. {f \in Present : f < 0} = {} BY PresentAre
<1>3. Options' = [c \in {} |-> Undefined] /\ stage' = "options"
  BY ParseBegins
<1>4. offset' = 240 /\ at' = 0 BY DEF Parse
<1>5. Present' = Present BY ReadingStays
<1> HIDE DEF Present, Options
<1>6. AllRead(Options, {f \in Present : f < 0})'
  <2>1. PICK W : W = {f \in Present : f < 0}' OBVIOUS
  <2>2. W = {} BY <1>2, <1>5, <2>1
  <2>3. Options' = [c \in W |-> Options'[c]] BY <1>3, <2>2
  <2>4. QED BY <2>1, <2>2, <2>3 DEF AllRead
<1>7. Stands(Present, pos, e, offset - 240, 0)'
  <2>1. offset' - 240 = 0 BY <1>4
  <2>2. QED BY <1>1, <1>5, <2>1 DEF Stands
<1>8. Between(pos, e, 0)' BY <1>4, <1>6, <1>7 DEF Between
<1>9. QED BY <1>3, <1>8 DEF Progress, Loops

\* A step of the parse concerns the current packet, whose datagram stays.
LEMMA StepDoes ==
  ASSUME OneInParse, Step
  PROVE  /\ stage # "idle" /\ datagram' = datagram /\ Current' = Current
         /\ packets'[Current].of = packets[Current].of
         /\ stage' = "idle" => Return \/ Throw
<1>1. ASSUME NEW codes, NEW parts, ReadParts(codes, parts)
      PROVE  /\ stage # "idle" /\ datagram' = datagram
             /\ Current' = Current /\ stage' # "idle"
             /\ packets'[Current].of = packets[Current].of
  <2>1. /\ stage # "idle" /\ datagram' = datagram /\ stage' # "idle"
        /\ Store(Byte(offset), parts)
    BY <1>1 DEF ReadParts, Option
  <2>2. QED BY <2>1, SameDatagram
<1>2. ASSUME NEW codes, NEW loop \in Loops, BeginLoop(codes, loop)
      PROVE  /\ stage # "idle" /\ datagram' = datagram
             /\ Current' = Current /\ stage' # "idle"
             /\ packets'[Current].of = packets[Current].of
  <2>1. /\ stage # "idle" /\ datagram' = datagram /\ stage' # "idle"
    BY <1>2 DEF BeginLoop, Option, Loops
  <2>2. PICK parts : Store(Byte(offset), parts) BY <1>2 DEF BeginLoop
  <2>3. QED BY <2>1, <2>2, SameDatagram
<1>3. ASSUME NEW loop \in Loops, NEW ok, NEW n, NEW part,
             Iterate(loop, ok, n, part)
      PROVE  /\ stage # "idle" /\ datagram' = datagram
             /\ Current' = Current /\ stage' # "idle"
             /\ packets'[Current].of = packets[Current].of
  <2>1. /\ stage # "idle" /\ datagram' = datagram /\ stage' # "idle"
        /\ Push(Byte(at), part)
    BY <1>3 DEF Iterate, Loops
  <2>2. QED BY <2>1, SameDatagram
<1>4. CASE SkipByte \/ SkipOption
  <2>1. /\ stage = "options" /\ datagram' = datagram /\ stage' = stage
        /\ packets' = packets
    BY <1>4 DEF SkipByte, SkipOption, Option
  <2>2. QED BY <2>1 DEF Current
<1>5. CASE ReadIp \/ ReadNumber \/ ReadString \/ ReadClientIdentifier
           \/ ReadDomainName
  BY <1>1, <1>5 DEF ReadIp, ReadNumber, ReadString, ReadClientIdentifier,
     ReadDomainName
<1>6. CASE BeginList \/ BeginBytes \/ BeginVendor
  BY <1>2, <1>6 DEF BeginList, BeginBytes, BeginVendor, Loops
<1>7. CASE NextAddress \/ NextByte \/ NextVendorOption
  BY <1>3, <1>7 DEF NextAddress, NextByte, NextVendorOption, Loops
<1>8. CASE Return \/ Throw
  <2>1. PICK state \in {"returned", "thrown"} : Finish(state)
    BY <1>8 DEF Return, Throw
  <2>2. stage # "idle" BY <1>8 DEF Return, Throw
  <2>3. datagram' = datagram BY <2>1 DEF Finish
  <2>4. QED BY <1>8, <2>1, <2>2, <2>3, FinishIs
<1>9. QED BY <1>4, <1>5, <1>6, <1>7, <1>8 DEF Step

\* Nothing is parsed before the writer has returned the buffer.
WritesFirst == made # "returned" => packets = <<>> /\ stage = "idle"

\* The parse of the writer's packet, whoever sends it, is in progress;
OnItsWay ==
  stage # "idle" =>
    /\ packets[Current].of = datagram
    /\ datagram = Written =>
         \E pos, e : Placed(pos, e) /\ Progress(pos, e)

\* and where it is over it has returned, with all the options read.
Arrived ==
  \A k \in DOMAIN packets :
    packets[k].of = Written /\ packets[k].state # "parsing" =>
      /\ packets[k].state = "returned"
      /\ AllRead(packets[k].options, Present)

RInv == IInv /\ OneInParse /\ WInv /\ WritesFirst /\ OnItsWay /\ Arrived

\* A buffer to write and nothing to parse.
LEMMA InitRInv == Start => RInv
<1>1. Init => OneInParse BY DEF Init, OneInParse
<1>2. Init => WritesFirst /\ OnItsWay /\ Arrived
  BY DEF Init, WritesFirst, OnItsWay, Arrived
<1>3. QED BY <1>1, <1>2, InitIInv, InitWInv DEF Start, RInv

\* The writer works before there is a packet.
LEMMA WriterKeeps == RInv /\ Writer!Next /\ UNCHANGED vars => RInv'
<1> SUFFICES ASSUME RInv, Writer!Next, UNCHANGED vars PROVE RInv'
  OBVIOUS
<1>1. /\ WInv' /\ made = "writing"
  BY NextWInv DEF RInv, Writer!Next, Writer!WriteOption, Writer!WriteEnd,
     Writer!Refuse
<1>2. packets = <<>> /\ stage = "idle" BY <1>1 DEF RInv, WritesFirst
<1>3. packets' = <<>> /\ stage' = "idle" BY <1>2 DEF vars
<1>4. IInv' /\ OneInParse' BY NextIInv, NextOneInParse DEF RInv
<1>5. QED
  BY <1>1, <1>3, <1>4 DEF RInv, WritesFirst, OnItsWay, Arrived

\* A datagram comes in, the writer's packet or another.
LEMMA ArrivalKeeps ==
  ASSUME RInv, made = "returned", stage = "idle", UNCHANGED writerVars,
         NEW d \in Datagram, Parse(d)
  PROVE  RInv'
<1>1. /\ IInv' /\ OneInParse' /\ OthersStill /\ stage' = "options"
      /\ datagram' = d /\ packets'[Current'].of = d
      /\ DOMAIN packets' = DOMAIN packets \cup {Current'}
  BY ParseBegins DEF RInv
<1>2. WInv' BY NextWInv DEF RInv
<1>3. WritesFirst' BY ReadingStays DEF WritesFirst
<1>4. OnItsWay'
  <2>1. options \in OptionSets /\ Complete BY DEF RInv, WInv
  <2>2. PICK pos, e : Placed(pos, e) BY <2>1 DEF Complete, Placed
  <2>3. Placed(pos, e)' BY <2>2, ReadingStays
  <2>4. Progress(pos, e)' BY <2>1, <2>2, ParseProgress DEF RInv
  <2>5. QED BY <1>1, <2>3, <2>4 DEF OnItsWay
<1>5. ASSUME NEW k \in DOMAIN packets', packets'[k].of = Written',
             packets'[k].state # "parsing"
      PROVE  /\ packets'[k].state = "returned"
             /\ AllRead(packets[k].options, Present)'
  <2>1. k \in DOMAIN packets BY <1>1, <1>5 DEF OneInParse
  <2>2. packets[k].state # "parsing" BY <2>1 DEF RInv, OneInParse
  <2>3. packets'[k] = packets[k] BY <1>1, <2>1, <2>2 DEF OthersStill
  <2>4. packets[k].of = Written BY <1>5, <2>3, ReadingStays
  <2> PICK opts : opts = packets[k].options
    OBVIOUS
  <2>5. packets[k].state = "returned" /\ AllRead(opts, Present)
    BY <2>1, <2>2, <2>4 DEF RInv, Arrived
  <2>6. AllRead(opts, Present)' BY <2>5, ReadingStays
  <2>7. packets'[k].options = opts BY <2>3
  <2> HIDE DEF Present, Whole
  <2>8. QED BY <2>3, <2>5, <2>6, <2>7 DEF AllRead
<1>6. Arrived' BY <1>5 DEF Arrived
<1>7. QED BY <1>1, <1>2, <1>3, <1>4, <1>6 DEF RInv

\* A step of the parse.
LEMMA StepKeeps == RInv /\ Step /\ UNCHANGED writerVars => RInv'
<1> SUFFICES ASSUME RInv, Step, UNCHANGED writerVars PROVE RInv'
  OBVIOUS
<1>1. /\ stage # "idle" /\ datagram' = datagram /\ Current' = Current
      /\ packets'[Current].of = packets[Current].of
      /\ stage' = "idle" => Return \/ Throw
  BY StepDoes DEF RInv
<1>2. IInv' /\ OneInParse' /\ OthersStill
  BY NextIInv, NextOneInParse DEF RInv, Next
<1>3. WInv' BY NextWInv DEF RInv
<1>4. made = "returned" BY <1>1 DEF RInv, WritesFirst
<1>5. WritesFirst' BY <1>4, ReadingStays DEF WritesFirst
<1>6. packets[Current].of = datagram BY <1>1 DEF RInv, OnItsWay
<1>7. ASSUME datagram = Written
      PROVE  /\ \E pos, e : Placed(pos, e)' /\ Progress(pos, e)'
             /\ ~Throw /\ (Return => AllRead(Options, Present))
  <2>1. PICK pos, e : Placed(pos, e) /\ Progress(pos, e)
    BY <1>1, <1>7 DEF RInv, OnItsWay
  <2>2. Reader(pos, e) BY <1>7, <2>1 DEF RInv, WInv, Reader
  <2>3. Progress(pos, e)' /\ ~Throw /\ (Return => AllRead(Options, Present))
    BY <2>1, <2>2, StepIs
  <2>4. Placed(pos, e)' BY <2>1, ReadingStays
  <2>5. QED BY <2>3, <2>4
<1>8. OnItsWay'
  BY <1>1, <1>6, <1>7, ReadingStays DEF OnItsWay
<1>9. ASSUME NEW k \in DOMAIN packets', packets'[k].of = Written',
             packets'[k].state # "parsing"
      PROVE  /\ packets'[k].state = "returned"
             /\ AllRead(packets[k].options, Present)'
  <2>1. k \in DOMAIN packets
    <3>1. /\ DOMAIN packets = 1 .. Current
          /\ DOMAIN packets' = 1 .. Current'
      BY <1>2 DEF RInv, OneInParse, Current
    <3>2. QED BY <1>1, <3>1
  <2> PICK opts : opts = packets[k].options
    OBVIOUS
  <2>2. ASSUME AllRead(opts, Present), packets'[k].options = opts
        PROVE  AllRead(packets[k].options, Present)'
    <3>1. AllRead(opts, Present)' BY <2>2, ReadingStays
    <3> HIDE DEF Present, Whole
    <3>2. QED BY <2>2, <3>1 DEF AllRead
  <2>3. CASE packets[k].state # "parsing"
    <3>1. packets'[k] = packets[k] BY <1>2, <2>1, <2>3 DEF OthersStill
    <3>2. packets[k].of = Written BY <1>9, <3>1, ReadingStays
    <3>3. packets[k].state = "returned" /\ AllRead(opts, Present)
      BY <2>1, <2>3, <3>2 DEF RInv, Arrived
    <3>4. QED BY <2>2, <3>1, <3>3
  <2>4. CASE packets[k].state = "parsing"
    <3>1. k = Current BY <2>1, <2>4 DEF RInv, OneInParse
    <3>2. stage' = "idle" BY <1>1, <1>2, <1>9, <3>1 DEF OneInParse
    <3>3. datagram = Written
      BY <1>1, <1>6, <1>9, <3>1, ReadingStays
    <3>4. Return /\ AllRead(Options, Present) BY <1>1, <1>7, <3>2, <3>3
    <3>5. /\ packets'[Current].options = packets[Current].options
          /\ packets'[Current].state = "returned"
      BY <1>1, <3>4, FinishIs DEF Return, RInv
    <3>6. Options = opts BY <3>1 DEF Options
    <3>7. AllRead(opts, Present) BY <3>4, <3>6
    <3>8. QED BY <2>2, <3>1, <3>5, <3>7
  <2>5. QED BY <2>3, <2>4
<1>10. Arrived' BY <1>9 DEF Arrived
<1>11. QED BY <1>2, <1>3, <1>5, <1>8, <1>10 DEF RInv

\* When nothing happens the parse is where it was.
LEMMA ProgressStays ==
  ASSUME UNCHANGED allVars, NEW pos, NEW e, Progress(pos, e)
  PROVE  Progress(pos, e)'
<1>1. /\ UNCHANGED writerVars /\ options' = options
      /\ stage' = stage /\ datagram' = datagram /\ offset' = offset
      /\ len' = len /\ at' = at /\ packets' = packets
  BY DEF allVars, vars, writerVars
<1>2. Present' = Present BY <1>1, ReadingStays
<1>3. Options' = Options BY <1>1 DEF Options, Current
<1>4. Byte(at)' = Byte(at) BY <1>1 DEF Byte
<1>5. /\ \A c, x : Whole(c, x)' <=> Whole(c, x)
      /\ \A c, x, j : PartsRead(c, x, j)' <=> PartsRead(c, x, j)
  BY <1>1 DEF Whole, PartsRead, BytesOf, writerVars
<1> HIDE DEF Present, Options, Whole, PartsRead
<1>6. AtEnd' <=> AtEnd
  BY <1>1, <1>2, <1>3, <1>4, <1>5 DEF AtEnd, AllRead
<1>7. \A n : Between(pos, e, n)' <=> Between(pos, e, n)
  BY <1>1, <1>2, <1>3, <1>4, <1>5 DEF Between, AllRead, Stands
<1>8. \A c, j : Within(pos, c, j)' <=> Within(pos, c, j)
  BY <1>1, <1>2, <1>3, <1>4, <1>5 DEF Within, ReadUpTo
<1>9. QED BY <1>1, <1>6, <1>7, <1>8 DEF Progress

\* Nor does the invariant mind a datagram that is refused.
LEMMA RestKeeps ==
  ASSUME RInv, UNCHANGED <<stage, packets>>, UNCHANGED writerVars,
         IInv', OneInParse', stage = "idle" \/ UNCHANGED allVars
  PROVE  RInv'
<1>1. stage' = stage /\ packets' = packets /\ Current' = Current
  BY DEF Current
<1>2. WInv' BY NextWInv DEF RInv
<1>3. WritesFirst' BY <1>1, ReadingStays DEF RInv, WritesFirst
<1>4. ASSUME stage # "idle" PROVE OnItsWay'
  <2>1. UNCHANGED allVars /\ datagram' = datagram
    BY <1>4 DEF allVars, vars
  <2>2. packets[Current].of = datagram BY <1>4 DEF RInv, OnItsWay
  <2>3. ASSUME datagram = Written
        PROVE  \E pos, e : Placed(pos, e)' /\ Progress(pos, e)'
    <3>1. PICK pos, e : Placed(pos, e) /\ Progress(pos, e)
      BY <1>4, <2>3 DEF RInv, OnItsWay
    <3>2. QED BY <2>1, <3>1, ReadingStays, ProgressStays
  <2>4. QED BY <1>1, <2>1, <2>2, <2>3, ReadingStays DEF OnItsWay
<1>5. OnItsWay' BY <1>1, <1>4 DEF OnItsWay
<1>6. ASSUME NEW k \in DOMAIN packets, packets[k].of = Written',
             packets[k].state # "parsing"
      PROVE  /\ packets[k].state = "returned"
             /\ AllRead(packets[k].options, Present)'
  <2> PICK opts : opts = packets[k].options
    OBVIOUS
  <2>1. packets[k].state = "returned" /\ AllRead(opts, Present)
    BY <1>6, ReadingStays DEF RInv, Arrived
  <2>2. AllRead(opts, Present)' BY <2>1, ReadingStays
  <2>3. packets'[k].options = opts BY <1>1
  <2> HIDE DEF Present, Whole
  <2>4. QED BY <2>1, <2>2, <2>3 DEF AllRead
<1>7. Arrived' BY <1>1, <1>6 DEF Arrived
<1>8. QED BY <1>2, <1>3, <1>5, <1>7 DEF RInv

\* Every step of the two together keeps the invariant.
LEMMA TravelKeeps ==
  RInv /\ [Travel]_allVars => RInv' /\ OthersStill
<1> SUFFICES ASSUME RInv, [Travel]_allVars PROVE RInv' /\ OthersStill
  OBVIOUS
<1>1. CASE Writer!Next /\ UNCHANGED vars
  BY <1>1, WriterKeeps, NextOneInParse DEF RInv
<1>2. ASSUME NEW d \in Datagram, Parse(d), made = "returned",
             stage = "idle", UNCHANGED writerVars
      PROVE  RInv' /\ OthersStill
  BY <1>2, ArrivalKeeps, ParseBegins DEF RInv
<1>3. CASE Send
  <2>1. buf \in Seq(Octet) BY <1>3 DEF Send, RInv, WInv, Complete
  <2>2. Written \in Datagram BY <2>1 DEF Written, Datagram, Octet
  <2>3. QED BY <1>2, <1>3, <2>2 DEF Send
<1>4. CASE ReceiveOther
  <2>1. PICK d \in Datagrams : Parse(d) \/ RejectHeader(d)
    BY <1>4 DEF ReceiveOther, Receive
  <2>2. d \in Datagram BY ParserAssumption
  <2>3. CASE Parse(d)
    BY <1>2, <1>4, <2>2, <2>3 DEF ReceiveOther, Receive
  <2>4. CASE RejectHeader(d)
    <3>1. UNCHANGED <<stage, packets>> /\ stage = "idle"
      BY <1>4, <2>4 DEF ReceiveOther, Receive, RejectHeader
    <3>2. IInv' /\ OneInParse' /\ OthersStill
      BY <1>4, NextIInv, NextOneInParse DEF ReceiveOther, Next, RInv
    <3>3. QED BY <1>4, <3>1, <3>2, RestKeeps DEF ReceiveOther
  <2>5. QED BY <2>1, <2>3, <2>4
<1>5. CASE Step /\ UNCHANGED writerVars
  BY <1>5, StepKeeps, NextOneInParse DEF Next, RInv
<1>6. CASE UNCHANGED allVars
  <2>1. UNCHANGED vars /\ UNCHANGED writerVars BY <1>6 DEF allVars
  <2>2. UNCHANGED <<stage, packets>> BY <2>1 DEF vars
  <2>3. IInv' /\ OneInParse' /\ OthersStill
    BY <2>1, NextIInv, NextOneInParse DEF RInv
  <2>4. QED BY <1>6, <2>1, <2>2, <2>3, RestKeeps
<1>7. QED BY <1>1, <1>3, <1>4, <1>5, <1>6 DEF Travel

\* What has been read of an option is what is to be returned of it.
LEMMA WholeIsRead ==
  ASSUME NEW k, NEW c \in Handled, IsValue(c, options[c]),
         Whole(c, packets[k].options[c])
  PROVE  Read(k, c) = Returned(c, options[c])
<1> PICK v, x, m : v = options[c] /\ x = packets[k].options[c]
                   /\ m = Len(v)
  OBVIOUS
<1> PICK parts : parts = x.parts
  OBVIOUS
<1>1. v \in Seq(Seq(Octet)) BY DEF IsValue, Octet
<1>2. m \in Nat /\ DOMAIN v = 1 .. m BY <1>1, LenProperties
<1>3. DOMAIN parts = 1 .. m
  <2>1. parts \in Seq(PartRecord \cup {Undefined}) /\ Len(parts) = m
    BY DEF Whole, PartsRead
  <2>2. QED BY <2>1, LenProperties
<1>4. PICK r : r = Returned(c, v) OBVIOUS
<1>5. \A n \in 1 .. m : BytesOf(parts[n]) = r[n]
  BY <1>4 DEF Whole, PartsRead
<1>6. r = [n \in 1 .. m |-> r[n]] BY <1>2, <1>4 DEF Returned
<1>7. Read(k, c) = [n \in 1 .. m |-> BytesOf(parts[n])]
  BY <1>3 DEF Read, BytesOf
<1>8. Read(k, c) = r BY <1>5, <1>6, <1>7
<1>9. QED BY <1>4, <1>8

\* The property is what the invariant says of the packets that have arrived.
LEMMA ArrivedIsRead == RInv => ReadsBack
<1> SUFFICES ASSUME RInv, NEW k \in DOMAIN packets,
                    packets[k].of = Written, packets[k].state # "parsing"
             PROVE  /\ packets[k].state = "returned"
                    /\ DOMAIN packets[k].options = Present
                    /\ \A c \in DOMAIN packets[k].options :
                         Read(k, c) = Returned(c, options[c])
  BY DEF ReadsBack, Present
<1>1. AreOptions(options, Present) BY PresentAre DEF RInv, WInv
<1> HIDE DEF Present
<1>2. packets[k].state = "returned" /\ AllRead(packets[k].options, Present)
  BY DEF RInv, Arrived
<1>3. DOMAIN packets[k].options = Present BY <1>2 DEF AllRead
<1>4. ASSUME NEW c \in Present
      PROVE  Read(k, c) = Returned(c, options[c])
  <2>1. c \in Handled /\ IsValue(c, options[c]) BY <1>1 DEF AreOptions
  <2>2. Whole(c, packets[k].options[c]) BY <1>2 DEF AllRead
  <2>3. QED BY <2>1, <2>2, WholeIsRead
<1>5. QED BY <1>2, <1>3, <1>4

\* Whatever the options and their values, whatever the memory held, and
\* whatever the same parser object reads before or after: of a packet that
\* createPacketBuffer returned the parser reads back every option that does
\* not count as false, and no other, with the value it was given, but for what
\* has no name or begins with 0 (Returned).
THEOREM ReadsEverythingBack == RoundTripSpec => []ReadsBack
<1>1. RInv /\ [Travel]_allVars => RInv' BY TravelKeeps
<1>2. QED BY <1>1, InitRInv, ArrivedIsRead, PTL DEF RoundTripSpec

\* The packets the parser has finished stay as they are, the writer's among
\* them, whatever it reads next.
THEOREM ReadStaysRead == RoundTripSpec => PacketsKeepStill
<1>1. RInv /\ [Travel]_allVars => RInv' BY TravelKeeps
<1>2. OthersStill =>
        [\A k \in DOMAIN packets : packets[k].state # "parsing" =>
           packets'[k] = packets[k]]_packets
  BY DEF OthersStill
<1>3. RInv /\ [Travel]_allVars =>
        [\A k \in DOMAIN packets : packets[k].state # "parsing" =>
           packets'[k] = packets[k]]_packets
  BY <1>2, TravelKeeps
<1>4. QED
  BY <1>1, <1>3, InitRInv, PTL DEF RoundTripSpec, PacketsKeepStill
=============================================================================
