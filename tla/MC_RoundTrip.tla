---------------------------- MODULE MC_RoundTrip ----------------------------
(***************************************************************************)
(* Small instances of RoundTrip: any two options, all of them, and values  *)
(* at the limit of a length byte and of the buffer.                        *)
(***************************************************************************)
EXTENDS RoundTrip, SequencesExt

Bytes(n, b) == [k \in 1 .. n |-> b]
Some(v) == <<v>>
Mac == <<8, 0, 39, 1, 2, 3>>
Name == <<97, 98>>

\* Values of one option, with the ones that are lost or read otherwise.
Values(c) ==
  CASE c \in AddressOptions -> {Some(<<10, 1, 1, 1>>), Some(<<0, 0, 0, 0>>)}
    [] c = 53 -> {Some(<<5>>), Some(<<8>>)}
    [] c \in NumberOptions \ {53} ->
         {Some([Bytes(Width(c), 0) EXCEPT ![Width(c)] = 7]),
          Some(Bytes(Width(c), 0))}
    [] c \in ListOptions ->
         {<<>>, <<<<10, 1, 1, 1>>, <<0, 0, 0, 0>>>>, Bytes(63, <<10, 1, 1, 1>>)}
    [] c \in TextOptions -> {Some(Name), Some(<<>>), Some(Bytes(255, 65))}
    [] c = VendorOptions ->
         {<<>>, <<<<6, 8>>, <<71>>, <<255, 1, 2>>>>, <<<<6>> \o Bytes(254, 9)>>}
    [] c = ParameterRequestList -> {<<>>, <<<<1>>, <<43>>, <<255>>>>}
    [] c = ClientIdentifier -> {<<<<n>>, Mac>> : n \in {0, 1, 9, 10, 255}} \cup {<<<<0>>, Mac \o Mac>>}
    [] c = QualifiedDomainName -> {<<<<1>>, Name>>, <<<<0>>, <<>>>>}

\* Too long for their length byte.
LongValues(c) ==
  CASE c \in ListOptions -> {Bytes(64, <<10, 1, 1, 1>>)}
    [] c \in TextOptions -> {Some(Bytes(256, 65))}
    [] c = ParameterRequestList -> {Bytes(256, <<1>>)}
    [] c = QualifiedDomainName -> {<<<<0>>, Bytes(253, 65)>>}
    [] OTHER -> {}

Pair(c, v, d, w) == [x \in {c, d} |-> IF x = c THEN v ELSE w]

Pairs == UNION {{Pair(c, v, d, w) : v \in Values(c), w \in Values(d)} :
                  c \in Handled, d \in Handled}
LongOnes == UNION {{[x \in {c} |-> v] : v \in LongValues(c)} : c \in Handled}
Everything == [c \in Handled |->
                 CHOOSE v \in Values(c) :
                   v # <<>> /\ \A k \in DOMAIN v : Len(v[k]) < 9]

\* Texts that bring the cursor to every place around the end of the buffer.
Filling ==
  {[c \in {12, d} |-> IF c = 12 THEN Some(Bytes(248, 65)) ELSE v] :
     <<d, v>> \in {<<15, Some(Bytes(n, 66))>> : n \in 40 .. 50}
                  \cup {<<43, <<<<6>> \o Bytes(n, 7)>>>> : n \in 40 .. 50}}

\* A request as PXE clients send it, one that throws with two options read,
\* and one that is no datagram of DHCP.
Arrives(b) == [short |-> FALSE, hlen |-> 6, body |-> b]
PxeRequest == Arrives(<<53, 1, 3>> \o <<60, 3, 80, 88, 69>> \o <<93, 2, 0, 7, 255>>)
CutRequest == Arrives(<<77, 2, 105, 80>> \o <<43, 7, 6, 1>>)

OtherDatagrams == {PxeRequest, CutRequest, [Arrives(<<>>) EXCEPT !.short = TRUE]}

SomeOptions == Pairs \cup LongOnes \cup Filling \cup {Everything}
=============================================================================
