--------------------------- MODULE MC_OptionParser ---------------------------
(***************************************************************************)
(* A small instance of OptionParser: every short run of bytes, and options *)
(* of every kind one after the other, cut short anywhere.                  *)
(***************************************************************************)
EXTENDS OptionParser, SequencesExt

Arrives(b) == [short |-> FALSE, hlen |-> 6, body |-> b]

CutHeader == [Arrives(<<>>) EXCEPT !.short = TRUE]
\* A hardware address that reaches into the options, and one that does not fit.
LongHardware == [Arrives(<<12, 1, 65, 255>>) EXCEPT !.hlen = 216]
OverlongHardware == [LongHardware EXCEPT !.hlen = 217]

Headers == {CutHeader, LongHardware, OverlongHardware}

\* Bytes that are a code of each kind, a length, or both.
Bytes == {0, 1, 3, 4, 43, 53, 55, 61, 81, 130, 255}

RawDatagrams == {Arrives(b) : b \in UNION {[1 .. n -> Bytes] : n \in 0 .. 4}}

\* An option of each kind: well formed, empty, with a value or a length the
\* code rejects, or longer than it has to be.
Good == {<<0>>, <<255>>, <<1, 4, 9, 9, 9, 9>>, <<50, 4, 0, 9, 9, 9>>,
         <<2, 4, 0, 0, 0, 9>>, <<52, 1, 3>>, <<53, 1, 3>>, <<53, 1, 8>>,
         <<57, 2, 5, 220>>, <<93, 2, 0, 7>>, <<3, 8, 9, 9, 9, 9, 0, 1, 1, 1>>,
         <<6, 0>>, <<60, 3, 80, 88, 69>>, <<77, 0>>, <<55, 3, 1, 3, 6>>,
         <<55, 0>>, <<61, 7, 1, 8, 0, 39, 1, 2, 3>>, <<81, 5, 1, 0, 0, 97, 98>>,
         <<81, 2, 1, 0>>, <<200, 2, 7, 7>>, <<43, 0>>,
         <<43, 7, 6, 1, 8, 71, 2, 9, 9>>}

Odd == {<<1, 3, 9, 9, 9>>, <<53, 1, 9>>, <<53, 1, 0>>, <<4, 5, 9, 9, 9, 9, 9>>,
        <<61, 0>>, <<81, 0>>, <<43, 3, 6, 4, 8, 8, 8, 8>>, <<43, 2, 255, 0>>,
        <<43, 1, 9, 0>>, <<200, 254, 1>>, <<12, 130, 65>>}

Cuts(s) == {SubSeq(s, 1, n) : n \in 0 .. Len(s)}

PairDatagrams ==
  Headers \cup
  {Arrives(b) : b \in UNION {Cuts(x \o y) : x \in Good \cup Odd, y \in Good \cup Odd}}

SomeDatagrams == RawDatagrams \cup PairDatagrams
=============================================================================
