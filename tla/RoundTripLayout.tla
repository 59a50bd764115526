--------------------------- MODULE RoundTripLayout ---------------------------
(***************************************************************************)
(* What createPacketBuffer leaves in the buffer, for every value an option *)
(* takes and any number of them: each option where the one before it ends, *)
(* with the length it has, and the end option behind the last.             *)
(***************************************************************************)
EXTENDS RoundTrip, Recursion, SequenceTheorems, TLAPS

Octet == 0 .. 255

-----------------------------------------------------------------------------
(* Sums, and parts one after the other. *)

\* The definition of the sums is the recursion it looks like.
LEMMA SumsIs ==
  ASSUME NEW s \in Seq(Nat)
  PROVE  /\ Writer!Sums(s) \in [0 .. Len(s) -> Nat]
         /\ Writer!Sums(s)[0] = 0
         /\ \A k \in 1 .. Len(s) :
              Writer!Sums(s)[k] = Writer!Sums(s)[k - 1] + s[k]
<1> DEFINE N == Len(s)
           step == [x \in Nat \X (1 .. N) |-> x[1] + s[x[2]]]
           Is(g) == g = [k \in 0 .. N |-> IF k = 0 THEN 0
                                          ELSE g[k - 1] + s[k]]
<1>1. N \in Nat /\ \A k \in 1 .. N : s[k] \in Nat
  BY LenProperties, ElementOfSeq
<1>2. step \in [Nat \X (1 .. N) -> Nat] BY <1>1
<1>3. \A n \in Nat, k \in 1 .. N : step[<<n, k>>] = n + s[k]
  OBVIOUS
<1> HIDE DEF step, N
<1>4. PICK g : Iterates(g, Nat, 0, N, step) BY <1>1, <1>2, Iteration
<1>5. /\ g \in [0 .. N -> Nat] /\ g[0] = 0
      /\ \A k \in 1 .. N : g[k] = step[<<g[k - 1], k>>]
  BY <1>4 DEF Iterates
<1>6. \A k \in 1 .. N : g[k] = g[k - 1] + s[k]
  <2> SUFFICES ASSUME NEW k \in 1 .. N PROVE g[k] = g[k - 1] + s[k]
    OBVIOUS
  <2>1. k - 1 \in 0 .. N BY <1>1
  <2>2. g[k - 1] \in Nat BY <1>5, <2>1
  <2>3. QED BY <1>3, <1>5, <2>2
<1>7. Is(g)
  <2>1. g = [k \in 0 .. N |-> g[k]] BY <1>5
  <2>2. \A k \in 0 .. N : g[k] = IF k = 0 THEN 0 ELSE g[k - 1] + s[k]
    BY <1>1, <1>5, <1>6
  <2>3. QED BY <2>1, <2>2
<1>8. Writer!Sums(s) = CHOOSE f : Is(f) BY DEF Writer!Sums, N
<1>9. Is(Writer!Sums(s)) BY <1>7, <1>8
<1>10. PICK f : f = Writer!Sums(s) OBVIOUS
<1>11. f = [k \in 0 .. N |-> IF k = 0 THEN 0 ELSE f[k - 1] + s[k]]
  BY <1>9, <1>10
<1>12. f[0] = 0 /\ \A k \in 1 .. N : f[k] = f[k - 1] + s[k]
  BY <1>1, <1>11
<1>13. f = g
  <2> DEFINE Same == {k \in 0 .. N : f[k] = g[k]}
  <2>1. 0 \in Same BY <1>1, <1>5, <1>12
  <2>2. ASSUME NEW k \in 0 .. N - 1, k \in Same PROVE k + 1 \in Same
    <3>1. k + 1 \in 1 .. N /\ (k + 1) - 1 = k BY <1>1
    <3>2. f[k] = g[k] BY <2>2
    <3>3. QED BY <1>6, <1>12, <3>1, <3>2
  <2> HIDE DEF Same
  <2>3. \A k \in 0 .. N : k \in Same BY <1>1, <2>1, <2>2, BoundedInduction
  <2>4. \A k \in 0 .. N : f[k] = g[k] BY <2>3 DEF Same
  <2>5. DOMAIN f = 0 .. N BY <1>11
  <2>6. f = [k \in 0 .. N |-> f[k]] BY <1>11
  <2>7. g = [k \in 0 .. N |-> g[k]] BY <1>5
  <2>8. QED BY <2>4, <2>6, <2>7
<1>14. QED BY <1>5, <1>6, <1>10, <1>13 DEF N

\* Sums only grow.
LEMMA SumsGrow ==
  ASSUME NEW s \in Seq(Nat), NEW k \in 0 .. Len(s)
  PROVE  \A m \in k .. Len(s) : Writer!Sums(s)[k] <= Writer!Sums(s)[m]
<1> PICK f : f = Writer!Sums(s)
  OBVIOUS
<1> DEFINE N == Len(s)
           T == {d \in 0 .. N - k : f[k] <= f[k + d]}
<1>1. /\ N \in Nat /\ k \in 0 .. N /\ f \in [0 .. N -> Nat]
      /\ \A n \in 1 .. N : f[n] = f[n - 1] + s[n] /\ s[n] \in Nat
  BY LenProperties, ElementOfSeq, SumsIs
<1> HIDE DEF N
<1>2. N - k \in Nat /\ k \in Nat BY <1>1
<1>3. 0 \in T
  <2>1. f[k] \in Nat /\ k + 0 = k BY <1>1
  <2>2. QED BY <1>2, <2>1
<1>4. ASSUME NEW d \in 0 .. (N - k) - 1, d \in T PROVE d + 1 \in T
  <2> PICK n : n = k + d + 1
    OBVIOUS
  <2>1. n \in 1 .. N /\ n - 1 = k + d /\ n = k + (d + 1) /\ n - 1 \in 0 .. N
        /\ d + 1 \in 0 .. N - k
    BY <1>1, <1>2
  <2>2. f[n] = f[n - 1] + s[n] /\ s[n] \in Nat /\ f[n - 1] \in Nat
        /\ f[k] \in Nat
    BY <1>1, <2>1
  <2>3. f[k] <= f[n - 1] BY <1>4, <2>1
  <2>4. f[k] <= f[n] BY <2>2, <2>3
  <2>5. QED BY <2>1, <2>4
<1> HIDE DEF T
<1>5. \A d \in 0 .. N - k : d \in T BY <1>2, <1>3, <1>4, BoundedInduction
<1>6. ASSUME NEW m \in k .. N PROVE f[k] <= f[m]
  <2>1. m - k \in 0 .. N - k /\ k + (m - k) = m BY <1>1, <1>2
  <2>2. QED BY <1>5, <2>1 DEF T
<1>7. QED BY <1>6 DEF N

\* Where each part of a sequence of parts ends.
Lengths(s) == [k \in 1 .. Len(s) |-> Len(s[k])]
Ends(s) == Writer!Sums(Lengths(s))

\* The lengths of the parts are numbers,
LEMMA LengthsTyped ==
  ASSUME NEW B, NEW s \in Seq(Seq(B))
  PROVE  /\ Lengths(s) \in Seq(Nat) /\ Len(Lengths(s)) = Len(s)
         /\ Len(s) \in Nat
         /\ \A k \in 1 .. Len(s) :
              /\ s[k] \in Seq(B) /\ Len(s[k]) \in Nat
              /\ Lengths(s)[k] = Len(s[k])
<1> PICK n : n = Len(s)
  OBVIOUS
<1>1. n \in Nat /\ \A k \in 1 .. n : s[k] \in Seq(B)
  BY LenProperties, ElementOfSeq
<1>2. \A k \in 1 .. n : Len(s[k]) \in Nat BY <1>1, LenProperties
<1>3. Lengths(s) = [k \in 1 .. n |-> Len(s[k])] BY DEF Lengths
<1>4. Lengths(s) \in Seq(Nat) /\ Len(Lengths(s)) = n
  <2>1. Lengths(s) \in [1 .. n -> Nat] BY <1>2, <1>3
  <2>2. QED BY <1>1, <1>3, <2>1
<1>5. QED BY <1>1, <1>2, <1>3, <1>4

\* so each part ends its length behind the one before it, none behind the last.
LEMMA EndsIs ==
  ASSUME NEW B, NEW s \in Seq(Seq(B))
  PROVE  /\ Len(s) \in Nat /\ \A k \in 1 .. Len(s) : s[k] \in Seq(B)
         /\ Ends(s) \in [0 .. Len(s) -> Nat] /\ Ends(s)[0] = 0
         /\ \A k \in 1 .. Len(s) :
              /\ Ends(s)[k] = Ends(s)[k - 1] + Len(s[k])
              /\ Ends(s)[k] <= Ends(s)[Len(s)]
              /\ Len(s[k]) \in Nat
<1> PICK n : n = Len(s)
  OBVIOUS
<1> PICK l : l = Lengths(s)
  OBVIOUS
<1> PICK e : e = Ends(s)
  OBVIOUS
<1>1. /\ n \in Nat /\ l \in Seq(Nat) /\ Len(l) = n
      /\ \A k \in 1 .. n :
           s[k] \in Seq(B) /\ Len(s[k]) \in Nat /\ l[k] = Len(s[k])
  BY LengthsTyped
<1>2. e = Writer!Sums(l) BY DEF Ends
<1>3. /\ e \in [0 .. n -> Nat] /\ e[0] = 0
      /\ \A k \in 1 .. n : e[k] = e[k - 1] + l[k]
  BY <1>1, <1>2, SumsIs
<1>4. ASSUME NEW k \in 1 .. n PROVE e[k] <= e[n]
  <2>1. k \in 0 .. n /\ n \in k .. n BY <1>1
  <2>2. QED BY <1>1, <1>2, <2>1, SumsGrow
<1>5. QED BY <1>1, <1>3, <1>4

\* x is the first k parts of s, one after the other.
Joined(B, s, k, x) ==
  /\ x \in Seq(B) /\ Len(x) = Ends(s)[k]
  /\ \A m \in 1 .. k, j \in Nat :
       j \in 1 .. Len(s[m]) => x[Ends(s)[m - 1] + j] = s[m][j]

\* Joining one more part.
LEMMA JoinNext ==
  ASSUME NEW B, NEW s \in Seq(Seq(B)), NEW k \in 1 .. Len(s), NEW x,
         Joined(B, s, k - 1, x)
  PROVE  Joined(B, s, k, x \o s[k])
<1> PICK e : e = Ends(s)
  OBVIOUS
<1> PICK y : y = s[k]
  OBVIOUS
<1> PICK z : z = x \o y
  OBVIOUS
<1>1. /\ Len(s) \in Nat /\ y \in Seq(B) /\ Len(y) \in Nat
      /\ e \in [0 .. Len(s) -> Nat] /\ e[k] = e[k - 1] + Len(y)
      /\ \A m \in 1 .. Len(s) :
           e[m] = e[m - 1] + Len(s[m]) /\ Len(s[m]) \in Nat
  BY EndsIs
<1>2. x \in Seq(B) /\ Len(x) = e[k - 1] BY DEF Joined
<1> PICK n : n = Len(s)
  OBVIOUS
<1>3. k \in Nat /\ n \in Nat /\ k >= 1 /\ k <= n /\ k - 1 \in 0 .. Len(s)
      /\ k - 1 \in Nat /\ e[k - 1] \in Nat /\ e[k] \in Nat
  <2>1. k \in 1 .. n /\ n \in Nat BY <1>1
  <2>2. k - 1 \in 0 .. n /\ k \in 0 .. n BY <2>1
  <2>3. e \in [0 .. n -> Nat] BY <1>1
  <2>4. e[k - 1] \in Nat /\ e[k] \in Nat BY <2>2, <2>3
  <2>5. QED BY <2>1, <2>2, <2>4
<1>4. /\ z \in Seq(B) /\ Len(z) = e[k]
      /\ \A h \in 1 .. e[k] :
           z[h] = IF h <= e[k - 1] THEN x[h] ELSE y[h - e[k - 1]]
  <2>1. /\ x \o y \in Seq(B) /\ Len(x \o y) = Len(x) + Len(y)
        /\ \A h \in 1 .. Len(x) + Len(y) : (x \o y)[h] =
             IF h <= Len(x) THEN x[h] ELSE y[h - Len(x)]
    BY <1>1, <1>2, ConcatProperties
  <2>2. QED BY <1>1, <1>2, <2>1
<1>5. ASSUME NEW m \in 1 .. k, NEW j \in Nat, j \in 1 .. Len(s[m])
      PROVE  z[e[m - 1] + j] = s[m][j]
  <2>1. CASE m = k
    <3>1. j \in 1 .. Len(y) BY <1>5, <2>1
    <3>2. e[k - 1] + j \in 1 .. e[k] /\ ~(e[k - 1] + j <= e[k - 1])
          /\ (e[k - 1] + j) - e[k - 1] = j
      BY <1>1, <1>3, <3>1
    <3>3. QED BY <1>4, <2>1, <3>2
  <2>2. CASE m # k
    <3>1. m \in 1 .. k - 1 /\ m \in 1 .. Len(s) /\ m - 1 \in 0 .. Len(s)
          /\ m \in 0 .. Len(s)
      BY <1>1, <1>3, <2>2
    <3>2. x[e[m - 1] + j] = s[m][j] BY <1>5, <3>1 DEF Joined
    <3>3. e[m] = e[m - 1] + Len(s[m]) /\ e[m - 1] \in Nat /\ e[m] \in Nat
          /\ Len(s[m]) \in Nat
      BY <1>1, <3>1
    <3>4. e[m] <= e[k - 1]
      <4>1. k - 1 \in m .. Len(s) BY <1>1, <1>3, <3>1
      <4>2. Lengths(s) \in Seq(Nat) /\ Len(Lengths(s)) = Len(s)
        BY LengthsTyped
      <4>3. QED BY <3>1, <4>1, <4>2, SumsGrow DEF Ends
    <3>5. /\ e[m - 1] + j \in Int /\ e[m - 1] + j >= 1
          /\ e[m - 1] + j <= e[m]
      BY <1>5, <3>3
    <3>6. e[m - 1] + j \in 1 .. e[k] /\ e[m - 1] + j <= e[k - 1]
      <4>1. e[k - 1] <= e[k] BY <1>1, <1>3
      <4> PICK a, b, c, d :
            a = e[m - 1] + j /\ b = e[m] /\ c = e[k - 1] /\ d = e[k]
        OBVIOUS
      <4>2. /\ a \in Int /\ b \in Int /\ c \in Int /\ d \in Int
            /\ 1 <= a /\ a <= b /\ b <= c /\ c <= d
        BY <1>3, <3>3, <3>4, <3>5, <4>1
      <4>3. a \in 1 .. d /\ a <= c BY ONLY <4>2
      <4>4. QED BY <4>3
    <3>7. QED BY <1>4, <3>2, <3>6
  <2>3. QED BY <2>1, <2>2
<1>6. QED BY <1>4, <1>5 DEF Joined

\* FlattenSeq puts the parts one after the other.
LEMMA FlattenIs ==
  ASSUME NEW B, NEW s \in Seq(Seq(B))
  PROVE  Joined(B, s, Len(s), Writer!FlattenSeq(s))
<1> DEFINE N == Len(s)
           step == [x \in Seq(B) \X (1 .. N) |-> x[1] \o s[x[2]]]
           Is(g) == g = [k \in 1 .. N |-> IF k = 1 THEN s[k]
                                          ELSE g[k - 1] \o s[k]]
<1>1. N \in Nat /\ \A k \in 1 .. N : s[k] \in Seq(B) BY EndsIs
<1>2. Joined(B, s, 0, <<>>) BY EndsIs DEF Joined
<1>3. CASE N = 0
  <2>1. s = <<>> BY <1>3, EmptySeq
  <2>2. Writer!FlattenSeq(s) = s BY <1>3 DEF Writer!FlattenSeq
  <2>3. QED BY <1>2, <1>3, <2>1, <2>2
<1>4. CASE N # 0
  <2>1. step \in [Seq(B) \X (1 .. N) -> Seq(B)] BY <1>1, ConcatProperties
  <2>2. \A x \in Seq(B), k \in 1 .. N : step[<<x, k>>] = x \o s[k]
    OBVIOUS
  <2>3. <<>> \in Seq(B) OBVIOUS
  <2> HIDE DEF step, N
  <2>4. PICK g : Iterates(g, Seq(B), <<>>, N, step)
    BY <1>1, <2>1, <2>3, Iteration
  <2>5. /\ g \in [0 .. N -> Seq(B)] /\ g[0] = <<>>
        /\ \A k \in 1 .. N : g[k] = step[<<g[k - 1], k>>]
    BY <2>4 DEF Iterates
  <2>6. \A k \in 1 .. N : g[k] = g[k - 1] \o s[k]
    <3> SUFFICES ASSUME NEW k \in 1 .. N PROVE g[k] = g[k - 1] \o s[k]
      OBVIOUS
    <3>1. k - 1 \in 0 .. N BY <1>1
    <3>2. g[k - 1] \in Seq(B) BY <2>5, <3>1
    <3>3. QED BY <2>2, <2>5, <3>2
  <2>7. g[1] = s[1]
    <3>1. 1 \in 1 .. N /\ 1 - 1 = 0 BY <1>1, <1>4
    <3>2. g[1] = <<>> \o s[1] BY <2>5, <2>6, <3>1
    <3>3. s[1] \in Seq(B) BY <1>1, <3>1
    <3>4. QED BY <3>2, <3>3, ConcatEmptySeq
  <2> PICK h : h = [k \in 1 .. N |-> g[k]]
    OBVIOUS
  <2>8. Is(h)
    <3>1. ASSUME NEW k \in 1 .. N
          PROVE  h[k] = IF k = 1 THEN s[k] ELSE h[k - 1] \o s[k]
      <4>1. CASE k = 1 BY <2>7, <4>1
      <4>2. CASE k # 1
        <5>1. k - 1 \in 1 .. N BY <1>1, <4>2
        <5>2. QED BY <2>6, <4>2, <5>1
      <4>3. QED BY <4>1, <4>2
    <3>2. h = [k \in 1 .. N |-> h[k]] OBVIOUS
    <3>3. QED BY <3>1, <3>2
  <2>9. PICK f : f = CHOOSE x : Is(x) OBVIOUS
  <2>10. Is(f) BY <2>8, <2>9
  <2>11. \A k \in 1 .. N : f[k] = IF k = 1 THEN s[k] ELSE f[k - 1] \o s[k]
    BY <2>10
  <2>12. Writer!FlattenSeq(s) = f[N]
    BY <1>4, <2>9 DEF Writer!FlattenSeq, N
  <2> DEFINE T == {k \in 0 .. N : k # 0 => Joined(B, s, k, f[k])}
  <2>13. 0 \in T BY <1>1
  <2>14. ASSUME NEW k \in 0 .. N - 1, k \in T PROVE k + 1 \in T
    <3> PICK m : m = k + 1
      OBVIOUS
    <3>1. m \in 1 .. N /\ m - 1 = k /\ m \in 0 .. N BY <1>1
    <3>2. CASE k = 0
      <4>1. f[m] = s[m] BY <2>11, <3>1, <3>2
      <4>2. Joined(B, s, m - 1, <<>>) BY <1>2, <3>1, <3>2
      <4>3. Joined(B, s, m, <<>> \o s[m]) BY <3>1, <4>2, JoinNext DEF N
      <4>4. <<>> \o s[m] = s[m]
        <5>1. s[m] \in Seq(B) BY <1>1, <3>1
        <5>2. QED BY <5>1, ConcatEmptySeq
      <4>5. QED BY <3>1, <4>1, <4>3, <4>4
    <3>3. CASE k # 0
      <4>1. f[m] = f[m - 1] \o s[m]
        <5>1. m # 1 BY <1>1, <3>1, <3>3
        <5>2. QED BY <2>11, <3>1, <5>1
      <4>2. Joined(B, s, m - 1, f[m - 1]) BY <2>14, <3>1, <3>3
      <4>3. Joined(B, s, m, f[m - 1] \o s[m]) BY <3>1, <4>2, JoinNext DEF N
      <4>4. QED BY <3>1, <4>1, <4>3
    <3>4. QED BY <3>2, <3>3
  <2> HIDE DEF T
  <2>15. N \in T
    <3>1. \A k \in 0 .. N : k \in T BY <1>1, <2>13, <2>14, BoundedInduction
    <3>2. QED BY <1>1, <3>1
  <2>16. QED BY <1>4, <2>12, <2>15 DEF T, N
<1>5. QED BY <1>3, <1>4

\* Parts of the same length end at its multiples.
LEMMA EndsEven ==
  ASSUME NEW B, NEW s \in Seq(Seq(B)), NEW w \in {1, 4},
         \A k \in 1 .. Len(s) : Len(s[k]) = w
  PROVE  \A k \in 0 .. Len(s) : Ends(s)[k] = w * k
<1> PICK n : n = Len(s)
  OBVIOUS
<1> PICK e : e = Ends(s)
  OBVIOUS
<1>1. /\ n \in Nat /\ e[0] = 0
      /\ \A k \in 1 .. n : e[k] = e[k - 1] + w
  BY EndsIs
<1> DEFINE T == {k \in 0 .. n : e[k] = w * k}
<1>2. 0 \in T BY <1>1
<1>3. ASSUME NEW k \in 0 .. n - 1, k \in T PROVE k + 1 \in T
  <2>1. k + 1 \in 1 .. n /\ (k + 1) - 1 = k /\ k \in Nat /\ k + 1 \in 0 .. n
    BY <1>1
  <2>2. e[k + 1] = w * k + w BY <1>1, <1>3, <2>1
  <2>3. w * k + w = w * (k + 1) BY <2>1
  <2>4. QED BY <2>1, <2>2, <2>3
<1> HIDE DEF T
<1>4. \A k \in 0 .. n : k \in T BY <1>1, <1>2, <1>3, BoundedInduction
<1>5. QED BY <1>4 DEF T

-----------------------------------------------------------------------------
(* The bytes of an option. *)

\* The parts of a value as they are written.
Chunks(c, v) ==
  IF c = VendorOptions THEN [k \in DOMAIN v |-> Writer!Inner(v[k])] ELSE v

\* A vendor option is written with its length.
LEMMA InnerIs ==
  ASSUME NEW x \in Seq(Octet), x # <<>>, Len(x) <= 255
  PROVE  /\ Writer!Inner(x) \in Seq(Octet)
         /\ Len(Writer!Inner(x)) = 1 + Len(x)
         /\ Writer!Inner(x)[2] = Len(x) - 1
<1>1. /\ Head(x) \in Octet /\ Tail(x) \in Seq(Octet)
      /\ Len(Tail(x)) = Len(x) - 1 /\ Len(x) \in Nat /\ Len(x) # 0
  BY HeadTailProperties, EmptySeq
<1> PICK h : h = <<Head(x), Len(x) - 1>>
  OBVIOUS
<1>2. h \in Seq(Octet) /\ Len(h) = 2 /\ h[2] = Len(x) - 1
  <2> PICK l : l = Len(x)
    OBVIOUS
  <2>1. l - 1 \in Octet
    <3>1. l \in Nat /\ l # 0 /\ l <= 255 BY <1>1
    <3>2. QED BY ONLY <3>1 DEF Octet
  <2>2. QED BY <1>1, <2>1
<1>3. Writer!Inner(x) = h \o Tail(x) BY DEF Writer!Inner
<1>4. QED BY <1>1, <1>2, <1>3, ConcatProperties

\* Of a value that is written, the parts are bytes, and the length says how
\* many.
LEMMA ChunksAre ==
  ASSUME NEW c \in Handled, NEW v, IsValue(c, v), Writer!Fits(c, v)
  PROVE  /\ v \in Seq(Seq(Octet)) /\ Chunks(c, v) \in Seq(Seq(Octet))
         /\ Len(Chunks(c, v)) = Len(v) /\ Len(v) \in Nat
         /\ Writer!Declared(c, v) \in Octet
         /\ c # QualifiedDomainName =>
              Writer!Declared(c, v) = Ends(Chunks(c, v))[Len(v)]
         /\ c = VendorOptions => \A k \in 1 .. Len(v) :
              /\ Len(v[k]) \in Nat /\ Len(v[k]) # 0
              /\ Len(Chunks(c, v)[k]) = 1 + Len(v[k])
              /\ Chunks(c, v)[k][2] = Len(v[k]) - 1
<1>1. v \in Seq(Seq(Octet)) BY DEF IsValue, Octet
<1> PICK n : n = Len(v)
  OBVIOUS
<1>2. /\ n \in Nat /\ DOMAIN v = 1 .. n
      /\ \A k \in 1 .. n : v[k] \in Seq(Octet) /\ Len(v[k]) \in Nat
      /\ Ends(v) \in [0 .. n -> Nat] /\ Ends(v)[0] = 0
      /\ \A k \in 1 .. n : Ends(v)[k] = Ends(v)[k - 1] + Len(v[k])
  BY <1>1, EndsIs, LenProperties
<1>3. Writer!Declared(c, v) <= 255 BY DEF Writer!Fits
<1>a. ASSUME Writer!Declared(c, v) \in Nat PROVE Writer!Declared(c, v) \in Octet
  <2> PICK d : d = Writer!Declared(c, v)
    OBVIOUS
  <2>1. d \in Nat /\ d <= 255 BY <1>3, <1>a
  <2>2. d \in Octet BY ONLY <2>1 DEF Octet
  <2>3. QED BY <2>2
<1>4. CASE c = VendorOptions
  <2> PICK w : w = Chunks(c, v)
    OBVIOUS
  <2> PICK l : l = [k \in 1 .. n |-> 1 + Len(v[k])]
    OBVIOUS
  <2>1. w = [k \in 1 .. n |-> Writer!Inner(v[k])] BY <1>2, <1>4 DEF Chunks
  <2>2. Writer!Declared(c, v) = Writer!Sums(l)[n]
    BY <1>2, <1>4 DEF Writer!Declared, Writer!VendorLength, ListOptions,
       VendorOptions, Writer!ListOptions, Writer!VendorOptions
  <2>3. l \in Seq(Nat) /\ Len(l) = n
    <3>1. l \in [1 .. n -> Nat] BY <1>2
    <3>2. QED BY <1>2, <3>1
  <2>4. /\ Writer!Sums(l) \in [0 .. n -> Nat]
        /\ \A k \in 1 .. n :
             /\ Writer!Sums(l)[k] = Writer!Sums(l)[k - 1] + l[k]
             /\ Writer!Sums(l)[k] <= Writer!Sums(l)[n]
    <3>1. ASSUME NEW k \in 1 .. n
          PROVE  Writer!Sums(l)[k] <= Writer!Sums(l)[n]
      <4>1. k \in 0 .. n /\ n \in k .. n BY <1>2
      <4>2. QED BY <2>3, <4>1, SumsGrow
    <3>2. QED BY <2>3, <3>1, SumsIs
  <2>5. ASSUME NEW k \in 1 .. n
        PROVE  /\ v[k] # <<>> /\ Len(v[k]) <= 255
    <3>1. v[k] # <<>> BY <1>2, <1>4 DEF IsValue
    <3> PICK a, b, d : /\ a = Writer!Sums(l)[k - 1] /\ b = Writer!Sums(l)[k]
                       /\ d = Writer!Sums(l)[n]
      OBVIOUS
    <3>2. k - 1 \in 0 .. n /\ k \in 0 .. n /\ n \in 0 .. n BY <1>2
    <3>3. a \in Nat /\ b \in Nat /\ d \in Nat BY <2>4, <3>2
    <3>4. b = a + (1 + Len(v[k])) /\ b <= d /\ d <= 255
      BY <1>3, <2>2, <2>4
    <3>5. Len(v[k]) \in Nat BY <1>2
    <3>6. Len(v[k]) <= 255 BY ONLY <3>3, <3>4, <3>5
    <3>7. QED BY <3>1, <3>6
  <2>6. \A k \in 1 .. n : /\ w[k] \in Seq(Octet)
                         /\ Len(w[k]) = 1 + Len(v[k])
                         /\ w[k][2] = Len(v[k]) - 1
    BY <1>2, <2>1, <2>5, InnerIs
  <2>7. w \in Seq(Seq(Octet)) /\ Len(w) = n
    <3>1. w \in [1 .. n -> Seq(Octet)] BY <2>1, <2>6
    <3>2. QED BY <1>2, <3>1
  <2>8. Lengths(w) = l BY <2>6, <2>7 DEF Lengths
  <2>9. Ends(w)[n] = Writer!Declared(c, v) BY <2>2, <2>8 DEF Ends
  <2>10. Writer!Declared(c, v) \in Nat
    <3>1. n \in 0 .. n BY <1>2
    <3>2. QED BY <2>2, <2>4, <3>1
  <2>11. \A k \in 1 .. n : Len(v[k]) # 0 BY <1>2, <2>5, EmptySeq
  <2>12. QED BY <1>1, <1>2, <1>a, <2>6, <2>7, <2>9, <2>10, <2>11
<1>5. CASE c # VendorOptions
  <2>1. Chunks(c, v) = v BY <1>5 DEF Chunks
  <2> HIDE DEF IsValue
  <2>2. CASE c \in ListOptions
    <3>1. Writer!Declared(c, v) = 4 * n
      BY <2>2 DEF Writer!Declared, ListOptions, Writer!ListOptions
    <3>2. \A k \in 1 .. Len(v) : Len(v[k]) = 4
      BY <1>2, <2>2 DEF IsValue
    <3>3. Ends(v)[n] = 4 * n
      <4>1. n \in 0 .. n BY <1>2
      <4>2. QED BY <1>1, <3>2, <4>1, EndsEven
    <3>4. Writer!Declared(c, v) \in Nat BY <1>2, <3>1
    <3>5. QED BY <1>1, <1>2, <1>5, <1>a, <2>1, <3>1, <3>3, <3>4
  <2>3. CASE c = ParameterRequestList
    <3>1. Writer!Declared(c, v) = n
      BY <2>3 DEF Writer!Declared, ListOptions, VendorOptions,
         ParameterRequestList, Writer!ListOptions, Writer!VendorOptions,
         Writer!ParameterRequestList
    <3>2. \A k \in 1 .. Len(v) : Len(v[k]) = 1
      BY <1>2, <2>3 DEF IsValue
    <3>3. Ends(v)[n] = 1 * n
      <4>1. n \in 0 .. n BY <1>2
      <4>2. QED BY <1>1, <3>2, <4>1, EndsEven
    <3>4. Writer!Declared(c, v) \in Nat BY <1>2, <3>1
    <3>5. QED BY <1>1, <1>2, <1>5, <1>a, <2>1, <3>1, <3>3, <3>4
  <2>4. CASE c \in {ClientIdentifier, QualifiedDomainName}
    <3>1. n = 2 /\ Len(v[1]) = 1 BY <2>4 DEF IsValue
    <3>2. 1 \in 1 .. n /\ 2 \in 1 .. n BY <3>1
    <3>3. Len(v[2]) \in Nat BY <1>2, <3>2
    <3>4. Ends(v)[2] = 1 + Len(v[2])
      <4>1. Ends(v)[1] = Ends(v)[0] + Len(v[1]) BY <1>2, <3>2
      <4>2. Ends(v)[2] = Ends(v)[1] + Len(v[2]) BY <1>2, <3>2
      <4>3. QED BY <1>2, <3>1, <3>3, <4>1, <4>2
    <3>5. Writer!Declared(c, v) = IF c = ClientIdentifier THEN Len(v[2]) + 1
                                  ELSE Len(v[2]) + 3
      BY <2>4 DEF Writer!Declared, ListOptions, VendorOptions,
         ParameterRequestList, ClientIdentifier, QualifiedDomainName,
         Writer!ListOptions, Writer!VendorOptions, Writer!ClientIdentifier,
         Writer!ParameterRequestList, Writer!QualifiedDomainName
    <3>6. Writer!Declared(c, v) \in Nat BY <3>3, <3>5
    <3>7. c # QualifiedDomainName => Writer!Declared(c, v) = Ends(v)[2]
      BY <2>4, <3>3, <3>4, <3>5
    <3>8. QED BY <1>1, <1>2, <1>5, <1>a, <2>1, <3>1, <3>6, <3>7
  <2>5. CASE c \in AddressOptions \cup NumberOptions \cup TextOptions
    <3>1. n = 1 BY <2>5 DEF IsValue
    <3>2. 1 \in 1 .. n BY <3>1
    <3>3. Ends(v)[1] = Len(v[1]) /\ Len(v[1]) \in Nat
      <4>1. Ends(v)[1] = Ends(v)[0] + Len(v[1]) BY <1>2, <3>2
      <4>2. Len(v[1]) \in Nat BY <1>2, <3>2
      <4>3. QED BY <1>2, <4>1, <4>2
    <3>4. Writer!Declared(c, v) = Len(v[1])
      BY <2>5 DEF Writer!Declared, AddressOptions, NumberOptions,
         TextOptions, ListOptions, VendorOptions,
         ParameterRequestList, ClientIdentifier, QualifiedDomainName,
         Writer!ListOptions, Writer!VendorOptions, Writer!ClientIdentifier,
         Writer!ParameterRequestList, Writer!QualifiedDomainName
    <3>5. QED BY <1>1, <1>2, <1>5, <1>a, <2>1, <3>1, <3>3, <3>4
  <2>6. QED BY <1>5, <2>2, <2>3, <2>4, <2>5 DEF Handled
<1>6. QED BY <1>4, <1>5

\* From o on, the buffer b holds the bytes t.
Holds(b, o, t) ==
  o + Len(t) <= Len(b) /\ \A j \in 1 .. Len(t) : b[o + j] = t[j]

\* It still does when more is written,
LEMMA HoldsBefore ==
  ASSUME NEW B, NEW b \in Seq(B), NEW x \in Seq(B), NEW t \in Seq(B),
         NEW o \in Nat, Holds(b, o, t)
  PROVE  Holds(b \o x, o, t)
<1>1. /\ Len(b) \in Nat /\ Len(x) \in Nat /\ Len(t) \in Nat
      /\ Len(b \o x) = Len(b) + Len(x)
      /\ \A j \in 1 .. Len(b) + Len(x) :
           (b \o x)[j] = IF j <= Len(b) THEN b[j] ELSE x[j - Len(b)]
  BY LenProperties, ConcatProperties
<1>2. o + Len(t) <= Len(b) BY DEF Holds
<1>3. ASSUME NEW j \in 1 .. Len(t) PROVE (b \o x)[o + j] = t[j]
  <2>1. j \in Nat /\ j >= 1 /\ j <= Len(t) BY <1>1
  <2>2. o + j \in 1 .. Len(b) + Len(x) /\ o + j <= Len(b)
    BY <1>1, <1>2, <2>1
  <2>3. b[o + j] = t[j] BY DEF Holds
  <2>4. QED BY <1>1, <2>2, <2>3
<1>4. QED BY <1>1, <1>2, <1>3 DEF Holds

\* and what is written is held where the buffer ended.
LEMMA HoldsBehind ==
  ASSUME NEW B, NEW b \in Seq(B), NEW x \in Seq(B), NEW t \in Seq(B),
         NEW o \in Nat, Holds(x, o, t)
  PROVE  Holds(b \o x, Len(b) + o, t)
<1>1. /\ Len(b) \in Nat /\ Len(x) \in Nat /\ Len(t) \in Nat
      /\ Len(b \o x) = Len(b) + Len(x)
      /\ \A j \in 1 .. Len(b) + Len(x) :
           (b \o x)[j] = IF j <= Len(b) THEN b[j] ELSE x[j - Len(b)]
  BY LenProperties, ConcatProperties
<1>2. o + Len(t) <= Len(x) BY DEF Holds
<1>3. ASSUME NEW j \in 1 .. Len(t) PROVE (b \o x)[(Len(b) + o) + j] = t[j]
  <2> PICK m : m = (Len(b) + o) + j
    OBVIOUS
  <2>1. j \in Nat /\ j >= 1 /\ j <= Len(t) BY <1>1
  <2>2. m \in 1 .. Len(b) + Len(x) /\ ~(m <= Len(b)) /\ m - Len(b) = o + j
    BY <1>1, <1>2, <2>1
  <2>3. x[o + j] = t[j] BY DEF Holds
  <2>4. QED BY <1>1, <2>2, <2>3
<1>4. (Len(b) + o) + Len(t) <= Len(b \o x) BY <1>1, <1>2
<1>5. QED BY <1>3, <1>4 DEF Holds

\* A sequence holds itself, and the parts it was made of.
LEMMA HoldsParts ==
  ASSUME NEW B, NEW s \in Seq(Seq(B)), NEW x, Joined(B, s, Len(s), x),
         NEW k \in 1 .. Len(s)
  PROVE  Holds(x, Ends(s)[k - 1], s[k])
<1>1. /\ Ends(s)[k] = Ends(s)[k - 1] + Len(s[k])
      /\ Ends(s)[k] <= Ends(s)[Len(s)] /\ Len(s[k]) \in Nat
      /\ Len(x) = Ends(s)[Len(s)]
  BY EndsIs DEF Joined
<1>2. Ends(s)[k - 1] + Len(s[k]) <= Len(x) BY <1>1
<1>3. ASSUME NEW j \in 1 .. Len(s[k]) PROVE x[Ends(s)[k - 1] + j] = s[k][j]
  <2>1. j \in Nat BY <1>1
  <2>2. Len(s) \in Nat /\ k \in 1 .. Len(s) BY EndsIs
  <2>3. QED BY <2>1, <2>2 DEF Joined
<1>4. QED BY <1>2, <1>3 DEF Holds

\* From o on, b holds the value v of option c.  Between the flags and the
\* name of a domain name are two bytes that nothing is known of.
ValueHeld(b, c, v, o) ==
  IF c = QualifiedDomainName THEN Holds(b, o, v[1]) /\ Holds(b, o + 3, v[2])
  ELSE \A k \in 1 .. Len(v) :
         Holds(b, o + Ends(Chunks(c, v))[k - 1], Chunks(c, v)[k])

\* What the cursor passes is the value, and as long as is said.
LEMMA PayloadIs ==
  ASSUME NEW c \in Handled, NEW v, IsValue(c, v), Writer!Fits(c, v),
         NEW stale \in [1 .. 2 -> StaleBytes]
  PROVE  /\ Writer!Payload(c, v, stale) \in Seq(Octet)
         /\ Len(Writer!Payload(c, v, stale)) = Writer!Declared(c, v)
         /\ ValueHeld(Writer!Payload(c, v, stale), c, v, 0)
<1> PICK w : w = Chunks(c, v)
  OBVIOUS
<1>1. /\ v \in Seq(Seq(Octet)) /\ w \in Seq(Seq(Octet))
      /\ Len(w) = Len(v) /\ Len(v) \in Nat
      /\ c # QualifiedDomainName => Writer!Declared(c, v) = Ends(w)[Len(w)]
  BY ChunksAre
<1>2. CASE c # QualifiedDomainName
  <2>1. Writer!Payload(c, v, stale) = Writer!FlattenSeq(w)
    BY <1>2 DEF Chunks, Writer!Payload, VendorOptions, QualifiedDomainName,
       Writer!VendorOptions, Writer!QualifiedDomainName
  <2> PICK x : x = Writer!FlattenSeq(w)
    OBVIOUS
  <2>2. Joined(Octet, w, Len(w), x) BY <1>1, FlattenIs
  <2>3. x \in Seq(Octet) /\ Len(x) = Writer!Declared(c, v)
    BY <1>1, <1>2, <2>2 DEF Joined
  <2>4. ASSUME NEW k \in 1 .. Len(v)
        PROVE  Holds(x, 0 + Ends(w)[k - 1], w[k])
    <3>1. k \in 1 .. Len(w) BY <1>1
    <3>2. Holds(x, Ends(w)[k - 1], w[k]) BY <1>1, <2>2, <3>1, HoldsParts
    <3>3. 0 + Ends(w)[k - 1] = Ends(w)[k - 1]
      <4>1. k - 1 \in 0 .. Len(w) BY <1>1
      <4>2. Ends(w)[k - 1] \in Nat BY <1>1, <4>1, EndsIs
      <4>3. QED BY <4>2
    <3>4. QED BY <3>2, <3>3
  <2>5. ValueHeld(x, c, v, 0) BY <1>2, <2>4 DEF ValueHeld
  <2>6. QED BY <2>1, <2>3, <2>5
<1>3. CASE c = QualifiedDomainName
  <2>1. Len(v) = 2 /\ Len(v[1]) = 1 BY <1>3 DEF IsValue
  <2> PICK f, g, h : f = v[1] /\ g = stale /\ h = v[2]
    OBVIOUS
  <2>2. f \in Seq(Octet) /\ h \in Seq(Octet)
    <3>1. 1 \in 1 .. Len(v) /\ 2 \in 1 .. Len(v) BY <2>1
    <3>2. QED BY <1>1, <3>1, ElementOfSeq
  <2>3. g \in Seq(Octet) /\ Len(g) = 2
    <3>1. g \in [1 .. 2 -> Octet] BY WriterAssumption DEF Octet
    <3>2. g \in Seq(Octet) BY <3>1, SeqDef
    <3>3. DOMAIN g = 1 .. 2 BY <3>1
    <3>4. QED BY <3>2, <3>3, LenProperties
  <2>4. Len(f) = 1 /\ Len(h) \in Nat BY <2>1, <2>2, LenProperties
  <2>5. Writer!Payload(c, v, stale) = (f \o g) \o h
    BY <1>3 DEF Writer!Payload, VendorOptions, QualifiedDomainName,
       Writer!VendorOptions, Writer!QualifiedDomainName
  <2> PICK y : y = f \o g
    OBVIOUS
  <2>6. y \in Seq(Octet) /\ Len(y) = 3
    <3>1. f \o g \in Seq(Octet) /\ Len(f \o g) = Len(f) + Len(g)
      BY <2>2, <2>3, ConcatProperties
    <3>2. QED BY <2>3, <2>4, <3>1
  <2>7. y \o h \in Seq(Octet) /\ Len(y \o h) = 3 + Len(h)
    <3>1. y \o h \in Seq(Octet) /\ Len(y \o h) = Len(y) + Len(h)
      BY <2>2, <2>6, ConcatProperties
    <3>2. QED BY <2>6, <3>1
  <2>8. \A t \in Seq(Octet) : Holds(t, 0, t)
    <3> SUFFICES ASSUME NEW t \in Seq(Octet) PROVE Holds(t, 0, t)
      OBVIOUS
    <3>1. Len(t) \in Nat BY LenProperties
    <3>2. QED BY <3>1 DEF Holds
  <2>9. Holds(y, 0, f) BY <2>2, <2>3, <2>8, HoldsBefore
  <2>10. Holds(y \o h, 0, f) BY <2>2, <2>6, <2>9, HoldsBefore
  <2>11. Holds(y \o h, 3 + 0, h) BY <2>2, <2>6, <2>8, HoldsBehind
  <2>12. Writer!Declared(c, v) = Len(h) + 3
    BY <1>3 DEF Writer!Declared, ListOptions, VendorOptions,
       ParameterRequestList, ClientIdentifier, QualifiedDomainName,
       Writer!ListOptions, Writer!VendorOptions, Writer!ClientIdentifier,
       Writer!ParameterRequestList, Writer!QualifiedDomainName
  <2>13. ValueHeld(y \o h, c, v, 0) BY <1>3, <2>10, <2>11 DEF ValueHeld
  <2>14. QED BY <2>4, <2>5, <2>7, <2>12, <2>13
<1>4. QED BY <1>2, <1>3

\* What is held of a value stays when more is written behind it,
LEMMA ValueBefore ==
  ASSUME NEW c \in Handled, NEW v, IsValue(c, v), Writer!Fits(c, v),
         NEW b \in Seq(Octet), NEW x \in Seq(Octet), NEW o \in Nat,
         ValueHeld(b, c, v, o)
  PROVE  ValueHeld(b \o x, c, v, o)
<1> PICK w : w = Chunks(c, v)
  OBVIOUS
<1>1. /\ v \in Seq(Seq(Octet)) /\ w \in Seq(Seq(Octet))
      /\ Len(w) = Len(v) /\ Len(v) \in Nat
  BY ChunksAre
<1>2. CASE c = QualifiedDomainName
  <2>1. v[1] \in Seq(Octet) /\ v[2] \in Seq(Octet)
    <3>1. Len(v) = 2
      BY <1>2 DEF IsValue, ClientIdentifier, QualifiedDomainName
    <3>2. 1 \in 1 .. Len(v) /\ 2 \in 1 .. Len(v) BY <3>1
    <3>3. QED BY <1>1, <3>2, ElementOfSeq
  <2>2. QED BY <1>2, <2>1, HoldsBefore DEF ValueHeld
<1>3. CASE c # QualifiedDomainName
  <2>1. ASSUME NEW k \in 1 .. Len(v)
        PROVE  Holds(b \o x, o + Ends(w)[k - 1], w[k])
    <3>1. w[k] \in Seq(Octet) BY <1>1, ElementOfSeq
    <3>2. Ends(w)[k - 1] \in Nat
      <4>1. k - 1 \in 0 .. Len(w) BY <1>1
      <4>2. QED BY <1>1, <4>1, EndsIs
    <3>3. Holds(b, o + Ends(w)[k - 1], w[k]) BY <1>3 DEF ValueHeld
    <3>4. QED BY <3>1, <3>2, <3>3, HoldsBefore
  <2>2. QED BY <1>3, <2>1 DEF ValueHeld
<1>4. QED BY <1>2, <1>3

\* and moves along when it is written behind something else.
LEMMA ValueBehind ==
  ASSUME NEW c \in Handled, NEW v, IsValue(c, v), Writer!Fits(c, v),
         NEW b \in Seq(Octet), NEW x \in Seq(Octet), NEW o \in Nat,
         ValueHeld(x, c, v, o)
  PROVE  ValueHeld(b \o x, c, v, Len(b) + o)
<1> PICK w : w = Chunks(c, v)
  OBVIOUS
<1>1. /\ v \in Seq(Seq(Octet)) /\ w \in Seq(Seq(Octet))
      /\ Len(w) = Len(v) /\ Len(v) \in Nat /\ Len(b) \in Nat
  BY ChunksAre, LenProperties
<1>2. CASE c = QualifiedDomainName
  <2>1. v[1] \in Seq(Octet) /\ v[2] \in Seq(Octet)
    <3>1. Len(v) = 2
      BY <1>2 DEF IsValue, ClientIdentifier, QualifiedDomainName
    <3>2. 1 \in 1 .. Len(v) /\ 2 \in 1 .. Len(v) BY <3>1
    <3>3. QED BY <1>1, <3>2, ElementOfSeq
  <2>2. Len(b) + (o + 3) = (Len(b) + o) + 3 BY <1>1
  <2>3. o + 3 \in Nat OBVIOUS
  <2>4. /\ Holds(b \o x, Len(b) + o, v[1])
        /\ Holds(b \o x, Len(b) + (o + 3), v[2])
    BY <1>2, <2>1, <2>3, HoldsBehind DEF ValueHeld
  <2>5. QED BY <1>2, <2>2, <2>4 DEF ValueHeld
<1>3. CASE c # QualifiedDomainName
  <2>1. ASSUME NEW k \in 1 .. Len(v)
        PROVE  Holds(b \o x, (Len(b) + o) + Ends(w)[k - 1], w[k])
    <3>1. w[k] \in Seq(Octet) BY <1>1, ElementOfSeq
    <3>2. Ends(w)[k - 1] \in Nat
      <4>1. k - 1 \in 0 .. Len(w) BY <1>1
      <4>2. QED BY <1>1, <4>1, EndsIs
    <3>3. Holds(x, o + Ends(w)[k - 1], w[k]) BY <1>3 DEF ValueHeld
    <3>4. Holds(b \o x, Len(b) + (o + Ends(w)[k - 1]), w[k])
      BY <3>1, <3>2, <3>3, HoldsBehind
    <3>5. Len(b) + (o + Ends(w)[k - 1]) = (Len(b) + o) + Ends(w)[k - 1]
      BY <1>1, <3>2
    <3>6. QED BY <3>4, <3>5
  <2>2. QED BY <1>3, <2>1 DEF ValueHeld
<1>4. QED BY <1>2, <1>3

\* A code is a byte, and neither padding nor the end option.
LEMMA Codes ==
  ASSUME NEW c \in Handled
  PROVE  c \in Octet /\ c \in Nat /\ c # 0 /\ c # 255 /\ c > 0
BY DEF Octet, Handled, AddressOptions, NumberOptions, ListOptions,
   TextOptions, VendorOptions, ParameterRequestList, ClientIdentifier,
   QualifiedDomainName

\* A byte is a number.
LEMMA OctetsAre == Octet \subseteq Nat
BY DEF Octet

\* Option c is at p in b: its code, its length and its value.
Laid(b, c, v, p) ==
  /\ Holds(b, p, <<c, Writer!Declared(c, v)>>)
  /\ ValueHeld(b, c, v, p + 2)
  /\ p + 2 + Writer!Declared(c, v) <= Len(b)

\* x is what is written of option c.
Writes(x, c, v, stale) ==
  x = <<c, Writer!Declared(c, v)>> \o Writer!Payload(c, v, stale)

\* Writing more leaves an option where it is,
LEMMA LaidBefore ==
  ASSUME NEW c \in Handled, NEW v, IsValue(c, v), Writer!Fits(c, v),
         NEW b \in Seq(Octet), NEW x \in Seq(Octet), NEW p \in Nat,
         Laid(b, c, v, p)
  PROVE  Laid(b \o x, c, v, p)
<1> PICK d : d = Writer!Declared(c, v)
  OBVIOUS
<1>1. d \in Octet /\ c \in Octet /\ d \in Nat
  BY ChunksAre, Codes, OctetsAre
<1>2. <<c, d>> \in Seq(Octet) BY <1>1
<1>3. Holds(b \o x, p, <<c, d>>) BY <1>2, HoldsBefore DEF Laid
<1>4. ValueHeld(b \o x, c, v, p + 2) BY ValueBefore DEF Laid
<1>5. Len(b) \in Nat /\ Len(x) \in Nat /\ Len(b \o x) = Len(b) + Len(x)
  BY LenProperties, ConcatProperties
<1>6. p + 2 + d <= Len(b \o x)
  <2>1. p + 2 + d <= Len(b) BY DEF Laid
  <2>2. QED BY <1>1, <1>5, <2>1
<1>7. QED BY <1>3, <1>4, <1>6 DEF Laid

\* and one that is written comes where the buffer ended.
LEMMA LaidBehind ==
  ASSUME NEW c \in Handled, NEW v, IsValue(c, v), Writer!Fits(c, v),
         NEW b \in Seq(Octet), NEW stale \in [1 .. 2 -> StaleBytes],
         NEW x, Writes(x, c, v, stale)
  PROVE  /\ x \in Seq(Octet) /\ Len(x) = 2 + Writer!Declared(c, v)
         /\ Laid(b \o x, c, v, Len(b))
<1> PICK d : d = Writer!Declared(c, v)
  OBVIOUS
<1> PICK y : y = Writer!Payload(c, v, stale)
  OBVIOUS
<1> PICK h : h = <<c, d>>
  OBVIOUS
<1>1. d \in Octet /\ c \in Octet /\ d \in Nat
  BY ChunksAre, Codes, OctetsAre
<1>2. h \in Seq(Octet) /\ Len(h) = 2 BY <1>1
<1>3. y \in Seq(Octet) /\ Len(y) = d /\ ValueHeld(y, c, v, 0) BY PayloadIs
<1>4. x = h \o y BY DEF Writes
<1>5. x \in Seq(Octet) /\ Len(x) = 2 + d
  <2>1. h \o y \in Seq(Octet) /\ Len(h \o y) = Len(h) + Len(y)
    BY <1>2, <1>3, ConcatProperties
  <2>2. QED BY <1>2, <1>3, <1>4, <2>1
<1>6. Len(b) \in Nat /\ Len(b \o x) = Len(b) + (2 + d)
  <2>1. Len(b) \in Nat /\ Len(b \o x) = Len(b) + Len(x)
    BY <1>5, LenProperties, ConcatProperties
  <2>2. QED BY <1>5, <2>1
<1>7. Holds(b \o x, Len(b), h)
  <2>1. Holds(h, 0, h) BY <1>2 DEF Holds
  <2>2. Holds(x, 0, h) BY <1>2, <1>3, <1>4, <2>1, HoldsBefore
  <2>3. Holds(b \o x, Len(b) + 0, h) BY <1>2, <1>5, <2>2, HoldsBehind
  <2>4. QED BY <1>6, <2>3
<1>8. ValueHeld(b \o x, c, v, Len(b) + 2)
  <2>1. ValueHeld(x, c, v, Len(h) + 0) BY <1>2, <1>3, <1>4, ValueBehind
  <2>2. ValueHeld(x, c, v, 2) BY <1>2, <2>1
  <2>3. QED BY <1>5, <2>2, ValueBehind
<1>9. Len(b) + 2 + d <= Len(b \o x) BY <1>1, <1>6
<1>10. QED BY <1>5, <1>7, <1>8, <1>9 DEF Laid

-----------------------------------------------------------------------------
(* The options one after the other. *)

\* What the writer writes: all but what it takes for absent.
Present == {c \in DOMAIN options : ~Writer!Falsy(c, options[c])}

\* Where option c ends.
After(o, pos, c) == pos[c] + 2 + Writer!Declared(c, o[c])

\* At p, the first of the options W with a code of at least n starts, or all
\* of them end, which is at e.
Stands(W, pos, e, p, n) ==
  \/ (\A d \in W : d < n) /\ p = e
  \/ \E c \in W : n <= c /\ (\A d \in W : n <= d => c <= d) /\ p = pos[c]

\* The options W are in b in ascending order, without a gap, up to e.
Layout(b, o, W, pos, e) ==
  /\ pos \in [W -> Nat] /\ e \in Nat /\ e <= Len(b)
  /\ \A c \in W : Writer!Fits(c, o[c]) /\ Laid(b, c, o[c], pos[c])
  /\ Stands(W, pos, e, 0, 0)
  /\ \A c \in W : Stands(W, pos, e, After(o, pos, c), c + 1)

\* Options of which the buffer can hold any.
AreOptions(o, W) == W \subseteq Handled /\ \A c \in W : IsValue(c, o[c])

\* What comes behind leaves the layout as it is.
LEMMA LayoutBefore ==
  ASSUME NEW o, NEW W, AreOptions(o, W), NEW b \in Seq(Octet),
         NEW x \in Seq(Octet), NEW pos, NEW e, Layout(b, o, W, pos, e)
  PROVE  Layout(b \o x, o, W, pos, e)
<1>1. ASSUME NEW c \in W PROVE Laid(b \o x, c, o[c], pos[c])
  <2>1. c \in Handled /\ IsValue(c, o[c]) BY DEF AreOptions
  <2>2. /\ Writer!Fits(c, o[c]) /\ Laid(b, c, o[c], pos[c])
        /\ pos[c] \in Nat
    BY DEF Layout
  <2>3. QED BY <2>1, <2>2, LaidBefore
<1>2. e <= Len(b \o x)
  <2>1. /\ Len(b) \in Nat /\ Len(x) \in Nat /\ e \in Nat /\ e <= Len(b)
        /\ Len(b \o x) = Len(b) + Len(x)
    BY LenProperties, ConcatProperties DEF Layout
  <2>2. QED BY <2>1
<1>3. QED BY <1>1, <1>2 DEF Layout

\* The next option continues it.
LEMMA LayoutGrows ==
  ASSUME NEW o, NEW W, NEW c, AreOptions(o, W \cup {c}),
         \A d \in W : d < c, Writer!Fits(c, o[c]),
         NEW b \in Seq(Octet), NEW x \in Seq(Octet),
         Len(x) = 2 + Writer!Declared(c, o[c]),
         Laid(b \o x, c, o[c], Len(b)),
         NEW pos, Layout(b, o, W, pos, Len(b))
  PROVE  \E p : Layout(b \o x, o, W \cup {c}, p, Len(b \o x))
<1> PICK V : V = W \cup {c}
  OBVIOUS
<1> PICK e : e = Len(b)
  OBVIOUS
<1> PICK z : z = b \o x
  OBVIOUS
<1> PICK p : p = [d \in V |-> IF d = c THEN e ELSE pos[d]]
  OBVIOUS
<1>1. /\ e \in Nat /\ pos \in [W -> Nat] /\ c \in V /\ W \subseteq V
      /\ V \subseteq Handled /\ c \notin W /\ c \in Nat
      /\ \A d \in W : d \in Nat /\ d < c
  <2>1. V \subseteq Handled BY DEF AreOptions
  <2>2. c \in Nat /\ \A d \in W : d \in Nat BY <2>1, Codes
  <2>3. QED BY <2>1, <2>2 DEF Layout
<1>2. p \in [V -> Nat] /\ p[c] = e /\ \A d \in W : p[d] = pos[d]
  BY <1>1
<1>3. Len(z) \in Nat /\ Len(z) = e + (2 + Writer!Declared(c, o[c]))
      /\ Writer!Declared(c, o[c]) \in Nat
  <2>1. /\ Len(b \o x) = Len(b) + Len(x) /\ Len(x) \in Nat
    BY LenProperties, ConcatProperties
  <2>2. c \in Handled /\ IsValue(c, o[c]) BY DEF AreOptions
  <2>3. Writer!Declared(c, o[c]) \in Nat BY <2>2, ChunksAre, OctetsAre
  <2>4. QED BY <1>1, <2>1, <2>3
<1>4. ASSUME NEW q, NEW n \in Nat, n <= c, Stands(W, pos, e, q, n)
      PROVE  Stands(V, p, Len(z), q, n)
  <2>1. CASE (\A d \in W : d < n) /\ q = e
    <3>1. \A d \in V : n <= d => c <= d BY <1>1, <2>1
    <3>2. QED BY <1>1, <1>2, <1>4, <2>1, <3>1 DEF Stands
  <2>2. ASSUME NEW d \in W, n <= d, \A f \in W : n <= f => d <= f,
               q = pos[d]
        PROVE  Stands(V, p, Len(z), q, n)
    <3>1. \A f \in V : n <= f => d <= f BY <1>1, <2>2
    <3>2. QED BY <1>1, <1>2, <2>2, <3>1 DEF Stands
  <2>3. QED BY <1>4, <2>1, <2>2 DEF Stands
<1>5. Stands(V, p, Len(z), 0, 0)
  <2>1. 0 \in Nat /\ 0 <= c BY <1>1
  <2>2. Stands(W, pos, e, 0, 0) BY DEF Layout
  <2>3. QED BY <1>4, <2>1, <2>2
<1>6. ASSUME NEW d \in V PROVE Stands(V, p, Len(z), After(o, p, d), d + 1)
  <2>1. CASE d = c
    <3>1. After(o, p, c) = Len(z)
      <4> PICK l, n : l = Writer!Declared(c, o[c]) /\ n = Len(z)
        OBVIOUS
      <4>1. l \in Nat /\ n = e + (2 + l) /\ e \in Nat BY <1>1, <1>3
      <4>2. e + 2 + l = n BY ONLY <4>1
      <4>3. QED BY <1>2, <4>2 DEF After
    <3>2. \A f \in V : f < c + 1 BY <1>1
    <3>3. QED BY <2>1, <3>1, <3>2 DEF Stands
  <2>2. CASE d \in W
    <3>1. After(o, p, d) = After(o, pos, d) BY <1>2, <2>2 DEF After
    <3>2. d + 1 \in Nat /\ d + 1 <= c BY <1>1, <2>2
    <3>3. Stands(W, pos, e, After(o, pos, d), d + 1) BY <2>2 DEF Layout
    <3>4. QED BY <1>4, <3>1, <3>2, <3>3
  <2>3. QED BY <2>1, <2>2
<1>7. ASSUME NEW d \in V
      PROVE  Writer!Fits(d, o[d]) /\ Laid(z, d, o[d], p[d])
  <2>1. CASE d = c BY <1>2, <2>1
  <2>2. CASE d \in W
    <3>1. AreOptions(o, W) BY DEF AreOptions
    <3>2. Layout(z, o, W, pos, e) BY <3>1, LayoutBefore
    <3>3. QED BY <1>2, <2>2, <3>2 DEF Layout
  <2>3. QED BY <2>1, <2>2
<1>8. Layout(z, o, V, p, Len(z))
  <2> HIDE DEF Stands, After, Laid
  <2>1. Len(z) <= Len(z) BY <1>3
  <2>2. QED BY ONLY <1>2, <1>3, <1>5, <1>6, <1>7, <2>1 DEF Layout
<1>9. QED BY <1>8

-----------------------------------------------------------------------------
(* The writer. *)

\* The least of numbers is one of them.
LEMMA MinIs ==
  ASSUME NEW S, S \subseteq Nat, S # {}
  PROVE  Writer!Min(S) \in S /\ \A n \in S : Writer!Min(S) <= n
<1>1. \E m \in S : \A n \in S : m <= n BY LeastExists
<1>2. QED BY <1>1 DEF Writer!Min

\* A packet that was returned: the options in their places, and the end
\* option behind the last.
Complete ==
  /\ buf \in Seq(Octet)
  /\ \E pos, e : /\ Layout(buf, options, Present, pos, e)
                 /\ e < Len(buf) /\ buf[e + 1] = 255

\* As long as the cursor is in the buffer, everything is where it belongs.
WInv ==
  /\ made \in {"writing", "returned", "thrown"}
  /\ options \in OptionSets /\ i \in Nat
  /\ todo \subseteq Present
  /\ \A c \in Present \ todo, d \in todo : c < d
  /\ made = "writing" /\ i <= Room =>
       /\ buf \in Seq(Octet) /\ Len(buf) = i
       /\ \E pos : Layout(buf, options, Present \ todo, pos, i)
  /\ made = "returned" => Complete

\* What is written can be.
LEMMA PresentAre ==
  ASSUME options \in OptionSets
  PROVE  AreOptions(options, Present) /\ Present \subseteq Nat
<1>1. AreOptions(options, Present)
  BY WriterAssumption DEF Present, AreOptions
<1>2. QED BY <1>1, Codes DEF AreOptions

\* Nothing has been written.
LEMMA InitWInv == Writer!Init => WInv
<1> SUFFICES ASSUME Writer!Init PROVE WInv
  OBVIOUS
<1>1. /\ made = "writing" /\ options \in OptionSets /\ todo = Present
      /\ buf = <<>> /\ i = 0
  BY DEF Writer!Init, Present
<1>2. Present \ todo = {} /\ Len(buf) = 0 /\ buf \in Seq(Octet)
  BY <1>1
<1>3. Layout(buf, options, {}, [c \in {} |-> 0], 0)
  BY <1>2 DEF Layout, Stands
<1>4. QED BY <1>1, <1>2, <1>3 DEF WInv

\* An option that fits into the buffer comes behind the ones before it.
LEMMA WriteOptionKeeps == WInv /\ Writer!WriteOption => WInv'
<1> SUFFICES ASSUME WInv, Writer!WriteOption PROVE WInv'
  OBVIOUS
<1> PICK c : c = Writer!Min(todo)
  OBVIOUS
<1> PICK v : v = options[c]
  OBVIOUS
<1> DEFINE W == Present \ todo
<1>1. /\ made = "writing" /\ todo # {} /\ made' = made /\ options' = options
      /\ todo' = todo \ {c} /\ Writer!Fits(c, v)
      /\ \E stale \in [1 .. 2 -> StaleBytes] :
           LET x == <<c, Writer!Declared(c, v)>>
                      \o Writer!Payload(c, v, stale)
           IN /\ buf' = SubSeq(buf \o x, 1, Writer!Min({Room, i + Len(x)}))
              /\ i' = i + Len(x)
  BY DEF Writer!WriteOption
<1>2. PICK stale, x :
        /\ stale \in [1 .. 2 -> StaleBytes]
        /\ x = <<c, Writer!Declared(c, v)>> \o Writer!Payload(c, v, stale)
        /\ buf' = SubSeq(buf \o x, 1, Writer!Min({Room, i + Len(x)}))
        /\ i' = i + Len(x)
  BY <1>1
<1>3. /\ options \in OptionSets /\ i \in Nat /\ todo \subseteq Present
      /\ \A a \in W, d \in todo : a < d
  BY DEF WInv
<1>4. AreOptions(options, Present) /\ Present \subseteq Nat
      /\ Present' = Present
  BY <1>1, <1>3, PresentAre DEF Present
<1>5. c \in todo /\ \A d \in todo : c <= d
  BY <1>1, <1>3, <1>4, MinIs
<1>6. c \in Present /\ c \in Handled /\ c \in Nat /\ IsValue(c, v)
      /\ Present \ todo' = W \cup {c}
      /\ \A d \in W : d < c
  BY <1>1, <1>3, <1>4, <1>5 DEF AreOptions
<1>7. \A b \in Seq(Octet) :
        /\ x \in Seq(Octet) /\ Len(x) = 2 + Writer!Declared(c, v)
        /\ Laid(b \o x, c, v, Len(b))
  <2> SUFFICES ASSUME NEW b \in Seq(Octet)
               PROVE  /\ x \in Seq(Octet)
                      /\ Len(x) = 2 + Writer!Declared(c, v)
                      /\ Laid(b \o x, c, v, Len(b))
    OBVIOUS
  <2>1. /\ c \in Handled /\ IsValue(c, v) /\ Writer!Fits(c, v)
        /\ stale \in [1 .. 2 -> StaleBytes]
    BY <1>1, <1>2, <1>6
  <2>2. x = <<c, Writer!Declared(c, v)>> \o Writer!Payload(c, v, stale)
    BY <1>2
  <2>3. Writes(x, c, v, stale) BY <2>2 DEF Writes
  <2>4. QED BY <2>1, <2>3, LaidBehind
<1>8. x \in Seq(Octet) /\ Len(x) = 2 + Writer!Declared(c, v)
  <2>1. <<>> \in Seq(Octet) OBVIOUS
  <2>2. QED BY <1>7, <2>1
<1>9. Len(x) \in Nat /\ i' \in Nat /\ i <= i' BY <1>2, <1>3, <1>8
<1>10. \A a \in Present \ todo', d \in todo' : a < d
  <2> SUFFICES ASSUME NEW a \in W \cup {c}, NEW d \in todo, d # c
               PROVE  a < d
    BY <1>1, <1>6
  <2>1. CASE a \in W BY <1>3, <2>1
  <2>2. CASE a = c
    <3>1. c <= d /\ d \in Nat /\ c \in Nat BY <1>3, <1>4, <1>5, <1>6
    <3>2. QED BY <2>2, <3>1
  <2>3. QED BY <2>1, <2>2
<1>11. ASSUME i' <= Room
       PROVE  /\ buf' \in Seq(Octet) /\ Len(buf') = i'
              /\ \E pos : Layout(buf', options, W \cup {c}, pos, i')
  <2>1. Room \in Nat BY WriterAssumption
  <2>2. i <= Room BY <1>3, <1>9, <1>11, <2>1
  <2>3. buf \in Seq(Octet) /\ Len(buf) = i
        /\ \E pos : Layout(buf, options, W, pos, i)
    BY <1>1, <2>2 DEF WInv
  <2>4. PICK z : z = buf \o x
    OBVIOUS
  <2>5. z \in Seq(Octet) /\ Len(z) = i'
    <3>1. buf \o x \in Seq(Octet) /\ Len(buf \o x) = Len(buf) + Len(x)
      BY <1>8, <2>3, ConcatProperties
    <3>2. QED BY <1>2, <2>3, <2>4, <3>1
  <2>6. Writer!Min({Room, i'}) = i'
    <3> PICK m : m = Writer!Min({Room, i'})
      OBVIOUS
    <3>1. m \in {Room, i'} /\ \A n \in {Room, i'} : m <= n
      BY <1>9, <2>1, MinIs
    <3>2. QED BY <1>9, <1>11, <2>1, <3>1
  <2>7. buf' = z
    <3>1. buf' = SubSeq(z, 1, i') BY <1>2, <2>4, <2>6
    <3>2. SubSeq(z, 1, Len(z)) = z BY <2>5, SubSeqFull
    <3>3. QED BY <2>5, <3>1, <3>2
  <2>8. Laid(z, c, v, Len(buf)) BY <1>7, <2>3, <2>4
  <2>9. AreOptions(options, W \cup {c}) BY <1>4, <1>6 DEF AreOptions
  <2>10. PICK pos : Layout(buf, options, W, pos, Len(buf)) BY <2>3
  <2> HIDE DEF W
  <2>11. \E p : Layout(z, options, W \cup {c}, p, Len(z))
    BY <1>1, <1>6, <1>8, <2>3, <2>4, <2>8, <2>9, <2>10, LayoutGrows
  <2>12. QED BY <2>5, <2>7, <2>11
<1>12. QED
  BY <1>1, <1>3, <1>4, <1>6, <1>9, <1>10, <1>11 DEF WInv

\* The end option and the padding come behind the last.
LEMMA WriteEndKeeps == WInv /\ Writer!WriteEnd => WInv'
<1> SUFFICES ASSUME WInv, Writer!WriteEnd PROVE WInv'
  OBVIOUS
<1>1. /\ made = "writing" /\ todo = {} /\ made' = "returned"
      /\ options' = options /\ todo' = todo /\ Writer!EndFits
      /\ i' = IF i + 2 > 60 THEN i + 2 ELSE 60
      /\ buf' = (buf \o <<255>>) \o [k \in 1 .. i' - i - 1 |-> 0]
  BY DEF Writer!WriteEnd
<1>2. i \in Nat /\ Room \in Nat /\ options \in OptionSets
  BY WriterAssumption DEF WInv
<1>3. i <= Room BY <1>1, <1>2 DEF Writer!EndFits
<1>4. /\ buf \in Seq(Octet) /\ Len(buf) = i /\ Present \ todo = Present
      /\ \E pos : Layout(buf, options, Present, pos, i)
  BY <1>1, <1>3 DEF WInv
<1>5. Present' = Present /\ AreOptions(options, Present)
  BY <1>1, <1>2, PresentAre DEF Present
<1>6. i' \in Nat /\ i' - i - 1 \in Nat BY <1>1, <1>2
<1>7. PICK n \in Nat : n = i' - i - 1 BY <1>6
<1>8. PICK y, x : y = buf \o <<255>> /\ x = [k \in 1 .. n |-> 0]
  OBVIOUS
<1>9. <<255>> \in Seq(Octet) /\ Len(<<255>>) = 1
  <2>1. 255 \in Octet BY DEF Octet
  <2>2. QED BY <2>1
<1>10. x \in Seq(Octet)
  <2>1. 0 \in Octet BY DEF Octet
  <2>2. x \in [1 .. n -> Octet] BY <1>8, <2>1
  <2>3. QED BY <2>2, SeqDef
<1>11. y \in Seq(Octet) /\ Len(y) = i + 1 /\ y[i + 1] = 255
  <2>1. /\ buf \o <<255>> \in Seq(Octet)
        /\ Len(buf \o <<255>>) = Len(buf) + Len(<<255>>)
        /\ \A k \in 1 .. Len(buf) + Len(<<255>>) :
             (buf \o <<255>>)[k] = IF k <= Len(buf) THEN buf[k]
                                   ELSE <<255>>[k - Len(buf)]
    BY <1>4, <1>9, ConcatProperties
  <2>2. i + 1 \in 1 .. i + 1 /\ ~(i + 1 <= i) /\ (i + 1) - i = 1
    BY <1>2
  <2>3. QED BY <1>4, <1>8, <1>9, <2>1, <2>2
<1>12. /\ buf' = y \o x /\ buf' \in Seq(Octet)
       /\ i < Len(buf') /\ buf'[i + 1] = 255
  <2>1. /\ y \o x \in Seq(Octet) /\ Len(y \o x) = Len(y) + Len(x)
        /\ Len(x) \in Nat
        /\ \A k \in 1 .. Len(y) + Len(x) :
             (y \o x)[k] = IF k <= Len(y) THEN y[k] ELSE x[k - Len(y)]
    BY <1>10, <1>11, LenProperties, ConcatProperties
  <2>2. buf' = y \o x BY <1>1, <1>7, <1>8
  <2>3. i + 1 \in 1 .. Len(y) + Len(x) /\ i + 1 <= Len(y)
        /\ i < Len(y) + Len(x)
    BY <1>2, <1>11, <2>1
  <2>4. QED BY <1>11, <2>1, <2>2, <2>3
<1>13. ASSUME NEW pos, Layout(buf, options, Present, pos, i)
       PROVE  Layout(buf', options, Present, pos, i)
  <2>1. Layout(y, options, Present, pos, i)
    BY <1>4, <1>5, <1>8, <1>9, <1>13, LayoutBefore
  <2>2. Layout(y \o x, options, Present, pos, i)
    BY <1>5, <1>10, <1>11, <2>1, LayoutBefore
  <2>3. QED BY <1>12, <2>2
<1>14. Complete'
  <2>1. PICK pos : Layout(buf', options, Present, pos, i) BY <1>4, <1>13
  <2> PICK b, W, o : b = buf' /\ W = Present' /\ o = options'
    OBVIOUS
  <2>2. b \in Seq(Octet) /\ Layout(b, o, W, pos, i) /\ i < Len(b)
        /\ b[i + 1] = 255
    BY <1>1, <1>5, <1>12, <2>1
  <2> HIDE DEF Present
  <2>3. QED BY <2>2 DEF Complete
<1>15. QED
  BY <1>1, <1>2, <1>4, <1>5, <1>6, <1>14 DEF WInv

\* Every step of the writer keeps the invariant.
LEMMA NextWInv == WInv /\ (Writer!Next \/ UNCHANGED writerVars) => WInv'
<1>1. ASSUME WInv, Writer!Refuse PROVE WInv'
  <2>1. /\ made' = "thrown" /\ options' = options /\ todo' = todo
        /\ i' = i /\ Present' = Present
    BY <1>1 DEF Writer!Refuse, Present
  <2>2. QED BY <1>1, <2>1 DEF WInv
<1>2. ASSUME WInv, UNCHANGED writerVars PROVE WInv'
  <2>1. UNCHANGED <<made, options, todo, buf, i>> BY <1>2 DEF writerVars
  <2>2. Present' = Present BY <2>1 DEF Present
  <2>3. Complete' = Complete
    <3> PICK W : W = Present
      OBVIOUS
    <3> HIDE DEF Present
    <3>1. Present = W /\ Present' = W BY <2>2
    <3>2. QED BY <2>1, <3>1 DEF Complete
  <2>4. QED BY <1>2, <2>1, <2>2, <2>3 DEF WInv
<1>3. QED BY <1>1, <1>2, WriteOptionKeeps, WriteEndKeeps DEF Writer!Next

\* Whatever the options are, and whatever the memory held, a packet that
\* createPacketBuffer returns holds every option that counts, in ascending
\* order, each with the length it has and where the one before it ends; then
\* comes the end option.
THEOREM LaysOut == RoundTripSpec => [](made = "returned" => Complete)
<1>1. Start => WInv BY InitWInv DEF Start
<1>2. WInv /\ [Travel]_allVars => WInv'
  BY NextWInv DEF Travel, Send, ReceiveOther, allVars, writerVars
<1>3. WInv => (made = "returned" => Complete) BY DEF WInv
<1>4. QED BY <1>1, <1>2, <1>3, PTL DEF RoundTripSpec
=============================================================================
