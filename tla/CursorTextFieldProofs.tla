------------------------ MODULE CursorTextFieldProofs ------------------------
(***************************************************************************)
(* Proofs about CursorTextField: for any characters, fonts, boxes and      *)
(* texts, and any length of the input up to the list of 50 that the code   *)
(* keeps.  The widths of the characters may all differ, but in what is     *)
(* proved of the window in a font of one width.                            *)
(***************************************************************************)
EXTENDS CursorTextField, SequenceLemmas

-----------------------------------------------------------------------------
(* SumOf is a recursive function over the positions of a text.             *)
\* g adds up the first characters of s, and what that says of each step.
Sums(g, f, s) ==
    g = [n \in 0 .. Len(s) |-> IF n = 0 THEN 0 ELSE g[n - 1] + f[s[n]]]

IsSums(g, f, s) ==
    /\ g \in [0 .. Len(s) -> Int] /\ g[0] = 0
    /\ \A n \in 1 .. Len(s) : g[n] = g[n - 1] + f[s[n]]

LEMMA SumsStep ==
    ASSUME NEW g, NEW f, NEW s, Sums(g, f, s), NEW n \in 0 .. Len(s)
    PROVE  g[n] = IF n = 0 THEN 0 ELSE g[n - 1] + f[s[n]]
<1> DEFINE h == [k \in 0 .. Len(s) |-> IF k = 0 THEN 0 ELSE g[k - 1] + f[s[k]]]
<1>1. g = h
  BY DEF Sums
<1>2. h[n] = IF n = 0 THEN 0 ELSE g[n - 1] + f[s[n]]
  OBVIOUS
<1> HIDE DEF h
<1>3. QED  BY <1>1, <1>2

LEMMA SumsAreSums ==
    ASSUME NEW g, NEW f, NEW s, Len(s) \in Nat, IsSums(g, f, s)
    PROVE  Sums(g, f, s)
<1> DEFINE h == [k \in 0 .. Len(s) |-> IF k = 0 THEN 0 ELSE g[k - 1] + f[s[k]]]
<1>1. ASSUME NEW k \in 0 .. Len(s) PROVE g[k] = h[k]
  <2>1. CASE k = 0
    BY <2>1 DEF IsSums
  <2>2. CASE k # 0
    <3>1. k \in 1 .. Len(s)
      BY <2>2
    <3>2. QED  BY <2>2, <3>1 DEF IsSums
  <2>3. QED  BY <2>1, <2>2
<1>2. g = h
  <2>1. DOMAIN g = 0 .. Len(s) /\ g = [k \in DOMAIN g |-> g[k]]
    BY DEF IsSums
  <2>2. QED  BY <1>1, <2>1
<1>3. QED  BY <1>2 DEF Sums

(* Any function that adds up the characters step by step ends in the sum.  *)
LEMMA SumIs ==
    ASSUME NEW g, NEW f, NEW s, Len(s) \in Nat, IsSums(g, f, s)
    PROVE  SumOf(f, s) = g[Len(s)]
<1> DEFINE F == CHOOSE h : Sums(h, f, s)
           T == {k \in 0 .. Len(s) : F[k] = g[k]}
<1>1. Sums(g, f, s)
  BY SumsAreSums
<1>2. Sums(F, f, s)
  BY <1>1
<1>3. SumOf(f, s) = F[Len(s)]
  BY DEF SumOf, Sums
<1> HIDE DEF F
<1>4. 0 \in T
  <2>1. 0 \in 0 .. Len(s)
    OBVIOUS
  <2>2. F[0] = 0 /\ g[0] = 0
    BY <1>1, <1>2, <2>1, SumsStep
  <2>3. QED  BY <2>1, <2>2
<1>5. ASSUME NEW k \in 0 .. Len(s), k \in T, k < Len(s) PROVE k + 1 \in T
  <2>1. k + 1 \in 0 .. Len(s) /\ k + 1 # 0 /\ k + 1 - 1 = k
    BY <1>5
  <2> DEFINE n == k + 1
  <2> HIDE DEF n
  <2>2. n \in 0 .. Len(s) /\ n # 0 /\ n - 1 = k
    BY <2>1 DEF n
  <2>3. F[n] = F[n - 1] + f[s[n]] /\ g[n] = g[n - 1] + f[s[n]]
    BY <1>1, <1>2, <2>2, SumsStep
  <2>4. F[n] = g[n]
    BY <1>5, <2>2, <2>3
  <2>5. n \in T
    BY <2>2, <2>4
  <2>6. QED  BY <2>5 DEF n
<1>6. \A k \in 0 .. Len(s) : k \in T
  <2> HIDE DEF T
  <2>1. QED  BY <1>4, <1>5, Induction
<1>7. Len(s) \in 0 .. Len(s)
  OBVIOUS
<1>8. QED  BY <1>3, <1>6, <1>7

(* There is one.                                                           *)
LEMMA SumsExist ==
    ASSUME NEW C, NEW f \in [C -> Nat], NEW s \in Seq(C)
    PROVE  \E g : IsSums(g, f, s)
<1> DEFINE n == Len(s)
           IsUpTo(g, k) == /\ g \in [0 .. k -> Int] /\ g[0] = 0
                           /\ \A i \in 1 .. k : g[i] = g[i - 1] + f[s[i]]
           T == {k \in 0 .. n : \E g : IsUpTo(g, k)}
<1>1. n \in Nat /\ \A i \in 1 .. n : s[i] \in C
  BY LenProperties, ElementOfSeq
<1>2. \A i \in 1 .. n : f[s[i]] \in Nat
  BY <1>1
<1> HIDE DEF n
<1>3. 0 \in T
  <2> DEFINE g == [i \in 0 .. 0 |-> 0]
  <2>1. /\ g \in [0 .. 0 -> Int] /\ g[0] = 0
        /\ \A i \in 1 .. 0 : g[i] = g[i - 1] + f[s[i]]
    OBVIOUS
  <2>2. 0 \in 0 .. n
    BY <1>1
  <2>3. IsUpTo(g, 0)
    BY <2>1
  <2> HIDE DEF IsUpTo, g
  <2>4. QED  BY <2>2, <2>3
<1>4. ASSUME NEW k \in 0 .. n, k \in T, k < n PROVE k + 1 \in T
  <2>1. PICK g : IsUpTo(g, k)
    BY <1>4
  <2> DEFINE h == [i \in 0 .. k + 1 |-> IF i <= k THEN g[i] ELSE g[k] + f[s[k + 1]]]
  <2>2. k + 1 \in 1 .. n /\ k + 1 \in 0 .. n /\ k \in 0 .. k
    BY <1>1, <1>4
  <2>3. g[k] + f[s[k + 1]] \in Int
    BY <1>2, <2>1, <2>2
  <2>4. h \in [0 .. k + 1 -> Int] /\ h[0] = 0
    <3>1. \A i \in 0 .. k + 1 : i <= k => g[i] \in Int
      BY <1>1, <2>1
    <3>2. QED  BY <1>1, <2>1, <2>3, <3>1
  <2>5. ASSUME NEW i \in 1 .. k + 1 PROVE h[i] = h[i - 1] + f[s[i]]
    <3>1. i - 1 \in 0 .. k /\ h[i - 1] = g[i - 1]
      BY <1>1
    <3>2. CASE i <= k
      <4>1. i \in 1 .. k /\ h[i] = g[i]
        BY <3>2
      <4>2. g[i] = g[i - 1] + f[s[i]]
        BY <2>1, <4>1
      <4>3. QED  BY <3>1, <4>1, <4>2
    <3>3. CASE ~(i <= k)
      <4>1. i = k + 1 /\ i - 1 = k /\ h[i] = g[k] + f[s[k + 1]]
        BY <3>3
      <4>2. QED  BY <3>1, <4>1
    <3>4. QED  BY <3>2, <3>3
  <2>6. IsUpTo(h, k + 1)
    BY <2>4, <2>5
  <2> HIDE DEF IsUpTo, h
  <2>7. QED  BY <2>2, <2>6
<1>5. n \in T
  <2> HIDE DEF T
  <2>1. \A k \in 0 .. n : k \in T
    BY <1>1, <1>3, <1>4, Induction
  <2>2. QED  BY <1>1, <2>1
<1>6. QED  BY <1>5 DEF IsSums, n

(* The partial sums are those of the first characters, and their           *)
(* differences those of the last ones.                                     *)
LEMMA PrefixSum ==
    ASSUME NEW C, NEW s \in Seq(C), NEW f, NEW g, IsSums(g, f, s),
           NEW k \in 0 .. Len(s)
    PROVE  SumOf(f, SubSeq(s, 1, k)) = g[k]
<1> DEFINE t == SubSeq(s, 1, k)
           h == [i \in 0 .. k |-> g[i]]
<1>1. Len(s) \in Nat /\ k \in Nat /\ k <= Len(s)
  BY LenProperties
<1>2. Len(t) = k /\ \A i \in 1 .. k : t[i] = s[i]
  <2>1. \A i \in 1 .. k : s[i] \in C
    BY <1>1, ElementOfSeq
  <2>2. Len(t) = IF 1 <= k THEN k - 1 + 1 ELSE 0
    BY <1>1, <2>1, SubSeqProperties
  <2>3. \A i \in 1 .. k - 1 + 1 : t[i] = s[1 + i - 1]
    BY <1>1, <2>1, SubSeqProperties
  <2> HIDE DEF t
  <2>4. QED  BY <1>1, <2>2, <2>3
<1> HIDE DEF t
<1>3. IsSums(h, f, t)
  <2>1. h \in [0 .. Len(t) -> Int] /\ h[0] = 0
    BY <1>1, <1>2 DEF IsSums
  <2>2. ASSUME NEW i \in 1 .. Len(t) PROVE h[i] = h[i - 1] + f[t[i]]
    <3>1. i \in 1 .. Len(s) /\ i \in 0 .. k /\ i - 1 \in 0 .. k /\ t[i] = s[i]
      BY <1>1, <1>2
    <3>2. g[i] = g[i - 1] + f[s[i]]
      BY <3>1 DEF IsSums
    <3>3. QED  BY <3>1, <3>2
  <2> HIDE DEF h
  <2>3. QED  BY <2>1, <2>2 DEF IsSums
<1>4. SumOf(f, t) = h[Len(t)]
  <2> HIDE DEF h
  <2>1. Len(t) \in Nat
    BY <1>1, <1>2
  <2>2. QED  BY <1>3, <2>1, SumIs
<1>5. k \in 0 .. k
  BY <1>1
<1>6. QED  BY <1>2, <1>4, <1>5 DEF t

LEMMA SuffixSum ==
    ASSUME NEW C, NEW s \in Seq(C), NEW f \in [C -> Nat], NEW g,
           IsSums(g, f, s), NEW k \in 1 .. Len(s)
    PROVE  SumOf(f, SubSeq(s, k, Len(s))) = g[Len(s)] - g[k - 1]
<1> DEFINE N == Len(s)
           t == SubSeq(s, k, Len(s))
           m == N - k + 1
           h == [i \in 0 .. m |-> g[i + (k - 1)] - g[k - 1]]
<1>1. N \in Nat /\ k \in Nat /\ 1 <= k /\ k <= N /\ m \in Nat /\ m = N - k + 1
  BY LenProperties
<1>2. Len(t) = m /\ \A i \in 1 .. m : t[i] = s[k + i - 1]
  <2>1. \A i \in k .. N : s[i] \in C
    BY <1>1, ElementOfSeq
  <2>2. Len(t) = IF k <= N THEN N - k + 1 ELSE 0
    BY <1>1, <2>1, SubSeqProperties
  <2>3. \A i \in 1 .. N - k + 1 : t[i] = s[k + i - 1]
    BY <1>1, <2>1, SubSeqProperties
  <2> HIDE DEF t, N
  <2>4. QED  BY <1>1, <2>2, <2>3
<1>3. /\ g \in [0 .. N -> Int] /\ \A n \in 1 .. N : g[n] = g[n - 1] + f[s[n]]
  BY DEF IsSums
<1> HIDE DEF t, N, m
<1>4. IsSums(h, f, t)
  <2>1. h \in [0 .. Len(t) -> Int]
    <3>1. ASSUME NEW i \in 0 .. m PROVE g[i + (k - 1)] - g[k - 1] \in Int
      <4>1. i + (k - 1) \in 0 .. N /\ k - 1 \in 0 .. N
        BY <1>1
      <4>2. g[i + (k - 1)] \in Int /\ g[k - 1] \in Int
        BY <1>3, <4>1
      <4>3. QED  BY <4>2
    <3>2. QED  BY <1>2, <3>1
  <2>2. h[0] = 0
    <3>1. 0 \in 0 .. m /\ 0 + (k - 1) = k - 1 /\ k - 1 \in 0 .. N
      BY <1>1
    <3>2. g[k - 1] \in Int
      BY <1>3, <3>1
    <3>3. QED  BY <3>1, <3>2
  <2>3. ASSUME NEW i \in 1 .. Len(t) PROVE h[i] = h[i - 1] + f[t[i]]
    <3> DEFINE n == k + i - 1
    <3>1. /\ i \in 0 .. m /\ i - 1 \in 0 .. m /\ t[i] = s[n] /\ n \in 1 .. N
          /\ n - 1 \in 0 .. N /\ i + (k - 1) = n /\ i - 1 + (k - 1) = n - 1
          /\ n \in 0 .. N /\ k - 1 \in 0 .. N
      BY <1>1, <1>2
    <3>2. h[i] = g[n] - g[k - 1] /\ h[i - 1] = g[n - 1] - g[k - 1]
      BY <3>1
    <3> HIDE DEF n, h
    <3>3. g[n] = g[n - 1] + f[s[n]]
      BY <1>3, <3>1
    <3>4. g[n] \in Int /\ g[n - 1] \in Int /\ g[k - 1] \in Int
      BY <1>3, <3>1
    <3>5. f[s[n]] \in Int
      <4>1. s[n] \in C
        BY <3>1, ElementOfSeq DEF N
      <4>2. QED  BY <4>1
    <3>6. \A a, b, c, d \in Int : a = b + d => a - c = b - c + d
      OBVIOUS
    <3> DEFINE a == g[n]
               b == g[n - 1]
               c == g[k - 1]
               d == f[s[n]]
    <3>7. a - c = b - c + d
      <4>1. a \in Int /\ b \in Int /\ c \in Int /\ d \in Int /\ a = b + d
        BY <3>3, <3>4, <3>5
      <4> HIDE DEF a, b, c, d
      <4>2. QED  BY <3>6, <4>1
    <3>8. f[t[i]] = f[s[n]]
      BY <3>1
    <3>9. QED  BY <3>2, <3>7, <3>8
  <2> HIDE DEF h
  <2>4. QED  BY <2>1, <2>2, <2>3 DEF IsSums
<1>5. SumOf(f, t) = h[Len(t)]
  <2> HIDE DEF h
  <2>1. Len(t) \in Nat
    BY <1>1, <1>2
  <2>2. QED  BY <1>4, <2>1, SumIs
<1>6. m \in 0 .. m /\ m + (k - 1) = N
  BY <1>1
<1>7. SumOf(f, t) = g[N] - g[k - 1]
  BY <1>2, <1>5, <1>6
<1>8. QED  BY <1>7 DEF t, N

(* If every character counts, the sums rise.                               *)
Rises(g, n) == \A k, l \in 0 .. n : k < l => g[k] < g[l]

LEMMA SumsRise ==
    ASSUME NEW C, NEW s \in Seq(C), NEW f \in [C -> Nat \ {0}], NEW g,
           IsSums(g, f, s)
    PROVE  g \in [0 .. Len(s) -> Nat] /\ Rises(g, Len(s))
<1> DEFINE N == Len(s)
           T == {l \in 0 .. N : /\ g[l] \in Nat
                                /\ \A k \in 0 .. N : k < l => g[k] < g[l]}
<1>1. N \in Nat /\ \A i \in 1 .. N : s[i] \in C
  BY LenProperties, ElementOfSeq
<1>2. \A i \in 1 .. N : f[s[i]] \in Nat /\ f[s[i]] # 0
  BY <1>1
<1>3. /\ g \in [0 .. N -> Int] /\ g[0] = 0
      /\ \A i \in 1 .. N : g[i] = g[i - 1] + f[s[i]]
  BY DEF IsSums
<1> HIDE DEF N
<1>4. 0 \in T
  BY <1>1, <1>3
<1>5. ASSUME NEW l \in 0 .. N, l \in T, l < N PROVE l + 1 \in T
  <2> DEFINE n == l + 1
  <2>1. n \in 1 .. N /\ n \in 0 .. N /\ n - 1 = l
    BY <1>1, <1>5
  <2>2. \A k \in 0 .. N : k < n => k = l \/ k < l
    BY <1>1
  <2> HIDE DEF n
  <2>3. g[n] = g[l] + f[s[n]] /\ f[s[n]] \in Nat /\ f[s[n]] # 0
    BY <1>2, <1>3, <2>1
  <2>4. g[l] \in Nat /\ \A k \in 0 .. N : k < l => g[k] < g[l]
    BY <1>5
  <2>5. g[n] \in Nat /\ g[l] < g[n]
    BY <2>3, <2>4
  <2>6. ASSUME NEW k \in 0 .. N, k < n PROVE g[k] < g[n]
    <3>1. g[k] \in Int
      BY <1>3
    <3>2. QED  BY <2>2, <2>4, <2>5, <2>6, <3>1
  <2>7. n \in T
    BY <2>1, <2>5, <2>6
  <2>8. QED  BY <2>7 DEF n
<1>6. \A l \in 0 .. N : l \in T
  <2> HIDE DEF T
  <2>1. QED  BY <1>1, <1>4, <1>5, Induction
<1>7. QED  BY <1>3, <1>6 DEF N, Rises

-----------------------------------------------------------------------------
(* g counts the bytes of the first characters of s, and with it those of   *)
(* every part of s that the code cuts off or keeps.                        *)
Counts(g, s) ==
    /\ g \in [0 .. Len(s) -> Nat] /\ Rises(g, Len(s))
    /\ g[0] = 0 /\ \A i \in 1 .. Len(s) : g[i] = g[i - 1] + Bytes[s[i]]
    /\ Size(s) = g[Len(s)] /\ Size(<<>>) = 0
    /\ \A k \in 0 .. Len(s) : Size(SubSeq(s, 1, k)) = g[k]
    /\ \A k \in 1 .. Len(s) : Size(SubSeq(s, k, Len(s))) = g[Len(s)] - g[k - 1]

LEMMA SumEmpty ==
    ASSUME NEW f
    PROVE  SumOf(f, <<>>) = 0
<1> DEFINE g == [i \in 0 .. 0 |-> 0]
           s == <<>>
<1>1. Len(s) = 0 /\ Len(s) \in Nat /\ IsSums(g, f, s) /\ g[0] = 0
  BY DEF IsSums
<1> HIDE DEF g, s
<1>2. SumOf(f, s) = g[Len(s)]
  BY <1>1, SumIs
<1>3. QED  BY <1>1, <1>2 DEF s

LEMMA SumOne ==
    ASSUME NEW C, NEW f \in [C -> Nat], NEW c \in C
    PROVE  SumOf(f, <<c>>) = f[c]
<1> DEFINE g == [i \in 0 .. 1 |-> IF i = 0 THEN 0 ELSE f[c]]
           s == <<c>>
<1>1. Len(s) = 1 /\ Len(s) \in Nat /\ s[1] = c
  OBVIOUS
<1>2. IsSums(g, f, s) /\ g[1] = f[c]
  <2>1. g \in [0 .. 1 -> Int] /\ g[0] = 0 /\ g[1] = f[c]
    OBVIOUS
  <2>2. \A i \in 1 .. 1 : i = 1 /\ i - 1 = 0
    OBVIOUS
  <2>3. f[c] \in Nat
    OBVIOUS
  <2> HIDE DEF g, s
  <2>4. \A i \in 1 .. 1 : g[i] = g[i - 1] + f[s[i]]
    BY <1>1, <2>1, <2>2, <2>3
  <2>5. QED  BY <1>1, <2>1, <2>4 DEF IsSums
<1> HIDE DEF g, s
<1>3. SumOf(f, s) = g[Len(s)]
  BY <1>1, <1>2, SumIs
<1>4. QED  BY <1>1, <1>2, <1>3 DEF s

LEMMA Counted ==
    ASSUME NEW s \in Seq(Chars)
    PROVE  \E g : Counts(g, s)
<1>1. Bytes \in [Chars -> Nat] /\ Bytes \in [Chars -> Nat \ {0}]
  BY CharsAssumption
<1>2. Len(s) \in Nat /\ SubSeq(s, 1, Len(s)) = s /\ Len(s) \in 0 .. Len(s)
  BY LenProperties, SubSeqFull
<1>3. PICK g : IsSums(g, Bytes, s)
  BY <1>1, SumsExist
<1>4. g \in [0 .. Len(s) -> Nat] /\ Rises(g, Len(s))
  BY <1>1, <1>3, SumsRise
<1>5. ASSUME NEW k \in 0 .. Len(s) PROVE Size(SubSeq(s, 1, k)) = g[k]
  BY <1>3, PrefixSum DEF Size
<1>6. ASSUME NEW k \in 1 .. Len(s)
      PROVE  Size(SubSeq(s, k, Len(s))) = g[Len(s)] - g[k - 1]
  BY <1>1, <1>3, SuffixSum DEF Size
<1>7. Size(s) = g[Len(s)] /\ Size(<<>>) = 0
  <2>1. Size(SubSeq(s, 1, Len(s))) = g[Len(s)]
    BY <1>2, <1>5
  <2>2. QED  BY <1>2, <2>1, SumEmpty DEF Size
<1>8. QED  BY <1>3, <1>4, <1>5, <1>6, <1>7 DEF Counts, IsSums

(* What is left of a text after some of its characters.                    *)
IsEnd(t, s, k) ==
    /\ t = SubSeq(s, k + 1, Len(s)) /\ t \in Seq(Chars) /\ t # <<>>
    /\ Last(t) = Last(s) /\ (k = Len(s) - 1 => t = <<Last(s)>>)

LEMMA EndOf ==
    ASSUME NEW s \in Seq(Chars), NEW k \in Nat, k < Len(s)
    PROVE  IsEnd(SubSeq(s, k + 1, Len(s)), s, k)
<1> DEFINE j == k + 1
           N == Len(s)
           t == SubSeq(s, j, N)
<1>1. /\ N \in Nat /\ j \in 1 .. N
      /\ N - j + 1 \in 1 .. N - j + 1 /\ j + (N - j + 1) - 1 = N
  BY LenProperties
<1>2. \A i \in j .. N : s[i] \in Chars
  BY <1>1, ElementOfSeq
<1> HIDE DEF j, N
<1>3. /\ t \in Seq(Chars) /\ Len(t) = N - j + 1
      /\ \A i \in 1 .. N - j + 1 : t[i] = s[j + i - 1]
  BY <1>1, <1>2, SubSeqProperties
<1> HIDE DEF t
<1>4. t[Len(t)] = s[N]
  BY <1>1, <1>3
<1>5. t # <<>>
  <2>1. Len(t) # 0
    BY <1>1, <1>3
  <2>2. QED  BY <2>1
<1>6. Last(t) = Last(s)
  BY <1>4 DEF Last, N
<1>7. ASSUME k = N - 1 PROVE t = <<Last(s)>>
  <2>1. Len(t) = 1
    BY <1>1, <1>3, <1>7 DEF j
  <2>2. t = <<t[1]>>
    <3> DEFINE u == <<t[1]>>
    <3>1. t[1] \in Chars
      <4>1. 1 \in 1 .. Len(t)
        BY <2>1
      <4>2. QED  BY <1>3, <4>1, ElementOfSeq
    <3>2. u \in Seq(Chars) /\ Len(u) = 1 /\ u[1] = t[1]
      BY <3>1
    <3> HIDE DEF u
    <3>3. \A i \in 1 .. Len(t) : t[i] = u[i]
      BY <2>1, <3>2
    <3>4. t = u
      BY <1>3, <2>1, <3>2, <3>3, SeqEqual
    <3>5. QED  BY <3>4 DEF u
  <2>3. t[1] = Last(t)
    BY <2>1 DEF Last
  <2>4. QED  BY <1>6, <2>2, <2>3
<1>8. QED  BY <1>3, <1>5, <1>6, <1>7 DEF IsEnd, t, j, N

(* Cutting off the bytes of the first k characters leaves the others.      *)
LEMMA CutAt ==
    ASSUME NEW s \in Seq(Chars), NEW k \in Nat, k < Len(s),
           NEW n, n = Size(SubSeq(s, 1, k))
    PROVE  /\ Whole(s, n) /\ IsEnd(After(s, n), s, k)
           /\ n \in Nat /\ (k = 0 => n = 0)
<1> DEFINE N == Len(s)
           t == SubSeq(s, k + 1, N)
<1>1. PICK g : Counts(g, s)
  BY Counted
<1>2. N \in Nat /\ k \in 0 .. N /\ k + 1 \in 1 .. N /\ k + 1 - 1 = k /\ N \in 0 .. N
  BY LenProperties
<1>3. n = g[k] /\ g[k] \in Nat /\ (k = 0 => n = 0) /\ g[N] \in Nat
  BY <1>1, <1>2 DEF Counts
<1>4. Size(t) = Size(s) - n
  <2>1. Size(SubSeq(s, k + 1, Len(s))) = g[Len(s)] - g[k + 1 - 1]
    BY <1>1, <1>2 DEF Counts
  <2>2. QED  BY <1>1, <1>2, <1>3, <2>1 DEF Counts
<1>5. t \in Suffixes(s)
  BY <1>2 DEF Suffixes
<1>6. ASSUME NEW u \in Suffixes(s), Size(u) = Size(s) - n PROVE u = t
  <2>1. Size(s) = g[N] /\ g[k] < g[N] /\ Size(<<>>) = 0
    <3>1. k < N
      OBVIOUS
    <3>2. QED  BY <1>1, <1>2, <3>1 DEF Counts, Rises
  <2>2. u # <<>>
    <3>1. Size(s) - n # 0
      BY <1>3, <2>1
    <3>2. QED  BY <1>6, <2>1, <3>1
  <2>3. PICK l \in 1 .. N : u = SubSeq(s, l, N)
    BY <2>2 DEF Suffixes
  <2> DEFINE j == l - 1
  <2>4. j \in 0 .. N /\ l = j + 1
    BY <1>2
  <2>5. g[j] \in Nat /\ Size(u) = g[N] - g[j]
    <3>1. Size(SubSeq(s, l, Len(s))) = g[Len(s)] - g[l - 1]
      BY <1>1, <2>3 DEF Counts
    <3>2. g[j] \in Nat
      BY <1>1, <2>4 DEF Counts
    <3>3. QED  BY <2>3, <3>1, <3>2
  <2> HIDE DEF j
  <2>6. g[j] = g[k]
    BY <1>3, <1>6, <2>1, <2>5
  <2>7. ~(j < k) /\ ~(k < j)
    <3>1. j < k => g[j] < g[k]
      BY <1>1, <1>2, <2>4 DEF Counts, Rises
    <3>2. k < j => g[k] < g[j]
      BY <1>1, <1>2, <2>4 DEF Counts, Rises
    <3>3. QED  BY <1>3, <2>6, <3>1, <3>2
  <2>8. j = k
    BY <1>2, <2>4, <2>7
  <2>9. QED  BY <2>3, <2>4, <2>8
<1>7. After(s, n) = t
  <2> HIDE DEF t
  <2>1. QED  BY <1>4, <1>5, <1>6 DEF After
<1>8. Whole(s, n)
  BY <1>2 DEF Whole
<1>9. IsEnd(t, s, k)
  BY EndOf
<1>10. QED  BY <1>3, <1>7, <1>8, <1>9

(* The first characters of a text do not change when others follow.        *)
LEMMA SameStart ==
    ASSUME NEW s \in Seq(Chars), NEW t \in Seq(Chars), Len(s) <= Len(t),
           \A i \in 1 .. Len(s) : t[i] = s[i],
           NEW k \in Nat, k <= Len(s)
    PROVE  SubSeq(t, 1, k) = SubSeq(s, 1, k)
<1>1. Len(s) \in Nat /\ Len(t) \in Nat
  BY LenProperties
<1>2. \A l \in 1 .. k : t[l] = s[l] /\ t[l] \in Chars /\ s[l] \in Chars
  BY <1>1, ElementOfSeq
<1> DEFINE a == SubSeq(t, 1, k)
           b == SubSeq(s, 1, k)
<1>3. /\ a \in Seq(Chars) /\ Len(a) = IF 1 <= k THEN k - 1 + 1 ELSE 0
      /\ \A l \in 1 .. k - 1 + 1 : a[l] = t[1 + l - 1]
  BY <1>1, <1>2, SubSeqProperties
<1>4. /\ b \in Seq(Chars) /\ Len(b) = IF 1 <= k THEN k - 1 + 1 ELSE 0
      /\ \A l \in 1 .. k - 1 + 1 : b[l] = s[1 + l - 1]
  BY <1>1, <1>2, SubSeqProperties
<1> HIDE DEF a, b
<1>5. Len(a) = Len(b) /\ \A l \in 1 .. Len(a) : a[l] = b[l]
  BY <1>2, <1>3, <1>4
<1>6. a = b
  BY <1>3, <1>4, <1>5, SeqEqual
<1>7. QED  BY <1>6 DEF a, b

(* Taking away the bytes of the last character leaves the others.          *)
IsButLast(t, s) == /\ t = SubSeq(s, 1, Len(s) - 1) /\ t \in Seq(Chars)
                   /\ Len(t) = Len(s) - 1
                   /\ \A i \in 1 .. Len(s) - 1 : t[i] = s[i]
                   /\ \A i \in 0 .. Len(s) - 1 : SubSeq(t, 1, i) = SubSeq(s, 1, i)

LEMMA ButLast ==
    ASSUME NEW s \in Seq(Chars), s # <<>>
    PROVE  IsButLast(SubSeq(s, 1, Len(s) - 1), s)
<1> DEFINE N == Len(s)
           t == SubSeq(s, 1, N - 1)
<1>1. N \in Nat /\ N # 0 /\ N - 1 \in Nat /\ N - 1 <= N
  BY LenProperties, EmptySeq
<1>2. \A i \in 1 .. N - 1 : s[i] \in Chars
  BY <1>1, ElementOfSeq
<1> HIDE DEF N
<1>3. /\ t \in Seq(Chars) /\ Len(t) = N - 1 /\ \A i \in 1 .. N - 1 : t[i] = s[i]
  <2>1. /\ t \in Seq(Chars) /\ Len(t) = IF 1 <= N - 1 THEN N - 1 - 1 + 1 ELSE 0
        /\ \A i \in 1 .. N - 1 - 1 + 1 : t[i] = s[1 + i - 1]
    BY <1>1, <1>2, SubSeqProperties
  <2> HIDE DEF t
  <2>2. QED  BY <1>1, <2>1
<1> HIDE DEF t
<1>4. ASSUME NEW i \in 0 .. N - 1 PROVE SubSeq(t, 1, i) = SubSeq(s, 1, i)
  <2>1. /\ i \in Nat /\ i <= Len(t) /\ Len(t) <= Len(s)
        /\ \A l \in 1 .. Len(t) : s[l] = t[l]
    BY <1>1, <1>3 DEF N
  <2>2. QED  BY <1>3, <2>1, SameStart
<1>5. QED  BY <1>3, <1>4 DEF IsButLast, N, t

LEMMA DropLast ==
    ASSUME NEW s \in Seq(Chars), s # <<>>, NEW b, b = Bytes[Last(s)]
    PROVE  /\ Size(s) >= b /\ Whole(s, Size(s) - b)
           /\ IsButLast(CHOOSE t \in Prefixes(s) : Size(t) = Size(s) - b, s)
<1> DEFINE N == Len(s)
           k == N - 1
           t == SubSeq(s, 1, k)
<1>1. PICK g : Counts(g, s)
  BY Counted
<1>2. N \in 1 .. N /\ N \in Nat /\ k \in 0 .. N /\ N \in 0 .. N /\ s[N] \in Chars
  <2>1. N \in Nat /\ N # 0
    BY LenProperties, EmptySeq
  <2>2. N \in 1 .. N
    BY <2>1
  <2>3. QED  BY <2>1, <2>2, ElementOfSeq
<1>3. /\ Size(s) = g[N] /\ g[N] \in Nat /\ g[k] \in Nat /\ g[N] = g[k] + b
      /\ Size(t) = g[k] /\ b \in Nat
  <2>1. g[N] = g[N - 1] + Bytes[s[N]]
    BY <1>1, <1>2 DEF Counts
  <2>2. b = Bytes[s[N]]
    BY DEF Last
  <2>3. b \in Nat
    BY <1>2, <2>2, CharsAssumption
  <2>4. QED  BY <1>1, <1>2, <2>1, <2>2, <2>3 DEF Counts
<1>4. Size(s) >= b /\ Size(t) = Size(s) - b
  BY <1>3
<1>5. t \in Prefixes(s)
  BY <1>2 DEF Prefixes
<1>6. ASSUME NEW u \in Prefixes(s), Size(u) = Size(s) - b PROVE u = t
  <2>1. PICK l \in 0 .. N : u = SubSeq(s, 1, l)
    BY DEF Prefixes
  <2>2. g[l] \in Nat /\ Size(u) = g[l]
    BY <1>1, <2>1 DEF Counts
  <2> HIDE DEF k
  <2>3. g[l] = g[k]
    <3>1. g[l] = Size(s) - b /\ g[k] = Size(s) - b
      BY <1>3, <1>4, <1>6, <2>2
    <3>2. QED  BY <3>1
  <2>4. ~(l < k) /\ ~(k < l)
    <3>1. l < k => g[l] < g[k]
      BY <1>1, <1>2 DEF Counts, Rises
    <3>2. k < l => g[k] < g[l]
      BY <1>1, <1>2 DEF Counts, Rises
    <3>3. QED  BY <1>3, <2>3, <3>1, <3>2
  <2>5. l = k
    BY <1>2, <2>4
  <2>6. QED  BY <2>1, <2>5
<1>7. (CHOOSE u \in Prefixes(s) : Size(u) = Size(s) - b) = t
  <2> HIDE DEF t
  <2>1. QED  BY <1>4, <1>5, <1>6
<1>8. Whole(s, Size(s) - b)
  BY <1>2, <1>4 DEF Whole
<1>9. IsButLast(t, s)
  BY ButLast
<1>10. QED  BY <1>4, <1>7, <1>8, <1>9

(* One more or less of the first characters.                               *)
LEMMA SizeStep ==
    ASSUME NEW s \in Seq(Chars), NEW j \in 1 .. Len(s), NEW k, k = j - 1
    PROVE  /\ Size(SubSeq(s, 1, j)) = Size(SubSeq(s, 1, k)) + Bytes[s[j]]
           /\ Size(SubSeq(s, 1, k)) \in Nat /\ Bytes[s[j]] \in {1, 3}
<1>1. PICK g : Counts(g, s)
  BY Counted
<1>2. j \in 0 .. Len(s) /\ k \in 0 .. Len(s)
  BY LenProperties
<1>3. g[j] = g[j - 1] + Bytes[s[j]]
  BY <1>1 DEF Counts
<1>4. Size(SubSeq(s, 1, j)) = g[j] /\ Size(SubSeq(s, 1, k)) = g[k] /\ g[k] \in Nat
  BY <1>1, <1>2 DEF Counts
<1>5. Bytes[s[j]] \in {1, 3}
  BY ElementOfSeq, CharsAssumption
<1>6. QED  BY <1>3, <1>4, <1>5

(* A box holds any one character.                                          *)
LEMMA OneFits ==
    ASSUME font \in Fonts, inputFrameWidth \in Frames(font)
    PROVE  Fits(<<>>) /\ \A c \in Chars : Fits(<<c>>)
<1>1. font \in [Chars -> Nat] /\ inputFrameWidth \in Nat
  BY CharsAssumption, FramesAssumption
<1>2. Fits(<<>>)
  BY <1>1, SumEmpty DEF Fits, WidthOf
<1>3. ASSUME NEW c \in Chars PROVE Fits(<<c>>)
  <2>1. WidthOf(<<c>>) = font[c] /\ font[c] \in Nat
    BY <1>1, SumOne DEF WidthOf
  <2>2. inputFrameWidth >= font[c]
    BY FramesAssumption
  <2>3. QED  BY <1>1, <2>1, <2>2 DEF Fits
<1>4. QED  BY <1>2, <1>3

-----------------------------------------------------------------------------
(* The inductive invariant.  That a cut falls between two characters, and  *)
(* that a deletion takes the bytes of one, needs to know where the cut is: *)
(* at least one character is left of it before a cut widens and two are    *)
(* right of it before a cut narrows, and what is displayed, whatever the   *)
(* box has kept of earlier texts, ends like the whole text.                *)
CutInside ==
    /\ m_pInputText # <<>> /\ pc # "widen" => startCur < Len(m_pInputText)
    /\ pc = "widen" => m_pInputText # <<>> /\ startCur <= Len(m_pInputText)
    /\ pc = "trim" => m_pInputText # <<>> /\ startCur + 1 < Len(m_pInputText)

SameEnd == m_pInputText # <<>> => shown # <<>> /\ Last(shown) = Last(m_pInputText)

CursorInv == /\ TypeOK /\ CountsKept /\ CutInside /\ SameEnd
             /\ WholeCharacters /\ ThrowsOnlyUnkept

LEMMA InvInit == Init => CursorInv
<1> SUFFICES ASSUME Init PROVE CursorInv
  OBVIOUS
<1> USE DEF Init
<1>1. Len(m_pInputText) = 0
  OBVIOUS
<1>2. TypeOK
  <2>1. \A S : <<>> \in Seq(S)
    BY EmptySeq
  <2>2. codeNumType \in [CodeNums -> {0, 1, 3}] /\ codeCur \in CodeNums
    BY DEF CodeNums
  <2>3. Len(m_pInputText) <= InputMaxLength
    BY <1>1, LengthAssumption
  <2>4. QED  BY <2>1, <2>2, <2>3 DEF TypeOK
<1>3. CountsKept
  BY <1>1 DEF CountsKept
<1>4. CutInside /\ SameEnd
  BY DEF CutInside, SameEnd
<1>5. WholeCharacters /\ ThrowsOnlyUnkept
  BY DEF WholeCharacters, ThrowsOnlyUnkept
<1>6. QED  BY <1>2, <1>3, <1>4, <1>5 DEF CursorInv

(* A step that leaves the text, the list and the cut alone.                *)
LEMMA InvQuiet ==
    ASSUME CursorInv, TypeOK', SameEnd',
           UNCHANGED <<m_pInputText, nLenCount, startCur, codeNumType, codeCur>>,
           pc \in {"idle", "insert"}, pc' \in {"idle", "insert"}
    PROVE  CursorInv'
<1>1. CountsKept'
  BY DEF CursorInv, CountsKept
<1>2. CutInside'
  BY DEF CursorInv, CutInside
<1>3. WholeCharacters' /\ ThrowsOnlyUnkept'
  BY DEF WholeCharacters, ThrowsOnlyUnkept
<1>4. QED  BY <1>1, <1>2, <1>3 DEF CursorInv

(* The round of a loop that cuts off the first k characters, at least one  *)
(* of the others being left.                                               *)
LEMMA InvCut ==
    ASSUME CursorInv, NEW k \in Nat, k < Len(m_pInputText), startCur' = k,
           NEW n, n = Size(SubSeq(m_pInputText, 1, k)),
           NEW again, NEW done, CutTo(n, again, done),
           UNCHANGED <<m_pInputText, box, codeNumType, codeCur, open, rest, nLen>>,
           again = "widen" \/ again = "trim", done \in {"idle", "insert"}
    PROVE  CursorInv'
<1> DEFINE s == m_pInputText
           t == After(m_pInputText, n)
<1>1. s \in Seq(Chars) /\ Len(s) \in Nat /\ s # <<>> /\ TypeOK
  <2>1. s \in Seq(Chars) /\ TypeOK
    BY DEF CursorInv, TypeOK
  <2>2. s # <<>>
    BY <2>1, EmptySeq
  <2>3. QED  BY <2>1, <2>2, LenProperties
<1>2. Whole(s, n) /\ IsEnd(t, s, k) /\ n \in Nat
  BY <1>1, CutAt
<1>3. /\ nLenCount' = n /\ inpuText' = t /\ shown' = t
      /\ pc' = IF Fits(t) THEN done ELSE again
  BY <1>2 DEF CutTo
<1>4. TypeOK'
  <2>1. t \in Seq(Chars)
    BY <1>2 DEF IsEnd
  <2>2. pc' \in {"idle", "insert", "trim", "widen"}
    BY <1>3
  <2> HIDE DEF t
  <2>3. QED  BY <1>1, <1>2, <1>3, <2>1, <2>2 DEF TypeOK, box
<1>5. CountsKept'
  BY <1>3 DEF CursorInv, CountsKept
<1>6. SameEnd'
  BY <1>2, <1>3 DEF IsEnd, SameEnd
<1>7. pc' = "trim" => k + 1 < Len(s)
  <2> SUFFICES ASSUME pc' = "trim", k = Len(s) - 1 PROVE FALSE
    BY <1>1
  <2>1. t = <<Last(s)>>
    BY <1>2 DEF IsEnd
  <2>2. Last(s) \in Chars
    <3>1. Len(s) \in 1 .. Len(s)
      BY <1>1
    <3>2. QED  BY <1>1, <3>1, ElementOfSeq DEF Last
  <2>3. Fits(t)
    BY <1>1, <2>1, <2>2, OneFits DEF TypeOK
  <2>4. QED  BY <1>3, <2>3
<1>8. CutInside'
  BY <1>1, <1>7 DEF CutInside
<1>9. WholeCharacters' /\ ThrowsOnlyUnkept'
  BY <1>3 DEF WholeCharacters, ThrowsOnlyUnkept
<1>10. QED  BY <1>4, <1>5, <1>6, <1>8, <1>9 DEF CursorInv

LEMMA InvQuietSteps ==
    ASSUME CursorInv,
           Insert \/ InsertEnds \/ InsertNewLine \/ SetInputWidth \/ OpenIME \/ CloseIME
    PROVE  CursorInv'
<1> USE DEF box
<1>1. TypeOK /\ SameEnd
  BY DEF CursorInv
<1>2. CASE Insert
  <2>1. TypeOK'
    <3>1. rest' \in Seq(Chars \cup {NewLine})
      BY <1>2, InputsAssumption DEF Insert
    <3>2. QED  BY <1>1, <1>2, <3>1 DEF Insert, TypeOK
  <2>2. SameEnd'
    BY <1>1, <1>2 DEF Insert, SameEnd
  <2>3. QED  BY <1>2, <2>1, <2>2, InvQuiet DEF Insert
<1>3. CASE InsertEnds
  <2>1. TypeOK'
    <3>1. rest' \in Seq(Chars \cup {NewLine})
      BY <1>3, EmptySeq DEF InsertEnds
    <3>2. QED  BY <1>1, <1>3, <3>1 DEF InsertEnds, TypeOK
  <2>2. SameEnd'
    BY <1>1, <1>3 DEF InsertEnds, SameEnd
  <2>3. QED  BY <1>3, <2>1, <2>2, InvQuiet DEF InsertEnds
<1>4. CASE InsertNewLine
  <2>1. TypeOK'
    <3>1. rest' \in Seq(Chars \cup {NewLine})
      BY <1>1, <1>4, HeadTailProperties DEF InsertNewLine, TypeOK
    <3>2. QED  BY <1>1, <1>4, <3>1 DEF InsertNewLine, TypeOK
  <2>2. SameEnd'
    BY <1>1, <1>4 DEF InsertNewLine, SameEnd
  <2>3. QED  BY <1>4, <2>1, <2>2, InvQuiet DEF InsertNewLine
<1>5. CASE SetInputWidth
  <2>1. TypeOK' /\ SameEnd'
    BY <1>1, <1>5 DEF SetInputWidth, TypeOK, SameEnd
  <2>2. QED  BY <1>5, <2>1, InvQuiet DEF SetInputWidth
<1>6. CASE OpenIME
  <2>1. TypeOK' /\ SameEnd'
    BY <1>1, <1>6 DEF OpenIME, TypeOK, SameEnd
  <2>2. QED  BY <1>6, <2>1, InvQuiet DEF OpenIME
<1>7. CASE CloseIME
  <2>1. TypeOK' /\ SameEnd'
    BY <1>1, <1>7 DEF CloseIME, TypeOK, SameEnd
  <2>2. QED  BY <1>7, <2>1, InvQuiet DEF CloseIME
<1>8. QED  BY <1>2, <1>3, <1>4, <1>5, <1>6, <1>7

LEMMA InvSetInpuntText ==
    ASSUME CursorInv, SetInpuntText
    PROVE  CursorInv'
<1> USE DEF SetInpuntText, box
<1>1. TypeOK
  BY DEF CursorInv
<1>2. Len(m_pInputText') = 0 /\ \A S : <<>> \in Seq(S)
  BY EmptySeq
<1>3. TypeOK'
  <2>1. shown' \in Seq(Chars) /\ Len(m_pInputText') <= InputMaxLength
    BY <1>2, InputsAssumption, LengthAssumption
  <2>2. codeNumType' \in [CodeNums -> {0, 1, 3}] /\ codeCur' \in CodeNums
    BY DEF CodeNums
  <2>3. QED  BY <1>1, <1>2, <2>1, <2>2 DEF TypeOK
<1>4. CountsKept'
  BY <1>2 DEF CountsKept
<1>5. CutInside' /\ SameEnd'
  BY DEF CutInside, SameEnd
<1>6. WholeCharacters' /\ ThrowsOnlyUnkept'
  BY DEF WholeCharacters, ThrowsOnlyUnkept
<1>7. QED  BY <1>3, <1>4, <1>5, <1>6 DEF CursorInv

(* What a character does to the text, the list and the first characters.   *)
LEMMA TextGrows ==
    ASSUME CursorInv, InsertChar
    PROVE  LET c == Head(rest)
           IN  /\ c \in Chars /\ Bytes[c] \in {1, 3}
               /\ m_pInputText' \in Seq(Chars) /\ m_pInputText' # <<>>
               /\ Len(m_pInputText') = Len(m_pInputText) + 1
               /\ Len(m_pInputText') <= InputMaxLength
               /\ Last(m_pInputText') = c
               /\ inpuText' \in Seq(Chars) /\ inpuText' # <<>> /\ Last(inpuText') = c
               /\ \A i \in 1 .. Len(m_pInputText) :
                     m_pInputText'[i] = m_pInputText[i]
               /\ m_pInputText'[Len(m_pInputText) + 1] = c
               /\ rest' \in Seq(Chars \cup {NewLine})
<1> DEFINE c == Head(rest)
<1>1. /\ m_pInputText \in Seq(Chars) /\ inpuText \in Seq(Chars)
      /\ rest \in Seq(Chars \cup {NewLine})
  BY DEF CursorInv, TypeOK
<1>2. /\ rest # <<>> /\ ~AtMaxLength /\ c # NewLine /\ rest' = Tail(rest)
      /\ m_pInputText' = Append(m_pInputText, c) /\ inpuText' = Append(inpuText, c)
  BY DEF InsertChar
<1>3. c \in Chars \cup {NewLine} /\ rest' \in Seq(Chars \cup {NewLine})
  BY <1>1, <1>2, HeadTailProperties
<1> HIDE DEF c
<1>4. c \in Chars /\ Bytes[c] \in {1, 3}
  BY <1>2, <1>3, CharsAssumption
<1>5. /\ m_pInputText' \in Seq(Chars) /\ m_pInputText' # <<>>
      /\ Len(m_pInputText') = Len(m_pInputText) + 1
      /\ \A i \in 1 .. Len(m_pInputText) : m_pInputText'[i] = m_pInputText[i]
      /\ m_pInputText'[Len(m_pInputText) + 1] = c
  BY <1>1, <1>2, <1>4, AppendProperties
<1>6. /\ inpuText' \in Seq(Chars) /\ inpuText' # <<>>
      /\ Len(inpuText') = Len(inpuText) + 1 /\ inpuText'[Len(inpuText) + 1] = c
  BY <1>1, <1>2, <1>4, AppendProperties
<1>7. Last(m_pInputText') = c /\ Last(inpuText') = c
  BY <1>5, <1>6 DEF Last
<1>8. Len(m_pInputText') <= InputMaxLength
  <2>1. Len(m_pInputText) \in Nat /\ InputMaxLength \in Nat
    BY <1>1, LenProperties, LengthAssumption
  <2>2. ~(Len(m_pInputText) >= InputMaxLength)
    BY <1>2 DEF AtMaxLength
  <2>3. QED  BY <1>5, <2>1, <2>2
<1>9. QED  BY <1>3, <1>4, <1>5, <1>6, <1>7, <1>8 DEF c

LEMMA InvInsertChar ==
    ASSUME CursorInv, InsertChar
    PROVE  CursorInv'
<1> DEFINE s == m_pInputText
           c == Head(rest)
           N == Len(s)
<1>1. TypeOK /\ CountsKept /\ CutInside /\ pc = "insert"
  BY DEF CursorInv, InsertChar
<1>2. /\ c \in Chars /\ Bytes[c] \in {1, 3}
      /\ s' \in Seq(Chars) /\ s' # <<>> /\ Len(s') = N + 1 /\ Len(s') <= InputMaxLength
      /\ Last(s') = c
      /\ inpuText' \in Seq(Chars) /\ inpuText' # <<>> /\ Last(inpuText') = c
      /\ \A i \in 1 .. N : s'[i] = s[i]
      /\ s'[N + 1] = c /\ rest' \in Seq(Chars \cup {NewLine})
  BY TextGrows
<1>3. /\ s \in Seq(Chars) /\ N \in Nat /\ codeCur = N
      /\ \A i \in 1 .. N : codeNumType[i - 1] = Bytes[s[i]]
  BY <1>1, LenProperties DEF TypeOK, CountsKept
<1>4. /\ nLen' = Bytes[c] /\ codeCur' = N + 1
      /\ codeNumType' = [codeNumType EXCEPT ![N] = Bytes[c]]
      /\ UNCHANGED <<box, open>>
  BY <1>3 DEF InsertChar
<1>5. \/ shown' = s' /\ nLenCount' = 0 /\ startCur' = 0 /\ pc' = "insert"
      \/ /\ ~Fits(s') /\ shown' = inpuText' /\ UNCHANGED <<nLenCount, startCur>>
         /\ pc' \in {"insert", "trim"}
  <2>1. CASE Fits(s')
    BY <2>1 DEF InsertChar, Uncut
  <2>2. CASE ~Fits(s')
    BY <2>2 DEF InsertChar
  <2>3. QED  BY <2>1, <2>2
<1>6. N \in CodeNums /\ N + 1 \in CodeNums /\ \A i \in 1 .. N : i - 1 \in CodeNums
  <2>1. N \in Nat /\ N + 1 <= InputMaxLength /\ InputMaxLength \in 1 .. 49
    BY <1>2, <1>3, LengthAssumption
  <2> HIDE DEF N
  <2>2. QED  BY <2>1 DEF CodeNums
(* A text that does not fit had a character before.                        *)
<1>7. ~Fits(s') => s # <<>> /\ startCur < N
  <2> SUFFICES ASSUME ~Fits(s'), s = <<>> PROVE FALSE
    BY <1>1 DEF CutInside
  <2>1. s' = <<c>>
    BY DEF InsertChar
  <2>2. QED  BY <1>1, <1>2, <2>1, OneFits DEF TypeOK
<1>8. TypeOK'
  <2>1. codeNumType' \in [CodeNums -> {0, 1, 3}] /\ codeCur' \in CodeNums
    BY <1>1, <1>2, <1>4, <1>6 DEF TypeOK
  <2>2. shown' \in Seq(Chars) /\ nLenCount' \in Nat /\ startCur' \in Nat
    BY <1>1, <1>2, <1>5 DEF TypeOK
  <2>3. nLen' \in {0, 1, 3} /\ pc' \in {"insert", "trim"}
    BY <1>2, <1>4, <1>5
  <2>4. QED  BY <1>1, <1>2, <1>4, <2>1, <2>2, <2>3 DEF TypeOK, box
<1>9. CountsKept'
  <2>1. codeCur' = Len(s')
    BY <1>2, <1>4
  <2>2. ASSUME NEW i \in 1 .. N + 1 PROVE codeNumType'[i - 1] = Bytes[s'[i]]
    <3>1. CASE i = N + 1
      <4>1. codeNumType'[N] = Bytes[c]
        BY <1>1, <1>4, <1>6 DEF TypeOK
      <4>2. i - 1 = N
        BY <1>3, <3>1
      <4>3. QED  BY <1>2, <3>1, <4>1, <4>2
    <3>2. CASE i # N + 1
      <4>1. i \in 1 .. N /\ i - 1 # N
        BY <1>3, <3>2
      <4>2. codeNumType'[i - 1] = codeNumType[i - 1]
        <5>1. i - 1 \in CodeNums
          BY <1>6, <4>1
        <5>2. QED  BY <1>1, <1>4, <4>1, <5>1 DEF TypeOK
      <4>3. QED  BY <1>2, <1>3, <4>1, <4>2
    <3>3. QED  BY <3>1, <3>2
  <2>3. nLenCount' = Size(SubSeq(s', 1, startCur'))
    <3>1. CASE nLenCount' = 0 /\ startCur' = 0
      <4>1. SubSeq(s', 1, 0) = <<>>
        BY SubSeqEmpty
      <4>2. QED  BY <3>1, <4>1, SumEmpty DEF Size
    <3>2. CASE ~Fits(s') /\ UNCHANGED <<nLenCount, startCur>>
      <4>1. s # <<>> /\ startCur \in Nat /\ startCur <= N /\ N <= Len(s')
        BY <1>1, <1>2, <1>3, <1>7, <3>2 DEF TypeOK
      <4>2. SubSeq(s', 1, startCur) = SubSeq(s, 1, startCur)
        BY <1>2, <1>3, <4>1, SameStart
      <4>3. nLenCount = Size(SubSeq(s, 1, startCur))
        BY <1>1, <4>1 DEF CountsKept
      <4>4. QED  BY <3>2, <4>2, <4>3
    <3>3. QED  BY <1>5, <3>1, <3>2
  <2> HIDE DEF s
  <2>4. QED  BY <1>2, <2>1, <2>2, <2>3 DEF CountsKept, s
<1>10. CutInside'
  <2>1. CASE startCur' = 0 /\ pc' = "insert"
    BY <1>2, <1>3, <2>1 DEF CutInside
  <2>2. CASE ~Fits(s') /\ UNCHANGED startCur /\ pc' \in {"insert", "trim"}
    <3>1. startCur \in Nat /\ startCur < N
      BY <1>1, <1>7, <2>2 DEF TypeOK
    <3>2. startCur' < Len(s') /\ startCur' + 1 < Len(s')
      BY <1>2, <1>3, <2>2, <3>1
    <3>3. QED  BY <1>2, <2>2, <3>2 DEF CutInside
  <2>3. QED  BY <1>5, <2>1, <2>2
<1>11. SameEnd'
  BY <1>2, <1>5 DEF SameEnd
<1>12. WholeCharacters' /\ ThrowsOnlyUnkept'
  BY <1>5 DEF WholeCharacters, ThrowsOnlyUnkept
<1>13. QED  BY <1>8, <1>9, <1>10, <1>11, <1>12 DEF CursorInv

(* A round of a loop after which the first k characters are cut off.       *)
CutAfter(k, again, done) ==
    /\ k < Len(m_pInputText) /\ startCur' = k
    /\ CutTo(Size(SubSeq(m_pInputText, 1, k)), again, done)
    /\ UNCHANGED <<m_pInputText, box, codeNumType, codeCur, open, rest, nLen>>

LEMMA TrimCuts ==
    ASSUME CursorInv, Trim
    PROVE  startCur + 1 \in Nat /\ CutAfter(startCur + 1, "trim", "insert")
<1> DEFINE s == m_pInputText
           k == startCur
           j == k + 1
           n == nLenCount + Known(codeNumType[k])
<1>1. /\ s \in Seq(Chars) /\ Len(s) \in Nat /\ s # <<>> /\ k \in Nat
      /\ j \in Nat /\ j < Len(s) /\ j \in 1 .. Len(s) /\ k = j - 1
  BY LenProperties DEF CursorInv, TypeOK, CutInside, Trim
<1>2. nLenCount = Size(SubSeq(s, 1, k)) /\ codeNumType[k] = Bytes[s[j]]
  <2>1. codeNumType[j - 1] = Bytes[s[j]]
    BY <1>1 DEF CursorInv, CountsKept
  <2>2. QED  BY <1>1, <2>1 DEF CursorInv, CountsKept
<1>3. startCur' = j /\ CutTo(n, "trim", "insert")
  BY DEF Trim
<1> HIDE DEF j, k, s
<1>4. n = Size(SubSeq(s, 1, j))
  <2>1. /\ Size(SubSeq(s, 1, j)) = Size(SubSeq(s, 1, k)) + Bytes[s[j]]
        /\ Bytes[s[j]] \in {1, 3}
    BY <1>1, SizeStep
  <2>2. QED  BY <1>2, <2>1 DEF Known
<1>5. UNCHANGED <<m_pInputText, box, codeNumType, codeCur, open, rest, nLen>>
  BY DEF Trim
<1> HIDE DEF n
<1>6. CutAfter(j, "trim", "insert")
  BY <1>1, <1>3, <1>4, <1>5 DEF CutAfter, s
<1>7. QED  BY <1>1, <1>6 DEF j, k

LEMMA InvTrim ==
    ASSUME CursorInv, Trim
    PROVE  CursorInv'
<1> DEFINE k == startCur + 1
           n == Size(SubSeq(m_pInputText, 1, k))
<1>1. k \in Nat /\ CutAfter(k, "trim", "insert")
  BY TrimCuts
<1> HIDE DEF k
<1>2. /\ k < Len(m_pInputText) /\ startCur' = k /\ CutTo(n, "trim", "insert")
      /\ UNCHANGED <<m_pInputText, box, codeNumType, codeCur, open, rest, nLen>>
  BY <1>1 DEF CutAfter
<1>3. QED  BY <1>1, <1>2, InvCut

LEMMA WidenCuts ==
    ASSUME CursorInv, Widen
    PROVE  \E k \in Nat : /\ CutAfter(k, "widen", "idle")
                          /\ startCur > 0 => k = startCur - 1
<1> DEFINE s == m_pInputText
           j == startCur
           code == IF startCur = 0 THEN nLenCount ELSE codeNumType[startCur - 1]
           n == Max({0, nLenCount - Known(code)})
           k == Max({0, startCur - 1})
<1>1. /\ s \in Seq(Chars) /\ Len(s) \in Nat /\ s # <<>> /\ j \in Nat /\ j <= Len(s)
      /\ nLen \in {0, 1, 3} /\ nLenCount = Size(SubSeq(s, 1, j))
  BY LenProperties DEF CursorInv, TypeOK, CutInside, CountsKept, Widen
<1>2. \A x \in Int : Max({0, x}) = IF x >= 0 THEN x ELSE 0
  <2> SUFFICES ASSUME NEW x \in Int PROVE Max({0, x}) = IF x >= 0 THEN x ELSE 0
    OBVIOUS
  <2> DEFINE m == IF x >= 0 THEN x ELSE 0
  <2>1. m \in {0, x} /\ \A y \in {0, x} : m >= y
    OBVIOUS
  <2>2. \A y \in {0, x} : (\A z \in {0, x} : y >= z) => y = m
    OBVIOUS
  <2> HIDE DEF m
  <2>3. Max({0, x}) = m
    BY <2>1, <2>2 DEF Max
  <2>4. QED  BY <2>3 DEF m
<1>3. /\ k \in Nat /\ k < Len(s) /\ n = Size(SubSeq(s, 1, k))
  <2>1. Len(s) # 0
    BY <1>1, EmptySeq
  <2>2. CASE j = 0
    <3>1. k = 0
      BY <1>2, <2>2
    <3>2. Size(SubSeq(s, 1, 0)) = 0
      <4>1. SubSeq(s, 1, 0) = <<>>
        BY SubSeqEmpty
      <4>2. QED  BY <4>1, SumEmpty DEF Size
    <3>3. nLenCount = 0
      BY <1>1, <2>2, <3>2
    <3>4. code = 0 /\ Known(code) = nLen
      BY <2>2, <3>3 DEF Known
    <3>5. n = 0
      <4>1. /\ nLenCount - Known(code) \in Int
            /\ nLenCount - Known(code) >= 0 => nLenCount - Known(code) = 0
        BY <1>1, <3>3, <3>4
      <4>2. QED  BY <1>2, <4>1
    <3>6. QED  BY <1>1, <2>1, <3>1, <3>2, <3>5
  <2>3. CASE j # 0
    <3>1. j \in 1 .. Len(s) /\ j - 1 \in Nat
      BY <1>1, <2>3
    <3>2. k = j - 1 /\ code = codeNumType[j - 1]
      BY <1>2, <2>3, <3>1
    <3>3. code = Bytes[s[j]]
      BY <3>1, <3>2 DEF CursorInv, CountsKept
    <3> HIDE DEF k, code, j, s
    <3>4. /\ Size(SubSeq(s, 1, j)) = Size(SubSeq(s, 1, k)) + Bytes[s[j]]
          /\ Size(SubSeq(s, 1, k)) \in Nat /\ Bytes[s[j]] \in {1, 3}
      BY <1>1, <3>1, <3>2, SizeStep
    <3>5. Known(code) = Bytes[s[j]]
      BY <3>3, <3>4 DEF Known
    <3>6. nLenCount - Known(code) = Size(SubSeq(s, 1, k))
      BY <1>1, <3>4, <3>5
    <3>7. n = Size(SubSeq(s, 1, k))
      BY <1>2, <3>4, <3>6
    <3>8. QED  BY <1>1, <3>1, <3>2, <3>7
  <2>4. QED  BY <2>2, <2>3
<1>4. /\ startCur' = k /\ CutTo(n, "widen", "idle")
      /\ UNCHANGED <<m_pInputText, box, codeNumType, codeCur, open, rest, nLen>>
  BY DEF Widen
<1>5. startCur > 0 => k = startCur - 1
  BY <1>1, <1>2
<1> HIDE DEF k, n
<1>6. CutAfter(k, "widen", "idle")
  BY <1>3, <1>4 DEF CutAfter, s
<1>7. QED  BY <1>3, <1>5, <1>6

LEMMA InvWiden ==
    ASSUME CursorInv, Widen
    PROVE  CursorInv'
<1>1. PICK k \in Nat : CutAfter(k, "widen", "idle")
  BY WidenCuts
<1> DEFINE n == Size(SubSeq(m_pInputText, 1, k))
<1>2. /\ k < Len(m_pInputText) /\ startCur' = k /\ CutTo(n, "widen", "idle")
      /\ UNCHANGED <<m_pInputText, box, codeNumType, codeCur, open, rest, nLen>>
  BY <1>1 DEF CutAfter
<1>3. QED  BY <1>2, InvCut

(* What is displayed ends like the text, so the bytes of its last          *)
(* character are those of the last one of the text: a deletion takes it    *)
(* away, and has no cause to throw.                                        *)
LEMMA InvDeleteThrows ==
    ASSUME CursorInv, DeleteThrows
    PROVE  CursorInv'
<1> DEFINE s == m_pInputText
<1>1. s = <<>>
  <2> SUFFICES ASSUME s # <<>> PROVE FALSE
    OBVIOUS
  <2>1. s \in Seq(Chars) /\ Last(shown) = Last(s)
    BY DEF CursorInv, TypeOK, SameEnd
  <2>2. Size(s) >= Bytes[Last(s)] /\ Size(s) \in Nat
    <3>1. PICK g : Counts(g, s)
      BY <2>1, Counted
    <3>2. Len(s) \in 0 .. Len(s)
      BY <2>1, LenProperties
    <3>3. Size(s) \in Nat
      BY <3>1, <3>2 DEF Counts
    <3>4. QED  BY <2>1, <3>3, DropLast
  <2>3. Bytes[Last(s)] \in {1, 3}
    <3>1. Len(s) \in 1 .. Len(s)
      BY <2>1, LenProperties, EmptySeq
    <3>2. Last(s) \in Chars
      BY <2>1, <3>1, ElementOfSeq DEF Last
    <3>3. QED  BY <3>2, CharsAssumption
  <2>4. Size(s) < Bytes[Last(s)]
    BY <2>1 DEF DeleteThrows
  <2>5. QED  BY <2>2, <2>3, <2>4
<1> USE DEF DeleteThrows, box
<1>2. TypeOK'
  BY DEF CursorInv, TypeOK
<1>3. CountsKept' /\ CutInside' /\ SameEnd'
  BY <1>1 DEF CursorInv, CountsKept, CutInside, SameEnd
<1>4. WholeCharacters' /\ ThrowsOnlyUnkept'
  BY <1>1 DEF WholeCharacters, ThrowsOnlyUnkept
<1>5. QED  BY <1>2, <1>3, <1>4 DEF CursorInv

LEMMA DeleteDoes ==
    ASSUME CursorInv, Delete
    PROVE  /\ m_pInputText # <<>> /\ nLen' \in {1, 3}
           /\ IsButLast(m_pInputText', m_pInputText) /\ shown' = m_pInputText'
           /\ codeCur' = Len(m_pInputText) - 1
           /\ codeNumType' = [codeNumType EXCEPT ![Len(m_pInputText)] = 0]
           /\ UNCHANGED <<inpuText, box, open, rest>>
           /\ \/ Fits(m_pInputText') /\ nLenCount' = 0 /\ startCur' = 0 /\ pc' = "idle"
              \/ /\ ~Fits(m_pInputText') /\ UNCHANGED <<nLenCount, startCur>>
                 /\ pc' = "widen"
<1> DEFINE s == m_pInputText
           b == Bytes[Last(shown)]
           N == Len(s)
<1>1. TypeOK /\ CountsKept /\ CutInside /\ SameEnd /\ pc = "idle"
  BY DEF CursorInv, Delete
<1>2. /\ s \in Seq(Chars) /\ shown \in Seq(Chars) /\ shown # <<>>
      /\ b \in {1, 3} /\ nLen' = b /\ Size(s) >= b
  <2>1. s \in Seq(Chars) /\ shown \in Seq(Chars) /\ shown # <<>>
    BY <1>1 DEF TypeOK, Delete
  <2>2. Len(shown) \in 1 .. Len(shown)
    BY <2>1, LenProperties, EmptySeq
  <2>3. Last(shown) \in Chars
    BY <2>1, <2>2, ElementOfSeq DEF Last
  <2>4. b \in {1, 3}
    BY <2>3, CharsAssumption
  <2>5. nLen' = b /\ Size(s) >= b
    BY DEF Delete
  <2>6. QED  BY <2>1, <2>4, <2>5
<1>3. s # <<>> /\ b = Bytes[Last(s)]
  <2>1. s # <<>>
    <3> SUFFICES ASSUME s = <<>> PROVE FALSE
      OBVIOUS
    <3>1. Size(s) = 0
      BY SumEmpty DEF Size
    <3>2. QED  BY <1>2, <3>1
  <2>2. QED  BY <1>1, <2>1 DEF SameEnd
<1>4. N \in Nat /\ N # 0 /\ codeCur = N /\ N \in CodeNums /\ N - 1 \in CodeNums
  <2>1. N \in Nat /\ N # 0
    BY <1>2, <1>3, LenProperties, EmptySeq
  <2>2. codeCur = N /\ N \in CodeNums
    BY <1>1 DEF CountsKept, TypeOK
  <2> HIDE DEF N
  <2>3. QED  BY <2>1, <2>2 DEF CodeNums
<1> HIDE DEF b
<1>5. /\ Whole(s, Size(s) - b)
      /\ IsButLast(CHOOSE t \in Prefixes(s) : Size(t) = Size(s) - b, s)
  BY <1>2, <1>3, DropLast
<1>6. /\ IsButLast(s', s) /\ shown' = s' /\ codeCur' = N - 1
      /\ codeNumType' = [codeNumType EXCEPT ![N] = 0]
      /\ UNCHANGED <<inpuText, box, open, rest>>
      /\ \/ Fits(s') /\ nLenCount' = 0 /\ startCur' = 0 /\ pc' = "idle"
         \/ ~Fits(s') /\ UNCHANGED <<nLenCount, startCur>> /\ pc' = "widen"
  <2>1. /\ s' = CHOOSE t \in Prefixes(s) : Size(t) = Size(s) - b
        /\ shown' = s'
        /\ \/ Fits(s') /\ Uncut /\ pc' = "idle"
           \/ ~Fits(s') /\ UNCHANGED <<nLenCount, startCur>> /\ pc' = "widen"
    BY <1>2, <1>5 DEF Delete
  <2>2. /\ codeCur' = N - 1 /\ codeNumType' = [codeNumType EXCEPT ![N] = 0]
        /\ UNCHANGED <<inpuText, box, open, rest>>
    BY <1>4 DEF Delete
  <2>3. QED  BY <1>5, <2>1, <2>2 DEF Uncut
<1>7. QED  BY <1>2, <1>3, <1>6

LEMMA InvDelete ==
    ASSUME CursorInv, Delete
    PROVE  CursorInv'
<1> DEFINE s == m_pInputText
           N == Len(s)
<1>1. TypeOK /\ CountsKept /\ CutInside /\ SameEnd /\ pc = "idle"
  BY DEF CursorInv, Delete
<1>2. s \in Seq(Chars)
  BY <1>1 DEF TypeOK
<1>3. s # <<>> /\ nLen' \in {1, 3}
  BY DeleteDoes
<1>4. N \in Nat /\ N # 0 /\ codeCur = N /\ N \in CodeNums /\ N - 1 \in CodeNums
  <2>1. N \in Nat /\ N # 0
    BY <1>2, <1>3, LenProperties, EmptySeq
  <2>2. codeCur = N /\ N \in CodeNums
    BY <1>1 DEF CountsKept, TypeOK
  <2> HIDE DEF N
  <2>3. QED  BY <2>1, <2>2 DEF CodeNums
<1>6. /\ IsButLast(s', s) /\ shown' = s' /\ codeCur' = N - 1
      /\ codeNumType' = [codeNumType EXCEPT ![N] = 0]
      /\ UNCHANGED <<inpuText, box, open, rest>>
      /\ \/ nLenCount' = 0 /\ startCur' = 0 /\ pc' = "idle"
         \/ ~Fits(s') /\ UNCHANGED <<nLenCount, startCur>> /\ pc' = "widen"
  BY DeleteDoes
<1>7. /\ s' \in Seq(Chars) /\ Len(s') = N - 1 /\ \A i \in 1 .. N - 1 : s'[i] = s[i]
      /\ \A i \in 0 .. N - 1 : SubSeq(s', 1, i) = SubSeq(s, 1, i)
  BY <1>6 DEF IsButLast
<1>8. TypeOK'
  <2>1. codeNumType' \in [CodeNums -> {0, 1, 3}] /\ codeCur' \in CodeNums
    BY <1>1, <1>4, <1>6 DEF TypeOK
  <2>2. Len(s') <= InputMaxLength
    <3>1. N <= InputMaxLength /\ InputMaxLength \in Nat
      BY <1>1, LengthAssumption DEF TypeOK
    <3>2. QED  BY <1>4, <1>7, <3>1
  <2>3. nLenCount' \in Nat /\ startCur' \in Nat /\ pc' \in {"idle", "widen"}
    BY <1>1, <1>6 DEF TypeOK
  <2>4. QED  BY <1>1, <1>2, <1>3, <1>6, <1>7, <2>1, <2>2, <2>3 DEF TypeOK, box
<1>9. ~Fits(s') => s' # <<>>
  BY <1>1, OneFits DEF TypeOK
<1>10. startCur \in Nat /\ startCur < N /\ nLenCount = Size(SubSeq(s, 1, startCur))
  BY <1>1, <1>3 DEF TypeOK, CutInside, CountsKept
<1>11. CountsKept'
  <2>1. codeCur' = Len(s')
    BY <1>6, <1>7
  <2>2. ASSUME NEW i \in 1 .. N - 1 PROVE codeNumType'[i - 1] = Bytes[s'[i]]
    <3>1. i \in 1 .. N /\ i - 1 # N /\ i - 1 \in CodeNums
      <4>1. N \in Nat /\ N \in CodeNums
        BY <1>4
      <4> HIDE DEF N
      <4>2. QED  BY <4>1 DEF CodeNums
    <3>2. codeNumType'[i - 1] = codeNumType[i - 1]
      BY <1>1, <1>6, <3>1 DEF TypeOK
    <3>3. codeNumType[i - 1] = Bytes[s[i]]
      BY <1>1, <1>4, <3>1 DEF CountsKept
    <3>4. QED  BY <1>7, <3>2, <3>3
  <2>3. nLenCount' = Size(SubSeq(s', 1, startCur'))
    <3>1. CASE nLenCount' = 0 /\ startCur' = 0
      <4>1. SubSeq(s', 1, 0) = <<>>
        BY SubSeqEmpty
      <4>2. QED  BY <3>1, <4>1, SumEmpty DEF Size
    <3>2. CASE UNCHANGED <<nLenCount, startCur>>
      <4>1. startCur \in 0 .. N - 1
        BY <1>4, <1>10
      <4>2. SubSeq(s', 1, startCur) = SubSeq(s, 1, startCur)
        BY <1>7, <4>1
      <4>3. QED  BY <1>10, <3>2, <4>2
    <3>3. QED  BY <1>6, <3>1, <3>2
  <2> HIDE DEF s
  <2>4. QED  BY <1>6, <2>1, <2>2, <2>3 DEF CountsKept, s
<1>12. CutInside'
  <2>1. CASE startCur' = 0 /\ pc' = "idle"
    <3>1. s' # <<>> => Len(s') # 0
      BY <1>7, EmptySeq
    <3>2. Len(s') \in Nat
      BY <1>7, LenProperties
    <3>3. QED  BY <2>1, <3>1, <3>2 DEF CutInside
  <2>2. CASE ~Fits(s') /\ UNCHANGED startCur /\ pc' = "widen"
    <3>1. startCur' <= Len(s')
      BY <1>4, <1>7, <1>10, <2>2
    <3>2. QED  BY <1>9, <2>2, <3>1 DEF CutInside
  <2>3. QED  BY <1>6, <2>1, <2>2
<1>13. SameEnd'
  BY <1>6 DEF SameEnd
<1>14. WholeCharacters' /\ ThrowsOnlyUnkept'
  BY <1>6 DEF WholeCharacters, ThrowsOnlyUnkept
<1>15. QED  BY <1>8, <1>11, <1>12, <1>13, <1>14 DEF CursorInv

LEMMA InvStep == CursorInv /\ [Next]_vars => CursorInv'
<1> SUFFICES ASSUME CursorInv, [Next]_vars PROVE CursorInv'
  OBVIOUS
<1>1. CASE Insert \/ InsertEnds \/ InsertNewLine \/ SetInputWidth \/ OpenIME \/ CloseIME
  BY <1>1, InvQuietSteps
<1>2. CASE InsertChar
  BY <1>2, InvInsertChar
<1>3. CASE Trim
  BY <1>3, InvTrim
<1>4. CASE Widen
  BY <1>4, InvWiden
<1>5. CASE DeleteThrows
  BY <1>5, InvDeleteThrows
<1>6. CASE Delete
  BY <1>6, InvDelete
<1>7. CASE SetInpuntText
  BY <1>7, InvSetInpuntText
<1>8. CASE UNCHANGED vars
  <2> USE <1>8 DEF vars, box
  <2>1. TypeOK' /\ CountsKept'
    BY DEF CursorInv, TypeOK, CountsKept
  <2>2. CutInside' /\ SameEnd' /\ WholeCharacters' /\ ThrowsOnlyUnkept'
    BY DEF CursorInv, CutInside, SameEnd, WholeCharacters, ThrowsOnlyUnkept
  <2>3. QED  BY <2>1, <2>2 DEF CursorInv
<1>9. QED
  BY <1>1, <1>2, <1>3, <1>4, <1>5, <1>6, <1>7, <1>8 DEF Next, Handler

LEMMA Invariant == Spec => []CursorInv
<1>1. Init => CursorInv
  BY InvInit
<1>2. CursorInv /\ [Next]_vars => CursorInv'
  BY InvStep
<1>3. QED  BY <1>1, <1>2, PTL DEF Spec

(* Every variable keeps its type; in particular the list of the bytes is   *)
(* never written outside its 50 entries.                                   *)
THEOREM TypeCorrect == Spec => []TypeOK
<1>1. CursorInv => TypeOK
  BY DEF CursorInv
<1>2. QED  BY <1>1, Invariant, PTL

(* The two counts of what is cut off and the list of the bytes of each     *)
(* character agree with the text.                                          *)
THEOREM CountsStayKept == Spec => []CountsKept
<1>1. CursorInv => CountsKept
  BY DEF CursorInv
<1>2. QED  BY <1>1, Invariant, PTL

(* No insertion, deletion or cut splits a character.                       *)
THEOREM CharactersStayWhole == Spec => []WholeCharacters
<1>1. CursorInv => WholeCharacters
  BY DEF CursorInv
<1>2. QED  BY <1>1, Invariant, PTL

(* Deleting throws only where nothing was typed and a text that the        *)
(* program set, and the box does not keep, is displayed.                   *)
THEOREM TypedIsDeleted == Spec => []ThrowsOnlyUnkept
<1>1. CursorInv => ThrowsOnlyUnkept
  BY DEF CursorInv
<1>2. QED  BY <1>1, Invariant, PTL

-----------------------------------------------------------------------------
(* A font of one width: what fits depends on the number of characters.     *)
Holds(k) == \A s \in Seq(Chars) : Fits(s) <=> Len(s) <= k

LEMMA Multiples ==
    ASSUME NEW w \in Nat, w # 0, NEW F \in Nat
    PROVE  \E k \in Nat : \A n \in Nat : w * n <= F <=> n <= k
<1> DEFINE k == F \div w
           r == F % w
<1>1. k \in Nat /\ r \in Nat /\ r < w /\ F = w * k + r
  OBVIOUS
<1> HIDE DEF k, r
<1>2. ASSUME NEW n \in Nat, n <= k PROVE w * n <= F
  <2>1. PICK d \in Nat : k = n + d
    <3>1. k - n \in Nat /\ k = n + (k - n)
      BY <1>1, <1>2
    <3>2. QED  BY <3>1
  <2>2. w * k = w * n + w * d /\ w * d \in Nat /\ w * n \in Nat
    BY <2>1
  <2>3. QED  BY <1>1, <2>2
<1>3. ASSUME NEW n \in Nat, ~(n <= k) PROVE ~(w * n <= F)
  <2>1. PICK d \in Nat : n = k + 1 + d
    <3>1. n - k - 1 \in Nat /\ n = k + 1 + (n - k - 1)
      BY <1>1, <1>3
    <3>2. QED  BY <3>1
  <2>2. w * n = w * k + w + w * d /\ w * d \in Nat /\ w * k \in Nat
    BY <1>1, <2>1
  <2>3. QED  BY <1>1, <2>2
<1>4. QED  BY <1>1, <1>2, <1>3

LEMMA OneWidthHolds ==
    ASSUME TypeOK, OneWidth
    PROVE  \E k \in Nat : Holds(k)
<1>1. /\ font \in [Chars -> Nat \ {0}] /\ inputFrameWidth \in Nat
  BY CharsAssumption, FramesAssumption DEF TypeOK
<1>2. CASE Chars = {}
  <2>1. ASSUME NEW s \in Seq(Chars) PROVE Fits(s) /\ Len(s) <= 0
    <3>1. s = <<>>
      <4> SUFFICES ASSUME s # <<>> PROVE FALSE
        OBVIOUS
      <4>1. 1 \in 1 .. Len(s)
        BY EmptySeq, LenProperties
      <4>2. s[1] \in Chars
        BY <4>1, ElementOfSeq
      <4>3. QED  BY <1>2, <4>2
    <3>2. SumOf(font, <<>>) = 0 /\ Len(<<>>) = 0
      BY SumEmpty, EmptySeq
    <3>3. QED  BY <1>1, <3>1, <3>2 DEF Fits, WidthOf
  <2>2. QED  BY <2>1 DEF Holds
<1>3. CASE Chars # {}
  <2>1. PICK c \in Chars : TRUE
    BY <1>3
  <2> DEFINE w == font[c]
  <2>2. w \in Nat /\ w # 0
    BY <1>1, <2>1
  <2>3. \A d \in Chars : font[d] = w
    BY <2>1 DEF OneWidth
  <2> HIDE DEF w
  <2>4. PICK k \in Nat : \A n \in Nat : w * n <= inputFrameWidth <=> n <= k
    BY <1>1, <2>2, Multiples
  <2>5. ASSUME NEW s \in Seq(Chars) PROVE WidthOf(s) = w * Len(s)
    <3> DEFINE g == [i \in 0 .. Len(s) |-> w * i]
    <3>1. Len(s) \in Nat /\ Len(s) \in 0 .. Len(s)
      BY LenProperties
    <3>2. g \in [0 .. Len(s) -> Int] /\ g[0] = 0
      BY <2>2, <3>1
    <3>3. ASSUME NEW n \in 1 .. Len(s) PROVE g[n] = g[n - 1] + font[s[n]]
      <4>1. s[n] \in Chars /\ n \in 0 .. Len(s) /\ n - 1 \in 0 .. Len(s)
        BY <3>1, ElementOfSeq
      <4>2. font[s[n]] = w /\ g[n] = w * n /\ g[n - 1] = w * (n - 1)
        BY <2>3, <4>1
      <4>3. w * n = w * (n - 1) + w
        BY <2>2, <3>1
      <4>4. QED  BY <4>2, <4>3
    <3> HIDE DEF g
    <3>4. IsSums(g, font, s)
      BY <3>2, <3>3 DEF IsSums
    <3>5. SumOf(font, s) = g[Len(s)]
      BY <3>1, <3>4, SumIs
    <3>6. QED  BY <3>1, <3>5 DEF WidthOf, g
  <2>6. Holds(k)
    BY <2>4, <2>5, LenProperties DEF Holds, Fits
  <2>7. QED  BY <2>6
<1>4. QED  BY <1>2, <1>3

(* The longest end of a text that fits is the one of k characters, or all  *)
(* of the text.                                                            *)
LEMMA EndLength ==
    ASSUME NEW s \in Seq(Chars), NEW j \in 1 .. Len(s)
    PROVE  /\ SubSeq(s, j, Len(s)) \in Seq(Chars)
           /\ Len(SubSeq(s, j, Len(s))) = Len(s) - j + 1
<1> DEFINE N == Len(s)
           t == SubSeq(s, j, N)
<1>1. N \in Nat /\ j \in Nat /\ j <= N
  BY LenProperties
<1>2. \A i \in j .. N : s[i] \in Chars
  BY <1>1, ElementOfSeq
<1> HIDE DEF N
<1>3. t \in Seq(Chars) /\ Len(t) = IF j <= N THEN N - j + 1 ELSE 0
  BY <1>1, <1>2, SubSeqProperties
<1> HIDE DEF t
<1>4. QED  BY <1>1, <1>3 DEF N, t

LEMMA LongestIs ==
    ASSUME NEW s \in Seq(Chars), NEW k \in Nat, Holds(k), NEW t \in Suffixes(s),
           Len(t) = k \/ (t = s /\ Len(s) <= k)
    PROVE  LongestFit(s) = t
<1>1. Len(s) \in Nat /\ Len(<<>>) = 0 /\ <<>> \in Seq(Chars)
  BY LenProperties, EmptySeq
<1>2. ASSUME NEW u \in Suffixes(s)
      PROVE  /\ u \in Seq(Chars) /\ Len(u) \in Nat /\ Len(u) <= Len(s)
             /\ \A v \in Suffixes(s) : Len(v) = Len(u) => v = u
  <2>1. \A v \in Suffixes(s) :
           \/ v = <<>> /\ Len(v) = 0
           \/ \E j \in 1 .. Len(s) : /\ v = SubSeq(s, j, Len(s)) /\ v \in Seq(Chars)
                                     /\ Len(v) = Len(s) - j + 1
    BY <1>1, EndLength DEF Suffixes
  <2>2. CASE u = <<>>
    <3>1. \A v \in Suffixes(s) : Len(v) = 0 => v = <<>>
      BY <1>1, <2>1
    <3>2. QED  BY <1>1, <2>2, <3>1
  <2>3. CASE \E j \in 1 .. Len(s) : /\ u = SubSeq(s, j, Len(s)) /\ u \in Seq(Chars)
                                    /\ Len(u) = Len(s) - j + 1
    <3>1. PICK j \in 1 .. Len(s) : /\ u = SubSeq(s, j, Len(s)) /\ u \in Seq(Chars)
                                   /\ Len(u) = Len(s) - j + 1
      BY <2>3
    <3>2. Len(u) \in Nat /\ Len(u) # 0 /\ Len(u) <= Len(s)
      BY <1>1, <3>1
    <3>3. ASSUME NEW v \in Suffixes(s), Len(v) = Len(u) PROVE v = u
      <4>1. PICK i \in 1 .. Len(s) : v = SubSeq(s, i, Len(s)) /\ Len(v) = Len(s) - i + 1
        BY <2>1, <3>2, <3>3
      <4>2. i = j
        BY <1>1, <3>1, <3>3, <4>1
      <4>3. QED  BY <3>1, <4>1, <4>2
    <3>4. QED  BY <3>1, <3>2, <3>3
  <2>4. QED  BY <2>1, <2>2, <2>3
<1> DEFINE Best(u) == Fits(u) /\ \A v \in Suffixes(s) : Fits(v) => Len(v) <= Len(u)
<1>3. \A u \in Suffixes(s) : Fits(u) <=> Len(u) <= k
  BY <1>2 DEF Holds
<1>4. Best(t)
  BY <1>2, <1>3
<1>5. ASSUME NEW u \in Suffixes(s), Best(u) PROVE u = t
  <2>1. Len(u) = Len(t)
    <3>1. Len(u) <= Len(t) /\ Len(t) <= Len(u)
      BY <1>4, <1>5
    <3>2. QED  BY <1>2, <3>1
  <2>2. QED  BY <1>2, <2>1
<1>6. LongestFit(s) = CHOOSE u \in Suffixes(s) : Best(u)
  BY DEF LongestFit
<1> HIDE DEF Best
<1>7. QED  BY <1>4, <1>5, <1>6

-----------------------------------------------------------------------------
(* Where the window is.  With n characters in the text and room for k, it  *)
(* is the last k, or all of them; a loop has one round to go; and what is  *)
(* left in inpuText of a longer text is never shorter than the text, so    *)
(* that it does not fit once the text does not.                            *)
Window(k) ==
    LET n == Len(m_pInputText)
    IN  /\ pc \in {"idle", "insert"} /\ n <= k => startCur = 0 /\ Len(inpuText) >= n
        /\ pc \in {"idle", "insert"} /\ n > k => startCur = n - k /\ Len(inpuText) = k
        /\ pc = "trim" => n > k /\ startCur + 1 = n - k
        /\ pc = "widen" => n > k /\ startCur = n - k + 1

WindowInv == OneWidth => \E k \in Nat : Holds(k) /\ Window(k)

\* The part of LongestShown that is about a step in a font of one width.
ShowsLongest ==
    /\ pc' \in {"idle", "insert"}
    /\ m_pInputText' \notin {m_pInputText, <<>>} \/ pc \in {"trim", "widen"}
    => shown' = LongestFit(m_pInputText')

LEMMA WholeIsSuffix ==
    ASSUME NEW s \in Seq(Chars)
    PROVE  s \in Suffixes(s)
<1>1. Len(s) \in Nat
  BY LenProperties
<1>2. CASE s = <<>>
  BY <1>2 DEF Suffixes
<1>3. CASE s # <<>>
  <2>1. 1 \in 1 .. Len(s)
    BY <1>1, <1>3, EmptySeq
  <2>2. s = SubSeq(s, 1, Len(s))
    BY SubSeqFull
  <2>3. QED  BY <2>1, <2>2 DEF Suffixes
<1>4. QED  BY <1>2, <1>3

LEMMA WindowInit == Init => WindowInv
<1> SUFFICES ASSUME Init, OneWidth PROVE \E k \in Nat : Holds(k) /\ Window(k)
  BY DEF WindowInv
<1>1. PICK k \in Nat : Holds(k)
  BY InvInit, OneWidthHolds DEF CursorInv
<1>2. Len(m_pInputText) = 0 /\ Len(inpuText) = 0
  BY EmptySeq DEF Init
<1>3. Window(k)
  BY <1>2 DEF Init, Window
<1>4. QED  BY <1>1, <1>3

LEMMA WindowQuiet ==
    ASSUME Insert \/ InsertEnds \/ InsertNewLine \/ SetInputWidth \/ OpenIME
           \/ CloseIME \/ UNCHANGED vars,
           NEW k \in Nat, Window(k)
    PROVE  Window(k)' /\ ShowsLongest
<1>1. /\ UNCHANGED <<m_pInputText, inpuText, startCur>>
      /\ \/ pc \in {"idle", "insert"} /\ pc' \in {"idle", "insert"}
         \/ pc' = pc /\ UNCHANGED vars
  BY DEF Insert, InsertEnds, InsertNewLine, SetInputWidth, OpenIME, CloseIME, vars
<1>2. Window(k)'
  BY <1>1 DEF Window
<1>3. ShowsLongest
  BY <1>1 DEF ShowsLongest
<1>4. QED  BY <1>2, <1>3

LEMMA WindowEmptied ==
    ASSUME SetInpuntText \/ DeleteThrows, NEW k \in Nat, Window(k)
    PROVE  Window(k)' /\ ShowsLongest
<1>1. CASE SetInpuntText
  <2>1. /\ pc = "idle" /\ pc' = "idle" /\ m_pInputText' = <<>> /\ inpuText' = <<>>
        /\ startCur' = 0
    BY <1>1 DEF SetInpuntText
  <2>2. Len(m_pInputText') = 0 /\ Len(inpuText') = 0
    BY <2>1, EmptySeq
  <2>3. QED  BY <2>1, <2>2 DEF Window, ShowsLongest
<1>2. CASE DeleteThrows
  BY <1>2 DEF DeleteThrows, Window, ShowsLongest
<1>3. QED  BY <1>1, <1>2

LEMMA WindowInsertChar ==
    ASSUME CursorInv, InsertChar, NEW k \in Nat, Holds(k), Window(k)
    PROVE  Window(k)' /\ ShowsLongest
<1> DEFINE n == Len(m_pInputText)
           m == Len(inpuText)
           s == m_pInputText'
           t == inpuText'
<1>1. /\ m_pInputText \in Seq(Chars) /\ inpuText \in Seq(Chars) /\ n \in Nat /\ m \in Nat
      /\ pc = "insert"
  BY LenProperties DEF CursorInv, TypeOK, InsertChar
<1>2. /\ s \in Seq(Chars) /\ t \in Seq(Chars) /\ Len(s) = n + 1 /\ Len(t) = m + 1
  <2>1. s \in Seq(Chars) /\ t \in Seq(Chars) /\ Len(s) = n + 1
    BY TextGrows
  <2>2. t = Append(inpuText, Head(rest)) /\ Head(rest) \in Chars
    BY TextGrows DEF InsertChar
  <2>3. QED  BY <1>1, <2>1, <2>2, AppendProperties
<1>3. \/ Fits(s) /\ shown' = s /\ startCur' = 0 /\ pc' = "insert"
      \/ /\ ~Fits(s) /\ startCur' = startCur
         /\ pc' = IF Fits(t) THEN "insert" ELSE "trim"
  BY DEF InsertChar, Uncut
<1>4. (Fits(s) <=> n + 1 <= k) /\ (Fits(t) <=> m + 1 <= k)
  BY <1>2 DEF Holds
<1>5. /\ n <= k => startCur = 0 /\ m >= n
      /\ n > k => startCur = n - k /\ m = k
  BY <1>1 DEF Window
<1>6. Window(k)' <=> /\ pc' \in {"idle", "insert"} /\ Len(s) <= k =>
                           startCur' = 0 /\ Len(t) >= Len(s)
                     /\ pc' \in {"idle", "insert"} /\ Len(s) > k =>
                           startCur' = Len(s) - k /\ Len(t) = k
                     /\ pc' = "trim" => Len(s) > k /\ startCur' + 1 = Len(s) - k
                     /\ pc' = "widen" => Len(s) > k /\ startCur' = Len(s) - k + 1
  BY DEF Window
<1> HIDE DEF n, m, s, t
<1>7. CASE Fits(s) /\ shown' = s /\ startCur' = 0 /\ pc' = "insert"
  <2>1. n + 1 <= k /\ n <= k /\ m >= n
    BY <1>1, <1>4, <1>5, <1>7
  <2>2. Window(k)'
    BY <1>1, <1>2, <1>6, <1>7, <2>1
  <2>3. LongestFit(s) = s
    BY <1>2, <2>1, WholeIsSuffix, LongestIs
  <2>4. QED  BY <1>7, <2>2, <2>3 DEF ShowsLongest, s
<1>8. CASE /\ ~Fits(s) /\ startCur' = startCur
           /\ pc' = IF Fits(t) THEN "insert" ELSE "trim"
  <2>1. n + 1 > k
    BY <1>1, <1>4, <1>8
  <2>2. m + 1 > k
    <3>1. CASE n <= k
      BY <1>1, <1>5, <2>1, <3>1
    <3>2. CASE n > k
      BY <1>1, <1>5, <3>2
    <3>3. QED  BY <1>1, <3>1, <3>2
  <2>3. pc' = "trim"
    BY <1>1, <1>4, <1>8, <2>2
  <2>4. startCur + 1 = n + 1 - k
    <3>1. CASE n <= k
      BY <1>1, <1>5, <2>1, <3>1
    <3>2. CASE n > k
      BY <1>1, <1>5, <3>2
    <3>3. QED  BY <1>1, <3>1, <3>2
  <2>5. Window(k)'
    BY <1>1, <1>2, <1>6, <1>8, <2>1, <2>3, <2>4
  <2>6. QED  BY <1>1, <2>3, <2>5 DEF ShowsLongest
<1>9. QED  BY <1>3, <1>7, <1>8

LEMMA WindowDelete ==
    ASSUME CursorInv, Delete, NEW k \in Nat, Holds(k), Window(k)
    PROVE  Window(k)' /\ ShowsLongest
<1> DEFINE n == Len(m_pInputText)
           m == Len(inpuText)
           s == m_pInputText'
<1>1. /\ n \in Nat /\ m \in Nat /\ pc = "idle" /\ inpuText' = inpuText
  BY LenProperties DEF CursorInv, TypeOK, Delete
<1>2. /\ s \in Seq(Chars) /\ Len(s) = n - 1 /\ shown' = s
      /\ \/ Fits(s) /\ startCur' = 0 /\ pc' = "idle"
         \/ ~Fits(s) /\ startCur' = startCur /\ pc' = "widen"
  BY DeleteDoes DEF IsButLast
<1>3. Fits(s) <=> n - 1 <= k
  BY <1>2 DEF Holds
<1>4. /\ n <= k => startCur = 0 /\ m >= n
      /\ n > k => startCur = n - k /\ m = k
  BY <1>1 DEF Window
<1>5. Window(k)' <=> /\ pc' \in {"idle", "insert"} /\ Len(s) <= k =>
                           startCur' = 0 /\ m >= Len(s)
                     /\ pc' \in {"idle", "insert"} /\ Len(s) > k =>
                           startCur' = Len(s) - k /\ m = k
                     /\ pc' = "trim" => Len(s) > k /\ startCur' + 1 = Len(s) - k
                     /\ pc' = "widen" => Len(s) > k /\ startCur' = Len(s) - k + 1
  BY <1>1 DEF Window
<1> HIDE DEF n, m, s
<1>6. CASE Fits(s) /\ startCur' = 0 /\ pc' = "idle"
  <2>1. n - 1 <= k
    BY <1>3, <1>6
  <2>2. m >= n - 1
    <3>1. CASE n <= k
      BY <1>1, <1>4, <3>1
    <3>2. CASE n > k
      BY <1>1, <1>4, <2>1, <3>2
    <3>3. QED  BY <1>1, <3>1, <3>2
  <2>3. Window(k)'
    BY <1>1, <1>2, <1>5, <1>6, <2>1, <2>2
  <2>4. LongestFit(s) = s
    BY <1>2, <2>1, WholeIsSuffix, LongestIs
  <2>5. QED  BY <1>2, <2>3, <2>4 DEF ShowsLongest, s
<1>7. CASE ~Fits(s) /\ startCur' = startCur /\ pc' = "widen"
  <2>1. n - 1 > k /\ n > k
    BY <1>1, <1>3, <1>7
  <2>2. startCur' = n - k /\ n - k = n - 1 - k + 1
    BY <1>1, <1>4, <1>7, <2>1
  <2>3. Window(k)'
    BY <1>1, <1>2, <1>5, <1>7, <2>1, <2>2
  <2>4. QED  BY <1>7, <2>3 DEF ShowsLongest
<1>8. QED  BY <1>2, <1>6, <1>7

(* A round that leaves the last k characters is the last one.              *)
LEMMA WindowCut ==
    ASSUME CursorInv, NEW k \in Nat, Holds(k),
           NEW j \in Nat, j = Len(m_pInputText) - k,
           NEW again, NEW done, CutAfter(j, again, done), done \in {"idle", "insert"}
    PROVE  Window(k)' /\ ShowsLongest
<1> DEFINE s == m_pInputText
           n == Len(s)
           b == Size(SubSeq(s, 1, j))
           t == After(s, b)
<1>1. s \in Seq(Chars) /\ n \in Nat /\ j < n /\ j = n - k
  BY LenProperties DEF CursorInv, TypeOK, CutAfter
<1>2. Whole(s, b) /\ t = SubSeq(s, j + 1, n)
  BY <1>1, CutAt DEF IsEnd
<1>3. /\ startCur' = j /\ inpuText' = t /\ shown' = t /\ m_pInputText' = s
      /\ pc' = IF Fits(t) THEN done ELSE again
  BY <1>2 DEF CutAfter, CutTo
<1>4. j + 1 \in 1 .. n /\ n - (j + 1) + 1 = k
  BY <1>1
<1> HIDE DEF t
<1>5. t \in Seq(Chars) /\ Len(t) = k /\ t \in Suffixes(s)
  <2> DEFINE i == j + 1
  <2>1. i \in 1 .. Len(s) /\ Len(s) - i + 1 = k /\ t = SubSeq(s, i, Len(s))
    BY <1>2, <1>4
  <2> HIDE DEF i, s
  <2>2. s \in Seq(Chars)
    BY <1>1
  <2>3. t \in Seq(Chars) /\ Len(t) = k
    BY <2>1, <2>2, EndLength
  <2>4. t \in Suffixes(s)
    BY <2>1 DEF Suffixes
  <2>5. QED  BY <2>3, <2>4
<1>6. pc' = done
  BY <1>3, <1>5 DEF Holds
<1>7. LongestFit(s) = t
  <2> HIDE DEF s
  <2>1. s \in Seq(Chars) /\ t \in Suffixes(s) /\ (Len(t) = k \/ (t = s /\ Len(s) <= k))
    BY <1>1, <1>5
  <2>2. QED  BY <2>1, LongestIs
<1>8. Window(k)'
  <2>1. /\ Len(m_pInputText') = n /\ Len(inpuText') = k /\ startCur' = n - k
        /\ pc' \in {"idle", "insert"}
    BY <1>1, <1>3, <1>5, <1>6
  <2>2. n <= k => n - k = 0 /\ k >= n
    BY <1>1
  <2> HIDE DEF n
  <2>3. QED  BY <2>1, <2>2 DEF Window
<1>9. QED  BY <1>3, <1>7, <1>8 DEF ShowsLongest

LEMMA WindowCuts ==
    ASSUME CursorInv, Trim \/ Widen, NEW k \in Nat, Holds(k), Window(k)
    PROVE  Window(k)' /\ ShowsLongest
<1>1. Len(m_pInputText) \in Nat /\ startCur \in Nat
  BY LenProperties DEF CursorInv, TypeOK
<1>2. CASE Trim
  <2> DEFINE j == startCur + 1
  <2>1. j \in Nat /\ CutAfter(j, "trim", "insert")
    BY <1>2, TrimCuts
  <2>2. j = Len(m_pInputText) - k
    BY <1>2 DEF Trim, Window
  <2> HIDE DEF j
  <2>3. QED  BY <2>1, <2>2, WindowCut
<1>3. CASE Widen
  <2>1. startCur = Len(m_pInputText) - k + 1 /\ Len(m_pInputText) > k
    BY <1>3 DEF Widen, Window
  <2>2. startCur > 0 /\ startCur - 1 = Len(m_pInputText) - k
    BY <1>1, <2>1
  <2>3. PICK j \in Nat : CutAfter(j, "widen", "idle") /\ (startCur > 0 => j = startCur - 1)
    BY <1>3, WidenCuts
  <2>4. QED  BY <2>2, <2>3, WindowCut
<1>4. QED  BY <1>2, <1>3

LEMMA WindowStep ==
    ASSUME CursorInv, WindowInv, [Next]_vars
    PROVE  WindowInv' /\ (OneWidth => ShowsLongest)
<1>1. ASSUME NEW k \in Nat, Holds(k), Window(k) PROVE Window(k)' /\ ShowsLongest
  <2>1. CASE InsertChar
    BY <1>1, <2>1, WindowInsertChar
  <2>2. CASE Delete
    BY <1>1, <2>2, WindowDelete
  <2>3. CASE Trim \/ Widen
    BY <1>1, <2>3, WindowCuts
  <2>4. CASE SetInpuntText \/ DeleteThrows
    BY <1>1, <2>4, WindowEmptied
  <2>5. CASE Insert \/ InsertEnds \/ InsertNewLine \/ SetInputWidth \/ OpenIME
             \/ CloseIME \/ UNCHANGED vars
    BY <1>1, <2>5, WindowQuiet
  <2>6. QED  BY <2>1, <2>2, <2>3, <2>4, <2>5 DEF Next, Handler
<1>2. font' = font /\ (inputFrameWidth' = inputFrameWidth \/ inputFrameWidth' \in Frames(font))
  BY DEF Next, Handler, Insert, InsertEnds, InsertNewLine, InsertChar, Trim, Widen,
         DeleteThrows, Delete, SetInpuntText, SetInputWidth, OpenIME, CloseIME,
         vars, box
<1>3. ASSUME OneWidth' PROVE OneWidth /\ inputFrameWidth' = inputFrameWidth
  <2>1. inputFrameWidth \in Frames(font) /\ Frames(font) = {inputFrameWidth'}
    BY <1>2, <1>3 DEF CursorInv, TypeOK, OneWidth
  <2>2. QED  BY <1>2, <1>3, <2>1 DEF OneWidth
<1>4. WindowInv'
  <2> SUFFICES ASSUME OneWidth' PROVE \E k \in Nat : Holds(k)' /\ Window(k)'
    BY DEF WindowInv
  <2>1. OneWidth /\ inputFrameWidth' = inputFrameWidth
    BY <1>3
  <2>2. PICK k \in Nat : Holds(k) /\ Window(k)
    BY <2>1 DEF WindowInv
  <2>3. Holds(k)'
    BY <1>2, <2>1, <2>2 DEF Holds, Fits, WidthOf
  <2>4. QED  BY <1>1, <2>2, <2>3
<1>5. OneWidth => ShowsLongest
  BY <1>1 DEF WindowInv
<1>6. QED  BY <1>4, <1>5

(* In a font of one width the box shows as much of the end of the text as  *)
(* fits after every insertion and every deletion: a window that was left   *)
(* from before a deletion is never displayed.                              *)
THEOREM LongestEndShown == Spec => LongestShown
<1>1. Init => WindowInv
  BY WindowInit
<1>2. CursorInv /\ WindowInv /\ [Next]_vars => WindowInv'
  BY WindowStep
<1>3. CursorInv /\ WindowInv /\ [Next]_vars =>
        [/\ OneWidth
         /\ pc' \in {"idle", "insert"}
         /\ m_pInputText' \notin {m_pInputText, <<>>} \/ pc \in {"trim", "widen"}
         => shown' = LongestFit(m_pInputText')]_vars
  BY WindowStep DEF ShowsLongest
<1>4. QED  BY <1>1, <1>2, <1>3, Invariant, PTL DEF Spec, LongestShown
=============================================================================
