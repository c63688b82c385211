--------------------------- MODULE SequenceLemmas ---------------------------
(***************************************************************************)
(* What the proofs of several modules need of natural numbers and of       *)
(* sequences: induction in a form that the provers can use, FlattenSeq of  *)
(* the community modules, and sequences that are cut in two.               *)
(***************************************************************************)
EXTENDS Integers, SequencesExt, SequenceTheorems, WellFoundedInduction, TLAPS

(* A set of natural numbers that is not empty has a least element.         *)
LEMMA Least ==
    ASSUME NEW T \in SUBSET Nat, T # {}
    PROVE  \E x \in T : \A y \in T : x <= y
<1> DEFINE Less == {p \in Nat \X Nat : p[1] < p[2]}
<1>1. IsWellFoundedOn(Less, Nat)
  BY NatLessThanWellFounded, Zenon DEF OpToRel
<1>2. PICK x \in T : \A y \in T : ~(<<y, x>> \in Less)
  BY <1>1, WFMin
<1>3. ASSUME NEW y \in T PROVE x <= y
  <2>1. <<y, x>> \in Nat \X Nat /\ <<y, x>>[1] = y /\ <<y, x>>[2] = x
    OBVIOUS
  <2>2. ~(y < x)
    BY <1>2, <2>1
  <2>3. QED  BY <2>2
<1>4. QED  BY <1>3

(* Induction as the provers can use it: a set of numbers that has 0, and   *)
(* the successor of each of its elements below n, has all up to n.         *)
LEMMA Induction ==
    ASSUME NEW n \in Nat, NEW T, 0 \in T,
           \A k \in 0 .. n : k \in T /\ k < n => k + 1 \in T
    PROVE  \A k \in 0 .. n : k \in T
<1> SUFFICES ASSUME NEW k \in 0 .. n, k \notin T PROVE FALSE
  OBVIOUS
<1> DEFINE U == {i \in 0 .. n : i \notin T}
<1>1. U \in SUBSET Nat /\ U # {}
  OBVIOUS
<1>2. PICK x \in U : \A y \in U : x <= y
  BY <1>1, Least
<1>3. x # 0 /\ x - 1 \in 0 .. n /\ x - 1 < n /\ x - 1 + 1 = x
  BY <1>2
<1>4. x - 1 \notin U
  BY <1>2, <1>3
<1>5. QED  BY <1>2, <1>3, <1>4

(* Concatenation is associative, as one predicate: the provers find the    *)
(* instance they need by its name.                                         *)
Grouped(S, a, b, c) ==
    (a \o b) \o c = a \o (b \o c) /\ b \o c \in Seq(S) /\ a \o b \in Seq(S)

LEMMA Associates ==
    ASSUME NEW S
    PROVE  \A a, b, c \in Seq(S) : Grouped(S, a, b, c)
<1> SUFFICES ASSUME NEW a \in Seq(S), NEW b \in Seq(S), NEW c \in Seq(S)
             PROVE  Grouped(S, a, b, c)
  OBVIOUS
<1>1. (a \o b) \o c = a \o (b \o c)
  BY ConcatAssociative
<1>2. b \o c \in Seq(S) /\ a \o b \in Seq(S)
  BY ConcatProperties
<1>3. QED  BY <1>1, <1>2 DEF Grouped

-----------------------------------------------------------------------------
(* FlattenSeq is a recursive function over the positions of a sequence.    *)
\* f is that function for s.
Flattens(f, s) ==
    f = [i \in 1 .. Len(s) |-> IF i = 1 THEN s[i] ELSE f[i - 1] \o s[i]]

LEMMA FlattenStep ==
    ASSUME NEW s, NEW f, Flattens(f, s), NEW i \in 1 .. Len(s)
    PROVE  f[i] = IF i = 1 THEN s[i] ELSE f[i - 1] \o s[i]
<1> DEFINE g == [k \in 1 .. Len(s) |-> IF k = 1 THEN s[k] ELSE f[k - 1] \o s[k]]
<1>1. f = g
  BY DEF Flattens
<1>2. g[i] = IF i = 1 THEN s[i] ELSE f[i - 1] \o s[i]
  OBVIOUS
<1> HIDE DEF g
<1>3. QED  BY <1>1, <1>2

LEMMA FlattenExists ==
    ASSUME NEW S, NEW s \in Seq(Seq(S))
    PROVE  \E f : Flattens(f, s) /\ f \in [1 .. Len(s) -> Seq(S)]
<1> DEFINE n == Len(s)
           Step(f, i) == IF i = 1 THEN s[i] ELSE f[i - 1] \o s[i]
           T == {k \in 0 .. n : \E f \in [1 .. k -> Seq(S)] :
                                   \A i \in 1 .. k : f[i] = Step(f, i)}
<1>1. n \in Nat /\ \A i \in 1 .. n : s[i] \in Seq(S)
  BY LenProperties, ElementOfSeq
<1> HIDE DEF n
<1>2. 0 \in T
  <2> DEFINE f == [i \in 1 .. 0 |-> <<>>]
  <2>1. f \in [1 .. 0 -> Seq(S)] /\ \A i \in 1 .. 0 : f[i] = Step(f, i)
    OBVIOUS
  <2>2. 0 \in 0 .. n
    BY <1>1
  <2> HIDE DEF f, Step
  <2>3. QED  BY <2>1, <2>2
<1>3. ASSUME NEW k \in 0 .. n, k \in T, k < n PROVE k + 1 \in T
  <2>1. PICK f \in [1 .. k -> Seq(S)] : \A i \in 1 .. k : f[i] = Step(f, i)
    BY <1>3
  <2> DEFINE g == [i \in 1 .. k + 1 |-> IF i <= k THEN f[i] ELSE Step(f, i)]
  <2>2. k + 1 \in 1 .. n /\ k + 1 \in 0 .. n
    BY <1>1, <1>3
  <2>3. Step(f, k + 1) \in Seq(S)
    <3>1. CASE k = 0
      BY <1>1, <2>2, <3>1
    <3>2. CASE k # 0
      <4>1. k \in 1 .. k /\ k + 1 # 1 /\ k + 1 - 1 = k
        BY <1>1, <3>2
      <4>2. f[k] \in Seq(S) /\ s[k + 1] \in Seq(S)
        BY <1>1, <2>2, <4>1
      <4>3. QED  BY <4>1, <4>2, ConcatProperties
    <3>3. QED  BY <3>1, <3>2
  <2>4. g \in [1 .. k + 1 -> Seq(S)]
    <3>1. ASSUME NEW i \in 1 .. k + 1
          PROVE  (IF i <= k THEN f[i] ELSE Step(f, i)) \in Seq(S)
      BY <1>1, <2>3
    <3>2. QED  BY <3>1
  <2>5. ASSUME NEW i \in 1 .. k + 1 PROVE g[i] = Step(g, i)
    <3> g[i] = Step(f, i)
      <4>1. CASE i <= k
        <5>1. i \in 1 .. k
          BY <4>1
        <5>2. f[i] = Step(f, i)
          BY <2>1, <5>1
        <5>3. QED  BY <4>1, <5>2
      <4>2. CASE ~(i <= k)
        BY <4>2
      <4>3. QED  BY <4>1, <4>2
    <3>1. CASE i = 1
      BY <3>1
    <3>2. CASE i # 1
      <4>1. i - 1 \in 1 .. k /\ i - 1 \in 1 .. k + 1 /\ i - 1 <= k
        BY <1>1, <3>2
      <4>2. g[i - 1] = f[i - 1]
        BY <4>1
      <4>3. QED  BY <3>2, <4>2
    <3>3. QED  BY <3>1, <3>2
  <2> HIDE DEF g, Step
  <2>6. QED  BY <2>2, <2>4, <2>5
<1>4. n \in T
  <2> HIDE DEF T
  <2>1. \A k \in 0 .. n : k \in T
    BY <1>1, <1>2, <1>3, Induction
  <2>2. QED  BY <1>1, <2>1
<1>5. PICK f \in [1 .. n -> Seq(S)] : \A i \in 1 .. n : f[i] = Step(f, i)
  BY <1>4
<1>6. f = [i \in 1 .. n |-> Step(f, i)]
  BY <1>5
<1>7. QED  BY <1>5, <1>6 DEF Flattens, n

\* s is the first part of t.
Starts(s, t) == /\ Len(s) \in Nat /\ Len(t) \in Nat /\ Len(s) <= Len(t)
                /\ \A i \in 1 .. Len(s) : s[i] = t[i]

LEMMA FlattenAgrees ==
    ASSUME NEW s, NEW t, NEW f, NEW g, Starts(s, t), Flattens(f, s), Flattens(g, t)
    PROVE  \A i \in 1 .. Len(s) : f[i] = g[i]
<1> USE DEF Starts
<1> DEFINE n == Len(s)
<1> DEFINE T == {k \in 0 .. n : k = 0 \/ f[k] = g[k]}
<1>1. n \in Nat /\ 0 \in T
  OBVIOUS
<1>2. ASSUME NEW k \in 0 .. n, k \in T, k < n PROVE k + 1 \in T
  <2>1. k + 1 \in 1 .. n /\ k + 1 \in 1 .. Len(s) /\ k + 1 \in 1 .. Len(t)
    BY <1>2
  <2>2. /\ f[k + 1] = IF k + 1 = 1 THEN s[k + 1] ELSE f[k + 1 - 1] \o s[k + 1]
        /\ g[k + 1] = IF k + 1 = 1 THEN t[k + 1] ELSE g[k + 1 - 1] \o t[k + 1]
    BY <2>1, FlattenStep
  <2>3. s[k + 1] = t[k + 1]
    BY <2>1
  <2>4. k + 1 - 1 = k /\ (k + 1 # 1 => k # 0)
    BY <1>2
  <2>5. f[k + 1] = g[k + 1]
    BY <1>2, <2>2, <2>3, <2>4
  <2>6. QED  BY <2>1, <2>5
<1> HIDE DEF T
<1>3. \A k \in 0 .. n : k \in T
  BY <1>1, <1>2, Induction
<1>4. QED  BY <1>3 DEF T

(* So FlattenSeq gives the last value of a function that is one.           *)
LEMMA FlattenLast ==
    ASSUME NEW S, NEW s \in Seq(Seq(S)), s # <<>>
    PROVE  \E f : /\ Flattens(f, s) /\ f \in [1 .. Len(s) -> Seq(S)]
                  /\ FlattenSeq(s) = f[Len(s)]
<1> DEFINE F == CHOOSE f : Flattens(f, s)
<1>1. PICK f : Flattens(f, s) /\ f \in [1 .. Len(s) -> Seq(S)]
  BY FlattenExists
<1>2. Flattens(F, s)
  BY <1>1
<1>3. Len(s) \in Nat /\ Len(s) # 0
  BY EmptySeq
<1>4. FlattenSeq(s) = F[Len(s)]
  BY <1>3 DEF FlattenSeq, Flattens
<1>5. \A i \in 1 .. Len(s) : F[i] = f[i]
  <2>1. Starts(s, s)
    BY <1>3 DEF Starts
  <2>2. QED  BY <1>1, <1>2, <2>1, FlattenAgrees
<1>6. FlattenSeq(s) = f[Len(s)]
  <2>1. Len(s) \in 1 .. Len(s)
    BY <1>3
  <2>2. QED  BY <1>4, <1>5, <2>1
<1>7. QED  BY <1>1, <1>6

LEMMA FlattenEmpty == FlattenSeq(<<>>) = <<>>
BY DEF FlattenSeq

LEMMA FlattenOne ==
    ASSUME NEW S, NEW t \in Seq(S)
    PROVE  FlattenSeq(<<t>>) = t
<1>1. <<t>> \in Seq(Seq(S)) /\ <<t>> # <<>> /\ Len(<<t>>) = 1 /\ <<t>>[1] = t
  OBVIOUS
<1>2. PICK f : Flattens(f, <<t>>) /\ FlattenSeq(<<t>>) = f[Len(<<t>>)]
  BY <1>1, FlattenLast
<1>3. f[1] = <<t>>[1]
  BY <1>1, <1>2, FlattenStep
<1>4. QED  BY <1>1, <1>2, <1>3

LEMMA FlattenLonger ==
    ASSUME NEW S, NEW s \in Seq(Seq(S)), s # <<>>, NEW u \in Seq(Seq(S)),
           Len(s) + 1 = Len(u), \A i \in 1 .. Len(s) : s[i] = u[i]
    PROVE  /\ FlattenSeq(s) \in Seq(S)
           /\ FlattenSeq(u) = FlattenSeq(s) \o u[Len(u)]
<1>1. /\ Len(s) \in 1 .. Len(s) /\ Len(s) \in Nat /\ Len(s) # 0
      /\ Len(u) \in 1 .. Len(u) /\ Len(u) \in Nat /\ Len(u) # 1
      /\ Len(s) <= Len(s) /\ Len(s) <= Len(u) /\ Len(u) - 1 = Len(s)
      /\ u # <<>>
  <2>1. Len(s) \in Nat /\ Len(s) # 0 /\ Len(u) \in Nat
    BY EmptySeq, LenProperties
  <2>2. u # <<>>
    BY <2>1, EmptySeq
  <2>3. \A a, b \in Nat : a # 0 /\ a + 1 = b =>
           a \in 1 .. a /\ b \in 1 .. b /\ b # 1 /\ a <= b /\ b - 1 = a
    OBVIOUS
  <2> DEFINE a == Len(s)
             b == Len(u)
  <2>4. a \in Nat /\ a # 0 /\ b \in Nat /\ a + 1 = b
    BY <2>1
  <2> HIDE DEF a, b
  <2>5. a \in 1 .. a /\ b \in 1 .. b /\ b # 1 /\ a <= b /\ b - 1 = a /\ a <= a
    BY <2>3, <2>4
  <2>6. QED  BY <2>1, <2>2, <2>5 DEF a, b
<1>2. PICK f : /\ Flattens(f, s) /\ f \in [1 .. Len(s) -> Seq(S)]
               /\ FlattenSeq(s) = f[Len(s)]
  BY FlattenLast
<1>3. PICK g : Flattens(g, u) /\ FlattenSeq(u) = g[Len(u)]
  BY <1>1, FlattenLast
<1>4. g[Len(u)] = g[Len(s)] \o u[Len(u)]
  <2>1. g[Len(u)] = IF Len(u) = 1 THEN u[Len(u)] ELSE g[Len(u) - 1] \o u[Len(u)]
    BY <1>1, <1>3, FlattenStep
  <2>2. QED  BY <1>1, <2>1
<1>5. g[Len(s)] = f[Len(s)]
  <2>1. \A i \in 1 .. Len(s) : f[i] = g[i]
    <3>1. Starts(s, u)
      BY <1>1 DEF Starts
    <3>2. QED  BY <1>2, <1>3, <3>1, FlattenAgrees
  <2>2. QED  BY <1>1, <2>1
<1>6. QED  BY <1>1, <1>2, <1>3, <1>4, <1>5

LEMMA FlattenAppend ==
    ASSUME NEW S, NEW s \in Seq(Seq(S)), NEW t \in Seq(S)
    PROVE  /\ FlattenSeq(s) \in Seq(S)
           /\ FlattenSeq(Append(s, t)) = FlattenSeq(s) \o t
<1>1. CASE s = <<>>
  <2>1. FlattenSeq(s) = <<>> /\ Append(s, t) = <<t>>
    BY <1>1, FlattenEmpty
  <2>2. FlattenSeq(s) \o t = t /\ FlattenSeq(s) \in Seq(S)
    BY <2>1, ConcatEmptySeq, EmptySeq
  <2>3. QED  BY <2>1, <2>2, FlattenOne
<1>2. CASE s # <<>>
  <2>1. /\ Len(s) \in Nat /\ Append(s, t) \in Seq(Seq(S))
        /\ Len(Append(s, t)) = Len(s) + 1 /\ Append(s, t)[Len(s) + 1] = t
        /\ \A i \in 1 .. Len(s) : s[i] = Append(s, t)[i]
    BY AppendProperties, LenProperties
  <2> DEFINE u == Append(s, t)
  <2>2. Len(s) + 1 = Len(u) /\ u[Len(u)] = t /\ u \in Seq(Seq(S))
    BY <2>1
  <2> HIDE DEF u
  <2>3. QED  BY <1>2, <2>1, <2>2, FlattenLonger DEF u
<1>3. QED  BY <1>1, <1>2

(* It turns concatenation into concatenation.                              *)
LEMMA FlattenConcat ==
    ASSUME NEW S, NEW s \in Seq(Seq(S)), NEW t \in Seq(Seq(S))
    PROVE  FlattenSeq(s \o t) = FlattenSeq(s) \o FlattenSeq(t)
<1> DEFINE n == Len(t)
           p(k) == SubSeq(t, 1, k)
           T == {k \in 0 .. n : FlattenSeq(s \o p(k)) = FlattenSeq(s) \o FlattenSeq(p(k))}
<1>1. n \in Nat /\ p(n) = t /\ \A i \in 1 .. n : t[i] \in Seq(S)
  BY LenProperties, SubSeqFull, ElementOfSeq
<1>2. 0 \in T
  <2>1. p(0) = <<>>
    BY SubSeqEmpty
  <2>2. s \o p(0) = s
    BY <2>1, ConcatEmptySeq
  <2>3. FlattenSeq(s) \o FlattenSeq(p(0)) = FlattenSeq(s)
    <3>1. FlattenSeq(s) \in Seq(S)
      BY FlattenAppend, EmptySeq
    <3>2. QED  BY <2>1, <3>1, FlattenEmpty, ConcatEmptySeq
  <2>4. 0 \in 0 .. n
    BY <1>1
  <2> HIDE DEF p, n
  <2>5. QED  BY <2>2, <2>3, <2>4
<1>3. ASSUME NEW k \in 0 .. n, k \in T, k < n PROVE k + 1 \in T
  <2> DEFINE a == p(k)
             e == t[k + 1]
  <2>1. k + 1 \in 1 .. n /\ 1 \in 1 .. n /\ k + 1 \in 1 .. k + 1 /\ k + 1 - 1 = k
    BY <1>1, <1>3
  <2>2. e \in Seq(S) /\ a \in Seq(Seq(S))
    <3>1. \A i \in 1 .. k : t[i] \in Seq(S)
      BY <1>1
    <3>2. QED  BY <1>1, <2>1, <3>1, SubSeqProperties
  <2>3. p(k + 1) = Append(a, e)
    <3>1. p(k + 1) = a \o <<e>>
      BY <2>1, SubSeqRecursiveSecond
    <3> HIDE DEF a, e
    <3>2. QED  BY <2>2, <3>1, AppendIsConcat
  <2>4. FlattenSeq(s \o a) = FlattenSeq(s) \o FlattenSeq(a)
    BY <1>3
  <2> HIDE DEF a, e, p
  <2>5. s \o Append(a, e) = Append(s \o a, e) /\ s \o a \in Seq(Seq(S))
    <3>1. Append(a, e) = a \o <<e>> /\ <<e>> \in Seq(Seq(S))
      BY <2>2, AppendIsConcat
    <3>2. Grouped(Seq(S), s, a, <<e>>)
      BY <2>2, <3>1, Associates
    <3>3. s \o (a \o <<e>>) = (s \o a) \o <<e>> /\ s \o a \in Seq(Seq(S))
      BY <3>2 DEF Grouped
    <3>4. QED  BY <2>2, <3>1, <3>3, AppendIsConcat
  <2>6. /\ FlattenSeq(Append(s \o a, e)) = FlattenSeq(s \o a) \o e
        /\ FlattenSeq(Append(a, e)) = FlattenSeq(a) \o e
        /\ FlattenSeq(s) \in Seq(S) /\ FlattenSeq(a) \in Seq(S)
    BY <2>2, <2>5, FlattenAppend
  <2>7. FlattenSeq(s) \o (FlattenSeq(a) \o e) = (FlattenSeq(s) \o FlattenSeq(a)) \o e
    <3>1. Grouped(S, FlattenSeq(s), FlattenSeq(a), e)
      BY <2>2, <2>6, Associates
    <3>2. QED  BY <3>1 DEF Grouped
  <2>8. FlattenSeq(s \o p(k + 1)) = FlattenSeq(s) \o FlattenSeq(p(k + 1))
    BY <2>3, <2>4, <2>5, <2>6, <2>7
  <2>9. QED  BY <2>1, <2>8
<1> HIDE DEF T
<1>4. \A k \in 0 .. n : k \in T
  BY <1>1, <1>2, <1>3, Induction
<1>5. n \in T
  BY <1>1, <1>4
<1>6. QED  BY <1>1, <1>5 DEF T

-----------------------------------------------------------------------------
(* Each element is mapped to a sequence, and the whole flattened.           *)
IsMap(G, M, S) == G \in [M -> S]

Mapped(G, ms) == [i \in DOMAIN ms |-> G[ms[i]]]
Flat(G, ms) == FlattenSeq(Mapped(G, ms))

LEMMA MappedSeq ==
    ASSUME NEW S, NEW M, NEW G, IsMap(G, M, S), NEW ms \in Seq(M)
    PROVE  /\ Mapped(G, ms) \in Seq(S) /\ Len(Mapped(G, ms)) = Len(ms)
           /\ \A i \in 1 .. Len(ms) : Mapped(G, ms)[i] = G[ms[i]]
<1>1. /\ DOMAIN ms = 1 .. Len(ms) /\ Len(ms) \in Nat
      /\ \A i \in 1 .. Len(ms) : ms[i] \in M
  BY LenProperties, ElementOfSeq
<1>2. Mapped(G, ms) \in [1 .. Len(ms) -> S]
  BY <1>1 DEF Mapped, IsMap
<1>3. QED  BY <1>1, <1>2, LenProperties DEF Mapped

LEMMA MappedConcat ==
    ASSUME NEW S, NEW M, NEW G, IsMap(G, M, S), NEW a \in Seq(M), NEW b \in Seq(M)
    PROVE  Mapped(G, a \o b) = Mapped(G, a) \o Mapped(G, b)
<1> DEFINE f == Mapped(G, a)
           g == Mapped(G, b)
           h == Mapped(G, a \o b)
<1>1. \A x \in Seq(M) :
         /\ Mapped(G, x) \in Seq(S) /\ Len(Mapped(G, x)) = Len(x)
         /\ \A i \in 1 .. Len(x) : Mapped(G, x)[i] = G[x[i]]
  BY MappedSeq
<1>2. /\ a \o b \in Seq(M) /\ Len(a) \in Nat /\ Len(b) \in Nat
      /\ Len(a \o b) = Len(a) + Len(b)
      /\ \A i \in 1 .. Len(a) + Len(b) :
            (a \o b)[i] = IF i <= Len(a) THEN a[i] ELSE b[i - Len(a)]
  BY ConcatProperties, LenProperties
<1>3. /\ f \in Seq(S) /\ Len(f) = Len(a) /\ \A i \in 1 .. Len(a) : f[i] = G[a[i]]
      /\ g \in Seq(S) /\ Len(g) = Len(b) /\ \A i \in 1 .. Len(b) : g[i] = G[b[i]]
  BY <1>1
<1>4. /\ h \in Seq(S) /\ Len(h) = Len(a) + Len(b)
      /\ \A i \in 1 .. Len(a) + Len(b) : h[i] = G[(a \o b)[i]]
  BY <1>1, <1>2
<1> HIDE DEF f, g, h
<1>5. /\ f \o g \in Seq(S) /\ Len(f \o g) = Len(f) + Len(g)
      /\ \A i \in 1 .. Len(f) + Len(g) :
            (f \o g)[i] = IF i <= Len(f) THEN f[i] ELSE g[i - Len(f)]
  <2>1. f \in Seq(S) /\ g \in Seq(S)
    BY <1>3
  <2>2. QED  BY <2>1, ConcatProperties
<1> DEFINE m == Len(a)
           n == Len(b)
           fg == f \o g
<1>6. /\ m \in Nat /\ n \in Nat /\ fg \in Seq(S) /\ Len(fg) = m + n
      /\ \A i \in 1 .. m + n : fg[i] = IF i <= m THEN f[i] ELSE g[i - m]
      /\ \A i \in 1 .. m + n : (a \o b)[i] = IF i <= m THEN a[i] ELSE b[i - m]
      /\ \A i \in 1 .. m : f[i] = G[a[i]]
      /\ \A i \in 1 .. n : g[i] = G[b[i]]
      /\ \A i \in 1 .. m + n : h[i] = G[(a \o b)[i]]
  BY <1>2, <1>3, <1>4, <1>5
<1> DEFINE ab == a \o b
<1> HIDE DEF m, n, fg, ab
<1>7. ASSUME NEW i \in 1 .. m + n PROVE h[i] = fg[i]
  <2>1. h[i] = G[ab[i]]
    BY <1>6 DEF ab
  <2>2. CASE i <= m
    <3>1. i \in 1 .. m
      BY <1>6, <2>2
    <3>2. ab[i] = a[i] /\ fg[i] = f[i]
      BY <1>6, <2>2 DEF ab
    <3>3. QED  BY <1>6, <2>1, <3>1, <3>2
  <2>3. CASE ~(i <= m)
    <3>1. i - m \in 1 .. n
      BY <1>6, <2>3
    <3>2. ab[i] = b[i - m] /\ fg[i] = g[i - m]
      BY <1>6, <2>3 DEF ab
    <3>3. QED  BY <1>6, <2>1, <3>1, <3>2
  <2>4. QED  BY <2>2, <2>3
<1>8. h \in Seq(S) /\ Len(h) = m + n
  BY <1>4 DEF m, n
<1>9. h = fg
  BY <1>6, <1>7, <1>8, SeqEqual
<1>10. QED  BY <1>9 DEF f, g, h, fg

LEMMA FlatConcat ==
    ASSUME NEW S, NEW M, NEW G, IsMap(G, M, Seq(S)),
           NEW a \in Seq(M), NEW b \in Seq(M)
    PROVE  /\ Flat(G, a) \in Seq(S)
           /\ Flat(G, a \o b) = Flat(G, a) \o Flat(G, b)
<1>1. Mapped(G, a) \in Seq(Seq(S)) /\ Mapped(G, b) \in Seq(Seq(S))
  BY MappedSeq
<1>2. Flat(G, a) \in Seq(S)
  BY <1>1, EmptySeq, FlattenAppend DEF Flat
<1>3. FlattenSeq(Mapped(G, a) \o Mapped(G, b))
         = FlattenSeq(Mapped(G, a)) \o FlattenSeq(Mapped(G, b))
  BY <1>1, FlattenConcat
<1>4. Mapped(G, a \o b) = Mapped(G, a) \o Mapped(G, b)
  BY MappedConcat
<1>5. QED  BY <1>2, <1>3, <1>4 DEF Flat

LEMMA FlatOne ==
    ASSUME NEW S, NEW M, NEW G, IsMap(G, M, Seq(S)), NEW m \in M
    PROVE  Flat(G, <<m>>) = G[m] /\ Flat(G, <<>>) = <<>>
<1>1. Mapped(G, <<m>>) = <<G[m]>> /\ Mapped(G, <<>>) = <<>>
  BY DEF Mapped
<1>2. G[m] \in Seq(S)
  BY DEF IsMap
<1>3. QED  BY <1>1, <1>2, FlattenOne, FlattenEmpty DEF Flat

(* A sequence from its place k on, and up to its place k.                  *)
LEMMA AtPlace ==
    ASSUME NEW M, NEW ms \in Seq(M), NEW k \in 1 .. Len(ms), NEW n, n = k - 1
    PROVE  /\ ms[k] \in M /\ <<ms[k]>> \in Seq(M)
           /\ n \in 0 .. Len(ms) /\ k \in 0 .. Len(ms)
           /\ SubSeq(ms, n + 1, Len(ms)) = <<ms[k]>> \o SubSeq(ms, k + 1, Len(ms))
           /\ SubSeq(ms, 1, k) = SubSeq(ms, 1, n) \o <<ms[k]>>
<1>1. /\ ms[k] \in M /\ Len(ms) \in Nat /\ k \in Nat /\ 1 \in 1 .. Len(ms)
      /\ Len(ms) \in k .. Len(ms)
  BY ElementOfSeq, LenProperties
<1>2. SubSeq(ms, k, Len(ms)) = <<ms[k]>> \o SubSeq(ms, k + 1, Len(ms))
  BY <1>1, SubSeqRecursiveFirst
<1>3. SubSeq(ms, 1, k) = SubSeq(ms, 1, k - 1) \o <<ms[k]>>
  BY <1>1, SubSeqRecursiveSecond
<1>4. n + 1 = k /\ n \in 0 .. Len(ms) /\ k \in 0 .. Len(ms)
  BY <1>1
<1>5. <<ms[k]>> \in Seq(M)
  BY <1>1
<1>6. QED  BY <1>1, <1>2, <1>3, <1>4, <1>5

(* The image of a first part is a first part of the image.                 *)
LEMMA FlatPart ==
    ASSUME NEW S, NEW M, NEW G, IsMap(G, M, Seq(S)), NEW ms \in Seq(M),
           NEW k \in 0 .. Len(ms)
    PROVE  \E u \in Seq(S) : Flat(G, ms) = Flat(G, SubSeq(ms, 1, k)) \o u
<1> DEFINE a == SubSeq(ms, 1, k)
           b == SubSeq(ms, k + 1, Len(ms))
<1>1. Len(ms) \in Nat /\ \A i \in 1 .. Len(ms) : ms[i] \in M
  BY ElementOfSeq, LenProperties
<1>2. a \in Seq(M) /\ b \in Seq(M)
  <2>1. \A i \in 1 .. k : ms[i] \in M
    BY <1>1
  <2>2. \A i \in k + 1 .. Len(ms) : ms[i] \in M
    BY <1>1
  <2>3. QED  BY <1>1, <2>1, <2>2, SubSeqProperties
<1>3. ms = a \o b
  <2>1. a \o b = SubSeq(ms, 1, Len(ms))
    <3>1. 1 \in 1 .. Len(ms) + 1 /\ k \in 1 - 1 .. Len(ms) /\ Len(ms) \in k .. Len(ms)
      BY <1>1
    <3>2. QED  BY <3>1, ConcatAdjacentSubSeq
  <2>2. QED  BY <2>1, SubSeqFull
<1> HIDE DEF a, b
<1>4. Flat(G, b) \in Seq(S) /\ Flat(G, a \o b) = Flat(G, a) \o Flat(G, b)
  <2>1. Flat(G, a \o b) = Flat(G, a) \o Flat(G, b)
    BY <1>2, FlatConcat
  <2>2. Flat(G, b) \in Seq(S)
    BY <1>2, FlatConcat
  <2>3. QED  BY <2>1, <2>2
<1>5. QED  BY <1>3, <1>4 DEF a

-----------------------------------------------------------------------------
(* Sequences that are cut in two.                                          *)
LEMMA CutSeq ==
    ASSUME NEW S, NEW s \in Seq(S), NEW k \in 0 .. Len(s)
    PROVE  /\ SubSeq(s, 1, k) \in Seq(S) /\ Len(SubSeq(s, 1, k)) = k
           /\ SubSeq(s, k + 1, Len(s)) \in Seq(S)
           /\ s = SubSeq(s, 1, k) \o SubSeq(s, k + 1, Len(s))
<1>1. Len(s) \in Nat /\ \A i \in 1 .. Len(s) : s[i] \in S
  BY ElementOfSeq, LenProperties
<1>2. (\A i \in 1 .. k : s[i] \in S) /\ (\A i \in k + 1 .. Len(s) : s[i] \in S)
  BY <1>1
<1>3. SubSeq(s, 1, k) \in Seq(S) /\ Len(SubSeq(s, 1, k)) = k
  <2>1. /\ SubSeq(s, 1, k) \in Seq(S)
        /\ Len(SubSeq(s, 1, k)) = IF 1 <= k THEN k - 1 + 1 ELSE 0
    BY <1>2, SubSeqProperties
  <2>2. QED  BY <1>1, <2>1
<1>4. SubSeq(s, k + 1, Len(s)) \in Seq(S)
  BY <1>1, <1>2, SubSeqProperties
<1>5. SubSeq(s, 1, k) \o SubSeq(s, k + 1, Len(s)) = SubSeq(s, 1, Len(s))
  <2>1. 1 \in 1 .. Len(s) + 1 /\ k \in 1 - 1 .. Len(s) /\ Len(s) \in k .. Len(s)
    BY <1>1
  <2>2. QED  BY <2>1, ConcatAdjacentSubSeq
<1>6. QED  BY <1>3, <1>4, <1>5, SubSeqFull

LEMMA SameCut ==
    ASSUME NEW S, NEW a \in Seq(S), NEW b \in Seq(S), NEW c \in Seq(S),
           NEW d \in Seq(S), a \o b = c \o d, Len(a) = Len(c)
    PROVE  a = c /\ b = d
<1>1. /\ Len(a) \in Nat /\ Len(b) \in Nat /\ Len(d) \in Nat
      /\ \A i \in 1 .. Len(a) + Len(b) :
            (a \o b)[i] = IF i <= Len(a) THEN a[i] ELSE b[i - Len(a)]
      /\ \A i \in 1 .. Len(c) + Len(d) :
            (c \o d)[i] = IF i <= Len(c) THEN c[i] ELSE d[i - Len(c)]
  BY ConcatProperties, LenProperties
<1>2. ASSUME NEW i \in 1 .. Len(a) PROVE a[i] = c[i]
  <2>1. i \in 1 .. Len(a) + Len(b) /\ i \in 1 .. Len(c) + Len(d) /\ i <= Len(a)
    BY <1>1
  <2>2. QED  BY <1>1, <2>1
<1>3. a = c
  BY <1>2, SeqEqual
<1>4. QED  BY <1>3, ConcatSimplifications

-----------------------------------------------------------------------------
(* Where the parts of a flattened sequence begin.                          *)
Places(c, w) ==
    LET s == FlattenSeq(w)
    IN  /\ c \in [1 .. Len(w) + 1 -> Nat] /\ c[1] = 1 /\ c[Len(w) + 1] = Len(s) + 1
        /\ \A i \in 1 .. Len(w) :
              /\ c[i] >= 1 /\ c[i + 1] = c[i] + Len(w[i]) /\ c[i + 1] <= Len(s) + 1
              /\ \A j \in 1 .. Len(w[i]) : s[c[i] + j - 1] = w[i][j]

\* b stands in s behind a.
Between(a, b, s) ==
    /\ Len(a) + Len(b) <= Len(s)
    /\ \A j \in 1 .. Len(b) : s[Len(a) + 1 + j - 1] = b[j]

LEMMA InTheMiddle ==
    ASSUME NEW S, NEW a \in Seq(S), NEW b \in Seq(S), NEW e \in Seq(S)
    PROVE  Between(a, b, (a \o b) \o e)
<1> DEFINE ab == a \o b
           s == ab \o e
           k == Len(a)
           l == Len(b)
<1>1. /\ k \in Nat /\ l \in Nat /\ Len(e) \in Nat
      /\ ab \in Seq(S) /\ Len(ab) = k + l
      /\ \A i \in 1 .. k + l : ab[i] = IF i <= k THEN a[i] ELSE b[i - k]
  BY ConcatProperties, LenProperties
<1> HIDE DEF ab, k, l
<1>2. /\ Len(s) = k + l + Len(e)
      /\ \A i \in 1 .. k + l + Len(e) : i <= k + l => s[i] = ab[i]
  <2>1. /\ Len(ab \o e) = Len(ab) + Len(e)
        /\ \A i \in 1 .. Len(ab) + Len(e) :
              (ab \o e)[i] = IF i <= Len(ab) THEN ab[i] ELSE e[i - Len(ab)]
    BY <1>1, ConcatProperties
  <2>2. QED  BY <1>1, <2>1
<1> HIDE DEF s
<1>3. ASSUME NEW j \in 1 .. l PROVE s[k + 1 + j - 1] = b[j]
  <2> DEFINE i == k + 1 + j - 1
  <2>1. i \in 1 .. k + l /\ i \in 1 .. k + l + Len(e) /\ i <= k + l /\ ~(i <= k)
        /\ i - k = j
    BY <1>1
  <2> HIDE DEF i
  <2>2. s[i] = ab[i] /\ ab[i] = b[i - k]
    BY <1>1, <1>2, <2>1
  <2>3. QED  BY <2>1, <2>2 DEF i
<1>4. k + l <= Len(s)
  BY <1>1, <1>2
<1>5. QED  BY <1>3, <1>4 DEF Between, s, ab, k, l

LEMMA PlacesExist ==
    ASSUME NEW S, NEW w \in Seq(Seq(S))
    PROVE  FlattenSeq(w) \in Seq(S) /\ \E c : Places(c, w)
<1> DEFINE n == Len(w)
           s == FlattenSeq(w)
           pre(k) == FlattenSeq(SubSeq(w, 1, k))
           c == [i \in 1 .. n + 1 |-> Len(pre(i - 1)) + 1]
<1>1. n \in Nat
  BY LenProperties
<1>2. \A v \in Seq(Seq(S)) : FlattenSeq(v) \in Seq(S)
  BY FlattenAppend, EmptySeq
<1>3. ASSUME NEW k \in 0 .. n PROVE pre(k) \in Seq(S) /\ Len(pre(k)) \in Nat
  <2>1. SubSeq(w, 1, k) \in Seq(Seq(S))
    BY CutSeq
  <2>2. pre(k) \in Seq(S)
    BY <1>2, <2>1
  <2> HIDE DEF pre
  <2>3. QED  BY <2>2, LenProperties
<1>4. pre(0) = <<>> /\ pre(n) = s
  <2>1. SubSeq(w, 1, 0) = <<>> /\ SubSeq(w, 1, n) = w
    BY SubSeqEmpty, SubSeqFull
  <2>2. QED  BY <2>1, FlattenEmpty
<1>5. ASSUME NEW i \in 1 .. n, NEW k, k = i - 1
      PROVE  /\ pre(i) = pre(k) \o w[i] /\ k \in 0 .. n /\ w[i] \in Seq(S)
             /\ Between(pre(k), w[i], s)
  <2> DEFINE a == SubSeq(w, 1, k)
             b == w[i]
             e == SubSeq(w, i + 1, n)
  <2>1. /\ b \in Seq(S) /\ <<b>> \in Seq(Seq(S)) /\ k \in 0 .. n /\ i \in 0 .. n
        /\ SubSeq(w, 1, i) = a \o <<b>>
    <3>1. i \in 1 .. Len(w) /\ i \in Nat /\ k \in 0 .. n /\ i \in 0 .. n
      BY <1>1, <1>5
    <3>2. w[i] \in Seq(S)
      BY <3>1, ElementOfSeq
    <3>3. SubSeq(w, 1, i) = SubSeq(w, 1, i - 1) \o <<w[i]>>
      <4>1. 1 \in 1 .. Len(w) /\ i \in 1 .. Len(w)
        BY <1>1, <3>1
      <4>2. QED  BY <4>1, SubSeqRecursiveSecond
    <3>4. <<b>> \in Seq(Seq(S))
      <4> HIDE DEF b
      <4>1. b \in Seq(S)
        BY <3>2 DEF b
      <4>2. QED  BY <4>1
    <3>5. QED  BY <1>5, <3>1, <3>2, <3>3, <3>4
  <2>2. /\ a \in Seq(Seq(S)) /\ e \in Seq(Seq(S)) /\ w = SubSeq(w, 1, i) \o e
    BY <2>1, CutSeq
  <2> DEFINE ab == SubSeq(w, 1, i)
  <2>3. ab \in Seq(Seq(S)) /\ ab = a \o <<b>> /\ w = ab \o e
    BY <2>1, <2>2, CutSeq
  <2> HIDE DEF a, b, e, ab
  <2>4. FlattenSeq(a \o <<b>>) = FlattenSeq(a) \o FlattenSeq(<<b>>)
    BY <2>1, <2>2, FlattenConcat
  <2>5. FlattenSeq(ab) = FlattenSeq(a) \o b
    BY <2>1, <2>3, <2>4, FlattenOne
  <2>6. FlattenSeq(ab \o e) = FlattenSeq(ab) \o FlattenSeq(e)
    BY <2>2, <2>3, FlattenConcat
  <2>7. /\ FlattenSeq(a) \in Seq(S) /\ FlattenSeq(e) \in Seq(S)
        /\ s = (FlattenSeq(a) \o b) \o FlattenSeq(e)
    BY <1>2, <2>2, <2>3, <2>5, <2>6
  <2>8. Between(FlattenSeq(a), b, s)
    BY <2>1, <2>7, InTheMiddle
  <2>9. QED  BY <2>1, <2>5, <2>8 DEF a, b, ab
<1> HIDE DEF pre, s
<1>6. c \in [1 .. n + 1 -> Nat]
  <2>1. ASSUME NEW i \in 1 .. n + 1 PROVE Len(pre(i - 1)) + 1 \in Nat
    <3>1. i - 1 \in 0 .. n
      BY <1>1
    <3>2. QED  BY <1>3, <3>1
  <2>2. QED  BY <2>1
<1>7. c[1] = 1 /\ c[n + 1] = Len(s) + 1
  <2>1. 1 \in 1 .. n + 1 /\ n + 1 \in 1 .. n + 1 /\ 1 - 1 = 0 /\ n + 1 - 1 = n
    BY <1>1
  <2>2. c[1] = Len(pre(0)) + 1 /\ c[n + 1] = Len(pre(n)) + 1
    BY <2>1
  <2>3. Len(<<>>) = 0
    OBVIOUS
  <2>4. QED  BY <1>4, <2>2, <2>3
<1>8. ASSUME NEW i \in 1 .. n
      PROVE  /\ c[i] >= 1 /\ c[i + 1] = c[i] + Len(w[i]) /\ c[i + 1] <= Len(s) + 1
             /\ \A j \in 1 .. Len(w[i]) : s[c[i] + j - 1] = w[i][j]
  <2> DEFINE k == i - 1
             a == pre(k)
  <2>1. /\ i \in 1 .. n + 1 /\ i + 1 \in 1 .. n + 1 /\ i + 1 - 1 = i /\ k \in 0 .. n
    BY <1>1
  <2>2. c[i] = Len(a) + 1 /\ c[i + 1] = Len(pre(i)) + 1
    BY <2>1
  <2>3. pre(i) = a \o w[i] /\ w[i] \in Seq(S) /\ a \in Seq(S) /\ Between(a, w[i], s)
    BY <1>3, <1>5, <2>1
  <2> HIDE DEF a, c, k
  <2>4. Len(pre(i)) = Len(a) + Len(w[i]) /\ Len(a) \in Nat /\ Len(w[i]) \in Nat
    BY <2>3, ConcatProperties, LenProperties
  <2>5. Len(s) \in Nat
    BY <1>1, <1>3, <1>4
  <2>6. /\ Len(a) + Len(w[i]) <= Len(s)
        /\ \A j \in 1 .. Len(w[i]) : s[Len(a) + 1 + j - 1] = w[i][j]
    BY <2>3 DEF Between
  <2>7. /\ c[i] >= 1 /\ c[i + 1] = c[i] + Len(w[i]) /\ c[i + 1] <= Len(s) + 1
    <3>1. \A x, y, u, z \in Nat :
             u = x + y /\ x + y <= z => /\ x + 1 >= 1 /\ u + 1 = (x + 1) + y
                                       /\ u + 1 <= z + 1
      OBVIOUS
    <3> DEFINE x == Len(a)
               y == Len(w[i])
               u == Len(pre(i))
               z == Len(s)
    <3>2. x \in Nat /\ y \in Nat /\ u \in Nat /\ z \in Nat /\ u = x + y /\ x + y <= z
      BY <2>4, <2>5, <2>6
    <3> HIDE DEF x, y, u, z
    <3>3. x + 1 >= 1 /\ u + 1 = (x + 1) + y /\ u + 1 <= z + 1
      BY <3>1, <3>2
    <3>4. QED  BY <2>2, <3>3 DEF x, y, u, z
  <2>8. \A j \in 1 .. Len(w[i]) : s[c[i] + j - 1] = w[i][j]
    BY <2>2, <2>6
  <2>9. QED  BY <2>7, <2>8
<1>9. Places(c, w)
  <2> HIDE DEF c
  <2>1. QED  BY <1>6, <1>7, <1>8 DEF Places, s, n
<1>10. s \in Seq(S)
  BY <1>1, <1>3, <1>4
<1> HIDE DEF c
<1>11. QED  BY <1>9, <1>10 DEF s

-----------------------------------------------------------------------------
(* A function that recurs from each of its arguments to a greater one is   *)
(* there: z beyond the place L, and at p the step st[p] of the value at    *)
(* nx[p].                                                                  *)
Jump(h, p, L, z, st, nx) == IF p > L THEN z ELSE st[p][h[nx[p]]]

IsJump(V, L, M, z, st, nx) ==
    /\ L \in Nat /\ M \in Nat /\ L <= M /\ z \in V
    /\ nx \in [1 .. L -> 1 .. M] /\ \A p \in 1 .. L : p < nx[p]
    /\ st \in [1 .. L -> [V -> V]]

Jumps(h, V, L, M, z, st, nx) ==
    h \in [1 .. M -> V] /\ \A p \in 1 .. M : h[p] = Jump(h, p, L, z, st, nx)

LEMMA JumpsExist ==
    ASSUME NEW V, NEW L, NEW M, NEW z, NEW st, NEW nx, IsJump(V, L, M, z, st, nx)
    PROVE  \E h : Jumps(h, V, L, M, z, st, nx)
<1> USE DEF IsJump
<1> DEFINE IsFrom(h, a) == /\ h \in [a .. M -> V]
                           /\ \A p \in a .. M : h[p] = Jump(h, p, L, z, st, nx)
           T == {k \in 0 .. M : \E h : IsFrom(h, M + 1 - k)}
<1>1. 0 \in T
  <2> DEFINE h == [p \in M + 1 .. M |-> z]
  <2>1. \A p : p \notin M + 1 .. M
    OBVIOUS
  <2>2. IsFrom(h, M + 1)
    BY <2>1
  <2>3. M + 1 - 0 = M + 1 /\ 0 \in 0 .. M
    OBVIOUS
  <2> HIDE DEF h, IsFrom
  <2>4. IsFrom(h, M + 1 - 0)
    BY <2>2, <2>3
  <2>5. QED  BY <2>3, <2>4
<1>2. ASSUME NEW k \in 0 .. M, k \in T, k < M PROVE k + 1 \in T
  <2> DEFINE q == M - k
  <2>1. /\ q \in 1 .. M /\ M + 1 - k = q + 1 /\ M + 1 - (k + 1) = q
        /\ k + 1 \in 0 .. M
    BY <1>2
  <2>2. PICK h : IsFrom(h, q + 1)
    BY <1>2, <2>1
  <2> HIDE DEF q
  <2> DEFINE g == [p \in q .. M |-> IF p = q THEN Jump(h, q, L, z, st, nx) ELSE h[p]]
  <2>3. Jump(h, q, L, z, st, nx) \in V
    <3>1. CASE q > L
      BY <3>1 DEF Jump
    <3>2. CASE ~(q > L)
      <4>1. q \in 1 .. L
        BY <2>1, <3>2
      <4>2. nx[q] \in q + 1 .. M /\ st[q] \in [V -> V]
        BY <2>1, <4>1
      <4>3. h[nx[q]] \in V
        BY <2>2, <4>2
      <4>4. QED  BY <3>2, <4>2, <4>3 DEF Jump
    <3>3. QED  BY <3>1, <3>2
  <2>4. g \in [q .. M -> V]
    <3>1. \A p \in q .. M : p # q => p \in q + 1 .. M
      BY <2>1
    <3>2. QED  BY <2>2, <2>3, <3>1
  <2>5. ASSUME NEW p \in q .. M PROVE g[p] = Jump(g, p, L, z, st, nx)
    <3>1. g[p] = Jump(h, p, L, z, st, nx)
      <4>1. CASE p = q
        BY <4>1
      <4>2. CASE p # q
        <5>1. p \in q + 1 .. M
          BY <2>1, <4>2
        <5>2. QED  BY <2>2, <4>2, <5>1
      <4>3. QED  BY <4>1, <4>2
    <3>2. ~(p > L) => g[nx[p]] = h[nx[p]]
      <4> SUFFICES ASSUME ~(p > L) PROVE g[nx[p]] = h[nx[p]]
        OBVIOUS
      <4>1. p \in 1 .. L
        BY <2>1
      <4>2. nx[p] \in q .. M /\ nx[p] # q
        BY <2>1, <4>1
      <4>3. QED  BY <4>2
    <3> HIDE DEF g
    <3>3. QED  BY <3>1, <3>2 DEF Jump
  <2>6. IsFrom(g, q)
    BY <2>4, <2>5
  <2> HIDE DEF g, IsFrom
  <2>7. IsFrom(g, M + 1 - (k + 1))
    BY <2>1, <2>6
  <2>8. QED  BY <2>1, <2>7
<1>3. M \in T
  <2> HIDE DEF T
  <2>1. \A k \in 0 .. M : k \in T
    BY <1>1, <1>2, Induction
  <2>2. QED  BY <2>1
<1>4. PICK h : IsFrom(h, M + 1 - M)
  BY <1>3
<1>5. M + 1 - M = 1
  OBVIOUS
<1> HIDE DEF IsFrom
<1>6. IsFrom(h, 1)
  BY <1>4, <1>5
<1>7. QED  BY <1>6 DEF IsFrom, Jumps

(* Induction from n down to 1.                                             *)
LEMMA InductionDown ==
    ASSUME NEW n \in Nat, NEW T, n + 1 \in T,
           \A i \in 1 .. n : i + 1 \in T => i \in T
    PROVE  \A i \in 1 .. n + 1 : i \in T
<1> SUFFICES ASSUME NEW i \in 1 .. n + 1, i \notin T PROVE FALSE
  OBVIOUS
<1> DEFINE U == {k \in 0 .. n : n + 1 - k \notin T}
<1>1. U \in SUBSET Nat /\ U # {}
  <2> DEFINE m == n + 1 - i
  <2>1. m \in 0 .. n /\ n + 1 - m = i
    OBVIOUS
  <2> HIDE DEF m
  <2>2. m \in U
    BY <2>1
  <2>3. U \subseteq 0 .. n
    OBVIOUS
  <2>4. 0 .. n \subseteq Nat
    OBVIOUS
  <2> HIDE DEF U
  <2>5. QED  BY <2>2, <2>3, <2>4
<1>2. PICK x \in U : \A y \in U : x <= y
  BY <1>1, Least
<1> DEFINE j == n + 1 - x
<1>3. j \in 1 .. n + 1 /\ j \notin T
  BY <1>2
<1>4. j # n + 1
  BY <1>3
<1>5. j + 1 \notin T
  BY <1>3, <1>4
<1>6. x - 1 \in 0 .. n /\ n + 1 - (x - 1) = j + 1 /\ x - 1 < x
  BY <1>2, <1>4
<1>7. x - 1 \in U
  <2> HIDE DEF j
  <2>1. QED  BY <1>5, <1>6
<1>8. QED  BY <1>2, <1>6, <1>7
=============================================================================
