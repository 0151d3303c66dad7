-------------------------- MODULE RecurrenceProofs --------------------------
(***************************************************************************)
(* Lemmas that belong to no component: inductions over naturals made from  *)
(* the well-foundedness of <, the values of folds and of FlattenSeq, and   *)
(* how many elements of a sequence, or of what follows or precedes one of  *)
(* them, belong to a set.                                                  *)
(***************************************************************************)
EXTENDS Integers, Sequences, SequencesExt, SequenceTheorems, FiniteSetTheorems, FunctionTheorems,
        WellFoundedInduction, TLAPS

\* A nonempty set of naturals has a least element.
LEMMA Minimum ==
  ASSUME NEW R, R \subseteq Nat, R # {}
  PROVE  \E i \in R : \A j \in R : i <= j
<1> DEFINE Inferieur == OpToRel(<, Nat)
<1>1. IsWellFoundedOn(Inferieur, Nat)
  BY NatLessThanWellFounded
<1> HIDE DEF Inferieur
<1>2. PICK i \in R : \A j \in R : ~(<<j, i>> \in Inferieur)
  BY <1>1, WFMin
<1>3. \A j \in R : ~(j < i)
  BY <1>2 DEF Inferieur, OpToRel
<1> QED
  BY <1>3

\* The same, as the first counterexample of a property of 0 .. n.
LEMMA PremierEchec ==
  ASSUME NEW n \in Nat, NEW Bons \in SUBSET (0 .. n),
         0 \in Bons, \A k \in 1 .. n : k - 1 \in Bons => k \in Bons
  PROVE  Bons = 0 .. n
<1> SUFFICES ASSUME (0 .. n) \ Bons # {} PROVE FALSE
  OBVIOUS
<1> DEFINE R == (0 .. n) \ Bons
<1>0. R \subseteq Nat /\ R # {}
  OBVIOUS
<1> HIDE DEF R
<1>1. PICK k \in R : \A j \in R : k <= j
  BY <1>0, Minimum
<1> USE DEF R
<1>2. k \in 1 .. n /\ k - 1 \in 0 .. n
  BY <1>1
<1>3. k - 1 \in Bons
  BY <1>1, <1>2
<1> QED
  BY <1>1, <1>2, <1>3

\* A nonempty set of naturals below a bound has a greatest element.
LEMMA Maximum ==
  ASSUME NEW n \in Nat, NEW S, S \subseteq 0 .. n, S # {}
  PROVE  \E v \in S : \A w \in S : v >= w
<1> DEFINE T == {n - v : v \in S}
<1>1. \A v \in S : n - v \in Nat
  OBVIOUS
<1>2. PICK t \in T : \A u \in T : t <= u
  <2>1. T \subseteq Nat
    BY <1>1
  <2>2. T # {}
    OBVIOUS
  <2> QED
    BY <2>1, <2>2, Minimum
<1>3. PICK v \in S : t = n - v
  OBVIOUS
<1>4. \A w \in S : w \in Nat /\ v \in Nat /\ n - v <= n - w
  BY <1>2, <1>3
<1> HIDE DEF T
<1>5. \A w \in S : v >= w
  BY <1>4
<1> QED
  BY <1>5

\* What a fold goes through: the values after 0, 1, ... k elements.
Etapes(g, f, base, s, k) ==
  g[0] = base /\ \A m \in 1 .. k : g[m] = f[<<g[m - 1], s[m]>>]

LEMMA EtapesExistent ==
  ASSUME NEW S, NEW E, NEW base \in S, NEW f \in [S \X E -> S], NEW s \in Seq(E)
  PROVE  \E g \in [0 .. Len(s) -> S] : Etapes(g, f, base, s, Len(s))
<1> DEFINE n == Len(s)
           Bons == {k \in 0 .. n : \E g \in [0 .. k -> S] : Etapes(g, f, base, s, k)}
<1>0. n \in Nat /\ \A k \in 1 .. n : s[k] \in E
  BY LenProperties, ElementOfSeq
<1> HIDE DEF n
<1>1. 0 \in Bons
  <2>1. [k \in 0 .. 0 |-> base] \in [0 .. 0 -> S]
    OBVIOUS
  <2>2. Etapes([k \in 0 .. 0 |-> base], f, base, s, 0)
    BY DEF Etapes
  <2> QED
    BY <1>0, <2>1, <2>2
<1>2. ASSUME NEW k \in 1 .. n, k - 1 \in Bons
      PROVE  k \in Bons
  <2>1. PICK g \in [0 .. k - 1 -> S] : Etapes(g, f, base, s, k - 1)
    BY <1>2
  <2> DEFINE x == f[<<g[k - 1], s[k]>>]
             h == [m \in 0 .. k |-> IF m = k THEN x ELSE g[m]]
  <2>2. g[k - 1] \in S /\ s[k] \in E /\ k \in Nat /\ k > 0
    BY <1>0, <2>1
  <2>3. x \in S
    BY <2>2
  <2>4. \A m \in 0 .. k : m # k => m \in 0 .. k - 1
    BY <2>2
  <2>5. h \in [0 .. k -> S]
    BY <2>1, <2>3, <2>4
  <2>6. h[0] = base
    <3>1. g[0] = base /\ 0 \in 0 .. k /\ 0 # k
      BY <2>1, <2>2 DEF Etapes
    <3> QED
      BY <3>1
  <2>7. \A m \in 1 .. k : h[m] = f[<<h[m - 1], s[m]>>]
    <3> SUFFICES ASSUME NEW m \in 1 .. k PROVE h[m] = f[<<h[m - 1], s[m]>>]
      OBVIOUS
    <3>1. m - 1 \in 0 .. k /\ m - 1 # k /\ m \in 0 .. k
      BY <2>2
    <3>2. h[m - 1] = g[m - 1]
      BY <3>1
    <3>3. CASE m = k
      BY <3>1, <3>2, <3>3
    <3>4. CASE m # k
      <4>1. m \in 1 .. k - 1
        BY <2>2, <3>4
      <4>2. h[m] = g[m]
        BY <3>1, <3>4
      <4>3. g[m] = f[<<g[m - 1], s[m]>>]
        BY <2>1, <4>1 DEF Etapes
      <4> HIDE DEF h
      <4> QED
        BY <3>2, <4>2, <4>3
    <3> QED
      BY <3>3, <3>4
  <2> HIDE DEF h
  <2>8. Etapes(h, f, base, s, k)
    BY <2>6, <2>7 DEF Etapes
  <2> QED
    BY <2>5, <2>8
<1>3. n \in Bons
  <2>1. Bons \in SUBSET (0 .. n)
    OBVIOUS
  <2> HIDE DEF Bons
  <2>2. Bons = 0 .. n
    BY <1>0, <1>1, <1>2, <2>1, PremierEchec
  <2> QED
    BY <1>0, <2>2
<1> QED
  BY <1>3 DEF n

LEMMA EtapesUniques ==
  ASSUME NEW f, NEW base, NEW s, NEW t, NEW k \in Nat, NEW g, NEW h,
         Etapes(g, f, base, s, k), Etapes(h, f, base, t, k),
         \A m \in 1 .. k : s[m] = t[m]
  PROVE  \A m \in 0 .. k : g[m] = h[m]
<1> DEFINE Bons == {m \in 0 .. k : g[m] = h[m]}
<1>1. 0 \in Bons
  BY DEF Etapes
<1>2. \A m \in 1 .. k : m - 1 \in Bons => m \in Bons
  <2> SUFFICES ASSUME NEW m \in 1 .. k, m - 1 \in Bons PROVE m \in Bons
    OBVIOUS
  <2>1. g[m] = f[<<g[m - 1], s[m]>>] /\ h[m] = f[<<h[m - 1], t[m]>>]
    BY DEF Etapes
  <2>2. g[m - 1] = h[m - 1] /\ s[m] = t[m] /\ m \in 0 .. k
    OBVIOUS
  <2> QED
    BY <2>1, <2>2
<1>3. Bons \in SUBSET (0 .. k)
  OBVIOUS
<1> HIDE DEF Bons
<1>4. Bons = 0 .. k
  BY <1>1, <1>2, <1>3, PremierEchec
<1> QED
  BY <1>4 DEF Bons

\* Putting sequences end to end, one more at a time.
Aplatie(g, s) ==
  g = [i \in 1 .. Len(s) |-> IF i = 1 THEN s[i] ELSE g[i - 1] \o s[i]]

LEMMA AplatieLue ==
  ASSUME NEW g, NEW s, Aplatie(g, s), NEW i \in 1 .. Len(s)
  PROVE  g[i] = IF i = 1 THEN s[i] ELSE g[i - 1] \o s[i]
BY DEF Aplatie

LEMMA AplatieExiste ==
  ASSUME NEW E, NEW s \in Seq(Seq(E)), Len(s) # 0
  PROVE  \E g \in [1 .. Len(s) -> Seq(E)] : Aplatie(g, s)
<1> DEFINE n == Len(s)
           f == [p \in Seq(E) \X Seq(E) |-> p[1] \o p[2]]
<1>0. n \in Nat /\ n > 0 /\ \A k \in 1 .. n : s[k] \in Seq(E)
  BY LenProperties, ElementOfSeq
<1>1. f \in [Seq(E) \X Seq(E) -> Seq(E)] /\ <<>> \in Seq(E)
  BY ConcatProperties
<1>2. \A a, b \in Seq(E) : f[<<a, b>>] = a \o b
  OBVIOUS
<1> HIDE DEF f, n
<1>3. PICK g \in [0 .. n -> Seq(E)] : Etapes(g, f, <<>>, s, n)
  BY <1>1, EtapesExistent DEF n
<1> DEFINE h == [i \in 1 .. n |-> g[i]]
<1>4. h \in [1 .. n -> Seq(E)]
  BY <1>0
<1>5. \A i \in 1 .. n : h[i] = IF i = 1 THEN s[i] ELSE h[i - 1] \o s[i]
  <2> SUFFICES ASSUME NEW i \in 1 .. n
               PROVE  h[i] = IF i = 1 THEN s[i] ELSE h[i - 1] \o s[i]
    OBVIOUS
  <2>1. g[i] = f[<<g[i - 1], s[i]>>] /\ g[0] = <<>>
    BY <1>3 DEF Etapes
  <2>2. g[i - 1] \in Seq(E) /\ s[i] \in Seq(E)
    BY <1>0, <1>3
  <2>3. g[i] = g[i - 1] \o s[i]
    BY <1>2, <2>1, <2>2
  <2>4. CASE i = 1
    <3>1. i - 1 = 0
      BY <2>4
    <3>2. g[i] = <<>> \o s[i]
      BY <2>1, <2>3, <3>1
    <3>3. <<>> \o s[i] = s[i]
      BY <2>2, ConcatEmptySeq
    <3>4. h[i] = g[i]
      OBVIOUS
    <3> QED
      BY <2>4, <3>2, <3>3, <3>4
  <2>5. CASE i # 1
    <3>1. i - 1 \in 1 .. n
      BY <1>0, <2>5
    <3> QED
      BY <2>3, <2>5, <3>1
  <2> QED
    BY <2>4, <2>5
<1>6. Aplatie(h, s)
  BY <1>5 DEF Aplatie, n
<1> QED
  BY <1>4, <1>6 DEF n

\* Two sequences, or functions, agree on 1 .. k.
Accord(s, t, k) == \A m \in 1 .. k : s[m] = t[m]

LEMMA AplatieUnique ==
  ASSUME NEW s, NEW t, NEW k \in Nat, k <= Len(s), k <= Len(t),
         Len(s) \in Nat, Len(t) \in Nat,
         NEW g, NEW h, Aplatie(g, s), Aplatie(h, t), Accord(s, t, k)
  PROVE  Accord(g, h, k)
<1> DEFINE Bons == {m \in 0 .. k : m = 0 \/ g[m] = h[m]}
<1>1. 0 \in Bons
  OBVIOUS
<1>2. ASSUME NEW m \in 1 .. k, m - 1 \in Bons PROVE m \in Bons
  <2>1. /\ g[m] = IF m = 1 THEN s[m] ELSE g[m - 1] \o s[m]
        /\ h[m] = IF m = 1 THEN t[m] ELSE h[m - 1] \o t[m]
    <3>1. m \in 1 .. Len(s) /\ m \in 1 .. Len(t)
      OBVIOUS
    <3> QED
      BY <3>1 DEF Aplatie
  <2>2. s[m] = t[m] /\ (m = 1 \/ g[m - 1] = h[m - 1]) /\ m \in 0 .. k
    BY <1>2 DEF Accord
  <2> QED
    BY <2>1, <2>2
<1>3. Bons \in SUBSET (0 .. k)
  OBVIOUS
<1> HIDE DEF Bons
<1>4. Bons = 0 .. k
  BY <1>1, <1>2, <1>3, PremierEchec
<1> QED
  BY <1>4 DEF Bons, Accord

LEMMA FlattenDeplie ==
  ASSUME NEW s, Len(s) # 0
  PROVE  FlattenSeq(s) = (CHOOSE g : Aplatie(g, s))[Len(s)]
BY DEF FlattenSeq, Aplatie

LEMMA FlattenVide ==
  ASSUME NEW s, Len(s) = 0
  PROVE  FlattenSeq(s) = s
BY DEF FlattenSeq

\* FlattenSeq returns a sequence, and one more sequence at the end of its
\* argument goes at the end of its result.
LEMMA FlattenAppend ==
  ASSUME NEW E, NEW s \in Seq(Seq(E)), NEW x \in Seq(E)
  PROVE  /\ FlattenSeq(s) \in Seq(E)
         /\ FlattenSeq(Append(s, x)) = FlattenSeq(s) \o x
<1> DEFINE t == Append(s, x)
           n == Len(s)
<1>0. /\ n \in Nat /\ t \in Seq(Seq(E)) /\ Len(t) = n + 1 /\ t[n + 1] = x
      /\ \A m \in 1 .. n : t[m] = s[m]
  BY LenProperties, AppendProperties
<1> HIDE DEF t, n
<1>1. PICK h \in [1 .. n + 1 -> Seq(E)] : Aplatie(h, t)
  <2>1. Len(t) # 0 /\ t \in Seq(Seq(E))
    BY <1>0
  <2>2. \E h \in [1 .. Len(t) -> Seq(E)] : Aplatie(h, t)
    BY <2>1, AplatieExiste
  <2> QED
    BY <1>0, <2>2
<1>2. FlattenSeq(t) = h[n + 1]
  <2> DEFINE c == CHOOSE g : Aplatie(g, t)
  <2>1. Aplatie(c, t)
    BY <1>1
  <2>2. FlattenSeq(t) = c[n + 1]
    BY <1>0, FlattenDeplie
  <2> HIDE DEF c
  <2>3. Accord(c, h, n + 1)
    <3>0. Accord(t, t, n + 1)
      BY DEF Accord
    <3>1. n + 1 \in Nat /\ n + 1 <= Len(t) /\ Len(t) \in Nat
      BY <1>0
    <3> QED
      BY <1>1, <2>1, <3>0, <3>1, AplatieUnique
  <2> QED
    BY <1>0, <2>2, <2>3 DEF Accord
<1>3. h[n + 1] = IF n = 0 THEN x ELSE h[n] \o x
  <2>1. n + 1 \in 1 .. Len(t) /\ t[n + 1] = x /\ n \in Nat
    BY <1>0
  <2>2. h[n + 1] = IF n + 1 = 1 THEN t[n + 1] ELSE h[n + 1 - 1] \o t[n + 1]
    <3>1. \A i \in 1 .. Len(t) : h[i] = IF i = 1 THEN t[i] ELSE h[i - 1] \o t[i]
      BY <1>1, AplatieLue
    <3> QED
      BY <2>1, <3>1
  <2>3. n + 1 - 1 = n /\ (n + 1 = 1 <=> n = 0)
    BY <2>1
  <2> QED
    BY <2>1, <2>2, <2>3
<1>4. CASE n = 0
  <2>1. s = <<>> /\ FlattenSeq(s) = <<>>
    BY <1>4, FlattenVide, EmptySeq DEF n
  <2> QED
    <3>1. FlattenSeq(t) = x /\ <<>> \o x = x /\ <<>> \in Seq(E)
      BY <1>2, <1>3, <1>4, ConcatEmptySeq
    <3> QED
      BY <2>1, <3>1 DEF t
<1>5. CASE n # 0
  <2>1. PICK g \in [1 .. n -> Seq(E)] : Aplatie(g, s)
    BY <1>5, AplatieExiste DEF n
  <2>2. FlattenSeq(s) = g[n]
    <3> DEFINE c == CHOOSE gg : Aplatie(gg, s)
    <3>1. Aplatie(c, s)
      BY <2>1
    <3>2. FlattenSeq(s) = c[n]
      BY <1>5, FlattenDeplie DEF n
    <3> HIDE DEF c
    <3>3. Accord(c, g, n)
      <4>1. n \in Nat /\ n <= Len(s) /\ Len(s) \in Nat
        BY <1>0 DEF n
      <4>2. Accord(s, s, n)
        BY DEF Accord
      <4> QED
        BY <2>1, <3>1, <4>1, <4>2, AplatieUnique
    <3> QED
      BY <1>0, <1>5, <3>2, <3>3 DEF Accord
  <2>3. Accord(g, h, n)
    <3>1. n \in Nat /\ n <= Len(s) /\ n <= Len(t) /\ Len(s) \in Nat /\ Len(t) \in Nat
      BY <1>0 DEF n
    <3>2. Accord(s, t, n)
      BY <1>0 DEF Accord
    <3>3. Aplatie(g, s) /\ Aplatie(h, t)
      BY <1>1, <2>1
    <3> HIDE <1>0
    <3> QED
      BY <3>1, <3>2, <3>3, AplatieUnique
  <2>4. g[n] = h[n] /\ g[n] \in Seq(E)
    BY <1>0, <1>5, <2>1, <2>3 DEF Accord
  <2> QED
    BY <1>2, <1>3, <1>5, <2>2, <2>4 DEF t
<1> QED
  BY <1>4, <1>5

\* An element inserted after the first p.
LEMMA Insere ==
  ASSUME NEW S, NEW s \in Seq(S), NEW p \in 0 .. Len(s), NEW e \in S
  PROVE  /\ InsertAt(s, p + 1, e) \in Seq(S) /\ Len(InsertAt(s, p + 1, e)) = Len(s) + 1
         /\ \A k \in 1 .. Len(s) + 1 :
              InsertAt(s, p + 1, e)[k] = IF k <= p THEN s[k] ELSE IF k = p + 1 THEN e ELSE s[k - 1]
<1> DEFINE a == SubSeq(s, 1, p)
           b == SubSeq(s, p + 1, Len(s))
           c == Append(a, e)
           m == Len(s)
<1>1. m \in Nat /\ p \in Nat /\ p <= m /\ \A k \in 1 .. m : s[k] \in S
  BY LenProperties, ElementOfSeq
<1>2. a \in Seq(S) /\ Len(a) = p /\ \A k \in 1 .. p : a[k] = s[k]
  <2>1. \A k \in 1 .. p : s[k] \in S
    BY <1>1
  <2>2. 1 \in Int /\ p \in Int
    BY <1>1
  <2>3. /\ a \in Seq(S) /\ Len(a) = IF 1 <= p THEN p - 1 + 1 ELSE 0
        /\ \A k \in 1 .. p - 1 + 1 : a[k] = s[1 + k - 1]
    BY <2>1, <2>2, SubSeqProperties
  <2>4. p - 1 + 1 = p /\ \A k \in 1 .. p : 1 + k - 1 = k
    BY <1>1
  <2>5. Len(a) = p
    BY <1>1, <2>3, <2>4
  <2> QED
    BY <2>3, <2>4, <2>5
<1>3. b \in Seq(S) /\ Len(b) = m - p /\ \A k \in 1 .. m - p : b[k] = s[p + k]
  <2>1. \A k \in p + 1 .. m : s[k] \in S
    BY <1>1
  <2>2. p + 1 \in Int /\ m \in Int
    BY <1>1
  <2>3. /\ b \in Seq(S) /\ Len(b) = IF p + 1 <= m THEN m - (p + 1) + 1 ELSE 0
        /\ \A k \in 1 .. m - (p + 1) + 1 : b[k] = s[(p + 1) + k - 1]
    BY <2>1, <2>2, SubSeqProperties
  <2>4. \A k \in 1 .. m - p : (p + 1) + k - 1 = p + k /\ k \in 1 .. m - (p + 1) + 1
    BY <1>1
  <2>5. Len(b) = m - p
    BY <1>1, <2>3
  <2> QED
    BY <2>3, <2>4, <2>5
<1>4. InsertAt(s, p + 1, e) = c \o b
  <2> DEFINE q == p + 1
  <2>1. q - 1 = p
    BY <1>1
  <2> HIDE DEF q
  <2>4. InsertAt(s, q, e) = SubSeq(s, 1, q - 1) \o <<e>> \o SubSeq(s, q, Len(s))
    BY DEF InsertAt
  <2>5. InsertAt(s, q, e) = SubSeq(s, 1, p) \o <<e>> \o SubSeq(s, q, Len(s))
    BY <2>1, <2>4
  <2>2. InsertAt(s, p + 1, e) = a \o <<e>> \o b
    BY <2>5 DEF q
  <2> HIDE DEF a, b
  <2>3. a \o <<e>> = c
    BY <1>2, AppendIsConcat
  <2> QED
    BY <2>2, <2>3
<1> HIDE DEF a, b, c, m
<1>5. /\ c \in Seq(S) /\ Len(c) = p + 1 /\ c[p + 1] = e
      /\ \A k \in 1 .. p : c[k] = s[k]
  BY <1>2, AppendProperties DEF c
<1>6. /\ c \o b \in Seq(S) /\ Len(c \o b) = p + 1 + (m - p)
      /\ \A k \in 1 .. p + 1 + (m - p) :
           (c \o b)[k] = IF k <= p + 1 THEN c[k] ELSE b[k - (p + 1)]
  <2>1. /\ c \o b \in Seq(S) /\ Len(c \o b) = Len(c) + Len(b)
        /\ \A k \in 1 .. Len(c) + Len(b) :
             (c \o b)[k] = IF k <= Len(c) THEN c[k] ELSE b[k - Len(c)]
    BY <1>3, <1>5, ConcatProperties
  <2>2. Len(c) = p + 1 /\ Len(b) = m - p
    BY <1>3, <1>5
  <2> QED
    BY <2>1, <2>2
<1>7. p + 1 + (m - p) = m + 1
  BY <1>1
<1>8. ASSUME NEW k \in 1 .. m + 1
      PROVE  (c \o b)[k] = IF k <= p THEN s[k] ELSE IF k = p + 1 THEN e ELSE s[k - 1]
  <2>1. CASE k <= p
    <3>1. k <= p + 1 /\ k \in 1 .. p
      BY <1>1, <2>1
    <3>2. (c \o b)[k] = c[k]
      BY <1>6, <1>7, <3>1
    <3> QED
      BY <1>5, <2>1, <3>1, <3>2
  <2>2. CASE k = p + 1
    <3>1. k <= p + 1 /\ ~(k <= p)
      BY <1>1, <2>2
    <3>2. (c \o b)[k] = c[k]
      BY <1>6, <1>7, <3>1
    <3> QED
      BY <1>5, <2>2, <3>1, <3>2
  <2>3. CASE k > p + 1
    <3>1. /\ k - (p + 1) \in 1 .. m - p /\ p + (k - (p + 1)) = k - 1
          /\ ~(k <= p + 1) /\ ~(k <= p) /\ k # p + 1
      BY <1>1, <2>3
    <3>2. (c \o b)[k] = b[k - (p + 1)]
      BY <1>6, <1>7, <3>1
    <3>3. b[k - (p + 1)] = s[k - 1]
      BY <1>3, <3>1
    <3> QED
      BY <3>1, <3>2, <3>3
  <2>4. k <= p \/ k = p + 1 \/ k > p + 1
    BY <1>1
  <2> QED
    BY <2>1, <2>2, <2>3, <2>4
<1> QED
  BY <1>4, <1>6, <1>7, <1>8 DEF m

-----------------------------------------------------------------------------
(* How many elements of a sequence belong to a set.                          *)

NbDans(s, X, a, b) == Cardinality({p \in a .. b : s[p] \in X})
Un(x, X) == IF x \in X THEN 1 ELSE 0

LEMMA NbDansFini ==
  ASSUME NEW s, NEW X, NEW a \in Nat, NEW b \in Nat
  PROVE  IsFiniteSet({p \in a .. b : s[p] \in X}) /\ NbDans(s, X, a, b) \in Nat
<1>1. IsFiniteSet(a .. b)
  BY FS_Interval
<1>2. IsFiniteSet({p \in a .. b : s[p] \in X})
  BY <1>1, FS_Subset
<1> QED
  BY <1>2, FS_CardinalityType DEF NbDans

LEMMA NbDansNul ==
  ASSUME NEW s, NEW X, NEW a \in Nat, NEW b \in Nat, \A p \in a .. b : s[p] \notin X
  PROVE  NbDans(s, X, a, b) = 0
<1>1. {p \in a .. b : s[p] \in X} = {}
  OBVIOUS
<1> QED
  BY <1>1, FS_EmptySet DEF NbDans

LEMMA NbDansAccord ==
  ASSUME NEW s, NEW t, NEW X, NEW a \in Nat, NEW b \in Nat,
         \A p \in a .. b : s[p] = t[p]
  PROVE  NbDans(s, X, a, b) = NbDans(t, X, a, b)
<1>1. {p \in a .. b : s[p] \in X} = {p \in a .. b : t[p] \in X}
  OBVIOUS
<1> QED
  BY <1>1 DEF NbDans

\* One place more than others.
LEMMA NbDansPlus ==
  ASSUME NEW s, NEW X, NEW J, IsFiniteSet(J), NEW q, q \notin J
  PROVE  /\ Cardinality({p \in J \cup {q} : s[p] \in X})
              = Cardinality({p \in J : s[p] \in X}) + Un(s[q], X)
<1> DEFINE A == {p \in J \cup {q} : s[p] \in X}
           C == {p \in J : s[p] \in X}
<1>1. IsFiniteSet(C) /\ Cardinality(C) \in Nat
  BY FS_Subset, FS_CardinalityType
<1>2. CASE s[q] \in X
  <2>1. A = C \cup {q} /\ q \notin C
    BY <1>2
  <2>2. Cardinality(A) = Cardinality(C) + 1
    BY <1>1, <2>1, FS_AddElement
  <2> QED
    BY <1>2, <2>2 DEF Un
<1>3. CASE s[q] \notin X
  <2>1. A = C
    BY <1>3
  <2>2. Un(s[q], X) = 0
    BY <1>3 DEF Un
  <2> HIDE DEF A, C
  <2>3. Cardinality(A) = Cardinality(C) + Un(s[q], X)
    BY <1>1, <2>1, <2>2
  <2> QED
    BY <2>3 DEF A, C
<1> QED
  BY <1>2, <1>3

LEMMA NbDansDernier ==
  ASSUME NEW s, NEW X, NEW a \in Nat, NEW b \in Nat, a <= b + 1
  PROVE  NbDans(s, X, a, b + 1) = NbDans(s, X, a, b) + Un(s[b + 1], X)
<1>1. a .. b + 1 = (a .. b) \cup {b + 1} /\ b + 1 \notin a .. b
  OBVIOUS
<1>2. IsFiniteSet(a .. b)
  BY FS_Interval
<1>3. Cardinality({p \in (a .. b) \cup {b + 1} : s[p] \in X})
         = Cardinality({p \in a .. b : s[p] \in X}) + Un(s[b + 1], X)
  BY <1>1, <1>2, NbDansPlus
<1> QED
  BY <1>1, <1>3 DEF NbDans

LEMMA NbDansPremier ==
  ASSUME NEW s, NEW X, NEW a \in Nat, NEW b \in Nat, a <= b
  PROVE  NbDans(s, X, a, b) = NbDans(s, X, a + 1, b) + Un(s[a], X)
<1>1. a .. b = (a + 1 .. b) \cup {a} /\ a \notin a + 1 .. b
  OBVIOUS
<1>2. IsFiniteSet(a + 1 .. b)
  BY FS_Interval
<1>3. Cardinality({p \in (a + 1 .. b) \cup {a} : s[p] \in X})
         = Cardinality({p \in a + 1 .. b : s[p] \in X}) + Un(s[a], X)
  BY <1>1, <1>2, NbDansPlus
<1> QED
  BY <1>1, <1>3 DEF NbDans

\* The same elements, one place further.
LEMMA NbDansDecale ==
  ASSUME NEW s, NEW t, NEW X, NEW a \in Nat, NEW b \in Nat,
         \A p \in a .. b : t[p] = s[p + 1]
  PROVE  NbDans(t, X, a, b) = NbDans(s, X, a + 1, b + 1)
<1> DEFINE T == {p \in a .. b : t[p] \in X}
           S == {p \in a + 1 .. b + 1 : s[p] \in X}
           f == [p \in T |-> p + 1]
<1>1. IsFiniteSet(T)
  BY NbDansFini
<1>2. f \in Bijection(T, S)
  <2>1. \A p \in T : f[p] \in S
    OBVIOUS
  <2>2. \A p, q \in T : f[p] = f[q] => p = q
    OBVIOUS
  <2>3. \A u \in S : u - 1 \in T /\ f[u - 1] = u
    <3> TAKE u \in S
    <3>1. u \in Nat /\ u - 1 \in a .. b /\ (u - 1) + 1 = u
      OBVIOUS
    <3>2. t[u - 1] = s[u]
      BY <3>1
    <3> QED
      BY <3>1, <3>2
  <2> QED
    BY <2>1, <2>2, <2>3, Fun_IsBij
<1>3. ExistsBijection(T, S)
  BY <1>2 DEF ExistsBijection
<1> HIDE DEF S, T
<1>4. Cardinality(S) = Cardinality(T)
  BY <1>1, <1>3, FS_Bijection
<1> QED
  BY <1>4 DEF NbDans, S, T

LEMMA NbDansReunion ==
  ASSUME NEW s, NEW X, NEW Y, NEW Z, NEW a \in Nat, NEW b \in Nat,
         X \cap Y = {}, X \subseteq Z, Y \subseteq Z
  PROVE  NbDans(s, X, a, b) + NbDans(s, Y, a, b) <= NbDans(s, Z, a, b)
<1> DEFINE A == {p \in a .. b : s[p] \in X}
           B == {p \in a .. b : s[p] \in Y}
           C == {p \in a .. b : s[p] \in Z}
<1>1. IsFiniteSet(A) /\ IsFiniteSet(B) /\ IsFiniteSet(C)
  BY NbDansFini
<1>2. A \cap B = {} /\ A \cup B \subseteq C
  OBVIOUS
<1> HIDE DEF A, B, C
<1>3. Cardinality(A) \in Nat /\ Cardinality(B) \in Nat /\ Cardinality(C) \in Nat
  BY <1>1, FS_CardinalityType
<1>4. Cardinality(A \cap B) = 0
  BY <1>2, FS_EmptySet
<1>5. Cardinality(A \cup B) = Cardinality(A) + Cardinality(B)
  <2>1. Cardinality(A \cup B) = Cardinality(A) + Cardinality(B) - Cardinality(A \cap B)
    BY <1>1, FS_Union
  <2> QED
    BY <1>3, <1>4, <2>1
<1>6. Cardinality(A \cup B) <= Cardinality(C)
  BY <1>1, <1>2, FS_Subset
<1> QED
  BY <1>5, <1>6 DEF NbDans, A, B, C

\* The same in a whole sequence, after a place of it and up to a place of it.
Total(s, X) == NbDans(s, X, 1, Len(s))
Ensuite(s, X, p) == NbDans(s, X, p + 1, Len(s))
Jusque(s, X, p) == NbDans(s, X, 1, p)

LEMMA NbTypes ==
  ASSUME NEW S, NEW s \in Seq(S), NEW X
  PROVE  /\ Total(s, X) \in Nat
         /\ \A p \in DOMAIN s : Ensuite(s, X, p) \in Nat /\ Jusque(s, X, p) \in Nat
<1>1. Len(s) \in Nat /\ 1 \in Nat
  BY LenProperties
<1>2. \A p \in DOMAIN s : p \in Nat /\ p + 1 \in Nat
  BY LenProperties
<1>3. Total(s, X) \in Nat
  BY <1>1, NbDansFini DEF Total
<1>4. \A p \in DOMAIN s : Ensuite(s, X, p) \in Nat
  BY <1>1, <1>2, NbDansFini DEF Ensuite
<1>5. \A p \in DOMAIN s : Jusque(s, X, p) \in Nat
  BY <1>1, <1>2, NbDansFini DEF Jusque
<1> QED
  BY <1>3, <1>4, <1>5

LEMMA NbReunion ==
  ASSUME NEW S, NEW s \in Seq(S), NEW X, NEW Y, NEW Z,
         X \cap Y = {}, X \subseteq Z, Y \subseteq Z
  PROVE  Total(s, X) + Total(s, Y) <= Total(s, Z)
<1>1. Len(s) \in Nat /\ 1 \in Nat
  BY LenProperties
<1> QED
  BY <1>1, NbDansReunion DEF Total

LEMMA NbNul ==
  ASSUME NEW S, NEW s \in Seq(S), NEW X, Total(s, X) = 0
  PROVE  \A p \in DOMAIN s : s[p] \notin X
<1>1. Len(s) \in Nat /\ DOMAIN s = 1 .. Len(s)
  BY LenProperties
<1> DEFINE A == {p \in 1 .. Len(s) : s[p] \in X}
<1>2. IsFiniteSet(A)
  <2>1. IsFiniteSet(1 .. Len(s)) /\ A \subseteq 1 .. Len(s)
    BY <1>1, FS_Interval
  <2> HIDE DEF A
  <2> QED
    BY <2>1, FS_Subset
<1>3. Cardinality(A) = 0
  BY DEF Total, NbDans
<1>4. A = {}
  <2> HIDE DEF A
  <2> QED
    BY <1>2, <1>3, FS_EmptySet
<1> QED
  BY <1>1, <1>4

\* t is s and one more element, s without its first one, s with another
\* element at place q.
Prolonge(t, s, x) ==
  /\ Len(s) \in Nat /\ DOMAIN s = 1 .. Len(s)
  /\ Len(t) = Len(s) + 1 /\ DOMAIN t = 1 .. Len(s) + 1
  /\ t[Len(s) + 1] = x /\ \A p \in 1 .. Len(s) : t[p] = s[p]
Entame(t, s) ==
  /\ Len(t) \in Nat /\ DOMAIN t = 1 .. Len(t)
  /\ Len(s) = Len(t) + 1 /\ DOMAIN s = 1 .. Len(s) /\ 1 \in DOMAIN s
  /\ \A p \in 1 .. Len(t) : t[p] = s[p + 1]
Retouche(t, s, q, x) ==
  /\ Len(s) \in Nat /\ DOMAIN s = 1 .. Len(s) /\ q \in 1 .. Len(s)
  /\ Len(t) = Len(s) /\ DOMAIN t = DOMAIN s
  /\ t[q] = x /\ \A p \in 1 .. Len(s) : p # q => t[p] = s[p]

LEMMA NbAjout ==
  ASSUME NEW s, NEW t, NEW x, NEW X, Prolonge(t, s, x)
  PROVE  /\ Total(t, X) = Total(s, X) + Un(x, X)
         /\ Ensuite(t, X, Len(s) + 1) = 0
         /\ Jusque(t, X, Len(s) + 1) = Total(s, X) + Un(x, X)
<1> DEFINE n == Len(s)
<1>1. n \in Nat /\ n + 1 \in Nat /\ 1 \in Nat
  BY DEF Prolonge
<1>2. Len(t) = n + 1 /\ t[n + 1] = x /\ \A p \in 1 .. n : t[p] = s[p]
  BY DEF Prolonge
<1> HIDE DEF n
<1>3. NbDans(t, X, 1, n + 1) = NbDans(s, X, 1, n) + Un(x, X)
  <2>1. NbDans(t, X, 1, n + 1) = NbDans(t, X, 1, n) + Un(t[n + 1], X)
    BY <1>1, NbDansDernier
  <2>2. NbDans(t, X, 1, n) = NbDans(s, X, 1, n)
    BY <1>1, <1>2, NbDansAccord
  <2> QED
    BY <1>2, <2>1, <2>2
<1>4. Total(t, X) = Total(s, X) + Un(x, X)
  BY <1>2, <1>3 DEF Total, n
<1>5. Ensuite(t, X, n + 1) = 0
  <2>1. (n + 1) + 1 \in Nat /\ \A p \in (n + 1) + 1 .. n + 1 : t[p] \notin X
    BY <1>1
  <2> QED
    BY <1>1, <1>2, <2>1, NbDansNul DEF Ensuite
<1>6. Jusque(t, X, n + 1) = Total(s, X) + Un(x, X)
  BY <1>3 DEF Jusque, Total, n
<1> QED
  BY <1>4, <1>5, <1>6 DEF n

LEMMA EnsuiteAjout ==
  ASSUME NEW s, NEW t, NEW x, NEW X, Prolonge(t, s, x), NEW p \in DOMAIN s
  PROVE  /\ Ensuite(t, X, p) = Ensuite(s, X, p) + Un(x, X)
         /\ Jusque(t, X, p) = Jusque(s, X, p)
<1> DEFINE n == Len(s)
<1>1. n \in Nat /\ n + 1 \in Nat /\ 1 \in Nat
  BY DEF Prolonge
<1>2. DOMAIN s = 1 .. n /\ Len(t) = n + 1 /\ t[n + 1] = x /\ \A k \in 1 .. n : t[k] = s[k]
  BY DEF Prolonge
<1>3. p \in Nat /\ p + 1 \in Nat /\ p + 1 \in 1 .. n + 1
  BY <1>1, <1>2
<1> HIDE DEF n
<1>4. NbDans(t, X, p + 1, n + 1) = NbDans(s, X, p + 1, n) + Un(x, X)
  <2>1. NbDans(t, X, p + 1, n + 1) = NbDans(t, X, p + 1, n) + Un(t[n + 1], X)
    BY <1>1, <1>3, NbDansDernier
  <2>2. \A k \in p + 1 .. n : t[k] = s[k]
    BY <1>1, <1>2, <1>3
  <2>3. NbDans(t, X, p + 1, n) = NbDans(s, X, p + 1, n)
    BY <1>1, <1>3, <2>2, NbDansAccord
  <2> QED
    BY <1>2, <2>1, <2>3
<1>5. NbDans(t, X, 1, p) = NbDans(s, X, 1, p)
  <2>1. \A k \in 1 .. p : t[k] = s[k]
    BY <1>1, <1>2, <1>3
  <2> QED
    BY <1>1, <1>3, <2>1, NbDansAccord
<1> QED
  BY <1>2, <1>4, <1>5 DEF Ensuite, Jusque, n

LEMMA NbSuite ==
  ASSUME NEW s, NEW t, NEW X, Entame(t, s)
  PROVE  /\ Total(s, X) = Total(t, X) + Un(s[1], X)
         /\ Ensuite(s, X, 1) = Total(t, X) /\ Jusque(s, X, 1) = Un(s[1], X)
<1> DEFINE m == Len(t)
<1>1. m \in Nat /\ m + 1 \in Nat /\ 1 \in Nat /\ 2 \in Nat /\ 1 + 1 = 2 /\ 1 <= m + 1
  BY DEF Entame
<1>2. Len(s) = m + 1 /\ \A k \in 1 .. m : t[k] = s[k + 1]
  BY DEF Entame
<1> HIDE DEF m
<1>3. NbDans(t, X, 1, m) = NbDans(s, X, 1 + 1, m + 1)
  <2>1. \A k \in 1 .. m : t[k] = s[k + 1]
    BY <1>2
  <2> QED
    BY <1>1, <2>1, NbDansDecale
<1>4. NbDans(s, X, 1, m + 1) = NbDans(s, X, 1 + 1, m + 1) + Un(s[1], X)
  BY <1>1, NbDansPremier
<1>5. Jusque(s, X, 1) = Un(s[1], X)
  <2>1. NbDans(s, X, 1, 1) = NbDans(s, X, 1 + 1, 1) + Un(s[1], X)
    <3>1. \A b \in Nat : 1 <= b =>
            NbDans(s, X, 1, b) = NbDans(s, X, 1 + 1, b) + Un(s[1], X)
      <4> TAKE b \in Nat
      <4> QED
        BY <1>1, NbDansPremier
    <3> QED
      BY <1>1, <3>1
  <2>2. NbDans(s, X, 2, 1) = 0
    BY <1>1, NbDansNul
  <2>3. Un(s[1], X) \in Nat
    BY DEF Un
  <2> QED
    BY <1>1, <2>1, <2>2, <2>3 DEF Jusque
<1>6. Total(s, X) = Total(t, X) + Un(s[1], X)
  BY <1>2, <1>3, <1>4 DEF Total, m
<1>7. Ensuite(s, X, 1) = Total(t, X)
  BY <1>2, <1>3 DEF Ensuite, Total, m
<1> QED
  BY <1>5, <1>6, <1>7

LEMMA EnsuiteSuite ==
  ASSUME NEW s, NEW t, NEW X, Entame(t, s), NEW p \in DOMAIN t
  PROVE  /\ p + 1 \in DOMAIN s /\ t[p] = s[p + 1]
         /\ Ensuite(t, X, p) = Ensuite(s, X, p + 1)
         /\ Jusque(s, X, p + 1) = Jusque(t, X, p) + Un(s[1], X)
<1> DEFINE m == Len(t)
<1>1. m \in Nat /\ m + 1 \in Nat /\ 1 \in Nat /\ 1 + 1 = 2
  BY DEF Entame
<1>2. /\ DOMAIN t = 1 .. m /\ Len(s) = m + 1 /\ DOMAIN s = 1 .. m + 1
      /\ \A k \in 1 .. m : t[k] = s[k + 1]
  BY DEF Entame
<1>3. p \in Nat /\ p + 1 \in Nat /\ p \in 1 .. m /\ p + 1 \in 1 .. m + 1 /\ 1 <= p + 1
  BY <1>1, <1>2
<1> HIDE DEF m
<1>4. NbDans(t, X, p + 1, m) = NbDans(s, X, (p + 1) + 1, m + 1)
  <2>1. \A k \in p + 1 .. m : t[k] = s[k + 1]
    BY <1>1, <1>2, <1>3
  <2> QED
    BY <1>1, <1>3, <2>1, NbDansDecale
<1>5. NbDans(t, X, 1, p) = NbDans(s, X, 1 + 1, p + 1)
  <2>1. \A k \in 1 .. p : t[k] = s[k + 1]
    BY <1>1, <1>2, <1>3
  <2> QED
    BY <1>1, <1>3, <2>1, NbDansDecale
<1>6. NbDans(s, X, 1, p + 1) = NbDans(s, X, 1 + 1, p + 1) + Un(s[1], X)
  BY <1>1, <1>3, NbDansPremier
<1>7. Ensuite(t, X, p) = Ensuite(s, X, p + 1)
  BY <1>2, <1>4 DEF Ensuite, m
<1>8. Jusque(s, X, p + 1) = Jusque(t, X, p) + Un(s[1], X)
  BY <1>5, <1>6 DEF Jusque
<1> QED
  BY <1>2, <1>3, <1>7, <1>8

LEMMA JusqueSuite ==
  ASSUME NEW s, NEW t, NEW X, Entame(t, s), NEW p \in DOMAIN t, NEW u, u = Un(s[1], X)
  PROVE  Jusque(s, X, p + 1) = Jusque(t, X, p) + u
<1>1. Jusque(s, X, p + 1) = Jusque(t, X, p) + Un(s[1], X)
  BY EnsuiteSuite
<1> QED
  BY <1>1

\* One element replaced.
LEMMA NbDansChange ==
  ASSUME NEW s, NEW t, NEW X, NEW a \in Nat, NEW b \in Nat, NEW q \in a .. b,
         \A p \in a .. b : p # q => t[p] = s[p]
  PROVE  NbDans(t, X, a, b) + Un(s[q], X) = NbDans(s, X, a, b) + Un(t[q], X)
<1> DEFINE J == (a .. b) \ {q}
           A == {p \in J : s[p] \in X}
           B == {p \in J : t[p] \in X}
<1>1. IsFiniteSet(J)
  <2>1. IsFiniteSet(a .. b) /\ J \subseteq a .. b
    BY FS_Interval
  <2> HIDE DEF J
  <2> QED
    BY <2>1, FS_Subset
<1>2. J \cup {q} = a .. b /\ q \notin J
  OBVIOUS
<1>3. A = B
  OBVIOUS
<1>4. Cardinality(A) \in Nat
  BY <1>1, FS_Subset, FS_CardinalityType
<1> HIDE DEF J
<1>5. Cardinality({p \in J \cup {q} : s[p] \in X}) = Cardinality(A) + Un(s[q], X)
  BY <1>1, <1>2, NbDansPlus
<1>6. Cardinality({p \in J \cup {q} : t[p] \in X}) = Cardinality(B) + Un(t[q], X)
  BY <1>1, <1>2, NbDansPlus
<1> HIDE DEF A, B
<1>7. /\ NbDans(s, X, a, b) = Cardinality(A) + Un(s[q], X)
      /\ NbDans(t, X, a, b) = Cardinality(A) + Un(t[q], X)
  BY <1>2, <1>3, <1>5, <1>6 DEF NbDans
<1>8. Un(s[q], X) \in Nat /\ Un(t[q], X) \in Nat
  BY DEF Un
<1> QED
  BY <1>4, <1>7, <1>8

LEMMA NbRemplace ==
  ASSUME NEW s, NEW t, NEW x, NEW q, NEW X, Retouche(t, s, q, x)
  PROVE  Total(t, X) + Un(s[q], X) = Total(s, X) + Un(x, X)
<1> DEFINE n == Len(s)
<1>1. n \in Nat /\ 1 \in Nat /\ q \in 1 .. n
  BY DEF Retouche
<1>2. Len(t) = n /\ t[q] = x /\ \A p \in 1 .. n : p # q => t[p] = s[p]
  BY DEF Retouche
<1> HIDE DEF n
<1>3. NbDans(t, X, 1, n) + Un(s[q], X) = NbDans(s, X, 1, n) + Un(t[q], X)
  BY <1>1, <1>2, NbDansChange
<1> QED
  BY <1>2, <1>3 DEF Total, n

LEMMA EnsuiteRemplace ==
  ASSUME NEW s, NEW t, NEW x, NEW q, NEW X, Retouche(t, s, q, x), NEW p \in DOMAIN s
  PROVE  \/ /\ Ensuite(t, X, p) + Un(s[q], X) = Ensuite(s, X, p) + Un(x, X)
            /\ Jusque(t, X, p) = Jusque(s, X, p)
         \/ /\ Ensuite(t, X, p) = Ensuite(s, X, p)
            /\ Jusque(t, X, p) + Un(s[q], X) = Jusque(s, X, p) + Un(x, X)
<1> DEFINE n == Len(s)
<1>1. n \in Nat /\ 1 \in Nat /\ DOMAIN s = 1 .. n /\ q \in 1 .. n
  BY DEF Retouche
<1>2. Len(t) = n
  BY DEF Retouche
<1>3. t[q] = x /\ \A k \in 1 .. n : k # q => t[k] = s[k]
  BY DEF Retouche
<1>4. p \in Nat /\ p + 1 \in Nat /\ p \in 1 .. n
  BY <1>1
<1> HIDE DEF n
<1>5. CASE p < q
  <2>1. q \in p + 1 .. n /\ \A k \in p + 1 .. n : k # q => t[k] = s[k]
    BY <1>1, <1>3, <1>4, <1>5
  <2>2. NbDans(t, X, p + 1, n) + Un(s[q], X) = NbDans(s, X, p + 1, n) + Un(t[q], X)
    BY <1>1, <1>4, <2>1, NbDansChange
  <2>3. \A k \in 1 .. p : t[k] = s[k]
    BY <1>1, <1>3, <1>4, <1>5
  <2>4. NbDans(t, X, 1, p) = NbDans(s, X, 1, p)
    BY <1>1, <1>4, <2>3, NbDansAccord
  <2> QED
    BY <1>2, <1>3, <1>5, <2>2, <2>4 DEF Ensuite, Jusque, n
<1>6. CASE ~(p < q)
  <2>1. q \in 1 .. p /\ \A k \in 1 .. p : k # q => t[k] = s[k]
    BY <1>1, <1>3, <1>4, <1>6
  <2>2. NbDans(t, X, 1, p) + Un(s[q], X) = NbDans(s, X, 1, p) + Un(t[q], X)
    BY <1>1, <1>4, <2>1, NbDansChange
  <2>3. \A k \in p + 1 .. n : t[k] = s[k]
    BY <1>1, <1>3, <1>4, <1>6
  <2>4. NbDans(t, X, p + 1, n) = NbDans(s, X, p + 1, n)
    BY <1>1, <1>4, <2>3, NbDansAccord
  <2> QED
    BY <1>2, <1>3, <1>6, <2>2, <2>4 DEF Ensuite, Jusque, n
<1> QED
  BY <1>5, <1>6
-----------------------------------------------------------------------------
(***************************************************************************)
(* What the elements of a sequence give, one after the other.              *)
(***************************************************************************)

Enfilees(F, s) == FlattenSeq([v \in DOMAIN s |-> F[s[v]]])
Donne(F, S, E) == F \in [S -> Seq(E)]

LEMMA EnfileesVide ==
  ASSUME NEW F
  PROVE  Enfilees(F, <<>>) = <<>>
<1> DEFINE u == [v \in DOMAIN <<>> |-> F[<<>>[v]]]
<1>1. u = <<>> /\ Len(u) = 0
  OBVIOUS
<1>2. Enfilees(F, <<>>) = FlattenSeq(u)
  BY DEF Enfilees
<1> HIDE DEF u
<1> QED
  BY <1>1, <1>2, FlattenVide

\* What one element more gives.
LEMMA EnfileesPlus ==
  ASSUME NEW S, NEW E, NEW F, Donne(F, S, E), NEW s \in Seq(S), NEW x \in S
  PROVE  /\ Enfilees(F, s) \in Seq(E)
         /\ Enfilees(F, Append(s, x)) = Enfilees(F, s) \o F[x]
<1> DEFINE m == Len(s)
           u == [v \in DOMAIN s |-> F[s[v]]]
           t == Append(s, x)
           w == [v \in DOMAIN t |-> F[t[v]]]
           d == F[x]
<1>1. m \in Nat /\ DOMAIN s = 1 .. m /\ \A v \in 1 .. m : s[v] \in S
  BY LenProperties, ElementOfSeq
<1>2. DOMAIN t = 1 .. m + 1 /\ t[m + 1] = x /\ \A v \in 1 .. m : t[v] = s[v]
  BY <1>1
<1> HIDE DEF t
<1>3. Enfilees(F, s) = FlattenSeq(u) /\ Enfilees(F, t) = FlattenSeq(w)
  BY DEF Enfilees
<1>4. d \in Seq(E) /\ \A y \in S : F[y] \in Seq(E)
  BY DEF Donne
<1>5. u \in [1 .. m -> Seq(E)]
  BY <1>1, <1>4
<1>6. w \in [1 .. m + 1 -> Seq(E)] /\ w[m + 1] = d /\ \A v \in 1 .. m : w[v] = u[v]
  <2>1. \A v \in 1 .. m + 1 : v \in 1 .. m \/ v = m + 1
    BY <1>1
  <2>2. \A v \in 1 .. m + 1 : t[v] \in S
    BY <1>1, <1>2, <2>1
  <2> QED
    BY <1>1, <1>2, <1>4, <2>2
<1> HIDE DEF u, w, d, m
<1>7. u \in Seq(Seq(E)) /\ Len(u) = m
  BY <1>1, <1>5
<1>8. w = Append(u, d)
  <2> DEFINE q == Append(u, d)
  <2>1. /\ q \in Seq(Seq(E)) /\ Len(q) = m + 1
        /\ q[m + 1] = d /\ \A v \in 1 .. m : q[v] = u[v]
    BY <1>4, <1>7, AppendProperties
  <2>2. w \in Seq(Seq(E)) /\ Len(w) = m + 1
    BY <1>1, <1>6
  <2> HIDE DEF q
  <2>3. \A v \in 1 .. m + 1 : w[v] = q[v]
    <3>1. \A v \in 1 .. m + 1 : v \in 1 .. m \/ v = m + 1
      BY <1>1
    <3> QED
      BY <1>6, <2>1, <3>1
  <2> QED
    BY <2>1, <2>2, <2>3, SeqEqual DEF q
<1> QED
  BY <1>3, <1>4, <1>7, <1>8, FlattenAppend DEF t, d

\* The first elements of a sequence.
LEMMA Prefixe ==
  ASSUME NEW E, NEW s \in Seq(E)
  PROVE  /\ SubSeq(s, 1, 0) = <<>> /\ SubSeq(s, 1, Len(s)) = s
         /\ \A k \in 0 .. Len(s) : SubSeq(s, 1, k) \in Seq(E)
         /\ \A k \in 1 .. Len(s) : SubSeq(s, 1, k) = Append(SubSeq(s, 1, k - 1), s[k])
OBVIOUS

LEMMA EnfileesType ==
  ASSUME NEW S, NEW E, NEW F, Donne(F, S, E), NEW s \in Seq(S)
  PROVE  Enfilees(F, s) \in Seq(E)
<1> DEFINE u == [v \in DOMAIN s |-> F[s[v]]]
<1>1. CASE s = <<>>
  <2>1. Enfilees(F, s) = <<>>
    BY <1>1, EnfileesVide
  <2> QED
    BY <2>1
<1>2. CASE s # <<>>
  <2> DEFINE m == Len(s)
             r == SubSeq(s, 1, m - 1)
             x == s[m]
  <2>1. m \in 1 .. Len(s) /\ m - 1 \in 0 .. Len(s)
    BY <1>2, LenProperties
  <2>2. r \in Seq(S) /\ s = Append(r, x) /\ x \in S
    BY <2>1, Prefixe, ElementOfSeq
  <2> HIDE DEF r, m, x
  <2>3. Enfilees(F, r) \in Seq(E) /\ Enfilees(F, Append(r, x)) = Enfilees(F, r) \o F[x]
    BY <2>2, EnfileesPlus
  <2>4. F[x] \in Seq(E)
    BY <2>2 DEF Donne
  <2> QED
    BY <2>2, <2>3, <2>4, ConcatProperties
<1> QED
  BY <1>1, <1>2

\* The elements that give nothing.
LEMMA EnfileesSans ==
  ASSUME NEW S, NEW E, NEW F, Donne(F, S, E), NEW s \in Seq(S)
  PROVE  (\A k \in DOMAIN s : F[s[k]] = <<>>) => Enfilees(F, s) = <<>>
<1>0. SUFFICES ASSUME \A k \in DOMAIN s : F[s[k]] = <<>>
               PROVE  Enfilees(F, s) = <<>>
  OBVIOUS
<1>8. \A p \in Seq(S), x \in S :
        /\ Enfilees(F, p) \in Seq(E)
        /\ Enfilees(F, Append(p, x)) = Enfilees(F, p) \o F[x]
  BY EnfileesPlus
<1> DEFINE N == Len(s)
           e(k) == Enfilees(F, SubSeq(s, 1, k))
           Bons == {k \in 0 .. N : e(k) = <<>>}
<1>1. N \in Nat /\ DOMAIN s = 1 .. N /\ \A k \in 1 .. N : s[k] \in S
  BY LenProperties, ElementOfSeq
<1>2. e(0) = <<>>
  <2>1. SubSeq(s, 1, 0) = <<>>
    BY Prefixe
  <2> QED
    BY Zenon, <2>1, EnfileesVide
<1>3. ASSUME NEW k \in 1 .. N, e(k - 1) = <<>>
      PROVE  e(k) = <<>>
  <2> DEFINE r == SubSeq(s, 1, k - 1)
             x == s[k]
  <2>1. r \in Seq(S) /\ SubSeq(s, 1, k) = Append(r, x) /\ x \in S /\ F[x] = <<>>
    <3>1. k - 1 \in 0 .. Len(s)
      BY <1>1
    <3> QED
      BY <1>0, <1>1, <3>1, Prefixe
  <2>2. Enfilees(F, r) = <<>> /\ e(k) = Enfilees(F, Append(r, x))
    BY Zenon, <1>3, <2>1
  <2> HIDE DEF r, x, e, N, Bons
  <2>3. Enfilees(F, r) \in Seq(E) /\ Enfilees(F, Append(r, x)) = Enfilees(F, r) \o F[x]
    BY <1>8, <2>1
  <2> QED
    BY <2>1, <2>2, <2>3
<1> HIDE DEF e
<1>4. Bons = 0 .. N
  <2>1. \A k \in 1 .. N : k - 1 \in Bons => k \in Bons
    BY <1>1, <1>3
  <2>2. Bons \in SUBSET (0 .. N) /\ 0 \in Bons
    BY <1>1, <1>2
  <2> HIDE DEF N, Bons
  <2> QED
    BY <1>1, <2>1, <2>2, PremierEchec
<1>5. e(N) = <<>>
  BY <1>1, <1>4
<1>6. SubSeq(s, 1, N) = s
  BY Prefixe
<1> QED
  BY Zenon, <1>5, <1>6 DEF e

\* Each element gives one value.
UnParUn(F, r, w) == Len(w) = Len(r) /\ \A k \in DOMAIN r : F[r[k]] = <<w[k]>>

LEMMA EnfileesUnParUn ==
  ASSUME NEW S, NEW E, NEW F, Donne(F, S, E), NEW s \in Seq(S), NEW r \in Seq(S),
         NEW w \in Seq(E), UnParUn(F, r, w)
  PROVE  Enfilees(F, s \o r) = Enfilees(F, s) \o w
<1>0. Len(w) = Len(r) /\ \A k \in DOMAIN r : F[r[k]] = <<w[k]>>
  BY DEF UnParUn
<1>8. \A p \in Seq(S), x \in S :
        /\ Enfilees(F, p) \in Seq(E)
        /\ Enfilees(F, Append(p, x)) = Enfilees(F, p) \o F[x]
  BY EnfileesPlus
<1> DEFINE N == Len(r)
           a == Enfilees(F, s)
           e(k) == Enfilees(F, s \o SubSeq(r, 1, k))
           b(k) == a \o SubSeq(w, 1, k)
           Bons == {k \in 0 .. N : e(k) = b(k)}
<1>1. N \in Nat /\ DOMAIN r = 1 .. N /\ \A k \in 1 .. N : r[k] \in S /\ w[k] \in E
  BY <1>0, LenProperties, ElementOfSeq
<1>9. a \in Seq(E)
  BY EnfileesType
<1> HIDE DEF a
<1>2. e(0) = b(0)
  <2>1. SubSeq(r, 1, 0) = <<>> /\ SubSeq(w, 1, 0) = <<>>
    BY Prefixe
  <2>2. s \o <<>> = s /\ a \o <<>> = a
    BY <1>9, ConcatEmptySeq
  <2> QED
    BY Zenon, <2>1, <2>2 DEF a
<1>3. ASSUME NEW k \in 1 .. N, e(k - 1) = b(k - 1)
      PROVE  e(k) = b(k)
  <2> DEFINE p == SubSeq(r, 1, k - 1)
             q == SubSeq(w, 1, k - 1)
             x == r[k]
             y == w[k]
  <2>1. p \in Seq(S) /\ SubSeq(r, 1, k) = Append(p, x) /\ x \in S /\ F[x] = <<y>>
    <3>1. k - 1 \in 0 .. Len(r)
      BY <1>1
    <3> QED
      BY <1>1, <1>0, <3>1, Prefixe
  <2>2. q \in Seq(E) /\ SubSeq(w, 1, k) = Append(q, y) /\ y \in E
    <3>1. k - 1 \in 0 .. Len(w) /\ k \in 1 .. Len(w)
      BY <1>0, <1>1
    <3> QED
      BY <1>1, <3>1, Prefixe
  <2>3. Enfilees(F, s \o p) = a \o q
    BY <1>3
  <2>4. e(k) = Enfilees(F, s \o Append(p, x)) /\ b(k) = a \o Append(q, y)
    BY Zenon, <2>1, <2>2
  <2> HIDE DEF p, q, x, y, e, b, N, Bons
  <2> DEFINE u == s \o p
             c == a \o q
  <2>5. u \in Seq(S) /\ s \o Append(p, x) = Append(u, x)
    BY <2>1
  <2>6. c \in Seq(E) /\ a \o Append(q, y) = Append(c, y)
    BY <1>9, <2>2
  <2>7. Enfilees(F, u) = c
    BY <2>3
  <2> HIDE DEF u, c
  <2>8. Enfilees(F, Append(u, x)) = c \o F[x]
    <3>1. Enfilees(F, u) \in Seq(E) /\ Enfilees(F, Append(u, x)) = Enfilees(F, u) \o F[x]
      BY <1>8, <2>1, <2>5
    <3> QED
      BY <2>7, <3>1
  <2>9. c \o <<y>> = Append(c, y)
    BY <2>2, <2>6
  <2> QED
    BY <2>1, <2>4, <2>5, <2>6, <2>8, <2>9
<1> HIDE DEF e, b
<1>4. Bons = 0 .. N
  <2>1. \A k \in 1 .. N : k - 1 \in Bons => k \in Bons
    BY <1>1, <1>3
  <2>2. Bons \in SUBSET (0 .. N) /\ 0 \in Bons
    BY <1>1, <1>2
  <2> HIDE DEF N, Bons
  <2> QED
    BY <1>1, <2>1, <2>2, PremierEchec
<1>5. e(N) = b(N)
  BY <1>1, <1>4
<1>6. SubSeq(r, 1, N) = r /\ SubSeq(w, 1, N) = w
  <2>1. N = Len(w)
    BY <1>0
  <2> HIDE DEF N
  <2> QED
    BY <2>1, Prefixe DEF N
<1> QED
  BY Zenon, <1>5, <1>6 DEF e, b, a
=============================================================================
