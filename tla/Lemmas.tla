------------------------------- MODULE Lemmas -------------------------------
(***************************************************************************)
(* What the proofs about the server, the client and the database's         *)
(* recovery need of natural numbers, queues and maps.                      *)
(***************************************************************************)
EXTENDS Integers, Sequences, Functions, SequencesExt, Maps, SequenceTheorems, WellFoundedInduction,
        TLAPS

-----------------------------------------------------------------------------
(* Natural numbers and sequences.                                          *)

\* A set of natural numbers has a least element.
LEMMA LeastExists ==
    ASSUME NEW T \in SUBSET Nat, T # {}
    PROVE  \E x \in T : \A y \in T : x <= y
<1> DEFINE R == {ss \in Nat \X Nat : ss[1] < ss[2]}
<1>1. IsWellFoundedOn(R, Nat)
  BY NatLessThanWellFounded DEF OpToRel
<1>2. PICK x \in T : \A y \in T : <<y, x>> \notin R
  BY <1>1, WFMin
<1>3. \A y \in T : ~(y < x)
  BY <1>2
<1> QED
  BY <1>3

\* The first element of a sequence, and what is left without it.
LEMMA TailFacts ==
    ASSUME NEW S, NEW s \in Seq(S), s # <<>>
    PROVE  /\ s[1] \in S /\ s[1] \in Range(s)
           /\ Tail(s) \in Seq(S) /\ Len(Tail(s)) = Len(s) - 1
           /\ Range(Tail(s)) \subseteq Range(s)
<1>1. Len(s) \in Nat \ {0} /\ DOMAIN s = 1..Len(s) /\ Tail(s) \in Seq(S)
      /\ Len(Tail(s)) = Len(s) - 1 /\ \A i \in 1..(Len(s) - 1) : Tail(s)[i] = s[i + 1]
  BY HeadTailProperties, EmptySeq, LenProperties
<1>2. \A i \in DOMAIN Tail(s) : Tail(s)[i] \in Range(s)
  BY <1>1 DEF Range
<1> QED
  BY <1>1, <1>2 DEF Range

\* The elements of two sequences joined.
LEMMA ConcatFacts ==
    ASSUME NEW S, NEW s \in Seq(S), NEW t \in Seq(S)
    PROVE  /\ s \o t \in Seq(S) /\ Len(s \o t) = Len(s) + Len(t)
           /\ Range(s \o t) \subseteq Range(s) \union Range(t)
<1>1. s \o t \in Seq(S) /\ Len(s \o t) = Len(s) + Len(t) /\ DOMAIN (s \o t) = 1..(Len(s) + Len(t))
      /\ DOMAIN s = 1..Len(s) /\ DOMAIN t = 1..Len(t) /\ Len(s) \in Nat /\ Len(t) \in Nat
  BY ConcatProperties, LenProperties
<1>2. \A i \in 1..(Len(s) + Len(t)) : (s \o t)[i] = IF i <= Len(s) THEN s[i] ELSE t[i - Len(s)]
  BY ConcatProperties
<1>3. \A i \in DOMAIN (s \o t) : (s \o t)[i] \in Range(s) \union Range(t)
  BY <1>1, <1>2 DEF Range
<1> QED
  BY <1>1, <1>3 DEF Range

\* The elements of a sequence with one more.
LEMMA AppendFacts ==
    ASSUME NEW S, NEW s \in Seq(S), NEW x \in S
    PROVE  Append(s, x) \in Seq(S) /\ Range(Append(s, x)) \subseteq Range(s) \union {x}
<1>1. Append(s, x) \in Seq(S) /\ Len(Append(s, x)) = Len(s) + 1 /\ DOMAIN s = 1..Len(s)
      /\ \A i \in 1..Len(s) : Append(s, x)[i] = s[i]
  BY AppendProperties, LenProperties
<1>2. Append(s, x)[Len(s) + 1] = x /\ Len(s) \in Nat /\ DOMAIN Append(s, x) = 1..(Len(s) + 1)
  BY <1>1, AppendProperties, LenProperties
<1>3. \A i \in DOMAIN Append(s, x) : Append(s, x)[i] \in Range(s) \union {x}
  BY <1>1, <1>2 DEF Range
<1> QED
  BY <1>1, <1>3 DEF Range

\* Where the elements of a sequence with one more are.
LEMMA AppendAt ==
    ASSUME NEW S, NEW s \in Seq(S), NEW x \in S
    PROVE  /\ Append(s, x) \in Seq(S) /\ Len(Append(s, x)) = Len(s) + 1 /\ Len(s) \in Nat
           /\ \A i \in 1..Len(s) : Append(s, x)[i] = s[i]
           /\ Append(s, x)[Len(s) + 1] = x
BY AppendProperties, LenProperties

\* A sequence without its last element.
LEMMA FrontFacts ==
    ASSUME NEW S, NEW s \in Seq(S), Len(s) > 0
    PROVE  /\ Front(s) \in Seq(S) /\ Len(Front(s)) = Len(s) - 1 /\ Len(s) \in Nat
           /\ \A i \in 1..(Len(s) - 1) : Front(s)[i] = s[i]
<1>1. Len(s) \in Nat
  BY LenProperties
<1>2. \A i \in 1..(Len(s) - 1) : s[i] \in S
  BY <1>1, ElementOfSeq
<1>3. Front(s) = [i \in 1..(Len(s) - 1) |-> s[i]]
  BY <1>1 DEF Front
<1> QED
  BY <1>1, <1>2, <1>3

\* A sequence is one of its own elements, and so are two joined.
LEMMA OwnElements ==
    ASSUME NEW S, NEW s \in Seq(S)
    PROVE  s \in Seq(Range(s))
<1>1. Len(s) \in Nat /\ DOMAIN s = 1..Len(s) /\ s = [i \in 1..Len(s) |-> s[i]]
  BY LenProperties
<1>2. \A i \in 1..Len(s) : s[i] \in Range(s)
  BY <1>1 DEF Range
<1> QED
  BY <1>1, <1>2

\* The same of two sequences joined.
LEMMA JoinOwn ==
    ASSUME NEW s, NEW t, s \in Seq(Range(s)), t \in Seq(Range(t))
    PROVE  /\ s \o t \in Seq(Range(s \o t))
           /\ Range(s \o t) \subseteq Range(s) \union Range(t)
<1> DEFINE S == Range(s) \union Range(t)
<1>1. s \in Seq(S) /\ t \in Seq(S)
  BY SeqMonotonic
<1> HIDE DEF S
<1>2. s \o t \in Seq(S) /\ Range(s \o t) \subseteq Range(s) \union Range(t)
  BY <1>1, ConcatFacts
<1> QED
  BY <1>2, OwnElements

\* No element, or one.
LEMMA PutFacts ==
    ASSUME NEW S, NEW r \in S, NEW put, put = <<>> \/ put = <<r>>
    PROVE  put \in Seq(S) /\ Range(put) \subseteq {r}
<1>1. <<>> \in Seq(S) /\ Range(<<>>) \subseteq {r}
  BY DEF Range
<1>2. <<r>> \in Seq(S) /\ DOMAIN <<r>> = {1} /\ <<r>>[1] = r
  OBVIOUS
<1>3. Range(<<r>>) \subseteq {r}
  BY <1>2 DEF Range
<1> QED
  BY <1>1, <1>2, <1>3

-----------------------------------------------------------------------------
(* FlattenSeq of the community modules, a recursive function.             *)

\* What FlattenSeq computes step by step: the first n of the sequences joined.
IsFlat(f, ss, n) == f = [i \in 1..n |-> IF i = 1 THEN ss[i] ELSE f[i - 1] \o ss[i]]

\* One sequence more.
LEMMA FlatMore ==
    ASSUME NEW ss, NEW n \in Nat, NEW g, IsFlat(g, ss, n)
    PROVE  \E f : IsFlat(f, ss, n + 1)
<1> DEFINE f == [i \in 1..(n + 1) |-> IF i <= n THEN g[i] ELSE IF i = 1 THEN ss[i] ELSE g[i - 1] \o ss[i]]
<1>1. ASSUME NEW i \in 1..(n + 1)
      PROVE  f[i] = IF i = 1 THEN ss[i] ELSE f[i - 1] \o ss[i]
  <2>1. CASE i <= n
    <3>1. i \in 1..n /\ f[i] = g[i]
      BY <2>1
    <3>2. g[i] = IF i = 1 THEN ss[i] ELSE g[i - 1] \o ss[i]
      BY <3>1 DEF IsFlat
    <3>3. i # 1 => f[i - 1] = g[i - 1]
      BY <2>1
    <3> QED
      BY <3>1, <3>2, <3>3
  <2>2. CASE i = n + 1
    <3>1. f[i] = IF i = 1 THEN ss[i] ELSE g[i - 1] \o ss[i]
      BY <2>2
    <3>2. i # 1 => f[i - 1] = g[i - 1]
      BY <2>2
    <3> QED
      BY <3>1, <3>2
  <2> QED
    BY <2>1, <2>2
<1>2. f = [i \in 1..(n + 1) |-> f[i]]
  OBVIOUS
<1> HIDE DEF f
<1>3. f = [i \in 1..(n + 1) |-> IF i = 1 THEN ss[i] ELSE f[i - 1] \o ss[i]]
  BY <1>1, <1>2
<1> QED
  BY <1>3 DEF IsFlat

\* Sequences of elements of S joined are one, no shorter than the first of them.
LEMMA Flattened ==
    ASSUME NEW S, NEW k \in Nat, k # 0, NEW ss \in Seq(Seq(S)), Len(ss) = k
    PROVE  FlattenSeq(ss) \in Seq(S) /\ Len(FlattenSeq(ss)) >= Len(ss[1])
<1> DEFINE D == {n \in Nat : ~ \E f : IsFlat(f, ss, n)}
<1>1. D = {}
  <2> SUFFICES ASSUME D # {} PROVE FALSE
    OBVIOUS
  <2>1. PICK m \in D : \A n \in D : m <= n
    BY LeastExists
  <2>2. IsFlat([i \in 1..0 |-> <<>>], ss, 0)
    BY DEF IsFlat
  <2>3. m # 0 /\ m \in Nat
    BY <2>2
  <2>4. m - 1 \in Nat /\ m - 1 \notin D /\ (m - 1) + 1 = m
    BY <2>1, <2>3
  <2>5. PICK g : IsFlat(g, ss, m - 1)
    BY <2>4
  <2>6. \E f : IsFlat(f, ss, (m - 1) + 1)
    BY <2>4, <2>5, FlatMore
  <2> QED
    BY <2>4, <2>6
<1> DEFINE flat == CHOOSE f : IsFlat(f, ss, k)
<1>2. IsFlat(flat, ss, k)
  <2>1. \E f : IsFlat(f, ss, k)
    BY <1>1
  <2> QED
    BY <2>1
<1>3. FlattenSeq(ss) = flat[k]
  BY Zenon DEF FlattenSeq, IsFlat
<1>4. Len(ss) = k /\ \A i \in 1..k : ss[i] \in Seq(S)
  OBVIOUS
<1> HIDE DEF flat
<1>5. \A i \in 1..k : flat[i] = IF i = 1 THEN ss[i] ELSE flat[i - 1] \o ss[i]
  BY <1>2 DEF IsFlat
<1> DEFINE Good(i) == flat[i] \in Seq(S) /\ Len(flat[i]) >= Len(ss[1])
           Bad == {i \in 1..k : ~Good(i)}
<1>6. Bad = {}
  <2> SUFFICES ASSUME Bad # {} PROVE FALSE
    OBVIOUS
  <2>1. PICK i \in Bad : \A j \in Bad : i <= j
    <3>1. Bad \in SUBSET Nat
      OBVIOUS
    <3> HIDE DEF Bad
    <3> QED
      BY <3>1, LeastExists
  <2>2. i \in 1..k /\ ~Good(i)
    BY <2>1
  <2>3. CASE i = 1
    <3>1. flat[i] = ss[1] /\ ss[1] \in Seq(S)
      BY <1>4, <1>5, <2>2, <2>3
    <3>2. Len(ss[1]) \in Nat
      BY <3>1
    <3> QED
      BY <2>2, <3>1, <3>2
  <2>4. CASE i # 1
    <3>1. i - 1 \in 1..k /\ i - 1 < i
      BY <2>2, <2>4
    <3>2. Good(i - 1)
      BY <2>1, <2>2, <3>1
    <3>3. flat[i] = flat[i - 1] \o ss[i] /\ ss[i] \in Seq(S) /\ ss[1] \in Seq(S)
      <4>1. flat[i] = flat[i - 1] \o ss[i]
        BY <1>5, <2>2, <2>4, Zenon
      <4>2. 1 \in 1..k
        OBVIOUS
      <4> QED
        BY <1>4, <2>2, <4>1, <4>2
    <3>4. PICK a, b : a = flat[i - 1] /\ b = ss[i]
      OBVIOUS
    <3>5. a \in Seq(S) /\ b \in Seq(S) /\ Len(a) >= Len(ss[1])
      BY <3>2, <3>3, <3>4
    <3>6. a \o b \in Seq(S) /\ Len(a \o b) = Len(a) + Len(b)
      BY <3>5, ConcatFacts
    <3>7. Len(a) \in Nat /\ Len(b) \in Nat /\ Len(ss[1]) \in Nat
      BY <3>3, <3>5, LenProperties
    <3> QED
      BY <2>2, <3>3, <3>4, <3>5, <3>6, <3>7
  <2> QED
    BY <2>3, <2>4
<1> QED
  BY <1>3, <1>6

-----------------------------------------------------------------------------
(* Maps.                                                                   *)

\* The functions from some of the elements of S to T.
PartialFn(S, T) == UNION {[D -> T] : D \in SUBSET S}

\* What a function with some keys is.
LEMMA PartialFnElim ==
    ASSUME NEW S, NEW T, NEW f \in PartialFn(S, T)
    PROVE  f \in [DOMAIN f -> T] /\ DOMAIN f \subseteq S
BY DEF PartialFn

\* And how one is told.
LEMMA PartialFnIntro ==
    ASSUME NEW S, NEW T, NEW D \in SUBSET S, NEW f \in [D -> T]
    PROVE  f \in PartialFn(S, T) /\ DOMAIN f = D
BY DEF PartialFn

\* A key entered, or entered anew.
LEMMA WithFacts ==
    ASSUME NEW S, NEW T, NEW f \in PartialFn(S, T), NEW x \in S, NEW y \in T
    PROVE  /\ With(f, x, y) \in PartialFn(S, T)
           /\ DOMAIN With(f, x, y) = DOMAIN f \union {x}
           /\ With(f, x, y)[x] = y
           /\ \A z \in DOMAIN f \ {x} : With(f, x, y)[z] = f[z]
<1>1. f \in [DOMAIN f -> T] /\ DOMAIN f \subseteq S
  BY PartialFnElim
<1>2. With(f, x, y) \in [DOMAIN f \union {x} -> T] /\ DOMAIN f \union {x} \in SUBSET S
  BY <1>1 DEF With
<1> QED
  BY <1>2, PartialFnIntro DEF With

\* Keys taken away.
LEMMA Restricted ==
    ASSUME NEW S, NEW T, NEW f \in PartialFn(S, T), NEW D \in SUBSET DOMAIN f
    PROVE  /\ Restrict(f, D) \in PartialFn(S, T) /\ DOMAIN Restrict(f, D) = D
           /\ \A z \in D : Restrict(f, D)[z] = f[z]
<1>1. f \in [DOMAIN f -> T] /\ DOMAIN f \subseteq S
  BY PartialFnElim
<1>2. Restrict(f, D) \in [D -> T] /\ D \in SUBSET S
  BY <1>1 DEF Restrict
<1> QED
  BY <1>1, <1>2, PartialFnIntro DEF Restrict

\* One key taken away.
LEMMA WithoutFacts ==
    ASSUME NEW S, NEW T, NEW f \in PartialFn(S, T), NEW x
    PROVE  /\ Without(f, x) \in PartialFn(S, T) /\ DOMAIN Without(f, x) = DOMAIN f \ {x}
           /\ \A z \in DOMAIN f \ {x} : Without(f, x)[z] = f[z]
<1>1. f \in [DOMAIN f -> T] /\ DOMAIN f \subseteq S
  BY PartialFnElim
<1>2. Without(f, x) \in [DOMAIN f \ {x} -> T] /\ DOMAIN f \ {x} \in SUBSET S
  BY <1>1 DEF Without
<1> QED
  BY <1>2, PartialFnIntro DEF Without

\* The same map with more values allowed.
LEMMA PartialFnMore ==
    ASSUME NEW S, NEW T, NEW U, T \subseteq U, NEW f \in PartialFn(S, T)
    PROVE  f \in PartialFn(S, U)
<1>1. f \in [DOMAIN f -> T] /\ DOMAIN f \in SUBSET S
  BY PartialFnElim
<1>2. f \in [DOMAIN f -> U]
  BY <1>1
<1> QED
  BY <1>1, <1>2, PartialFnIntro

-----------------------------------------------------------------------------
(* Largest and least numbers.                                              *)

\* There is a number that none in S exceeds.
Bounded(S) == \E n \in Nat : \A k \in S : k <= n

\* A set of numbers with a bound, one number more or some fewer.
LEMMA BoundedFacts ==
    ASSUME NEW S \in SUBSET Nat, Bounded(S)
    PROVE  /\ \A x \in Nat : Bounded(S \cup {x})
           /\ \A T \in SUBSET S : Bounded(T)
<1>1. PICK n \in Nat : \A k \in S : k <= n
  BY DEF Bounded
<1>2. ASSUME NEW x \in Nat
      PROVE  Bounded(S \cup {x})
  <2>1. PICK u \in Nat : u >= n /\ u >= x
    BY <1>1
  <2>2. \A k \in S \cup {x} : k <= u
    BY <1>1, <2>1
  <2> QED
    BY <2>2 DEF Bounded
<1>3. ASSUME NEW T \in SUBSET S
      PROVE  Bounded(T)
  BY <1>1 DEF Bounded
<1> QED
  BY <1>2, <1>3

\* It has a largest one.
LEMMA MaxFacts ==
    ASSUME NEW S \in SUBSET Nat, S # {}, Bounded(S)
    PROVE  Max(S) \in S /\ \A k \in S : k <= Max(S)
<1> DEFINE U == {n \in Nat : \A k \in S : k <= n}
<1>1. PICK n \in U : \A u \in U : n <= u
  BY LeastExists DEF Bounded
<1>2. n \in S
  <2> SUFFICES ASSUME n \notin S PROVE FALSE
    OBVIOUS
  <2>1. PICK k \in S : TRUE
    OBVIOUS
  <2>2. k < n /\ n \in Nat /\ n - 1 \in Nat
    BY <2>1
  <2>3. \A j \in S : j <= n - 1
    BY <2>2
  <2>4. n - 1 \in U
    BY <2>2, <2>3
  <2> QED
    BY <1>1, <2>2, <2>4
<1>3. \E x \in S : \A y \in S : x >= y
  BY <1>2
<1> QED
  BY <1>3 DEF Max

\* Numbers have a least one.
LEMMA MinFacts ==
    ASSUME NEW S \in SUBSET Nat, S # {}
    PROVE  Min(S) \in S /\ \A k \in S : Min(S) <= k
BY LeastExists DEF Min

\* The larger of two numbers, and the smaller.
LEMMA OfTwo ==
    ASSUME NEW a \in Nat, NEW b \in Nat
    PROVE  /\ Max({a, b}) \in Nat /\ a <= Max({a, b}) /\ b <= Max({a, b})
           /\ Min({a, b}) \in {a, b} /\ Min({a, b}) <= a /\ Min({a, b}) <= b
<1>1. Bounded({a, b})
  <2>1. CASE a <= b
    BY <2>1 DEF Bounded
  <2>2. CASE b <= a
    BY <2>2 DEF Bounded
  <2> QED
    BY <2>1, <2>2
<1>2. {a, b} \in SUBSET Nat /\ {a, b} # {}
  OBVIOUS
<1>3. Max({a, b}) \in {a, b} /\ \A k \in {a, b} : k <= Max({a, b})
  BY <1>1, <1>2, MaxFacts
<1>4. Min({a, b}) \in {a, b} /\ \A k \in {a, b} : Min({a, b}) <= k
  BY <1>2, MinFacts
<1> QED
  BY <1>3, <1>4
=============================================================================
