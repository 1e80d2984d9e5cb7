------------------------------- MODULE DataLemmas -------------------------------
(***************************************************************************)
(* Facts the proofs about several components rest on.  Least and greatest  *)
(* elements of sets of numbers, for a CHOOSE that picks one.  Induction    *)
(* over numbers and sequences, for a property given as a set: the library  *)
(* gives it for an operator, and no prover here can instantiate one.  And  *)
(* what the filter Only keeps.                                             *)
(***************************************************************************)
EXTENDS Filters, FiniteSetTheorems, SequenceTheorems, WellFoundedInduction, TLAPS

\* A set of natural numbers that is not empty has a least element.
LEMMA Smallest ==
    ASSUME NEW S \in SUBSET Nat, S # {}
    PROVE \E x \in S : \A y \in S : x <= y
  <1> DEFINE T == {0..x : x \in S}
             R == StrictSubsetOrdering(Nat)
  <1>1. T \subseteq FiniteSubsetsOf(Nat) /\ T # {}
    <2>1. \A x \in S : 0..x \subseteq Nat /\ IsFiniteSet(0..x)
      BY FS_Interval
    <2>2. QED
      BY <2>1 DEF FiniteSubsetsOf
  <1>2. IsWellFoundedOn(R, FiniteSubsetsOf(Nat))
    BY FS_StrictSubsetOrderingWellFounded
  <1> HIDE DEF R
  <1>3. \E t \in T : \A u \in T : ~(<<u, t>> \in R)
    <2> HIDE DEF T
    <2>1. QED
      BY <1>1, <1>2, WFMin
  <1>4. PICK x \in S : \A y \in S : ~(<<0..y, 0..x>> \in R)
    BY <1>3
  <1>5. ASSUME NEW y \in S, y < x PROVE FALSE
    <2>1. 0..y \subseteq 0..x /\ 0..y # 0..x
      <3>1. x \in 0..x /\ x \notin 0..y
        BY <1>5
      <3>2. QED
        BY <1>5, <3>1
    <2>2. 0..y \in SUBSET Nat /\ 0..x \in SUBSET Nat
      OBVIOUS
    <2>3. <<0..y, 0..x>> \in R
      BY <2>1, <2>2 DEF R, StrictSubsetOrdering
    <2>4. QED
      BY <1>4, <2>3
  <1>6. QED
    BY <1>5

\* One that is bounded from above has a greatest element.
LEMMA Largest ==
    ASSUME NEW S \in SUBSET Int, S # {}, NEW b \in Int, \A x \in S : x <= b
    PROVE \E x \in S : \A y \in S : y <= x
  <1> DEFINE T == {b - x : x \in S}
  <1>1. T \in SUBSET Nat /\ T # {}
    <2>1. \A x \in S : b - x \in Nat
      OBVIOUS
    <2>2. QED
      BY <2>1
  <1>2. \E t \in T : \A u \in T : t <= u
    <2> HIDE DEF T
    <2>1. QED
      BY <1>1, Smallest
  <1>3. PICK x \in S : \A y \in S : b - x <= b - y
    BY <1>2
  <1>4. ASSUME NEW y \in S PROVE y <= x
    <2>1. x \in Int /\ y \in Int /\ b - x <= b - y
      BY <1>3
    <2>2. QED
      BY <2>1
  <1>5. QED
    BY <1>4

---------------------------------------------------------------------------------
\* Induction over the natural numbers, for a property given as a set.
LEMMA Induction ==
    ASSUME NEW P, 0 \in P, \A n \in Nat : n \in P => n + 1 \in P
    PROVE \A n \in Nat : n \in P
  <1> SUFFICES ASSUME Nat \ P # {} PROVE FALSE
    OBVIOUS
  <1>1. PICK x \in Nat \ P : \A y \in Nat \ P : x <= y
    BY Smallest
  <1>2. x # 0 /\ x - 1 \in Nat /\ x - 1 \in P
    BY <1>1
  <1>3. QED
    BY <1>1, <1>2

\* One step of Kept, and the first n steps of it.
KeptStep(s, S, t, n) == IF s[n] \in S THEN Append(t, s[n]) ELSE t
KeptUpTo(s, S, T, g, n) ==
    /\ g \in [0..n -> Seq(T)]
    /\ g[0] = <<>>
    /\ \A i \in 1..n : g[i] = KeptStep(s, S, g[i - 1], i)

LEMMA KeptStepType ==
    ASSUME NEW T, NEW s \in Seq(T), NEW S, NEW t \in Seq(T), NEW n \in 1..Len(s)
    PROVE KeptStep(s, S, t, n) \in Seq(T)
  BY ElementOfSeq, AppendProperties DEF KeptStep

LEMMA KeptUpToExists ==
    ASSUME NEW T, NEW s \in Seq(T), NEW S
    PROVE \E g : KeptUpTo(s, S, T, g, Len(s))
  <1> DEFINE P == {n \in Nat : n <= Len(s) => \E g : KeptUpTo(s, S, T, g, n)}
  <1>1. PICK l \in Nat : l = Len(s)
    BY LenProperties
  <1>2. 0 \in P
    <2>1. [i \in 0..0 |-> <<>>] \in [0..0 -> Seq(T)]
      BY EmptySeq
    <2>2. KeptUpTo(s, S, T, [i \in 0..0 |-> <<>>], 0)
      BY <2>1 DEF KeptUpTo
    <2>3. QED
      BY <2>2
  <1>3. ASSUME NEW n \in Nat, n \in P PROVE n + 1 \in P
    <2>1. SUFFICES ASSUME n + 1 <= l PROVE \E g : KeptUpTo(s, S, T, g, n + 1)
      BY <1>1
    <2>2. PICK g : KeptUpTo(s, S, T, g, n)
      BY <1>1, <1>3, <2>1
    <2> DEFINE e == KeptStep(s, S, g[n], n + 1)
               h == [i \in 0..(n + 1) |-> IF i = n + 1 THEN e ELSE g[i]]
    <2>3. e \in Seq(T)
      <3>1. g[n] \in Seq(T) /\ n + 1 \in 1..Len(s)
        BY <1>1, <2>1, <2>2 DEF KeptUpTo
      <3>2. QED
        BY <3>1, KeptStepType
    <2>4. h \in [0..(n + 1) -> Seq(T)]
      <3> HIDE DEF e
      <3>1. \A i \in 0..(n + 1) : i = n + 1 \/ i \in 0..n
        OBVIOUS
      <3>2. QED
        BY <2>2, <2>3, <3>1 DEF KeptUpTo
    <2>5. h[0] = <<>>
      BY <2>2 DEF KeptUpTo
    <2>6. ASSUME NEW i \in 1..(n + 1) PROVE h[i] = KeptStep(s, S, h[i - 1], i)
      <3>1. CASE i = n + 1
        BY <3>1
      <3>2. CASE i \in 1..n
        <4>1. h[i] = g[i] /\ h[i - 1] = g[i - 1]
          BY <3>2
        <4>2. QED
          BY <2>2, <3>2, <4>1 DEF KeptUpTo
      <3>3. QED
        BY <3>1, <3>2
    <2>7. KeptUpTo(s, S, T, h, n + 1)
      BY <2>4, <2>5, <2>6 DEF KeptUpTo
    <2>8. QED
      BY <2>7
  <1>4. \A n \in Nat : n \in P
    <2> HIDE DEF P
    <2>1. QED
      BY <1>2, <1>3, Induction
  <1>5. l \in P /\ l <= Len(s)
    BY <1>1, <1>4
  <1>6. QED
    BY <1>1, <1>5

\* What is kept of a sequence is defined step by step.
LEMMA KeptProperties ==
    ASSUME NEW T, NEW s \in Seq(T), NEW S
    PROVE KeptUpTo(s, S, T, Kept(s, S), Len(s))
  <1> DEFINE Eq(f) == f = [n \in 0..Len(s) |->
                IF n = 0 THEN <<>>
                ELSE IF s[n] \in S THEN Append(f[n - 1], s[n]) ELSE f[n - 1]]
  <1>1. PICK g : KeptUpTo(s, S, T, g, Len(s))
    BY KeptUpToExists
  <1>2. PICK l \in Nat : l = Len(s)
    BY LenProperties
  <1>3. Eq(g)
    <2>1. ASSUME NEW n \in 0..l
          PROVE g[n] = IF n = 0 THEN <<>>
                       ELSE IF s[n] \in S THEN Append(g[n - 1], s[n]) ELSE g[n - 1]
      <3>1. CASE n = 0
        BY <1>1, <3>1 DEF KeptUpTo
      <3>2. CASE n # 0
        <4>1. n \in 1..Len(s)
          BY <1>2, <3>2
        <4>2. g[n] = KeptStep(s, S, g[n - 1], n)
          BY <1>1, <4>1 DEF KeptUpTo
        <4>3. QED
          BY <3>2, <4>2 DEF KeptStep
      <3>3. QED
        BY <3>1, <3>2
    <2>2. g = [n \in 0..l |-> g[n]]
      BY <1>1, <1>2 DEF KeptUpTo
    <2>3. QED
      BY <1>2, <2>1, <2>2
  <1>4. Kept(s, S) = CHOOSE f : Eq(f)
    BY DEF Kept
  <1>5. Eq(Kept(s, S))
    <2> HIDE DEF Eq
    <2>1. QED
      BY <1>3, <1>4
  <1> DEFINE f == Kept(s, S)
             Q == {n \in Nat : n <= l => f[n] \in Seq(T)}
  <1>6. f[0] = <<>> /\ \A n \in 1..l : f[n] = KeptStep(s, S, f[n - 1], n)
    <2>1. Eq(f)
      BY <1>5
    <2> HIDE DEF f
    <2>2. 0 \in 0..Len(s) /\ f[0] = <<>>
      BY <1>2, <2>1
    <2>3. ASSUME NEW n \in 1..l
          PROVE f[n] = IF s[n] \in S THEN Append(f[n - 1], s[n]) ELSE f[n - 1]
      <3>1. n \in 0..Len(s) /\ n # 0
        BY <1>2
      <3>2. f[n] = IF n = 0 THEN <<>>
                   ELSE IF s[n] \in S THEN Append(f[n - 1], s[n]) ELSE f[n - 1]
        BY <2>1, <3>1, Zenon
      <3>3. QED
        BY <3>1, <3>2
    <2>4. QED
      BY <2>2, <2>3 DEF KeptStep
  <1> HIDE DEF f
  <1>7. 0 \in Q
    BY <1>6, EmptySeq
  <1>8. ASSUME NEW n \in Nat, n \in Q PROVE n + 1 \in Q
    <2>1. SUFFICES ASSUME n + 1 <= l PROVE f[n + 1] \in Seq(T)
      OBVIOUS
    <2>2. f[n] \in Seq(T) /\ n + 1 \in 1..Len(s)
      BY <1>2, <1>8, <2>1
    <2>3. f[n + 1] = KeptStep(s, S, f[n], n + 1)
      BY <1>6, <2>1
    <2>4. QED
      BY <2>2, <2>3, KeptStepType
  <1>9. \A n \in Nat : n \in Q
    <2> HIDE DEF Q
    <2>1. QED
      BY <1>7, <1>8, Induction
  <1>10. f \in [0..l -> Seq(T)]
    <2>1. \A n \in 0..l : f[n] \in Seq(T)
      BY <1>9
    <2>2. f = [n \in 0..l |-> f[n]]
      BY <1>2, <1>5 DEF f
    <2>3. QED
      BY <2>1, <2>2
  <1>11. QED
    BY <1>2, <1>6, <1>10 DEF KeptUpTo, f

\* Induction over the sequences of a set, for a property given as a set.
LEMMA SeqInduction ==
    ASSUME NEW T, NEW P, <<>> \in P,
           \A s \in Seq(T) : \A e \in T : s \in P => Append(s, e) \in P
    PROVE \A s \in Seq(T) : s \in P
  <1> DEFINE Q == {n \in Nat : \A s \in Seq(T) : Len(s) = n => s \in P}
  <1>1. 0 \in Q
    <2>1. \A s \in Seq(T) : Len(s) = 0 => s = <<>>
      BY EmptySeq
    <2>2. QED
      BY <2>1
  <1>2. ASSUME NEW n \in Nat, n \in Q PROVE n + 1 \in Q
    <2>1. SUFFICES ASSUME NEW s \in Seq(T), Len(s) = n + 1 PROVE s \in P
      OBVIOUS
    <2>2. s # <<>>
      BY <2>1, EmptySeq
    <2>3. PICK t \in Seq(T), e \in T : s = Append(t, e)
      BY <2>2, SequenceEmptyOrAppend
    <2>4. Len(t) = n
      BY <2>1, <2>3, AppendProperties, LenProperties
    <2>5. QED
      BY <1>2, <2>3, <2>4
  <1>3. \A n \in Nat : n \in Q
    <2> HIDE DEF Q
    <2>1. QED
      BY <1>1, <1>2, Induction
  <1>4. QED
    BY <1>3, LenProperties

LEMMA OnlyType ==
    ASSUME NEW T, NEW s \in Seq(T), NEW S
    PROVE Only(s, S) \in Seq(T)
  <1>1. Len(s) \in 0..Len(s)
    BY LenProperties
  <1>2. QED
    BY <1>1, KeptProperties DEF Only, KeptUpTo

LEMMA OnlyEmpty == ASSUME NEW S PROVE Only(<<>>, S) = <<>>
  <1>1. <<>> \in Seq({}) /\ Len(<<>>) = 0
    BY EmptySeq
  <1>2. KeptUpTo(<<>>, S, {}, Kept(<<>>, S), 0)
    BY <1>1, KeptProperties
  <1>3. QED
    BY <1>1, <1>2 DEF Only, KeptUpTo

LEMMA OnlyAppend ==
    ASSUME NEW T, NEW s \in Seq(T), NEW e \in T, NEW S
    PROVE Only(Append(s, e), S) = IF e \in S THEN Append(Only(s, S), e) ELSE Only(s, S)
  <1> DEFINE t == Append(s, e)
             f == Kept(s, S)
             g == Kept(t, S)
             P == {n \in Nat : n <= Len(s) => g[n] = f[n]}
  <1>1. PICK l \in Nat : l = Len(s)
    BY LenProperties
  <1>2. t \in Seq(T) /\ Len(t) = l + 1 /\ t[l + 1] = e /\ \A i \in 1..l : t[i] = s[i]
    BY <1>1, AppendProperties
  <1>3. KeptUpTo(s, S, T, f, l) /\ KeptUpTo(t, S, T, g, l + 1)
    BY <1>1, <1>2, KeptProperties
  <1>4. Only(s, S) = f[l] /\ Only(t, S) = g[l + 1]
    BY <1>1, <1>2 DEF Only
  <1> HIDE DEF t, f, g
  <1>5. 0 \in P
    BY <1>3 DEF KeptUpTo
  <1>6. ASSUME NEW n \in Nat, n \in P PROVE n + 1 \in P
    <2>1. SUFFICES ASSUME n + 1 <= l PROVE g[n + 1] = f[n + 1]
      BY <1>1
    <2>2. n + 1 \in 1..l /\ n + 1 \in 1..(l + 1) /\ (n + 1) - 1 = n
      BY <2>1
    <2>3. g[n] = f[n] /\ t[n + 1] = s[n + 1]
      BY <1>1, <1>2, <1>6, <2>1, <2>2
    <2>4. g[n + 1] = KeptStep(t, S, g[n], n + 1) /\ f[n + 1] = KeptStep(s, S, f[n], n + 1)
      BY <1>3, <2>2 DEF KeptUpTo
    <2>5. QED
      BY <2>3, <2>4 DEF KeptStep
  <1>7. \A n \in Nat : n \in P
    <2> HIDE DEF P
    <2>1. QED
      BY <1>5, <1>6, Induction
  <1>8. g[l] = f[l]
    BY <1>1, <1>7
  <1>9. g[l + 1] = KeptStep(t, S, g[l], l + 1)
    <2>1. l + 1 \in 1..(l + 1) /\ (l + 1) - 1 = l
      OBVIOUS
    <2>2. QED
      BY <1>3, <2>1 DEF KeptUpTo
  <1>10. QED
    BY <1>2, <1>4, <1>8, <1>9 DEF KeptStep, t

LEMMA AppendToConcat ==
    ASSUME NEW T, NEW s \in Seq(T), NEW t \in Seq(T), NEW e \in T
    PROVE s \o Append(t, e) = Append(s \o t, e)
  <1>1. Append(t, e) = t \o <<e>> /\ Append(s \o t, e) = (s \o t) \o <<e>> /\ <<e>> \in Seq(T)
    BY AppendIsConcat, ConcatProperties
  <1>2. QED
    BY <1>1, ConcatAssociative

LEMMA OnlyConcat ==
    ASSUME NEW T, NEW s \in Seq(T), NEW t \in Seq(T), NEW S
    PROVE Only(s \o t, S) = Only(s, S) \o Only(t, S)
  <1> DEFINE P == {u \in Seq(T) : Only(s \o u, S) = Only(s, S) \o Only(u, S)}
  <1>1. <<>> \in P
    <2>1. <<>> \in Seq(T) /\ s \o <<>> = s /\ Only(s, S) \o <<>> = Only(s, S)
      BY EmptySeq, OnlyType, ConcatEmptySeq
    <2>2. QED
      BY <2>1, OnlyEmpty
  <1>2. ASSUME NEW u \in Seq(T), NEW e \in T, u \in P PROVE Append(u, e) \in P
    <2>1. Append(u, e) \in Seq(T) /\ s \o u \in Seq(T) /\ s \o Append(u, e) = Append(s \o u, e)
      BY AppendProperties, ConcatProperties, AppendToConcat
    <2>2. Only(s \o u, S) = Only(s, S) \o Only(u, S)
      BY <1>2
    <2>3. Only(s, S) \in Seq(T) /\ Only(u, S) \in Seq(T)
      BY OnlyType
    <2>4. Only(Append(u, e), S) = IF e \in S THEN Append(Only(u, S), e) ELSE Only(u, S)
      BY OnlyAppend
    <2>5. Only(Append(s \o u, e), S) = IF e \in S THEN Append(Only(s \o u, S), e) ELSE Only(s \o u, S)
      BY <2>1, OnlyAppend
    <2>6. Only(s, S) \o Append(Only(u, S), e) = Append(Only(s, S) \o Only(u, S), e)
      BY <2>3, AppendToConcat
    <2>7. QED
      BY <2>1, <2>2, <2>4, <2>5, <2>6, Zenon
  <1>3. \A u \in Seq(T) : u \in P
    <2> HIDE DEF P
    <2>1. QED
      BY <1>1, <1>2, SeqInduction
  <1>4. QED
    BY <1>3

\* Where each element of the filtered sequence was in the sequence.
Places(s, S, o, f) ==
    /\ f \in [1..Len(o) -> 1..Len(s)]
    /\ \A i \in 1..Len(o) : o[i] = s[f[i]] /\ o[i] \in S
    /\ \A i, j \in 1..Len(o) : i < j => f[i] < f[j]
    /\ \A m \in 1..Len(s) : s[m] \in S => \E i \in 1..Len(o) : f[i] = m

LEMMA OnlyPlaces ==
    ASSUME NEW T, NEW s \in Seq(T), NEW S
    PROVE \E f : Places(s, S, Only(s, S), f)
  <1> DEFINE P == {u \in Seq(T) : \E f : Places(u, S, Only(u, S), f)}
  <1>1. <<>> \in P
    <2>1. <<>> \in Seq(T) /\ Len(<<>>) = 0 /\ Only(<<>>, S) = <<>>
      BY EmptySeq, OnlyEmpty
    <2>2. Places(<<>>, S, <<>>, [i \in 1..0 |-> i])
      BY <2>1 DEF Places
    <2>3. QED
      BY <2>1, <2>2
  <1>2. ASSUME NEW u \in Seq(T), NEW e \in T, u \in P PROVE Append(u, e) \in P
    <2> DEFINE v == Append(u, e)
               o == Only(u, S)
    <2>1. PICK f : Places(u, S, o, f)
      BY <1>2
    <2>2. o \in Seq(T)
      BY OnlyType
    <2>3. PICK l \in Nat, k \in Nat : l = Len(u) /\ k = Len(o)
      BY <2>2, LenProperties
    <2>4. v \in Seq(T) /\ Len(v) = l + 1 /\ v[l + 1] = e /\ \A i \in 1..l : v[i] = u[i]
      BY <2>3, AppendProperties
    <2>5. Only(v, S) = IF e \in S THEN Append(o, e) ELSE o
      BY OnlyAppend
    <2> HIDE DEF v, o
    <2>6. CASE e \notin S
      <3>1. Places(v, S, o, f)
        <4>1. f \in [1..k -> 1..(l + 1)] /\ \A i \in 1..k : f[i] \in 1..l
          BY <2>1, <2>3 DEF Places
        <4>2. \A i \in 1..k : o[i] = v[f[i]] /\ o[i] \in S
          BY <2>1, <2>3, <2>4, <4>1 DEF Places
        <4>3. \A i, j \in 1..k : i < j => f[i] < f[j]
          BY <2>1, <2>3 DEF Places
        <4>4. ASSUME NEW m \in 1..(l + 1), v[m] \in S PROVE \E i \in 1..k : f[i] = m
          <5>1. m \in 1..l /\ u[m] \in S
            BY <2>4, <2>6, <4>4
          <5>2. QED
            BY <2>1, <2>3, <5>1 DEF Places
        <4>5. QED
          BY <2>3, <2>4, <4>1, <4>2, <4>3, <4>4 DEF Places
      <3>2. QED
        BY <2>4, <2>5, <2>6, <3>1 DEF v
    <2>7. CASE e \in S
      <3> DEFINE g == [i \in 1..(k + 1) |-> IF i = k + 1 THEN l + 1 ELSE f[i]]
                 w == Append(o, e)
      <3>1. Len(w) = k + 1 /\ w[k + 1] = e /\ \A i \in 1..k : w[i] = o[i]
        BY <2>2, <2>3, AppendProperties
      <3> HIDE DEF w
      <3>2. \A i \in 1..k : f[i] \in 1..l /\ g[i] = f[i]
        BY <2>1, <2>3 DEF Places
      <3>3. g[k + 1] = l + 1 /\ g \in [1..(k + 1) -> 1..(l + 1)]
        <4>1. \A i \in 1..(k + 1) : i = k + 1 \/ (i \in 1..k /\ i # k + 1)
          OBVIOUS
        <4>2. k + 1 \in 1..(k + 1) /\ l + 1 \in 1..(l + 1) /\ 1..l \subseteq 1..(l + 1)
          OBVIOUS
        <4>3. \A i \in 1..(k + 1) : (IF i = k + 1 THEN l + 1 ELSE f[i]) \in 1..(l + 1)
          BY <3>2, <4>1, <4>2
        <4>4. QED
          BY <4>2, <4>3
      <3> HIDE DEF g
      <3>4. ASSUME NEW i \in 1..(k + 1) PROVE w[i] = v[g[i]] /\ w[i] \in S
        <4>1. CASE i = k + 1
          BY <2>4, <2>7, <3>1, <3>3, <4>1
        <4>2. CASE i \in 1..k
          <5>1. o[i] = u[f[i]] /\ o[i] \in S
            BY <2>1, <2>3, <4>2 DEF Places
          <5>2. QED
            BY <2>4, <3>1, <3>2, <4>2, <5>1
        <4>3. QED
          BY <4>1, <4>2
      <3>5. ASSUME NEW i \in 1..(k + 1), NEW j \in 1..(k + 1), i < j PROVE g[i] < g[j]
        <4>1. i \in 1..k /\ (j = k + 1 \/ j \in 1..k)
          BY <3>5
        <4>2. j \in 1..k => f[i] < f[j]
          BY <2>1, <2>3, <3>5, <4>1 DEF Places
        <4>3. QED
          BY <3>2, <3>3, <4>1, <4>2
      <3>6. ASSUME NEW m \in 1..(l + 1), v[m] \in S PROVE \E i \in 1..(k + 1) : g[i] = m
        <4>1. CASE m = l + 1
          BY <3>3, <4>1
        <4>2. CASE m \in 1..l
          <5>1. PICK i \in 1..k : f[i] = m
            BY <2>1, <2>3, <2>4, <3>6, <4>2 DEF Places
          <5>2. i \in 1..(k + 1) /\ g[i] = m
            BY <3>2, <5>1
          <5>3. QED
            BY <5>2
        <4>3. QED
          BY <4>1, <4>2
      <3>7. Places(v, S, w, g)
        BY <2>4, <3>1, <3>3, <3>4, <3>5, <3>6 DEF Places
      <3>8. QED
        BY <2>4, <2>5, <2>7, <3>7 DEF v, w
    <2>8. QED
      BY <2>6, <2>7
  <1>3. \A u \in Seq(T) : u \in P
    <2> HIDE DEF P
    <2>1. QED
      BY <1>1, <1>2, SeqInduction
  <1>4. QED
    BY <1>3

LEMMA HeadAndTail ==
    ASSUME NEW T, NEW s \in Seq(T), s # <<>>
    PROVE s = <<Head(s)>> \o Tail(s)
  <1>1. PICK l \in Nat \ {0} : l = Len(s)
    BY EmptySeq
  <1>2. /\ Head(s) \in T /\ Tail(s) \in Seq(T) /\ Len(Tail(s)) = l - 1
        /\ \A i \in 1..(l - 1) : Tail(s)[i] = s[i + 1]
        /\ Head(s) = s[1]
    BY <1>1, HeadTailProperties
  <1> DEFINE h == <<Head(s)>>
             u == h \o Tail(s)
  <1>3. h \in Seq(T) /\ Len(h) = 1 /\ h[1] = s[1]
    BY <1>2
  <1>4. u \in Seq(T) /\ Len(u) = l /\ \A i \in 1..l : u[i] = IF i <= 1 THEN h[i] ELSE Tail(s)[i - 1]
    <2> HIDE DEF h
    <2>1. 1 + (l - 1) = l
      OBVIOUS
    <2>2. QED
      BY <1>2, <1>3, <2>1, ConcatProperties
  <1> HIDE DEF h, u
  <1>5. ASSUME NEW i \in 1..l PROVE u[i] = s[i]
    <2>1. CASE i = 1
      BY <1>3, <1>4, <2>1
    <2>2. CASE i # 1
      <3>1. i - 1 \in 1..(l - 1) /\ ~(i <= 1) /\ (i - 1) + 1 = i
        BY <2>2
      <3>2. QED
        BY <1>2, <1>4, <3>1
    <2>3. QED
      BY <2>1, <2>2
  <1>6. u = s
    BY <1>1, <1>4, <1>5, SeqEqual
  <1>7. QED
    BY <1>6 DEF u, h

\* The first element goes first.
LEMMA OnlyHead ==
    ASSUME NEW T, NEW s \in Seq(T), s # <<>>, NEW S
    PROVE Only(s, S) = IF Head(s) \in S THEN <<Head(s)>> \o Only(Tail(s), S) ELSE Only(Tail(s), S)
  <1>1. PICK h \in T, t \in Seq(T) : h = Head(s) /\ t = Tail(s)
    BY HeadTailProperties
  <1>2. <<h>> \in Seq(T) /\ <<>> \in Seq(T) /\ <<h>> = Append(<<>>, h)
    BY EmptySeq
  <1>3. Only(s, S) = Only(<<h>>, S) \o Only(t, S)
    <2>1. PICK u \in Seq(T) : u = <<h>>
      BY <1>2
    <2>2. Only(u \o t, S) = Only(u, S) \o Only(t, S)
      BY OnlyConcat
    <2>3. s = <<h>> \o t
      BY <1>1, HeadAndTail
    <2>4. QED
      BY <2>1, <2>2, <2>3, Zenon
  <1>4. Only(Append(<<>>, h), S) = IF h \in S THEN Append(<<>>, h) ELSE <<>>
    <2>1. Only(Append(<<>>, h), S) = IF h \in S THEN Append(Only(<<>>, S), h) ELSE Only(<<>>, S)
      BY <1>2, OnlyAppend
    <2>2. QED
      BY <2>1, OnlyEmpty, Zenon
  <1>5. <<>> \o Only(t, S) = Only(t, S)
    BY OnlyType, ConcatEmptySeq
  <1>6. QED
    BY <1>1, <1>2, <1>3, <1>4, <1>5, Zenon

\* The head of one sequence moves to the end of another, in front of it.
LEMMA HeadMoves ==
    ASSUME NEW T, NEW s \in Seq(T), NEW t \in Seq(T), t # <<>>
    PROVE Append(s, Head(t)) \o Tail(t) = s \o t
  <1>1. Head(t) \in T /\ Tail(t) \in Seq(T) /\ <<Head(t)>> \in Seq(T)
    BY HeadTailProperties
  <1>2. Append(s, Head(t)) = s \o <<Head(t)>>
    BY <1>1, AppendIsConcat
  <1>3. (s \o <<Head(t)>>) \o Tail(t) = s \o (<<Head(t)>> \o Tail(t))
    BY <1>1, ConcatAssociative
  <1>4. QED
    BY <1>2, <1>3, HeadAndTail

LEMMA TailOfConcat ==
    ASSUME NEW T, NEW s \in Seq(T), NEW t \in Seq(T), s # <<>>
    PROVE Head(s \o t) = Head(s) /\ Tail(s \o t) = Tail(s) \o t /\ s \o t # <<>>
  <1>1. Head(s) \in T /\ Tail(s) \in Seq(T) /\ <<Head(s)>> \in Seq(T)
    BY HeadTailProperties
  <1> DEFINE u == Tail(s) \o t
  <1>2. s \o t = <<Head(s)>> \o u /\ u \in Seq(T)
    BY <1>1, HeadAndTail, ConcatAssociative, ConcatProperties
  <1> HIDE DEF u
  <1>3. Head(<<Head(s)>> \o u) = Head(s) /\ Tail(<<Head(s)>> \o u) = u
    BY <1>1, <1>2, SMT
  <1>4. QED
    BY <1>2, <1>3, ConcatEqualIffEmpty DEF u
=================================================================================
