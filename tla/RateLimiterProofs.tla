------------------------- MODULE RateLimiterProofs -------------------------
(***************************************************************************)
(* RateLimiter for any identities, pools, capacities, limits and lengths.  *)
(* The promise is about a sum of counts, so the module begins with what    *)
(* SumFunctionOnSet computes.  Induction comes from the well-foundedness   *)
(* of the natural numbers, in the form of NatSets: a set of numbers that   *)
(* has 0 and successors has every number.                                  *)
(***************************************************************************)
EXTENDS RateLimiter, WellFoundedInduction, FiniteSetTheorems, TLAPS

-----------------------------------------------------------------------------
(* Induction *)

LEMMA NatSets ==
    ASSUME NEW S \in SUBSET Nat, 0 \in S, \A n \in S : n + 1 \in S
    PROVE  S = Nat
<1> DEFINE R == OpToRel(<, Nat)
<1> SUFFICES ASSUME Nat \ S # {} PROVE FALSE
  OBVIOUS
<1>1. PICK x \in Nat \ S : \A y \in Nat \ S : ~(<<y, x>> \in R)
  BY NatLessThanWellFounded, WFMin
<1>2. x # 0 /\ x - 1 \in Nat /\ x - 1 \notin S
  OBVIOUS
<1>3. <<x - 1, x>> \in R
  BY <1>2 DEF OpToRel
<1> QED BY <1>1, <1>2, <1>3

-----------------------------------------------------------------------------
(* Sums.  SumFunctionOnSet(f, T) is the value at T of a function of the      *)
(* subsets of T that its definition determines by recursion.                 *)

Least(s) == CHOOSE x \in s : TRUE

SumStep(f, g, s) == IF s = {} THEN 0 ELSE f[Least(s)] + g[s \ {Least(s)}]

Sums(f, T, g) == g = [s \in SUBSET T |-> SumStep(f, g, s)]

LEMMA SumIsChosen ==
    \A f, T : SumFunctionOnSet(f, T) = (CHOOSE g : Sums(f, T, g))[T]
  BY DEF SumFunctionOnSet, FoldFunctionOnSet, MapThenFoldSet, Sums, SumStep, Least

LEMMA Smaller ==
    ASSUME NEW T, IsFiniteSet(T), NEW s \in SUBSET T, NEW n \in Nat,
           s # {}, Cardinality(s) <= n + 1
    PROVE  /\ Least(s) \in s /\ s \ {Least(s)} \in SUBSET T
           /\ Cardinality(s \ {Least(s)}) <= n
<1>1. Least(s) \in s
  BY DEF Least
<1>2. IsFiniteSet(s) /\ Cardinality(s) \in Nat
  BY FS_Subset, FS_CardinalityType
<1>3. Cardinality(s \ {Least(s)}) = Cardinality(s) - 1
  BY <1>1, <1>2, FS_RemoveElement
<1> QED BY <1>1, <1>2, <1>3

\* The recursion is well-founded: there is such a function for a finite T.
LEMMA SumsExist ==
    ASSUME NEW f, NEW T, IsFiniteSet(T)
    PROVE  \E g : Sums(f, T, g)
<1> DEFINE Small(n) == {s \in SUBSET T : Cardinality(s) <= n}
           N == {n \in Nat : \E g : \A s \in Small(n) : g[s] = SumStep(f, g, s)}
<1>1. 0 \in N
  <2>1. \A s \in Small(0) : s = {}
    BY FS_Subset, FS_CardinalityType, FS_EmptySet
  <2>2. \A s \in Small(0) : [t \in {{}} |-> 0][s] = SumStep(f, [t \in {{}} |-> 0], s)
    BY <2>1 DEF SumStep
  <2> QED BY <2>2
<1>2. ASSUME NEW n \in N PROVE n + 1 \in N
  <2>1. PICK g : \A s \in Small(n) : g[s] = SumStep(f, g, s)
    OBVIOUS
  <2> DEFINE h == [s \in SUBSET T |-> IF Cardinality(s) <= n THEN g[s]
                                      ELSE SumStep(f, g, s)]
  <2>2. ASSUME NEW s \in Small(n + 1) PROVE h[s] = SumStep(f, h, s)
    <3>1. CASE s = {}
      <4>1. Cardinality(s) = 0
        BY <3>1, FS_EmptySet
      <4>2. SumStep(f, g, s) = 0 /\ SumStep(f, h, s) = 0
        BY <3>1 DEF SumStep
      <4>3. s \in Small(n) /\ n \in Nat
        BY <4>1
      <4> QED BY <2>1, <4>1, <4>2, <4>3
    <3>2. CASE s # {}
      <4>1. /\ s \ {Least(s)} \in SUBSET T
            /\ Cardinality(s \ {Least(s)}) <= n
        BY <3>2, Smaller
      <4>2. h[s \ {Least(s)}] = g[s \ {Least(s)}]
        BY <4>1
      <4> QED BY <2>1, <3>2, <4>2 DEF SumStep
    <3> QED BY <3>1, <3>2
  <2>3. \E k : \A s \in Small(n + 1) : k[s] = SumStep(f, k, s)
    <3> HIDE DEF h
    <3> QED BY <2>2
  <2> QED BY <2>3
<1>3. N = Nat
  <2> HIDE DEF N
  <2>1. N \in SUBSET Nat
    BY DEF N
  <2> QED BY <1>1, <1>2, <2>1, NatSets
<1>4. Cardinality(T) \in Nat
  BY FS_CardinalityType
<1>5. PICK g : \A s \in Small(Cardinality(T)) : g[s] = SumStep(f, g, s)
  BY <1>3, <1>4
<1>6. Small(Cardinality(T)) = SUBSET T
  BY FS_Subset
<1> DEFINE h == [s \in SUBSET T |-> g[s]]
<1>7. \A s \in SUBSET T : h[s] = SumStep(f, h, s)
  <2> SUFFICES ASSUME NEW s \in SUBSET T PROVE h[s] = SumStep(f, h, s)
    OBVIOUS
  <2>1. s # {} => s \ {Least(s)} \in SUBSET T
    OBVIOUS
  <2> QED BY <1>5, <1>6, <2>1 DEF SumStep
<1>8. h = [s \in SUBSET T |-> SumStep(f, h, s)]
  BY <1>7
<1> QED BY <1>8 DEF Sums

LEMMA SumUnfolds ==
    ASSUME NEW f, NEW T, IsFiniteSet(T)
    PROVE  /\ Sums(f, T, CHOOSE g : Sums(f, T, g))
           /\ SumFunctionOnSet(f, T) = (CHOOSE g : Sums(f, T, g))[T]
  BY SumsExist, SumIsChosen

\* The functions for a set and for one of its subsets agree on the latter.
LEMMA SumsAgree ==
    ASSUME NEW f, NEW T, IsFiniteSet(T), NEW S \in SUBSET T,
           NEW g, Sums(f, T, g), NEW h, Sums(f, S, h)
    PROVE  g[S] = h[S]
<1> DEFINE Small(n) == {s \in SUBSET S : Cardinality(s) <= n}
           N == {n \in Nat : \A s \in Small(n) : g[s] = h[s]}
<1>1. IsFiniteSet(S) /\ Cardinality(S) \in Nat
  BY FS_Subset, FS_CardinalityType
<1>2. \A s \in SUBSET S : g[s] = SumStep(f, g, s) /\ h[s] = SumStep(f, h, s)
  BY DEF Sums
<1>3. 0 \in N
  <2>1. \A s \in Small(0) : s = {}
    BY <1>1, FS_Subset, FS_CardinalityType, FS_EmptySet
  <2> QED BY <1>2, <2>1 DEF SumStep
<1>4. ASSUME NEW n \in N PROVE n + 1 \in N
  <2> SUFFICES ASSUME NEW s \in Small(n + 1) PROVE g[s] = h[s]
    OBVIOUS
  <2>1. CASE s = {}
    BY <1>2, <2>1 DEF SumStep
  <2>2. CASE s # {}
    <3>1. s \ {Least(s)} \in Small(n)
      BY <1>1, <2>2, Smaller
    <3> QED BY <1>2, <2>2, <3>1 DEF SumStep
  <2> QED BY <2>1, <2>2
<1>5. N = Nat
  <2> HIDE DEF N
  <2>1. N \in SUBSET Nat
    BY DEF N
  <2> QED BY <1>3, <1>4, <2>1, NatSets
<1> QED BY <1>1, <1>5

\* The sum of a finite set, one element taken off.
LEMMA SumLeast ==
    ASSUME NEW f, NEW T, IsFiniteSet(T), T # {}
    PROVE  SumFunctionOnSet(f, T)
             = f[Least(T)] + SumFunctionOnSet(f, T \ {Least(T)})
<1> DEFINE S == T \ {Least(T)}
           g == CHOOSE k : Sums(f, T, k)
           h == CHOOSE k : Sums(f, S, k)
<1>1. IsFiniteSet(S) /\ S \in SUBSET T
  BY FS_Subset
<1>2. Sums(f, T, g) /\ SumFunctionOnSet(f, T) = g[T]
  BY SumUnfolds
<1>3. Sums(f, S, h) /\ SumFunctionOnSet(f, S) = h[S]
  BY <1>1, SumUnfolds
<1>4. g[T] = f[Least(T)] + g[S]
  BY <1>2 DEF Sums, SumStep
<1>5. g[S] = h[S]
  <2> HIDE DEF g, h, S
  <2> QED BY <1>1, <1>2, <1>3, SumsAgree
<1> QED BY <1>2, <1>3, <1>4, <1>5

LEMMA SumEmpty == \A f : SumFunctionOnSet(f, {}) = 0
<1> SUFFICES ASSUME NEW f PROVE SumFunctionOnSet(f, {}) = 0
  OBVIOUS
<1> DEFINE g == CHOOSE k : Sums(f, {}, k)
<1>1. Sums(f, {}, g) /\ SumFunctionOnSet(f, {}) = g[{}]
  BY SumUnfolds, FS_EmptySet
<1> QED BY <1>1 DEF Sums, SumStep

\* Counts have a count for their sum.
LEMMA SumType ==
    ASSUME NEW T, IsFiniteSet(T), NEW f, \A x \in T : f[x] \in Nat
    PROVE  SumFunctionOnSet(f, T) \in Nat
<1> DEFINE N == {n \in Nat : \A s \in SUBSET T :
                               Cardinality(s) <= n => SumFunctionOnSet(f, s) \in Nat}
<1>1. 0 \in N
  <2>1. \A s \in SUBSET T : Cardinality(s) <= 0 => s = {}
    BY FS_Subset, FS_CardinalityType, FS_EmptySet
  <2> QED BY <2>1, SumEmpty
<1>2. ASSUME NEW n \in N PROVE n + 1 \in N
  <2> SUFFICES ASSUME NEW s \in SUBSET T, Cardinality(s) <= n + 1
               PROVE  SumFunctionOnSet(f, s) \in Nat
    OBVIOUS
  <2>1. CASE s = {}
    BY <2>1, SumEmpty
  <2>2. CASE s # {}
    <3>1. /\ Least(s) \in s /\ s \ {Least(s)} \in SUBSET T
          /\ Cardinality(s \ {Least(s)}) <= n
      BY <2>2, Smaller
    <3>2. SumFunctionOnSet(f, s) = f[Least(s)] + SumFunctionOnSet(f, s \ {Least(s)})
      BY <2>2, SumLeast, FS_Subset
    <3> QED BY <3>1, <3>2
  <2> QED BY <2>1, <2>2
<1>3. N = Nat
  <2> HIDE DEF N
  <2>1. N \in SUBSET Nat
    BY DEF N
  <2> QED BY <1>1, <1>2, <2>1, NatSets
<1> QED BY <1>3, FS_CardinalityType

\* The order in which the elements are added does not matter.
LEMMA SumAny ==
    ASSUME NEW T, IsFiniteSet(T), NEW f, \A x \in T : f[x] \in Nat, NEW y \in T
    PROVE  SumFunctionOnSet(f, T) = f[y] + SumFunctionOnSet(f, T \ {y})
<1> DEFINE N == {n \in Nat : \A s \in SUBSET T : Cardinality(s) <= n =>
                    \A z \in s : SumFunctionOnSet(f, s)
                                   = f[z] + SumFunctionOnSet(f, s \ {z})}
<1>0. \A s \in SUBSET T : IsFiniteSet(s) /\ SumFunctionOnSet(f, s) \in Nat
  BY FS_Subset, SumType
<1>1. 0 \in N
  <2>1. \A s \in SUBSET T : Cardinality(s) <= 0 => s = {}
    BY FS_Subset, FS_CardinalityType, FS_EmptySet
  <2> QED BY <2>1
<1>2. ASSUME NEW n \in N PROVE n + 1 \in N
  <2> SUFFICES ASSUME NEW s \in SUBSET T, Cardinality(s) <= n + 1, NEW z \in s
               PROVE  SumFunctionOnSet(f, s) = f[z] + SumFunctionOnSet(f, s \ {z})
    OBVIOUS
  <2> DEFINE x == Least(s)
  <2>1. x \in s /\ s \ {x} \in SUBSET T /\ Cardinality(s \ {x}) <= n
    BY Smaller
  <2>2. SumFunctionOnSet(f, s) = f[x] + SumFunctionOnSet(f, s \ {x})
    BY <1>0, SumLeast
  <2>3. CASE z = x
    BY <2>2, <2>3
  <2>4. CASE z # x
    <3>1. SumFunctionOnSet(f, s \ {x})
            = f[z] + SumFunctionOnSet(f, (s \ {x}) \ {z})
      BY <2>1, <2>4
    <3>2. Cardinality(s \ {z}) <= n /\ s \ {z} \in SUBSET T
      <4>1. Cardinality(s \ {z}) = Cardinality(s) - 1 /\ Cardinality(s) \in Nat
        BY <1>0, FS_RemoveElement, FS_CardinalityType
      <4> QED BY <4>1
    <3>3. (s \ {z}) \ {x} = (s \ {x}) \ {z} /\ (s \ {x}) \ {z} \in SUBSET T
      OBVIOUS
    <3>4. SumFunctionOnSet(f, s \ {z})
            = f[x] + SumFunctionOnSet(f, (s \ {x}) \ {z})
      <4>1. SumFunctionOnSet(f, s \ {z})
              = f[x] + SumFunctionOnSet(f, (s \ {z}) \ {x})
        BY <2>1, <2>4, <3>2
      <4> QED BY <3>3, <4>1
    <3>5. SumFunctionOnSet(f, (s \ {x}) \ {z}) \in Nat /\ f[x] \in Nat /\ f[z] \in Nat
      BY <1>0, <2>1, <3>3
    <3>6. \A a, b, c \in Nat : a + (b + c) = b + (a + c)
      OBVIOUS
    <3> HIDE DEF x
    <3> QED BY <2>2, <3>1, <3>4, <3>5, <3>6
  <2> QED BY <2>3, <2>4
<1>3. N = Nat
  <2> HIDE DEF N
  <2>1. N \in SUBSET Nat
    BY DEF N
  <2> QED BY <1>1, <1>2, <2>1, NatSets
<1> QED BY <1>3, FS_CardinalityType

-----------------------------------------------------------------------------
(* Sums over the last n ticks *)

Upto(f, n) == SumFunctionOnSet(f, 0 .. (n - 1))

Counts == [Past -> Nat]

LEMMA SpanLength == Span \in Nat /\ Span > 0
  BY LimiterAssumption DEF Span

LEMMA UptoStep ==
    ASSUME NEW f \in Counts, NEW n \in 0 .. Span
    PROVE  /\ Upto(f, 0) = 0 /\ Upto(f, n) \in Nat
           /\ n < Span => Upto(f, n + 1) = Upto(f, n) + f[n]
<1>1. IsFiniteSet(0 .. (n - 1)) /\ IsFiniteSet(0 .. n)
  BY SpanLength, FS_Interval
<1>2. \A d \in 0 .. (n - 1) : f[d] \in Nat
  BY SpanLength DEF Counts, Past
<1>3. Upto(f, n) \in Nat
  BY <1>1, <1>2, SumType DEF Upto
<1>4. Upto(f, 0) = 0
  <2>1. 0 .. (0 - 1) = {}
    OBVIOUS
  <2> QED BY <2>1, SumEmpty DEF Upto
<1>5. ASSUME n < Span PROVE Upto(f, n + 1) = Upto(f, n) + f[n]
  <2>1. \A d \in 0 .. n : f[d] \in Nat
    BY <1>5, SpanLength DEF Counts, Past
  <2>2. SumFunctionOnSet(f, 0 .. n) = f[n] + SumFunctionOnSet(f, (0 .. n) \ {n})
    <3>1. n \in 0 .. n
      BY SpanLength
    <3> QED BY <1>1, <2>1, <3>1, SumAny
  <2>3. (0 .. n) \ {n} = 0 .. (n - 1) /\ (n + 1) - 1 = n
    BY SpanLength
  <2>4. f[n] \in Nat
    BY <2>1
  <2>5. Upto(f, n + 1) = SumFunctionOnSet(f, 0 .. n)
    BY <2>3 DEF Upto
  <2>6. Upto(f, n) = SumFunctionOnSet(f, (0 .. n) \ {n})
    BY <2>3 DEF Upto
  <2> QED BY <1>3, <2>2, <2>4, <2>5, <2>6
<1> QED BY <1>3, <1>4, <1>5

LEMMA UptoGrows ==
    ASSUME NEW f \in Counts, NEW n \in 0 .. Span, NEW m \in 0 .. n
    PROVE  Upto(f, m) <= Upto(f, n)
<1> DEFINE N == {i \in Nat : m + i <= Span => Upto(f, m) <= Upto(f, m + i)}
<1>1. /\ Span \in Nat /\ m \in Nat /\ n \in Nat /\ n - m \in Nat
      /\ m \in 0 .. Span /\ m + (n - m) = n /\ n <= Span /\ m + 0 = m
  BY SpanLength
<1>2. \A i \in 0 .. (Span - 1) : f[i] \in Nat
  BY DEF Counts, Past
<1>3. 0 \in N
  <2>1. Upto(f, m) \in Nat
    BY <1>1, UptoStep
  <2> QED BY <1>1, <2>1
<1>4. ASSUME NEW i \in N PROVE i + 1 \in N
  <2> SUFFICES ASSUME m + (i + 1) <= Span
               PROVE  Upto(f, m) <= Upto(f, m + (i + 1))
    OBVIOUS
  <2>1. /\ m + i \in 0 .. (Span - 1) /\ m + i \in 0 .. Span /\ m + i < Span
        /\ m + (i + 1) = (m + i) + 1 /\ m + i <= Span
    BY <1>1
  <2>2. Upto(f, m) <= Upto(f, m + i)
    BY <2>1
  <2>3. /\ Upto(f, m) \in Nat /\ Upto(f, m + i) \in Nat /\ f[m + i] \in Nat
        /\ Upto(f, (m + i) + 1) = Upto(f, m + i) + f[m + i]
    BY <1>1, <1>2, <2>1, UptoStep
  <2>4. Upto(f, m) <= Upto(f, (m + i) + 1)
    BY <2>2, <2>3
  <2> QED BY <2>1, <2>4
<1>5. N = Nat
  <2> HIDE DEF N
  <2>1. N \in SUBSET Nat
    BY DEF N
  <2> QED BY <1>3, <1>4, <2>1, NatSets
<1>6. m + (n - m) <= Span => Upto(f, m) <= Upto(f, m + (n - m))
  BY <1>1, <1>5
<1> QED BY <1>1, <1>6

\* A request admitted now is one more in every stretch that ends now.
LEMMA UptoAdmit ==
    ASSUME NEW f \in Counts, NEW h, h = [f EXCEPT ![0] = @ + 1]
    PROVE  h \in Counts /\ \A n \in 1 .. Span : Upto(h, n) = Upto(f, n) + 1
<1> DEFINE N == {i \in Nat : i < Span => Upto(h, i + 1) = Upto(f, i + 1) + 1}
<1>1. 0 \in 0 .. (Span - 1)
  BY SpanLength
<1>2. /\ h \in Counts /\ h[0] = f[0] + 1 /\ f[0] \in Nat
      /\ \A i \in 1 .. (Span - 1) : h[i] = f[i] /\ f[i] \in Nat
  BY <1>1, SpanLength DEF Counts, Past
<1>3. \A i \in 0 .. Span :
         /\ Upto(f, 0) = 0 /\ Upto(h, 0) = 0 /\ Upto(f, i) \in Nat /\ Upto(h, i) \in Nat
         /\ i < Span => /\ Upto(f, i + 1) = Upto(f, i) + f[i]
                          /\ Upto(h, i + 1) = Upto(h, i) + h[i]
  BY <1>2, UptoStep
<1>4. 0 \in N
  <2>1. 0 \in 0 .. Span /\ 0 < Span
    BY SpanLength
  <2>2. Upto(f, 0 + 1) = 0 + f[0] /\ Upto(h, 0 + 1) = 0 + h[0]
    BY <1>3, <2>1
  <2> QED BY <1>2, <2>2
<1>5. ASSUME NEW i \in N PROVE i + 1 \in N
  <2> SUFFICES ASSUME i + 1 < Span
               PROVE  Upto(h, (i + 1) + 1) = Upto(f, (i + 1) + 1) + 1
    OBVIOUS
  <2>1. i + 1 \in 1 .. (Span - 1) /\ i + 1 \in 0 .. Span /\ i < Span
    BY SpanLength
  <2>2. Upto(h, i + 1) = Upto(f, i + 1) + 1
    BY <2>1
  <2>3. /\ Upto(h, (i + 1) + 1) = Upto(h, i + 1) + h[i + 1]
        /\ Upto(f, (i + 1) + 1) = Upto(f, i + 1) + f[i + 1]
        /\ Upto(f, i + 1) \in Nat /\ h[i + 1] = f[i + 1] /\ f[i + 1] \in Nat
    BY <1>2, <1>3, <2>1
  <2> QED BY <2>2, <2>3
<1>6. N = Nat
  <2> HIDE DEF N
  <2>1. N \in SUBSET Nat
    BY DEF N
  <2> QED BY <1>4, <1>5, <2>1, NatSets
<1>7. ASSUME NEW n \in 1 .. Span PROVE Upto(h, n) = Upto(f, n) + 1
  <2>1. n - 1 \in Nat /\ n - 1 < Span /\ (n - 1) + 1 = n
    BY SpanLength
  <2> QED BY <1>6, <2>1
<1> QED BY <1>2, <1>7

\* A tick moves every count one tick further away.
Shifted(f) == [d \in Past |-> IF d = 0 THEN 0 ELSE f[d - 1]]

LEMMA UptoShift ==
    ASSUME NEW f \in Counts
    PROVE  /\ Shifted(f) \in Counts
           /\ \A n \in 0 .. (Span - 1) : Upto(Shifted(f), n + 1) = Upto(f, n)
<1> DEFINE h == Shifted(f)
           N == {i \in Nat : i < Span => Upto(h, i + 1) = Upto(f, i)}
<1>1. 0 \in 0 .. (Span - 1)
  BY SpanLength
<1>2. /\ h \in Counts /\ h[0] = 0
      /\ \A i \in 1 .. (Span - 1) : h[i] = f[i - 1] /\ f[i - 1] \in Nat
  BY <1>1, SpanLength DEF Counts, Past, Shifted
<1> HIDE DEF h
<1>3. \A i \in 0 .. Span :
         /\ Upto(f, 0) = 0 /\ Upto(h, 0) = 0 /\ Upto(f, i) \in Nat /\ Upto(h, i) \in Nat
         /\ i < Span => /\ Upto(f, i + 1) = Upto(f, i) + f[i]
                          /\ Upto(h, i + 1) = Upto(h, i) + h[i]
  BY <1>2, UptoStep
<1>4. 0 \in N
  <2>1. 0 \in 0 .. Span /\ 0 < Span
    BY SpanLength
  <2>2. Upto(h, 0 + 1) = 0 + h[0]
    BY <1>3, <2>1
  <2> QED BY <1>2, <1>3, <2>1, <2>2
<1>5. ASSUME NEW i \in N PROVE i + 1 \in N
  <2> SUFFICES ASSUME i + 1 < Span PROVE Upto(h, (i + 1) + 1) = Upto(f, i + 1)
    OBVIOUS
  <2>1. /\ i + 1 \in 1 .. (Span - 1) /\ i + 1 \in 0 .. Span /\ i \in 0 .. Span
        /\ i < Span /\ (i + 1) - 1 = i
    BY SpanLength
  <2>2. Upto(h, i + 1) = Upto(f, i)
    BY <2>1
  <2>3. /\ Upto(h, (i + 1) + 1) = Upto(h, i + 1) + h[i + 1]
        /\ Upto(f, i + 1) = Upto(f, i) + f[i]
        /\ h[i + 1] = f[i] /\ f[i] \in Nat
    BY <1>2, <1>3, <2>1
  <2> QED BY <2>2, <2>3
<1>6. N = Nat
  <2> HIDE DEF N
  <2>1. N \in SUBSET Nat
    BY DEF N
  <2> QED BY <1>4, <1>5, <2>1, NatSets
<1>7. \A n \in 0 .. (Span - 1) : Upto(h, n + 1) = Upto(f, n)
  BY <1>6, SpanLength
<1> QED BY <1>2, <1>7 DEF h

LEMMA UptoNothing ==
    ASSUME NEW f, f = [d \in Past |-> 0]
    PROVE  f \in Counts /\ Upto(f, Span) = 0
<1> DEFINE N == {i \in Nat : i <= Span => Upto(f, i) = 0}
<1>1. f \in Counts /\ \A i \in 0 .. (Span - 1) : f[i] = 0
  BY DEF Counts, Past
<1>2. \A i \in 0 .. Span :
         Upto(f, 0) = 0 /\ (i < Span => Upto(f, i + 1) = Upto(f, i) + f[i])
  BY <1>1, UptoStep
<1>3. 0 \in N
  BY <1>2, SpanLength
<1>4. ASSUME NEW i \in N PROVE i + 1 \in N
  <2> SUFFICES ASSUME i + 1 <= Span PROVE Upto(f, i + 1) = 0
    OBVIOUS
  <2>1. i \in 0 .. (Span - 1) /\ i \in 0 .. Span /\ i < Span /\ i <= Span
    BY SpanLength
  <2>2. Upto(f, i) = 0 /\ f[i] = 0
    BY <1>1, <2>1
  <2> QED BY <1>2, <2>1, <2>2
<1>5. N = Nat
  <2> HIDE DEF N
  <2>1. N \in SUBSET Nat
    BY DEF N
  <2> QED BY <1>3, <1>4, <2>1, NatSets
<1> QED BY <1>1, <1>5, SpanLength

LEMMA SumIsUpto ==
    ASSUME NEW f \in Counts
    PROVE  SumFunction(f) = Upto(f, Span)
  BY DEF SumFunction, Upto, Counts, Past

-----------------------------------------------------------------------------
(* The invariant *)

WindowRecords == [age : Ages, count : 0 .. Limit + 1]

TypeInv ==
    /\ window \in [Identities -> WindowRecords]
    /\ \A k \in Identities : window[k] # NoWindow => window[k].count > 0
    /\ wait \in [Pools -> -Lag .. Pause]
    /\ admitted \in [Identities -> Counts]
    /\ refused \subseteq Identities

\* The identities are more than anybody could list; the windows are not.
PoolsInv ==
    \A l \in Pools : /\ IsFiniteSet(Held(window, l))
                     /\ Cardinality(Held(window, l)) <= Capacity[l]

\* Since its last pruning a pool has aged by the part of the pause that is over.
PauseInv ==
    \A l \in Pools, k \in Identities :
        wait[l] > -Lag /\ k \in Held(window, l) =>
            window[k].age + wait[l] < Window + Pause

\* Of the requests f lately admitted, r at most were counted by window w, and
\* the first of these was admitted b ticks ago (or out of sight).  Whatever is
\* left, an older window had left when its own first request was out of sight.
Founded(f, w, b, r) ==
    /\ b = Span \/ w.age <= b + Lag
    /\ r <= w.count
    /\ Upto(f, b) < r
    /\ Upto(f, Span) < r + Limit

Accounted(f, w) ==
    IF w = NoWindow THEN Upto(f, Span) < Limit
    ELSE \E b \in 0 .. Span, r \in 1 .. Limit : Founded(f, w, b, r)

AdmittedInv == \A k \in Identities : Accounted(admitted[k], window[k])

IInv == TypeInv /\ PoolsInv /\ PauseInv /\ AdmittedInv /\ FullOfLiveWindows

LEMMA Numbers ==
    /\ Limit \in Nat /\ Limit > 0 /\ Window \in Nat /\ Pause \in Nat /\ Pause > 0
    /\ Lag \in Nat /\ Lag < Window /\ Lags = 0 .. Lag
    /\ Span \in Nat /\ Span > 0 /\ Window = Span + Lag /\ Oldest = Window + Pause + Lag
  BY LimiterAssumption DEF Oldest, Span, Lags

LEMMA EmptyAccount == Accounted([d \in Past |-> 0], NoWindow)
<1> DEFINE f == [d \in Past |-> 0]
<1>1. Upto(f, Span) = 0
  BY UptoNothing
<1> QED BY <1>1, Numbers DEF Accounted

LEMMA InitHolds == Init => IInv
<1> SUFFICES ASSUME Init PROVE IInv
  OBVIOUS
<1>1. TypeInv
  BY Numbers, UptoNothing DEF Init, TypeInv, WindowRecords, NoWindow, Ages
<1>2. \A l \in Pools : Held(window, l) = {}
  BY DEF Init, Held, Known
<1>3. PoolsInv /\ PauseInv
  BY <1>2, FS_EmptySet, LimiterAssumption DEF PoolsInv, PauseInv
<1>4. AdmittedInv
  BY EmptyAccount DEF Init, AdmittedInv
<1>5. FullOfLiveWindows
  BY DEF Init, FullOfLiveWindows
<1> QED BY <1>1, <1>3, <1>4, <1>5 DEF IInv

-----------------------------------------------------------------------------
(* A request *)

\* Once a window is as old as it gets, its first request is out of sight.
LEMMA OverAccount ==
    ASSUME NEW f \in Counts, NEW w \in WindowRecords, Accounted(f, w),
           w = NoWindow \/ w.age >= Window
    PROVE  Upto(f, Span) < Limit
<1> SUFFICES ASSUME w # NoWindow PROVE Upto(f, Span) < Limit
  BY DEF Accounted
<1>1. PICK b \in 0 .. Span, r \in 1 .. Limit : Founded(f, w, b, r)
  BY DEF Accounted
<1>2. w.age \in Nat
  BY Numbers DEF WindowRecords, Ages
<1>3. b = Span
  BY <1>1, <1>2, Numbers DEF Founded
<1>4. Upto(f, Span) \in Nat
  BY Numbers, UptoStep
<1> QED BY <1>1, <1>3, <1>4, Numbers DEF Founded

\* Pruning drops windows that ran out, and only those.
LEMMA Pruning ==
    ASSUME TypeInv, PauseInv, NEW l \in Pools, NEW d \in Lags
    PROVE  /\ Pruned(l, d) \in [Identities -> WindowRecords]
           /\ \A k \in Identities :
                 \/ Pruned(l, d)[k] = window[k]
                 \/ Pruned(l, d)[k] = NoWindow /\ window[k].age >= Window /\ Pool[k] = l
           /\ \A k \in Held(Pruned(l, d), l) :
                 /\ Pruned(l, d)[k] = window[k]
                 /\ Due(l, d) => window[k].age < Window + d
                 /\ window[k].age < Oldest
<1> DEFINE w == Pruned(l, d)
<1>1. NoWindow \in WindowRecords
  BY Numbers DEF NoWindow, Ages, WindowRecords
<1>2. /\ d \in Nat /\ d <= Lag /\ wait[l] \in Int
      /\ \A k \in Identities : window[k] \in WindowRecords /\ window[k].age \in Nat
  BY Numbers DEF TypeInv, WindowRecords, Ages
<1>3. CASE ~Due(l, d)
  <2>1. w = window
    BY <1>3 DEF Pruned
  <2>2. wait[l] > -Lag /\ wait[l] + d > 0
    BY <1>2, <1>3, Numbers DEF Due
  <2> HIDE DEF w
  <2>3. ASSUME NEW k \in Held(w, l) PROVE window[k].age < Oldest
    <3>1. k \in Identities /\ window[k].age + wait[l] < Window + Pause
      BY <2>1, <2>2, <2>3 DEF PauseInv, Held, Known
    <3> QED BY <1>2, <2>2, <3>1, Numbers
  <2>4. /\ w \in [Identities -> WindowRecords]
        /\ \A k \in Identities : w[k] = window[k]
    BY <2>1 DEF TypeInv
  <2>5. Held(w, l) \subseteq Identities
    BY DEF Held, Known
  <2> QED BY <1>3, <2>3, <2>4, <2>5 DEF w
<1>4. CASE Due(l, d)
  <2>1. w = [k \in Identities |->
               IF Pool[k] = l /\ RunOut(window[k], d) THEN NoWindow ELSE window[k]]
    BY <1>4 DEF Pruned
  <2> HIDE DEF w
  <2>2. w \in [Identities -> WindowRecords]
    BY <1>1, <1>2, <2>1
  <2>3. ASSUME NEW k \in Identities
        PROVE  \/ w[k] = window[k]
               \/ w[k] = NoWindow /\ window[k].age >= Window /\ Pool[k] = l
    BY <1>2, <2>1, Numbers DEF RunOut
  <2>4. ASSUME NEW k \in Held(w, l)
        PROVE  w[k] = window[k] /\ window[k].age < Window + d /\ window[k].age < Oldest
    <3>1. k \in Identities /\ Pool[k] = l /\ w[k] # NoWindow
      BY DEF Held, Known
    <3>2. w[k] = window[k] /\ ~RunOut(window[k], d)
      BY <2>1, <3>1
    <3> QED BY <1>2, <3>1, <3>2, Numbers DEF RunOut
  <2> QED BY <2>2, <2>3, <2>4 DEF w
<1> QED BY <1>3, <1>4

LEMMA PruningPools ==
    ASSUME TypeInv, PauseInv, NEW l \in Pools, NEW d \in Lags, NEW m \in Pools
    PROVE  /\ Held(Pruned(l, d), m) \subseteq Held(window, m)
           /\ m # l => Held(Pruned(l, d), m) = Held(window, m)
<1> DEFINE w == Pruned(l, d)
<1>1. \A k \in Identities :
         \/ w[k] = window[k]
         \/ w[k] = NoWindow /\ Pool[k] = l
  BY Pruning
<1> HIDE DEF w
<1>2. Held(w, m) \subseteq Held(window, m) /\ (m # l => Held(w, m) = Held(window, m))
  BY <1>1 DEF Held, Known
<1> QED BY <1>2 DEF w

\* A counted request leaves a window of its own.
LEMMA Counting ==
    ASSUME NEW w \in WindowRecords, NEW d \in Lags
    PROVE  /\ Counted(w, d) \in WindowRecords
           /\ Counted(w, d).count > 0 /\ Counted(w, d) # NoWindow
           /\ \/ /\ w = NoWindow \/ w.age >= Window
                 /\ Counted(w, d).age = d /\ Counted(w, d).count = 1
              \/ /\ w # NoWindow /\ Counted(w, d).age = w.age
                 /\ Counted(w, d).count = IF w.count > Limit THEN w.count ELSE w.count + 1
<1>1. w.age \in Ages /\ w.count \in 0 .. Limit + 1 /\ w = [age |-> w.age, count |-> w.count]
  BY DEF WindowRecords
<1>2. w.age \in Nat /\ w.count \in Nat /\ w.count <= Limit + 1 /\ d \in Nat /\ d <= Lag
  BY <1>1, Numbers DEF Ages
<1>3. CASE w = NoWindow \/ RunOut(w, d)
  <2>1. Counted(w, d) = [age |-> d, count |-> 1]
    BY <1>3 DEF Counted
  <2>2. d \in Ages /\ 1 \in 0 .. Limit + 1
    BY <1>2, Numbers DEF Ages
  <2>3. w = NoWindow \/ w.age >= Window
    BY <1>2, <1>3, Numbers DEF RunOut
  <2> QED BY <2>1, <2>2, <2>3, Numbers DEF NoWindow, WindowRecords
<1>4. CASE ~(w = NoWindow \/ RunOut(w, d))
  <2> DEFINE n == IF w.count > Limit THEN w.count ELSE w.count + 1
  <2>1. Counted(w, d) = [w EXCEPT !.count = n]
    BY <1>4 DEF Counted
  <2>2. n \in 0 .. Limit + 1 /\ n > 0
    BY <1>2, Numbers
  <2> HIDE DEF n
  <2>3. Counted(w, d) = [age |-> w.age, count |-> n]
    BY <1>1, <2>1
  <2>4. /\ Counted(w, d) \in WindowRecords
        /\ Counted(w, d).age = w.age /\ Counted(w, d).count = n
        /\ Counted(w, d) # NoWindow
    BY <1>1, <2>2, <2>3 DEF NoWindow, WindowRecords
  <2> QED BY <1>4, <2>2, <2>4 DEF n
<1> QED BY <1>3, <1>4

\* A request that is admitted is accounted for by the window it leaves.
LEMMA CountedAccount ==
    ASSUME NEW f \in Counts, NEW w \in WindowRecords, NEW d \in Lags, Accounted(f, w),
           NEW h, h = IF Counted(w, d).count > Limit THEN f ELSE [f EXCEPT ![0] = @ + 1]
    PROVE  h \in Counts /\ Accounted(h, Counted(w, d))
<1> DEFINE c == Counted(w, d)
<1>1. /\ c \in WindowRecords /\ c # NoWindow
      /\ \/ (w = NoWindow \/ w.age >= Window) /\ c.age = d /\ c.count = 1
         \/ /\ w # NoWindow /\ c.age = w.age
            /\ c.count = IF w.count > Limit THEN w.count ELSE w.count + 1
  BY Counting
<1>2. w.count \in Nat /\ c.count \in Nat /\ d \in Nat /\ d <= Lag /\ w.age \in Nat
  BY <1>1, Numbers DEF WindowRecords, Ages
<1>3. h = IF c.count > Limit THEN f ELSE [f EXCEPT ![0] = @ + 1]
  OBVIOUS
<1> HIDE DEF c
<1>4. /\ Span \in 0 .. Span /\ Span \in 1 .. Span /\ 0 \in 0 .. Span
      /\ \A b \in 0 .. Span : b = 0 \/ b \in 1 .. Span
  BY Numbers
<1>5. /\ h \in Counts
      /\ \A b \in 0 .. Span : Upto(f, b) \in Nat /\ Upto(h, b) \in Nat
      /\ Upto(f, 0) = 0 /\ Upto(h, 0) = 0
  <2>1. h \in Counts
    BY <1>3, UptoAdmit
  <2> QED BY <1>4, <2>1, UptoStep
<1>6. c.count <= Limit => \A b \in 1 .. Span : Upto(h, b) = Upto(f, b) + 1
  BY <1>2, <1>3, Numbers, UptoAdmit
<1>7. CASE (w = NoWindow \/ w.age >= Window) /\ c.age = d /\ c.count = 1
  <2>1. Upto(f, Span) < Limit
    BY <1>7, OverAccount
  <2>2. Upto(h, Span) = Upto(f, Span) + 1
    <3>1. c.count <= Limit
      BY <1>7, Numbers
    <3> QED BY <1>4, <1>6, <3>1
  <2>3. Founded(h, c, 0, 1) /\ 1 \in 1 .. Limit
    BY <1>2, <1>4, <1>5, <1>7, <2>1, <2>2, Numbers DEF Founded
  <2> QED BY <1>1, <1>4, <1>5, <2>3 DEF Accounted, c
<1>8. CASE /\ w # NoWindow /\ c.age = w.age
           /\ c.count = IF w.count > Limit THEN w.count ELSE w.count + 1
  <2>1. PICK b \in 0 .. Span, r \in 1 .. Limit : Founded(f, w, b, r)
    BY <1>8 DEF Accounted
  <2>2. /\ b = Span \/ c.age <= b + Lag
        /\ r <= w.count /\ Upto(f, b) < r /\ Upto(f, Span) < r + Limit
        /\ Upto(f, b) \in Nat /\ Upto(f, Span) \in Nat /\ r \in Nat
    BY <1>4, <1>5, <1>8, <2>1 DEF Founded
  <2>3. CASE c.count > Limit
    <3>1. h = f /\ r <= c.count
      BY <1>2, <1>3, <1>8, <2>2, <2>3, Numbers
    <3>2. Founded(h, c, b, r)
      BY <2>2, <3>1 DEF Founded
    <3> QED BY <1>1, <1>5, <3>2 DEF Accounted, c
  <2>4. CASE c.count <= Limit
    <3>1. r + 1 <= c.count /\ r + 1 \in 1 .. Limit
      BY <1>2, <1>8, <2>2, <2>4, Numbers
    <3>2. Upto(h, Span) = Upto(f, Span) + 1
      BY <1>4, <1>6, <2>4
    <3>3. Upto(h, b) <= Upto(f, b) + 1
      <4>1. CASE b = 0
        BY <1>5, <4>1
      <4>2. CASE b \in 1 .. Span
        <5>1. Upto(h, b) = Upto(f, b) + 1
          BY <1>6, <2>4, <4>2
        <5> QED BY <2>2, <5>1
      <4> QED BY <1>4, <4>1, <4>2
    <3>4. Upto(h, b) \in Nat /\ Upto(h, Span) \in Nat
      BY <1>4, <1>5
    <3>5. Upto(h, b) < r + 1 /\ Upto(h, Span) < (r + 1) + Limit
      BY <2>2, <3>2, <3>3, <3>4, Numbers
    <3>6. Founded(h, c, b, r + 1)
      BY <2>2, <3>1, <3>5 DEF Founded
    <3> QED BY <1>1, <1>5, <3>1, <3>6 DEF Accounted, c
  <2> QED BY <1>2, <2>3, <2>4, Numbers
<1> QED BY <1>1, <1>7, <1>8

\* A pool that was not pruned this time has windows and is waiting.
LEMMA Waiting ==
    ASSUME TypeInv, NEW l \in Pools, NEW d \in Lags
    PROVE  /\ WaitAfter(l, d) \in [Pools -> -Lag .. Pause]
           /\ \A m \in Pools \ {l} : WaitAfter(l, d)[m] = wait[m]
           /\ \/ WaitAfter(l, d)[l] = Pause - d /\ (Held(window, l) = {} \/ Due(l, d))
              \/ WaitAfter(l, d)[l] = wait[l] /\ ~Due(l, d)
<1>1. wait \in [Pools -> -Lag .. Pause] /\ Pause - d \in -Lag .. Pause
  BY Numbers DEF TypeInv
<1>2. CASE Held(window, l) = {} \/ Due(l, d)
  BY <1>1, <1>2 DEF WaitAfter
<1>3. CASE ~(Held(window, l) = {} \/ Due(l, d))
  BY <1>1, <1>3 DEF WaitAfter
<1> QED BY <1>2, <1>3

\* What check_rate_limit leaves of the windows of pool m.
LEMMA RequestPools ==
    ASSUME IInv, NEW k \in Identities, NEW d \in Lags, Request(k, d), NEW m \in Pools
    PROVE  /\ IsFiniteSet(Held(window', m))
           /\ Cardinality(Held(window', m)) <= Capacity[m]
<1> DEFINE l == Pool[k]
           w == Pruned(l, d)
<1>1. l \in Pools /\ TypeInv /\ PoolsInv /\ PauseInv
  BY LimiterAssumption DEF IInv
<1>2. w \in [Identities -> WindowRecords]
  BY <1>1, Pruning
<1>3. IsFiniteSet(Held(w, m)) /\ Cardinality(Held(w, m)) <= Capacity[m]
  <2>1. Held(w, m) \subseteq Held(window, m)
    BY <1>1, PruningPools
  <2>2. IsFiniteSet(Held(window, m)) /\ Cardinality(Held(window, m)) <= Capacity[m]
    BY <1>1 DEF PoolsInv
  <2>3. Capacity[m] \in Nat
    BY LimiterAssumption
  <2> QED BY <2>1, <2>2, <2>3, FS_Subset, FS_CardinalityType
<1>4. CASE TurnedAway(k, w)
  <2>1. window' = w
    BY <1>4 DEF Request
  <2> QED BY <1>3, <2>1
<1>5. CASE ~TurnedAway(k, w)
  <2>1. window' = [w EXCEPT ![k] = Counted(w[k], d)]
    BY <1>5 DEF Request
  <2>2. w[k] \in WindowRecords
    BY <1>2
  <2>3. Counted(w[k], d) # NoWindow
    BY <2>2, Counting
  <2> HIDE DEF w
  <2>4. CASE m # l
    <3>1. Held(window', m) = Held(w, m)
      BY <1>2, <2>1, <2>4 DEF Held, Known
    <3> QED BY <1>3, <3>1
  <2>5. CASE m = l
    <3>1. Held(window', m) = Held(w, m) \cup {k}
      BY <1>2, <2>1, <2>3, <2>5 DEF Held, Known
    <3>2. CASE k \in Held(w, m)
      <4>1. Held(window', m) = Held(w, m)
        BY <3>1, <3>2
      <4> QED BY <1>3, <4>1
    <3>3. CASE k \notin Held(w, m)
      <4>1. w[k] = NoWindow
        BY <2>5, <3>3 DEF Held, Known
      <4>2. ~(Cardinality(Held(w, m)) >= Capacity[m])
        BY <1>5, <2>5, <4>1 DEF TurnedAway
      <4>3. /\ IsFiniteSet(Held(w, m) \cup {k})
            /\ Cardinality(Held(w, m) \cup {k}) = Cardinality(Held(w, m)) + 1
        BY <1>3, <3>3, FS_AddElement
      <4>4. Cardinality(Held(w, m)) \in Nat /\ Capacity[m] \in Nat
        BY <1>3, FS_CardinalityType, LimiterAssumption
      <4> QED BY <3>1, <4>2, <4>3, <4>4
    <3> QED BY <3>2, <3>3
  <2> QED BY <2>4, <2>5
<1> QED BY <1>4, <1>5

LEMMA RequestKeeps ==
    ASSUME IInv, NEW k \in Identities, NEW d \in Lags, Request(k, d)
    PROVE  IInv'
<1> DEFINE l == Pool[k]
           w == Pruned(l, d)
           c == Counted(w[k], d)
<1>1. /\ l \in Pools /\ TypeInv /\ PoolsInv /\ PauseInv /\ AdmittedInv
      /\ d \in Nat /\ d <= Lag
  BY LimiterAssumption, Numbers DEF IInv
<1>2. /\ w \in [Identities -> WindowRecords]
      /\ \A j \in Identities : \/ w[j] = window[j]
                               \/ w[j] = NoWindow /\ window[j].age >= Window
  BY <1>1, Pruning
<1>3. /\ c \in WindowRecords /\ c.count > 0 /\ c # NoWindow
      /\ c.age = d \/ (w[k] # NoWindow /\ c.age = w[k].age)
  <2>1. w[k] \in WindowRecords
    BY <1>2
  <2> QED BY <2>1, Counting
<1>4. wait' = WaitAfter(l, d)
  BY DEF Request
<1>5. \A j \in Identities : w[j] # NoWindow => w[j].count > 0
  BY <1>1, <1>2 DEF TypeInv
<1>6. ASSUME NEW j \in Identities PROVE Accounted(admitted[j], w[j])
  <2>1. CASE w[j] = window[j]
    BY <1>1, <2>1 DEF AdmittedInv
  <2>2. CASE w[j] = NoWindow /\ window[j].age >= Window
    <3>1. admitted[j] \in Counts /\ window[j] \in WindowRecords
      BY <1>1 DEF TypeInv
    <3>2. Upto(admitted[j], Span) < Limit
      BY <1>1, <2>2, <3>1, OverAccount DEF AdmittedInv
    <3> QED BY <2>2, <3>2 DEF Accounted
  <2> QED BY <1>2, <2>1, <2>2
<1>7. /\ window' \in [Identities -> WindowRecords]
      /\ \A j \in Identities : window'[j] # NoWindow => window'[j].count > 0
      /\ admitted' \in [Identities -> Counts]
      /\ refused' \subseteq Identities
      /\ \A j \in Identities : Accounted(admitted'[j], window'[j])
  <2>1. CASE TurnedAway(k, w)
    <3>1. window' = w /\ refused' = {k} /\ admitted' = admitted
      BY <2>1 DEF Request
    <3> HIDE DEF w
    <3> QED BY <1>1, <1>2, <1>5, <1>6, <3>1 DEF TypeInv
  <2>2. CASE ~TurnedAway(k, w)
    <3> DEFINE h == IF c.count > Limit THEN admitted[k] ELSE [admitted[k] EXCEPT ![0] = @ + 1]
    <3>1. /\ window' = [w EXCEPT ![k] = c] /\ refused' = {}
          /\ admitted' = IF c.count > Limit THEN admitted
                         ELSE [admitted EXCEPT ![k][0] = @ + 1]
      BY <2>2 DEF Request
    <3>2. admitted \in [Identities -> Counts]
      BY <1>1 DEF TypeInv
    <3>3. admitted' = [admitted EXCEPT ![k] = h]
      BY <3>1, <3>2
    <3>4. h \in Counts /\ Accounted(h, c)
      <4>1. /\ admitted[k] \in Counts /\ w[k] \in WindowRecords
            /\ Accounted(admitted[k], w[k])
        BY <1>2, <1>6, <3>2
      <4> QED BY <4>1, CountedAccount
    <3> HIDE DEF h, c, w
    <3> QED BY <1>2, <1>3, <1>5, <1>6, <3>1, <3>2, <3>3, <3>4
  <2> QED BY <2>1, <2>2
<1>8. TypeInv'
  <2>1. wait' \in [Pools -> -Lag .. Pause]
    BY <1>1, <1>4, Waiting
  <2> QED BY <1>7, <2>1 DEF TypeInv
<1>9. AdmittedInv'
  BY <1>7 DEF AdmittedInv
<1>10. PoolsInv'
  BY RequestPools DEF PoolsInv
<1>11. PauseInv'
  <2> SUFFICES ASSUME NEW m \in Pools, NEW j \in Identities,
                      wait'[m] > -Lag, j \in Held(window', m)
               PROVE  window'[j].age + wait'[m] < Window + Pause
    BY DEF PauseInv
  <2>1. wait'[m] \in Int /\ wait'[m] <= Pause
    BY <1>1, <1>4, Waiting, Numbers
  <2>2. Pool[j] = m /\ window'[j] # NoWindow
    BY DEF Held, Known
  <2>3. window'[j] = w[j] \/ (window'[j] = c /\ j = k)
    BY <1>2 DEF Request
  <2>4. CASE window'[j].age = d
    BY <1>1, <2>1, <2>4, Numbers
  <2>5. CASE window'[j].age # d
    <3>1. w[j] # NoWindow /\ window'[j].age = w[j].age
      BY <1>3, <2>2, <2>3, <2>5
    <3>2. j \in Held(w, m)
      BY <2>2, <3>1 DEF Held, Known
    <3>3. j \in Held(window, m) /\ w[j] = window[j] /\ w[j].age \in Nat
      <4>1. j \in Held(window, m)
        BY <1>1, <3>2, PruningPools
      <4>2. w[j] = window[j]
        BY <1>2, <3>1
      <4>3. w[j].age \in Nat
        BY <1>2, Numbers DEF WindowRecords, Ages
      <4> QED BY <4>1, <4>2, <4>3
    <3>4. CASE wait'[m] = wait[m]
      <4>1. window[j].age + wait[m] < Window + Pause
        BY <1>1, <3>3, <3>4 DEF PauseInv
      <4> QED BY <3>1, <3>3, <3>4, <4>1
    <3>5. CASE wait'[m] # wait[m]
      <4>1. m = l /\ (Held(window, l) = {} \/ Due(l, d)) /\ wait'[m] = Pause - d
        BY <1>1, <1>4, <3>5, Waiting
      <4>2. Due(l, d)
        BY <3>3, <4>1
      <4>3. w[j].age < Window + d
        BY <1>1, <3>2, <3>3, <4>1, <4>2, Pruning
      <4> QED BY <1>1, <3>1, <3>3, <4>1, <4>3, Numbers
    <3> QED BY <3>4, <3>5
  <2> QED BY <2>4, <2>5
<1>12. FullOfLiveWindows'
  <2>1. CASE TurnedAway(k, w)
    <3>1. window' = w /\ refused' = {k}
      BY <2>1 DEF Request
    <3>2. Cardinality(Held(w, l)) >= Capacity[l]
      BY <2>1 DEF TurnedAway
    <3>3. \A j \in Held(w, l) : w[j].age < Oldest
      BY <1>1, Pruning
    <3> HIDE DEF w
    <3>4. {j \in Held(w, l) : w[j].age < Oldest} = Held(w, l)
      BY <3>3
    <3> QED BY <3>1, <3>2, <3>4 DEF FullOfLiveWindows
  <2>2. CASE ~TurnedAway(k, w)
    <3>1. refused' = {}
      BY <2>2 DEF Request
    <3> QED BY <3>1 DEF FullOfLiveWindows
  <2> QED BY <2>1, <2>2
<1> QED BY <1>8, <1>9, <1>10, <1>11, <1>12 DEF IInv

-----------------------------------------------------------------------------
(* A tick and a restart *)

\* A window one tick later: nothing asks how old the oldest are.
Later(w) == IF w = NoWindow \/ w.age = Oldest THEN w ELSE [w EXCEPT !.age = @ + 1]

LEMMA LaterWindow ==
    ASSUME NEW w \in WindowRecords
    PROVE  /\ Later(w) \in WindowRecords /\ Later(w).count = w.count
           /\ w = NoWindow <=> Later(w) = NoWindow
           /\ w # NoWindow /\ w.age # Oldest => Later(w).age = w.age + 1
           /\ w.age = Oldest => Later(w).age = w.age
<1>1. /\ w.age \in Ages /\ w.count \in 0 .. Limit + 1
      /\ w = [age |-> w.age, count |-> w.count]
  BY DEF WindowRecords
<1>2. CASE w = NoWindow \/ w.age = Oldest
  BY <1>2 DEF Later
<1>3. CASE ~(w = NoWindow \/ w.age = Oldest)
  <2>1. Later(w) = [age |-> w.age + 1, count |-> w.count]
    BY <1>1, <1>3 DEF Later
  <2>2. Oldest \in Nat
    BY Numbers
  <2>3. w.age \in 0 .. Oldest /\ w.age # Oldest
    BY <1>1, <1>3 DEF Ages
  <2>4. w.age + 1 \in Ages /\ w.age + 1 # 0
    BY <2>2, <2>3 DEF Ages
  <2>5. w.count \in 0 .. Limit + 1
    BY <1>1
  <2> QED BY <1>3, <2>1, <2>4, <2>5 DEF WindowRecords, NoWindow
<1> QED BY <1>2, <1>3

LEMMA LaterAccount ==
    ASSUME NEW f \in Counts, NEW w \in WindowRecords, Accounted(f, w)
    PROVE  Accounted(Shifted(f), Later(w))
<1> DEFINE h == Shifted(f)
           v == Later(w)
<1>1. /\ v \in WindowRecords /\ v.count = w.count
      /\ w = NoWindow <=> v = NoWindow
      /\ w # NoWindow /\ w.age # Oldest => v.age = w.age + 1
      /\ w.age = Oldest => v.age = w.age
  BY LaterWindow
<1>2. w.age \in Nat /\ v.age \in Nat /\ w.count \in Nat
  BY <1>1, Numbers DEF WindowRecords, Ages
<1>3. /\ Span - 1 \in 0 .. (Span - 1) /\ (Span - 1) + 1 = Span
      /\ Span - 1 \in 0 .. Span /\ Span \in 0 .. Span
  BY Numbers
<1>4. /\ h \in Counts /\ Upto(h, Span) = Upto(f, Span - 1)
      /\ Upto(f, Span - 1) <= Upto(f, Span)
      /\ Upto(f, Span) \in Nat /\ Upto(f, Span - 1) \in Nat
      /\ \A n \in 0 .. (Span - 1) : Upto(h, n + 1) = Upto(f, n)
  BY <1>3, UptoShift, UptoGrows, UptoStep
<1> HIDE DEF h, v
<1>5. CASE w = NoWindow
  <2>1. Upto(f, Span) < Limit
    BY <1>5 DEF Accounted
  <2>2. Upto(h, Span) < Limit
    BY <1>4, <2>1, Numbers
  <2> QED BY <1>1, <1>5, <2>2 DEF Accounted, h, v
<1>6. CASE w # NoWindow
  <2>1. PICK b \in 0 .. Span, r \in 1 .. Limit : Founded(f, w, b, r)
    BY <1>6 DEF Accounted
  <2>2. /\ b = Span \/ w.age <= b + Lag
        /\ r <= w.count /\ Upto(f, b) < r /\ Upto(f, Span) < r + Limit
    BY <2>1 DEF Founded
  <2>3. CASE b = Span
    <3>1. Founded(h, v, b, r)
      BY <1>1, <1>4, <2>2, <2>3, Numbers DEF Founded
    <3> QED BY <1>1, <1>6, <3>1 DEF Accounted, h, v
  <2>4. CASE b # Span
    <3>1. b \in 0 .. (Span - 1) /\ b + 1 \in 0 .. Span
      BY <2>4, Numbers
    <3>2. Upto(h, b + 1) = Upto(f, b)
      BY <1>4, <3>1
    <3>3. v.age <= (b + 1) + Lag
      BY <1>1, <1>2, <1>6, <2>2, <2>4, Numbers
    <3>4. Founded(h, v, b + 1, r)
      BY <1>1, <1>4, <2>2, <3>2, <3>3, Numbers DEF Founded
    <3> QED BY <1>1, <1>6, <3>1, <3>4 DEF Accounted, h, v
  <2> QED BY <2>3, <2>4
<1> QED BY <1>5, <1>6

LEMMA TickKeeps ==
    ASSUME IInv, Tick
    PROVE  IInv'
<1>1. TypeInv /\ PoolsInv /\ PauseInv /\ AdmittedInv
  BY DEF IInv
<1>2. /\ window' = [k \in Identities |-> Later(window[k])]
      /\ wait' = [l \in Pools |-> IF wait[l] = -Lag THEN -Lag ELSE wait[l] - 1]
      /\ admitted' = [k \in Identities |-> Shifted(admitted[k])]
      /\ refused' = {}
  BY DEF Tick, Later, Shifted
<1>3. /\ window \in [Identities -> WindowRecords]
      /\ admitted \in [Identities -> Counts]
      /\ wait \in [Pools -> -Lag .. Pause]
  BY <1>1 DEF TypeInv
<1>4. \A k \in Identities :
         /\ window'[k] = Later(window[k]) /\ admitted'[k] = Shifted(admitted[k])
         /\ window'[k] \in WindowRecords /\ window'[k].count = window[k].count
         /\ window[k] = NoWindow <=> window'[k] = NoWindow
         /\ admitted'[k] \in Counts
  BY <1>2, <1>3, LaterWindow, UptoShift
<1>5. TypeInv'
  <2>1. wait' \in [Pools -> -Lag .. Pause]
    BY <1>2, <1>3, Numbers
  <2>2. window' \in [Identities -> WindowRecords]
    BY <1>2, <1>4
  <2>3. admitted' \in [Identities -> Counts]
    BY <1>2, <1>4
  <2>4. \A k \in Identities : window'[k] # NoWindow => window'[k].count > 0
    BY <1>1, <1>4 DEF TypeInv
  <2> QED BY <1>2, <2>1, <2>2, <2>3, <2>4 DEF TypeInv
<1>6. ASSUME NEW l \in Pools PROVE Held(window', l) = Held(window, l)
  BY <1>4 DEF Held, Known
<1>7. PoolsInv'
  BY <1>1, <1>6 DEF PoolsInv
<1>8. PauseInv'
  <2> SUFFICES ASSUME NEW l \in Pools, NEW k \in Identities,
                      wait'[l] > -Lag, k \in Held(window', l)
               PROVE  window'[k].age + wait'[l] < Window + Pause
    BY DEF PauseInv
  <2>1. wait[l] \in Int /\ wait[l] > -Lag /\ wait'[l] = wait[l] - 1
    BY <1>2, <1>3, Numbers
  <2>2. k \in Held(window, l)
    BY <1>6
  <2>3. window[k].age + wait[l] < Window + Pause
    BY <1>1, <2>1, <2>2 DEF PauseInv
  <2>4. window[k] # NoWindow /\ window[k] \in WindowRecords
    BY <1>3, <2>2 DEF Held, Known
  <2>5. window[k].age \in Nat /\ window[k].age # Oldest
    BY <2>1, <2>3, <2>4, Numbers DEF WindowRecords, Ages
  <2>6. window'[k].age = window[k].age + 1
    BY <1>4, <2>4, <2>5, LaterWindow
  <2> QED BY <2>1, <2>3, <2>5, <2>6, Numbers
<1>9. AdmittedInv'
  <2>1. \A k \in Identities : Accounted(Shifted(admitted[k]), Later(window[k]))
    BY <1>1, <1>3, LaterAccount DEF AdmittedInv
  <2>2. \A k \in Identities : Accounted(admitted'[k], window'[k])
    BY <1>4, <2>1
  <2> QED BY <2>2 DEF AdmittedInv
<1>10. FullOfLiveWindows'
  BY <1>2 DEF FullOfLiveWindows
<1> QED BY <1>5, <1>7, <1>8, <1>9, <1>10 DEF IInv

\* Whoever starts again has what Init has.
LEMMA RestartKeeps == Restart => IInv'
<1> SUFFICES ASSUME Restart PROVE IInv'
  OBVIOUS
<1>1. Init'
  BY DEF Init, Restart
<1>2. (Init => IInv)'
  BY InitHolds, PTL
<1> QED BY <1>1, <1>2

-----------------------------------------------------------------------------
(* Theorems *)

\* Every number that the limiter keeps, and the history it is compared with,
\* stays as IInv relates them, whatever is asked and whenever the process starts
\* again.
THEOREM InvariantHolds == Spec => []IInv
<1>1. IInv /\ [Next]_vars => IInv'
  <2> SUFFICES ASSUME IInv, [Next]_vars PROVE IInv'
    OBVIOUS
  <2>1. CASE Tick
    BY <2>1, TickKeeps
  <2>2. CASE Restart
    BY <2>2, RestartKeeps
  <2>3. ASSUME NEW k \in Identities, NEW d \in Lags, Request(k, d) PROVE IInv'
    BY <2>3, RequestKeeps
  <2>4. CASE UNCHANGED vars
    BY <2>4 DEF vars, IInv, TypeInv, PoolsInv, PauseInv, AdmittedInv,
                FullOfLiveWindows, Held, Known
  <2> QED BY <2>1, <2>2, <2>3, <2>4 DEF Next
<1> QED BY InitHolds, <1>1, PTL DEF Spec

\* Ages, counts and waits stay in range and no pool outgrows its capacity,
\* however many identities ask.
THEOREM TypesHold == Spec => []TypeOK
<1>1. IInv => TypeOK
  BY DEF IInv, TypeInv, PoolsInv, TypeOK, WindowRecords, Counts
<1> QED BY <1>1, InvariantHolds, PTL

\* A newcomer is turned away only while its pool is full of windows that were
\* live within the last pause between two prunings.
THEOREM OnlyLivePoolsRefuse == Spec => []FullOfLiveWindows
<1>1. IInv => FullOfLiveWindows
  BY DEF IInv
<1> QED BY <1>1, InvariantHolds, PTL

\* An identity gets fewer than twice its limit admitted within any stretch of a
\* window's length less the lag.  Its window counted at most the limit, and what
\* an older one had left of the stretch is less than the limit.
THEOREM LessThanTwiceTheLimit == Spec => []FewerThanTwice
<1>1. IInv => FewerThanTwice
  <2> SUFFICES ASSUME IInv, NEW k \in Identities
               PROVE  SumFunction(admitted[k]) < 2 * Limit
    BY DEF FewerThanTwice
  <2> DEFINE f == admitted[k]
             w == window[k]
  <2>1. f \in Counts /\ Accounted(f, w)
    BY DEF IInv, TypeInv, AdmittedInv
  <2>2. SumFunction(f) = Upto(f, Span) /\ Upto(f, Span) \in Nat
    BY <2>1, SumIsUpto, UptoStep, Numbers
  <2> HIDE DEF f, w
  <2>3. CASE w = NoWindow
    BY <2>1, <2>2, <2>3, Numbers DEF Accounted, f
  <2>4. CASE w # NoWindow
    <3>1. PICK b \in 0 .. Span, r \in 1 .. Limit : Founded(f, w, b, r)
      BY <2>1, <2>4 DEF Accounted
    <3> QED BY <2>2, <3>1, Numbers DEF Founded, f
  <2> QED BY <2>3, <2>4
<1> QED BY <1>1, InvariantHolds, PTL
=============================================================================
