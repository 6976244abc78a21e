-------------------------------- MODULE Sums --------------------------------
(***************************************************************************)
(* Sums over finite sets: what SumFunctionOnSet computes, for every set    *)
(* and every function with integer values.  Balances, tallies and deposits *)
(* are compared with sums over accounts, records and obligations, of which *)
(* a step changes one or two.                                              *)
(***************************************************************************)
EXTENDS Integers, Sequences, FiniteSets, Functions,
        WellFoundedInduction, TLAPS

-----------------------------------------------------------------------------
(* Induction on natural numbers as the existence of a least element. *)

\* A nonempty set of natural numbers has a least element.
LEMMA LeastNat ==
  ASSUME NEW S, S \subseteq Nat, S # {}
  PROVE  \E n \in S : \A m \in S : n <= m
<1> DEFINE R == {p \in Nat \X Nat : p[1] < p[2]}
<1>1. IsWellFoundedOn(R, Nat)
  BY NatLessThanWellFounded DEF OpToRel
<1>2. \A x, y \in Nat : x < y => <<x, y>> \in R
  OBVIOUS
<1> HIDE DEF R
<1>3. PICK n \in S : \A m \in S : ~(<<m, n>> \in R)
  BY <1>1, WFMin
<1>4. ASSUME NEW m \in S PROVE n <= m
  <2>1. m \in Nat /\ n \in Nat
    OBVIOUS
  <2>2. ~(m < n)
    BY <2>1, <1>2, <1>3
  <2> QED BY <2>1, <2>2
<1> QED BY <1>4

\* A set that has 0 and the successor of each of its members has all numbers.
LEMMA NatSet ==
  ASSUME NEW S, 0 \in S, \A n \in Nat : n \in S => n + 1 \in S
  PROVE  Nat \subseteq S
<1> DEFINE Out == {n \in Nat : n \notin S}
<1>1. SUFFICES ASSUME Out # {} PROVE FALSE
  OBVIOUS
<1>2. PICK n \in Out : \A m \in Out : n <= m
  BY <1>1, LeastNat
<1>3. n \in Nat /\ n # 0 /\ n - 1 \in Nat
  BY <1>2
<1>4. n - 1 \notin Out
  BY <1>2, <1>3
<1>5. (n - 1) + 1 \in S
  BY <1>3, <1>4
<1> QED BY <1>2, <1>3, <1>5

-----------------------------------------------------------------------------
(* Finite sets, as sets that k places have room for. *)

Covered(S, k) == \E f : \A x \in S : \E i \in 1 .. k : f[i] = x
Finite(S) == \E k \in Nat : Covered(S, k)

\* A finite set and its subsets have room in some number of places.
LEMMA FiniteSubset ==
  ASSUME NEW S, IsFiniteSet(S) \/ Finite(S), NEW T \in SUBSET S
  PROVE  Finite(T)
<1>1. Finite(S)
  <2>1. CASE IsFiniteSet(S)
    <3>1. PICK q \in Seq(S) : \A x \in S : \E n \in 1 .. Len(q) : q[n] = x
      BY <2>1 DEF IsFiniteSet
    <3>2. Len(q) \in Nat /\ Covered(S, Len(q))
      BY <3>1 DEF Covered
    <3> QED BY <3>2 DEF Finite
  <2> QED BY <2>1
<1> QED BY <1>1 DEF Finite, Covered

\* Without one of its elements a set needs one place less: the last place takes
\* the one that becomes free.
LEMMA SmallerSet ==
  ASSUME NEW S, NEW k \in Nat, Covered(S, k + 1), NEW x \in S
  PROVE  Covered(S \ {x}, k)
<1>1. PICK f : \A y \in S : \E i \in 1 .. k + 1 : f[i] = y
  BY DEF Covered
<1>2. PICK j \in 1 .. k + 1 : f[j] = x
  BY <1>1
<1> DEFINE g == [i \in 1 .. k |-> IF i = j THEN f[k + 1] ELSE f[i]]
<1>3. ASSUME NEW y \in S \ {x} PROVE \E i \in 1 .. k : g[i] = y
  <2>1. PICK i \in 1 .. k + 1 : f[i] = y
    BY <1>1
  <2>2. i # j
    BY <1>2, <2>1
  <2>3. CASE i = k + 1
    <3>1. j \in 1 .. k /\ g[j] = y
      BY <2>1, <2>2, <2>3
    <3> QED BY <3>1
  <2>4. CASE i # k + 1
    <3>1. i \in 1 .. k /\ g[i] = y
      BY <2>1, <2>2, <2>4
    <3> QED BY <3>1
  <2> QED BY <2>3, <2>4
<1> HIDE DEF g
<1> QED BY <1>3 DEF Covered

\* A family of subsets of S that has {} and each set of which a set without one
\* of its elements is a member, has S.
LEMMA GrowingSets ==
  ASSUME NEW S, Finite(S), NEW G, {} \in G,
         \A s \in SUBSET S : \A x \in s : s \ {x} \in G => s \in G
  PROVE  S \in G
<1> DEFINE Good == {k \in Nat : \A s \in SUBSET S : Covered(s, k) => s \in G}
<1>1. 0 \in Good
  <2>1. \A s \in SUBSET S : Covered(s, 0) => s = {}
    BY DEF Covered
  <2> QED BY <2>1
<1>2. ASSUME NEW k \in Nat, k \in Good PROVE k + 1 \in Good
  <2>1. ASSUME NEW s \in SUBSET S, Covered(s, k + 1), s # {} PROVE s \in G
    <3>1. PICK x \in s : TRUE
      BY <2>1
    <3>2. s \ {x} \in SUBSET S /\ Covered(s \ {x}, k)
      BY <2>1, SmallerSet
    <3>3. s \ {x} \in G
      BY <1>2, <3>2
    <3> QED BY <3>3
  <2>2. \A s \in SUBSET S : Covered(s, k + 1) => s \in G
    BY <2>1
  <2> QED BY <2>2
<1>3. PICK k \in Nat : Covered(S, k)
  BY DEF Finite
<1>4. k \in Good
  BY <1>1, <1>2, <1>3, NatSet
<1> QED BY <1>3, <1>4

-----------------------------------------------------------------------------
(* The recursion of SumFunctionOnSet *)

Pick(s) == CHOOSE x \in s : TRUE
SumBody(f, g, s) == IF s = {} THEN 0 ELSE f[Pick(s)] + g[s \ {Pick(s)}]
IsSum(f, g, S) == g = [s \in SUBSET S |-> SumBody(f, g, s)]

\* The recursive function in the definition.
Iter(f, S) == CHOOSE g : IsSum(f, g, S)

\* SumFunctionOnSet unfolds to it.
LEMMA SumIsIter ==
  ASSUME NEW f, NEW S
  PROVE  SumFunctionOnSet(f, S) = Iter(f, S)[S]
BY DEF SumFunctionOnSet, FoldFunctionOnSet, MapThenFoldSet, Iter, IsSum, SumBody, Pick

\* There is such a function: for k + 1 places it is the one for k places, used
\* once more.
LEMMA IterIsSum ==
  ASSUME NEW f, NEW S, Finite(S)
  PROVE  IsSum(f, Iter(f, S), S)
<1> DEFINE UpTo(g, k) ==
        /\ g = [s \in SUBSET S |-> g[s]]
        /\ \A s \in SUBSET S : Covered(s, k) => g[s] = SumBody(f, g, s)
           Good == {k \in Nat : \E g : UpTo(g, k)}
<1>2. 0 \in Good
  <2> DEFINE g == [s \in SUBSET S |-> 0]
  <2>1. ASSUME NEW s \in SUBSET S, Covered(s, 0) PROVE g[s] = SumBody(f, g, s)
    <3>1. s = {}
      BY <2>1 DEF Covered
    <3> QED BY <3>1 DEF SumBody
  <2>2. UpTo(g, 0)
    BY <2>1
  <2> QED BY <2>2
<1>3. ASSUME NEW k \in Nat, k \in Good PROVE k + 1 \in Good
  <2>1. PICK g : UpTo(g, k)
    BY <1>3
  <2> DEFINE h == [s \in SUBSET S |-> IF Covered(s, k) THEN g[s] ELSE SumBody(f, g, s)]
  <2>2. ASSUME NEW s \in SUBSET S, Covered(s, k + 1) PROVE h[s] = SumBody(f, h, s)
    <3>1. h[s] = SumBody(f, g, s)
      BY <2>1
    <3>2. CASE s = {}
      BY <3>1, <3>2 DEF SumBody
    <3>3. CASE s # {}
      <4>1. Pick(s) \in s
        BY <3>3 DEF Pick
      <4>2. s \ {Pick(s)} \in SUBSET S
        OBVIOUS
      <4>3. Covered(s \ {Pick(s)}, k)
        BY <2>2, <4>1, SmallerSet
      <4>4. h[s \ {Pick(s)}] = g[s \ {Pick(s)}]
        BY <4>2, <4>3
      <4> QED BY <3>1, <4>4 DEF SumBody
    <3> QED BY <3>2, <3>3
  <2>3. UpTo(h, k + 1)
    BY <2>2
  <2> HIDE DEF UpTo, h
  <2>4. k + 1 \in Nat
    OBVIOUS
  <2> QED BY <2>3, <2>4
<1>4. PICK k \in Nat : Covered(S, k)
  BY DEF Finite
<1>5. k \in Good
  BY <1>2, <1>3, <1>4, NatSet
<1>6. PICK g : UpTo(g, k)
  BY <1>5
<1>7. \A s \in SUBSET S : g[s] = SumBody(f, g, s)
  BY <1>4, <1>6 DEF Covered
<1>8. \E h : IsSum(f, h, S)
  BY <1>6, <1>7 DEF IsSum
<1> QED BY <1>8 DEF Iter

\* What the recursive functions for a set and for a subset of it have in common.
LEMMA IterAgrees ==
  ASSUME NEW f, NEW S, Finite(S), NEW T \in SUBSET S
  PROVE  Iter(f, T)[T] = Iter(f, S)[T]
<1> DEFINE g == Iter(f, S)
           h == Iter(f, T)
           Good == {k \in Nat : \A s \in SUBSET T : Covered(s, k) => g[s] = h[s]}
<1>1. Finite(T)
  BY FiniteSubset
<1>2. IsSum(f, g, S) /\ IsSum(f, h, T)
  BY <1>1, IterIsSum
<1> HIDE DEF g, h
<1>3. \A s \in SUBSET T : g[s] = SumBody(f, g, s) /\ h[s] = SumBody(f, h, s)
  <2>1. ASSUME NEW s \in SUBSET T PROVE g[s] = SumBody(f, g, s)
    <3>1. s \in SUBSET S
      OBVIOUS
    <3> QED BY <1>2, <3>1 DEF IsSum
  <2>2. ASSUME NEW s \in SUBSET T PROVE h[s] = SumBody(f, h, s)
    BY <1>2 DEF IsSum
  <2> QED BY <2>1, <2>2
<1>4. 0 \in Good
  <2>1. \A s \in SUBSET T : Covered(s, 0) => s = {}
    BY DEF Covered
  <2> QED BY <1>3, <2>1 DEF SumBody
<1>5. ASSUME NEW k \in Nat, k \in Good PROVE k + 1 \in Good
  <2>1. ASSUME NEW s \in SUBSET T, Covered(s, k + 1) PROVE g[s] = h[s]
    <3>1. CASE s = {}
      BY <1>3, <3>1 DEF SumBody
    <3>2. CASE s # {}
      <4>1. Pick(s) \in s /\ s \ {Pick(s)} \in SUBSET T
        BY <3>2 DEF Pick
      <4>2. Covered(s \ {Pick(s)}, k)
        BY <2>1, <4>1, SmallerSet
      <4>3. g[s \ {Pick(s)}] = h[s \ {Pick(s)}]
        BY <1>5, <4>1, <4>2
      <4> QED BY <1>3, <4>3 DEF SumBody
    <3> QED BY <3>1, <3>2
  <2> QED BY <2>1
<1>6. PICK k \in Nat : Covered(T, k)
  BY <1>1 DEF Finite
<1>7. k \in Good
  BY <1>4, <1>5, <1>6, NatSet
<1> QED BY <1>6, <1>7 DEF g, h

\* The recursion of a sum, with the element the definition chooses.
LEMMA SumStep ==
  ASSUME NEW f, NEW S, Finite(S), S # {}
  PROVE  SumFunctionOnSet(f, S) = f[Pick(S)] + SumFunctionOnSet(f, S \ {Pick(S)})
<1>1. S \in SUBSET S /\ S \ {Pick(S)} \in SUBSET S
  OBVIOUS
<1>2. Iter(f, S)[S] = SumBody(f, Iter(f, S), S)
  <2> DEFINE g == Iter(f, S)
  <2>1. IsSum(f, g, S)
    BY IterIsSum
  <2> HIDE DEF g
  <2>2. g[S] = SumBody(f, g, S)
    BY <1>1, <2>1 DEF IsSum
  <2> QED BY <2>2 DEF g
<1>3. Iter(f, S \ {Pick(S)})[S \ {Pick(S)}] = Iter(f, S)[S \ {Pick(S)}]
  BY <1>1, IterAgrees
<1> QED BY <1>2, <1>3, SumIsIter DEF SumBody

-----------------------------------------------------------------------------
(* What sums are *)

\* The sum over the empty set.
THEOREM SumEmpty ==
  ASSUME NEW f PROVE SumFunctionOnSet(f, {}) = 0
<1> DEFINE g == Iter(f, {})
<1>0. Covered({}, 0) /\ 0 \in Nat
  BY DEF Covered
<1>1. IsSum(f, g, {})
  BY <1>0, IterIsSum DEF Finite
<1> HIDE DEF g
<1>2. g[{}] = 0
  BY <1>1 DEF IsSum, SumBody
<1> QED BY <1>2, SumIsIter DEF g

\* A sum of integers is an integer, and any of its terms can be taken out first.
LEMMA SumTerms ==
  ASSUME NEW f, NEW S, Finite(S), \A x \in S : f[x] \in Int
  PROVE  /\ SumFunctionOnSet(f, S) \in Int
         /\ \A x \in S :
               SumFunctionOnSet(f, S) = f[x] + SumFunctionOnSet(f, S \ {x})
<1> DEFINE Sum(s) == SumFunctionOnSet(f, s)
           Fine(s) == Sum(s) \in Int /\ \A x \in s : Sum(s) = f[x] + Sum(s \ {x})
           Good == {k \in Nat : \A s \in SUBSET S : Covered(s, k) => Fine(s)}
<1>0. Fine({})
  BY SumEmpty
<1>2. 0 \in Good
  <2>1. \A s \in SUBSET S : Covered(s, 0) => s = {}
    BY DEF Covered
  <2> HIDE DEF Fine
  <2> QED BY <1>0, <2>1
<1>3. ASSUME NEW k \in Nat, k \in Good PROVE k + 1 \in Good
  <2>1. ASSUME NEW s \in SUBSET S, Covered(s, k + 1), s # {} PROVE Fine(s)
    <3> DEFINE p == Pick(s)
    <3>1. p \in s
      BY <2>1 DEF Pick
    <3> HIDE DEF p
    <3>2. Sum(s) = f[p] + Sum(s \ {p})
      BY <2>1, FiniteSubset, SumStep DEF p
    <3>3. \A x \in s : s \ {x} \in SUBSET S /\ Covered(s \ {x}, k)
      BY <2>1, SmallerSet
    <3> HIDE DEF Sum
    <3>4. \A x \in s : Fine(s \ {x})
      BY <1>3, <3>3
    <3>5. \A x \in s : f[x] \in Int /\ Sum(s \ {x}) \in Int
      BY <3>4
    <3>6. Sum(s) \in Int
      BY <3>1, <3>2, <3>5
    <3>7. ASSUME NEW x \in s PROVE Sum(s) = f[x] + Sum(s \ {x})
      <4>1. CASE x = p
        BY <3>2, <4>1
      <4>2. CASE x # p
        <5>1. Sum(s \ {p}) = f[x] + Sum((s \ {p}) \ {x})
          BY <3>1, <3>4, <4>2
        <5>2. Sum(s \ {x}) = f[p] + Sum((s \ {x}) \ {p})
          BY <3>1, <3>4, <4>2
        <5>3. (s \ {p}) \ {x} = (s \ {x}) \ {p}
          OBVIOUS
        <5>4. Sum((s \ {p}) \ {x}) \in Int
          <6>1. (s \ {p}) \ {x} \in SUBSET S
            OBVIOUS
          <6>2. Covered((s \ {p}) \ {x}, k)
            BY <3>1, <3>3 DEF Covered
          <6> QED BY <1>3, <6>1, <6>2
        <5>5. f[p] \in Int /\ f[x] \in Int
          BY <3>1, <3>5
        <5>6. Sum((s \ {x}) \ {p}) = Sum((s \ {p}) \ {x})
          BY <5>3
        <5> QED BY <3>2, <5>1, <5>2, <5>4, <5>5, <5>6
      <4> QED BY <4>1, <4>2
    <3> QED BY <3>6, <3>7
  <2> HIDE DEF Fine
  <2> QED BY <1>0, <2>1
<1>4. PICK k \in Nat : Covered(S, k)
  BY DEF Finite
<1>5. k \in Good
  BY <1>2, <1>3, <1>4, NatSet
<1> QED BY <1>4, <1>5

-----------------------------------------------------------------------------
(* What a step does to a sum: Terms says that the values of f are numbers *)

Terms(f, S) == Finite(S) /\ \A x \in S : f[x] \in Int

\* A sum of integers over a subset.
LEMMA SumOfTerms ==
  ASSUME NEW f, NEW S, Terms(f, S), NEW T \in SUBSET S
  PROVE  /\ Terms(f, T) /\ SumFunctionOnSet(f, T) \in Int
         /\ \A x \in T : SumFunctionOnSet(f, T) = f[x] + SumFunctionOnSet(f, T \ {x})
<1>1. Finite(T) /\ \A x \in T : f[x] \in Int
  BY FiniteSubset DEF Terms
<1> QED BY <1>1, SumTerms DEF Terms

\* A sum of integers is an integer.
THEOREM SumIsInt ==
  ASSUME NEW f, NEW S, Terms(f, S)
  PROVE  SumFunctionOnSet(f, S) \in Int
BY SumOfTerms

\* The sum of values that are each the sum of two.
THEOREM SumAdd ==
  ASSUME NEW f, NEW g, NEW h, NEW S, Terms(f, S), Terms(g, S),
         \A x \in S : h[x] = f[x] + g[x]
  PROVE  SumFunctionOnSet(h, S) = SumFunctionOnSet(f, S) + SumFunctionOnSet(g, S)
<1> DEFINE Good == {s \in SUBSET S :
        SumFunctionOnSet(h, s) = SumFunctionOnSet(f, s) + SumFunctionOnSet(g, s)}
<1>0. Terms(h, S) /\ Finite(S)
  BY DEF Terms
<1>1. {} \in Good
  BY SumEmpty
<1>2. ASSUME NEW s \in SUBSET S, NEW x \in s, s \ {x} \in Good PROVE s \in Good
  <2>1. s \ {x} \in SUBSET S
    OBVIOUS
  <2>2. /\ SumFunctionOnSet(f, s \ {x}) \in Int /\ SumFunctionOnSet(g, s \ {x}) \in Int
        /\ SumFunctionOnSet(f, s) = f[x] + SumFunctionOnSet(f, s \ {x})
        /\ SumFunctionOnSet(g, s) = g[x] + SumFunctionOnSet(g, s \ {x})
        /\ SumFunctionOnSet(h, s) = h[x] + SumFunctionOnSet(h, s \ {x})
    BY <1>0, <2>1, SumOfTerms
  <2>3. f[x] \in Int /\ g[x] \in Int /\ h[x] = f[x] + g[x]
    BY DEF Terms
  <2> QED BY <1>2, <2>2, <2>3
<1> HIDE DEF Good
<1>3. S \in Good
  BY <1>0, <1>1, <1>2, GrowingSets
<1> QED BY <1>3 DEF Good

\* Larger values have a larger sum.
THEOREM SumMonotonic ==
  ASSUME NEW f, NEW g, NEW S, Terms(f, S), Terms(g, S), \A x \in S : f[x] <= g[x]
  PROVE  SumFunctionOnSet(f, S) <= SumFunctionOnSet(g, S)
<1> DEFINE Good == {s \in SUBSET S : SumFunctionOnSet(f, s) <= SumFunctionOnSet(g, s)}
<1>1. {} \in Good
  BY SumEmpty
<1>2. ASSUME NEW s \in SUBSET S, NEW x \in s, s \ {x} \in Good PROVE s \in Good
  <2>1. s \ {x} \in SUBSET S
    OBVIOUS
  <2>2. /\ SumFunctionOnSet(f, s \ {x}) \in Int /\ SumFunctionOnSet(g, s \ {x}) \in Int
        /\ SumFunctionOnSet(f, s) = f[x] + SumFunctionOnSet(f, s \ {x})
        /\ SumFunctionOnSet(g, s) = g[x] + SumFunctionOnSet(g, s \ {x})
    BY <2>1, SumOfTerms
  <2>3. f[x] \in Int /\ g[x] \in Int /\ f[x] <= g[x]
    BY DEF Terms
  <2>4. SumFunctionOnSet(f, s \ {x}) <= SumFunctionOnSet(g, s \ {x})
    BY <1>2
  <2>5. SumFunctionOnSet(f, s) <= SumFunctionOnSet(g, s)
    BY <2>2, <2>3, <2>4
  <2> QED BY <2>5
<1> HIDE DEF Good
<1>3. S \in Good
  BY <1>1, <1>2, GrowingSets DEF Terms
<1> QED BY <1>3 DEF Good

\* A sum depends only on the values that are summed up.
THEOREM SumSame ==
  ASSUME NEW f, NEW g, NEW S, Terms(f, S), \A x \in S : g[x] = f[x]
  PROVE  SumFunctionOnSet(g, S) = SumFunctionOnSet(f, S)
<1>1. Terms(g, S) /\ (\A x \in S : f[x] <= g[x]) /\ (\A x \in S : g[x] <= f[x])
  BY DEF Terms
<1>2. /\ SumFunctionOnSet(f, S) <= SumFunctionOnSet(g, S)
      /\ SumFunctionOnSet(g, S) <= SumFunctionOnSet(f, S)
  BY <1>1, SumMonotonic
<1>3. SumFunctionOnSet(f, S) \in Int /\ SumFunctionOnSet(g, S) \in Int
  BY <1>1, SumIsInt
<1> QED BY <1>2, <1>3

\* Where one value changes, the sum changes by as much.
THEOREM SumChange ==
  ASSUME NEW f, NEW g, NEW S, Terms(f, S), Terms(g, S), NEW a \in S,
         \A x \in S : x # a => g[x] = f[x]
  PROVE  SumFunctionOnSet(g, S) = SumFunctionOnSet(f, S) - f[a] + g[a]
<1>1. S \ {a} \in SUBSET S /\ S \in SUBSET S
  OBVIOUS
<1>2. Terms(f, S \ {a}) /\ SumFunctionOnSet(f, S \ {a}) \in Int
  BY <1>1, SumOfTerms
<1>3. SumFunctionOnSet(g, S \ {a}) = SumFunctionOnSet(f, S \ {a})
  BY <1>2, SumSame
<1>4. /\ SumFunctionOnSet(f, S) = f[a] + SumFunctionOnSet(f, S \ {a})
      /\ SumFunctionOnSet(g, S) = g[a] + SumFunctionOnSet(g, S \ {a})
  BY <1>1, SumOfTerms
<1>5. f[a] \in Int /\ g[a] \in Int
  BY DEF Terms
<1> QED BY <1>2, <1>3, <1>4, <1>5

\* A change that two values share.
THEOREM SumMove ==
  ASSUME NEW f, NEW g, NEW S, Terms(f, S), Terms(g, S), NEW a \in S, NEW b \in S,
         a # b, f[a] + f[b] = g[a] + g[b], \A x \in S : x # a /\ x # b => g[x] = f[x]
  PROVE  SumFunctionOnSet(g, S) = SumFunctionOnSet(f, S)
<1> DEFINE h == [x \in S |-> IF x = a THEN g[a] ELSE f[x]]
<1>1. /\ Terms(h, S) /\ h[a] = g[a] /\ h[b] = f[b]
      /\ \A x \in S : (x # a => h[x] = f[x]) /\ (x # b => g[x] = h[x])
  BY DEF Terms
<1> HIDE DEF h
<1>2. SumFunctionOnSet(h, S) = SumFunctionOnSet(f, S) - f[a] + h[a]
  BY <1>1, SumChange
<1>3. SumFunctionOnSet(g, S) = SumFunctionOnSet(h, S) - h[b] + g[b]
  BY <1>1, SumChange
<1>4. /\ SumFunctionOnSet(f, S) \in Int
      /\ f[a] \in Int /\ f[b] \in Int /\ g[a] \in Int /\ g[b] \in Int
  BY SumIsInt DEF Terms
<1>5. SumFunctionOnSet(h, S) = SumFunctionOnSet(f, S) - f[a] + g[a]
  BY <1>1, <1>2
<1>6. SumFunctionOnSet(g, S) = SumFunctionOnSet(h, S) - f[b] + g[b]
  BY <1>1, <1>3
<1>7. SumFunctionOnSet(h, S) \in Int /\ f[a] + f[b] = g[a] + g[b]
  BY <1>4, <1>5
<1> QED BY <1>4, <1>5, <1>6, <1>7

\* Only the values that are not 0 matter.
THEOREM SumSupport ==
  ASSUME NEW f, NEW S, Terms(f, S), NEW T \in SUBSET S, \A x \in S \ T : f[x] = 0
  PROVE  SumFunctionOnSet(f, S) = SumFunctionOnSet(f, T)
<1> DEFINE Good == {s \in SUBSET S :
        SumFunctionOnSet(f, s) = SumFunctionOnSet(f, s \cap T)}
<1>1. {} \in Good
  <2>1. {} \cap T = {}
    OBVIOUS
  <2> QED BY <2>1
<1>2. ASSUME NEW s \in SUBSET S, NEW x \in s, s \ {x} \in Good PROVE s \in Good
  <2>1. s \ {x} \in SUBSET S /\ s \cap T \in SUBSET S
    OBVIOUS
  <2>2. /\ SumFunctionOnSet(f, s) = f[x] + SumFunctionOnSet(f, s \ {x})
        /\ SumFunctionOnSet(f, s \ {x}) \in Int
    BY <2>1, SumOfTerms
  <2>3. CASE x \in T
    <3>1. (s \ {x}) \cap T = (s \cap T) \ {x} /\ x \in s \cap T
      BY <2>3
    <3>2. SumFunctionOnSet(f, s \cap T) = f[x] + SumFunctionOnSet(f, (s \cap T) \ {x})
      BY <2>1, <3>1, SumOfTerms
    <3> QED BY <1>2, <2>2, <3>1, <3>2
  <2>4. CASE x \notin T
    <3>1. (s \ {x}) \cap T = s \cap T /\ f[x] = 0
      BY <2>4
    <3>2. SumFunctionOnSet(f, s \ {x}) = SumFunctionOnSet(f, s \cap T)
      BY <1>2, <3>1
    <3>3. SumFunctionOnSet(f, s) = SumFunctionOnSet(f, s \ {x})
      BY <2>2, <3>1
    <3> QED BY <3>2, <3>3
  <2> QED BY <2>3, <2>4
<1> HIDE DEF Good
<1>3. S \in Good
  BY <1>1, <1>2, GrowingSets DEF Terms
<1>4. S \cap T = T
  OBVIOUS
<1> QED BY <1>3, <1>4 DEF Good

\* A sum of zeroes is 0, and one of natural numbers is not negative.
THEOREM SumSign ==
  ASSUME NEW f, NEW S, Terms(f, S)
  PROVE  /\ (\A x \in S : f[x] = 0) => SumFunctionOnSet(f, S) = 0
         /\ (\A x \in S : f[x] >= 0) => SumFunctionOnSet(f, S) >= 0
<1> DEFINE zero == [x \in S |-> 0]
<1>1. Terms(zero, S) /\ \A x \in S : zero[x] = 0
  BY DEF Terms
<1> HIDE DEF zero
<1>2. ASSUME NEW g, Terms(g, S), \A x \in S : g[x] = 0
      PROVE  SumFunctionOnSet(g, S) = 0
  <2>1. {} \in SUBSET S
    OBVIOUS
  <2> QED BY <1>2, <2>1, SumSupport, SumEmpty
<1>3. SumFunctionOnSet(zero, S) = 0
  BY <1>1, <1>2
<1>4. (\A x \in S : f[x] >= 0) => SumFunctionOnSet(zero, S) <= SumFunctionOnSet(f, S)
  BY <1>1, SumMonotonic
<1> QED BY <1>2, <1>3, <1>4, SumIsInt
=============================================================================
