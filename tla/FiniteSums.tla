----------------------------- MODULE FiniteSums -----------------------------
(***************************************************************************)
(* Sums over finite sets: what SumFunction and SumFunctionOnSet return,    *)
(* for every finite set and every function to the naturals on it.          *)
(***************************************************************************)
EXTENDS Integers, Functions, FiniteSetTheorems, TLAPS

-----------------------------------------------------------------------------
(* Induction, over sets of numbers and over sets of finite sets.           *)

\* A set of numbers with 0 and with the successor of each of its members has
\* them all: were k missing, the successor would map what it has below k into
\* the same without 0.
LEMMA SetInduction ==
  ASSUME NEW P \in SUBSET Nat, 0 \in P, \A n \in P : n + 1 \in P
  PROVE  P = Nat
<1> SUFFICES ASSUME NEW k \in Nat, k \notin P
             PROVE  FALSE
  OBVIOUS
<1> DEFINE below == {n \in P : n <= k}
           above == below \ {0}
           next == [n \in below |-> n + 1]
<1>1. IsFiniteSet(below) /\ Cardinality(below) \in Nat
  BY FS_BoundedSetOfNaturals, FS_CardinalityType
<1>2. IsFiniteSet(above) /\ Cardinality(above) = Cardinality(below) - 1
  <2>1. 0 \in below
    OBVIOUS
  <2> HIDE DEF below
  <2> QED BY <1>1, <2>1, FS_RemoveElement
<1>3. next \in Injection(below, above)
  <2>1. \A n \in below : n + 1 \in above
    OBVIOUS
  <2>2. \A m, n \in below : next[m] = next[n] => m = n
    OBVIOUS
  <2> QED BY <2>1, <2>2 DEF Injection, IsInjective
<1> QED BY <1>1, <1>2, <1>3, FS_Injection

\* What holds of the empty set, and of a set once it holds of the set without
\* one of its elements, holds of every finite set.
LEMMA SubsetInduction ==
  ASSUME NEW S, IsFiniteSet(S), NEW P \in SUBSET (SUBSET S),
         \A T \in SUBSET S : (\A x \in T : T \ {x} \in P) => T \in P
  PROVE  P = SUBSET S
<1> DEFINE sizes == {n \in Nat : \A T \in SUBSET S : Cardinality(T) = n => T \in P}
<1>1. \A T \in SUBSET S : IsFiniteSet(T) /\ Cardinality(T) \in Nat
  BY FS_Subset, FS_CardinalityType
<1>2. 0 \in sizes
  BY <1>1, FS_EmptySet
<1>3. ASSUME NEW n \in sizes PROVE n + 1 \in sizes
  <2> SUFFICES ASSUME NEW T \in SUBSET S, Cardinality(T) = n + 1
               PROVE  T \in P
    OBVIOUS
  <2>1. \A x \in T : T \ {x} \in SUBSET S /\ Cardinality(T \ {x}) = n
    BY <1>1, FS_RemoveElement
  <2> QED BY <2>1
<1>4. sizes = Nat
  <2> HIDE DEF sizes
  <2>1. sizes \in SUBSET Nat
    BY DEF sizes
  <2> QED BY <1>2, <1>3, <2>1, SetInduction
<1> QED BY <1>1, <1>4

-----------------------------------------------------------------------------
(* The recursion behind a sum.                                             *)

Pick(s) == CHOOSE x \in s : TRUE

\* h gives the sum of f over each subset of S.
SumsOf(f, S, h) ==
    h = [s \in SUBSET S |-> IF s = {} THEN 0 ELSE f[Pick(s)] + h[s \ {Pick(s)}]]

\* A sum is its recursion's value at the whole set.
LEMMA SumUnfolds ==
  ASSUME NEW f, NEW S
  PROVE  SumFunctionOnSet(f, S) = (CHOOSE h : SumsOf(f, S, h))[S]
  BY DEF SumFunctionOnSet, FoldFunctionOnSet, MapThenFoldSet, SumsOf, Pick

LEMMA PickIn == ASSUME NEW s, s # {} PROVE Pick(s) \in s
  BY DEF Pick

\* The recursion has a solution: one that is right up to a size gives one that
\* is right up to the next.
LEMMA SumsExist ==
  ASSUME NEW S, IsFiniteSet(S), NEW f, \A x \in S : f[x] \in Nat
  PROVE  \E h : SumsOf(f, S, h)
<1> DEFINE body(h, s) == IF s = {} THEN 0 ELSE f[Pick(s)] + h[s \ {Pick(s)}]
           sizes == {n \in Nat : \E h \in [SUBSET S -> Nat] :
                       \A s \in SUBSET S : Cardinality(s) <= n => h[s] = body(h, s)}
<1>1. \A s \in SUBSET S : IsFiniteSet(s) /\ Cardinality(s) \in Nat
  BY FS_Subset, FS_CardinalityType
<1>2. \A s \in SUBSET S : s # {} =>
        /\ Pick(s) \in S /\ f[Pick(s)] \in Nat
        /\ s \ {Pick(s)} \in SUBSET S
        /\ Cardinality(s \ {Pick(s)}) = Cardinality(s) - 1
  BY <1>1, PickIn, FS_RemoveElement
<1>3. 0 \in sizes
  <2> DEFINE zero == [s \in SUBSET S |-> 0]
  <2>1. zero \in [SUBSET S -> Nat]
    OBVIOUS
  <2>2. \A s \in SUBSET S : Cardinality(s) <= 0 => s = {}
    BY <1>1, FS_EmptySet
  <2>3. \A s \in SUBSET S : Cardinality(s) <= 0 => zero[s] = body(zero, s)
    BY <2>2
  <2> QED BY <2>1, <2>3
<1>4. ASSUME NEW n \in sizes PROVE n + 1 \in sizes
  <2>1. PICK h \in [SUBSET S -> Nat] :
          \A s \in SUBSET S : Cardinality(s) <= n => h[s] = body(h, s)
    OBVIOUS
  <2> DEFINE g == [s \in SUBSET S |-> body(h, s)]
  <2>2. g \in [SUBSET S -> Nat]
    <3>1. ASSUME NEW s \in SUBSET S PROVE body(h, s) \in Nat
      <4>1. CASE s # {}
        <5>1. h[s \ {Pick(s)}] \in Nat /\ f[Pick(s)] \in Nat
          BY <1>2, <4>1
        <5> QED BY <5>1
      <4> QED BY <4>1
    <3> HIDE DEF body
    <3> QED BY <3>1
  <2>3. \A s \in SUBSET S : Cardinality(s) <= n + 1 => g[s] = body(g, s)
    <3> SUFFICES ASSUME NEW s \in SUBSET S, Cardinality(s) <= n + 1, s # {}
                 PROVE  g[s] = body(g, s)
      OBVIOUS
    <3> DEFINE rest == s \ {Pick(s)}
    <3>1. rest \in SUBSET S /\ Cardinality(rest) <= n
      BY <1>1, <1>2
    <3>2. g[rest] = body(h, rest) /\ h[rest] = body(h, rest)
      BY <2>1, <3>1
    <3> QED BY <3>2
  <2>4. n + 1 \in Nat
    OBVIOUS
  <2> HIDE DEF g, body
  <2> QED BY <2>2, <2>3, <2>4
<1>5. sizes = Nat
  <2>1. sizes \in SUBSET Nat
    OBVIOUS
  <2> HIDE DEF sizes
  <2> QED BY <1>3, <1>4, <2>1, SetInduction
<1>6. PICK h \in [SUBSET S -> Nat] :
        \A s \in SUBSET S : Cardinality(s) <= Cardinality(S) => h[s] = body(h, s)
  BY <1>1, <1>5
<1>7. \A s \in SUBSET S : h[s] = body(h, s)
  BY <1>6, FS_Subset
<1> QED BY <1>6, <1>7 DEF SumsOf

\* The solutions for a set and for a larger one agree.
LEMMA SumsNested ==
  ASSUME NEW S, IsFiniteSet(S), NEW T \in SUBSET S, NEW f, NEW g, NEW h,
         SumsOf(f, T, g), SumsOf(f, S, h)
  PROVE  g[T] = h[T]
<1> DEFINE P == {U \in SUBSET T : g[U] = h[U]}
<1>1. IsFiniteSet(T)
  BY FS_Subset
<1>2. ASSUME NEW U \in SUBSET T, \A x \in U : U \ {x} \in P
      PROVE  U \in P
  <2>1. CASE U = {}
    BY <2>1 DEF SumsOf
  <2>2. CASE U # {}
    <3> DEFINE rest == U \ {Pick(U)}
    <3>1. rest \in P
      BY <1>2, <2>2, PickIn
    <3>2. g[U] = f[Pick(U)] + g[rest] /\ h[U] = f[Pick(U)] + h[rest]
      BY <2>2 DEF SumsOf
    <3> QED BY <3>1, <3>2
  <2> QED BY <2>1, <2>2
<1>3. P = SUBSET T
  <2>1. P \in SUBSET (SUBSET T)
    OBVIOUS
  <2> HIDE DEF P
  <2> QED BY <1>1, <1>2, <2>1, SubsetInduction
<1> QED BY <1>3

-----------------------------------------------------------------------------
(* The laws of sums.                                                       *)

\* One step of the recursion.
LEMMA SumStep ==
  ASSUME NEW S, IsFiniteSet(S), NEW f, \A x \in S : f[x] \in Nat
  PROVE  SumFunctionOnSet(f, S) =
           IF S = {} THEN 0 ELSE f[Pick(S)] + SumFunctionOnSet(f, S \ {Pick(S)})
<1> DEFINE sums(T) == CHOOSE h : SumsOf(f, T, h)
<1>1. SumsOf(f, S, sums(S))
  BY SumsExist
<1>2. CASE S = {}
  BY <1>1, <1>2, SumUnfolds DEF SumsOf
<1>3. CASE S # {}
  <2> DEFINE rest == S \ {Pick(S)}
  <2>1. rest \in SUBSET S /\ IsFiniteSet(rest)
    BY FS_Subset
  <2>2. SumsOf(f, rest, sums(rest))
    BY <2>1, SumsExist
  <2> HIDE DEF rest, sums
  <2>3. sums(rest)[rest] = sums(S)[rest]
    BY <1>1, <2>1, <2>2, SumsNested
  <2>4. sums(S)[S] = f[Pick(S)] + sums(S)[rest]
    BY <1>1, <1>3, <2>1 DEF SumsOf, rest
  <2>5. SumFunctionOnSet(f, S) = sums(S)[S] /\ SumFunctionOnSet(f, rest) = sums(rest)[rest]
    BY SumUnfolds DEF sums
  <2> QED BY <1>3, <2>3, <2>4, <2>5 DEF rest
<1> QED BY <1>2, <1>3

\* A sum of naturals is one.
LEMMA SumOnNat ==
  ASSUME NEW S, IsFiniteSet(S), NEW f, \A x \in S : f[x] \in Nat
  PROVE  SumFunctionOnSet(f, S) \in Nat
<1> DEFINE P == {T \in SUBSET S : SumFunctionOnSet(f, T) \in Nat}
<1>1. ASSUME NEW T \in SUBSET S, \A x \in T : T \ {x} \in P
      PROVE  T \in P
  <2>1. SumFunctionOnSet(f, T) =
          IF T = {} THEN 0 ELSE f[Pick(T)] + SumFunctionOnSet(f, T \ {Pick(T)})
    BY FS_Subset, SumStep
  <2>2. CASE T # {}
    BY <1>1, <2>1, <2>2, PickIn
  <2> QED BY <2>1, <2>2
<1>2. P = SUBSET S
  <2>1. P \in SUBSET (SUBSET S)
    OBVIOUS
  <2> HIDE DEF P
  <2> QED BY <1>1, <2>1, SubsetInduction
<1> QED BY <1>2

\* Any element may be taken out of a sum, not only the one the recursion picks.
LEMMA SumRemove ==
  ASSUME NEW S, IsFiniteSet(S), NEW f, \A x \in S : f[x] \in Nat, NEW a \in S
  PROVE  SumFunctionOnSet(f, S) = f[a] + SumFunctionOnSet(f, S \ {a})
<1> DEFINE sum(T) == SumFunctionOnSet(f, T)
           P == {T \in SUBSET S : \A x \in T : sum(T) = f[x] + sum(T \ {x})}
<1>0. \A T \in SUBSET S : IsFiniteSet(T) /\ sum(T) \in Nat
  BY FS_Subset, SumOnNat
<1>1. \A T \in SUBSET S : T # {} => Pick(T) \in T /\ sum(T) = f[Pick(T)] + sum(T \ {Pick(T)})
  BY <1>0, SumStep, PickIn
<1> HIDE DEF sum
<1>2. ASSUME NEW T \in SUBSET S, \A x \in T : T \ {x} \in P
      PROVE  T \in P
  <2> SUFFICES ASSUME NEW x \in T PROVE sum(T) = f[x] + sum(T \ {x})
    OBVIOUS
  <2>1. Pick(T) \in T /\ sum(T) = f[Pick(T)] + sum(T \ {Pick(T)})
    BY <1>1
  <2>2. CASE x # Pick(T)
    <3> DEFINE p == Pick(T)
    <3> HIDE DEF p
    <3>1. p \in T /\ p # x /\ sum(T) = f[p] + sum(T \ {p})
      BY <2>1, <2>2 DEF p
    <3>2. sum(T \ {p}) = f[x] + sum((T \ {p}) \ {x})
      BY <1>2, <3>1
    <3>3. sum(T \ {x}) = f[p] + sum((T \ {x}) \ {p})
      BY <1>2, <3>1
    <3>4. (T \ {p}) \ {x} = (T \ {x}) \ {p} /\ (T \ {p}) \ {x} \in SUBSET S
      OBVIOUS
    <3>5. f[p] \in Nat /\ f[x] \in Nat /\ sum((T \ {p}) \ {x}) \in Nat
      BY <1>0, <3>1, <3>4
    <3> QED BY <3>1, <3>2, <3>3, <3>4, <3>5
  <2> QED BY <2>1, <2>2
<1>3. P = SUBSET S
  <2>1. P \in SUBSET (SUBSET S)
    OBVIOUS
  <2> HIDE DEF P
  <2> QED BY <1>2, <2>1, SubsetInduction
<1> QED BY <1>3 DEF sum

\* Larger terms, larger sum.
LEMMA SumMonotone ==
  ASSUME NEW S, IsFiniteSet(S), NEW f, NEW g,
         \A x \in S : f[x] \in Nat /\ g[x] \in Nat /\ f[x] <= g[x]
  PROVE  SumFunctionOnSet(f, S) <= SumFunctionOnSet(g, S)
<1> DEFINE P == {T \in SUBSET S : SumFunctionOnSet(f, T) <= SumFunctionOnSet(g, T)}
<1>1. ASSUME NEW T \in SUBSET S, \A x \in T : T \ {x} \in P
      PROVE  T \in P
  <2> DEFINE rest == T \ {Pick(T)}
             sf(U) == SumFunctionOnSet(f, U)
             sg(U) == SumFunctionOnSet(g, U)
  <2>1. IsFiniteSet(T) /\ IsFiniteSet(rest)
    BY FS_Subset
  <2>2. /\ sf(T) = IF T = {} THEN 0 ELSE f[Pick(T)] + sf(rest)
        /\ sg(T) = IF T = {} THEN 0 ELSE g[Pick(T)] + sg(rest)
    BY <2>1, SumStep
  <2>3. sf(rest) \in Nat /\ sg(rest) \in Nat
    BY <2>1, SumOnNat
  <2>4. T # {} => Pick(T) \in T /\ sf(rest) <= sg(rest)
    BY <1>1, PickIn
  <2> HIDE DEF rest, sf, sg
  <2>5. sf(T) <= sg(T)
    BY <2>2, <2>3, <2>4
  <2> QED BY <2>5 DEF sf, sg
<1>2. P = SUBSET S
  <2>1. P \in SUBSET (SUBSET S)
    OBVIOUS
  <2> HIDE DEF P
  <2> QED BY <1>1, <2>1, SubsetInduction
<1> QED BY <1>2

\* A sum depends on the values it adds and on nothing else.
LEMMA SumEqual ==
  ASSUME NEW S, IsFiniteSet(S), NEW f, NEW g,
         \A x \in S : f[x] \in Nat /\ g[x] = f[x]
  PROVE  SumFunctionOnSet(g, S) = SumFunctionOnSet(f, S)
<1>1. SumFunctionOnSet(f, S) <= SumFunctionOnSet(g, S)
  BY SumMonotone
<1>2. SumFunctionOnSet(g, S) <= SumFunctionOnSet(f, S)
  BY SumMonotone
<1> QED BY <1>1, <1>2, SumOnNat

\* Where one value changes, the sum changes by as much.
LEMMA SumChange ==
  ASSUME NEW S, IsFiniteSet(S), NEW f \in [S -> Nat], NEW g \in [S -> Nat], NEW a \in S,
         \A x \in S \ {a} : g[x] = f[x]
  PROVE  SumFunction(g) + f[a] = SumFunction(f) + g[a]
<1>1. /\ SumFunction(f) = f[a] + SumFunctionOnSet(f, S \ {a})
      /\ SumFunction(g) = g[a] + SumFunctionOnSet(g, S \ {a})
  BY SumRemove DEF SumFunction
<1>2. IsFiniteSet(S \ {a})
  BY FS_Subset
<1>3. SumFunctionOnSet(g, S \ {a}) = SumFunctionOnSet(f, S \ {a})
  BY <1>2, SumEqual
<1>4. SumFunctionOnSet(f, S \ {a}) \in Nat
  BY <1>2, SumOnNat
<1> QED BY <1>1, <1>3, <1>4

\* The same of the sum over a whole domain.
LEMMA SumNat ==
  ASSUME NEW S, IsFiniteSet(S), NEW f \in [S -> Nat]
  PROVE  SumFunction(f) \in Nat
  BY SumOnNat DEF SumFunction

LEMMA SumAtMost ==
  ASSUME NEW S, IsFiniteSet(S), NEW f \in [S -> Nat], NEW g \in [S -> Nat],
         \A x \in S : f[x] <= g[x]
  PROVE  SumFunction(f) <= SumFunction(g)
  BY SumMonotone DEF SumFunction

\* Nothing adds up to nothing.
LEMMA SumOfZeros ==
  ASSUME NEW S, IsFiniteSet(S), NEW f \in [S -> Nat], \A x \in S : f[x] = 0
  PROVE  SumFunction(f) = 0
<1> DEFINE P == {T \in SUBSET S : SumFunctionOnSet(f, T) = 0}
<1>1. ASSUME NEW T \in SUBSET S, \A x \in T : T \ {x} \in P
      PROVE  T \in P
  <2>1. SumFunctionOnSet(f, T) =
          IF T = {} THEN 0 ELSE f[Pick(T)] + SumFunctionOnSet(f, T \ {Pick(T)})
    BY FS_Subset, SumStep
  <2> QED BY <1>1, <2>1, PickIn
<1>2. P = SUBSET S
  <2>1. P \in SUBSET (SUBSET S)
    OBVIOUS
  <2> HIDE DEF P
  <2> QED BY <1>1, <2>1, SubsetInduction
<1> QED BY <1>2 DEF SumFunction

\* A sequence that grows adds its new last value.
LEMMA SumAppend ==
  ASSUME NEW n \in Nat, NEW f \in [1 .. n -> Nat], NEW g \in [1 .. n + 1 -> Nat],
         \A i \in 1 .. n : g[i] = f[i]
  PROVE  SumFunction(g) = SumFunction(f) + g[n + 1]
<1>1. IsFiniteSet(1 .. n) /\ IsFiniteSet(1 .. n + 1)
  BY FS_Interval
<1>2. n + 1 \in 1 .. n + 1 /\ (1 .. n + 1) \ {n + 1} = 1 .. n
  OBVIOUS
<1>3. SumFunction(g) = g[n + 1] + SumFunctionOnSet(g, 1 .. n)
  BY <1>1, <1>2, SumRemove DEF SumFunction
<1>4. SumFunctionOnSet(g, 1 .. n) = SumFunctionOnSet(f, 1 .. n)
  BY <1>1, SumEqual
<1>5. SumFunction(f) = SumFunctionOnSet(f, 1 .. n) /\ SumFunction(f) \in Nat
  BY <1>1, SumNat DEF SumFunction
<1> QED BY <1>2, <1>3, <1>4, <1>5

-----------------------------------------------------------------------------
(* Sums of sums.                                                           *)

\* The share of part p, where s tells the part each element belongs to.
Share(f, s, T, p) == [x \in T |-> IF s[x] = p THEN f[x] ELSE 0]

\* The parts of a sum add up to it.
LEMMA SumOfParts ==
  ASSUME NEW S, IsFiniteSet(S), NEW Parts, IsFiniteSet(Parts),
         NEW f \in [S -> Nat], NEW s \in [S -> Parts]
  PROVE  SumFunction(f) = SumFunction([p \in Parts |-> SumFunction(Share(f, s, S, p))])
<1> DEFINE share(T, p) == SumFunctionOnSet(Share(f, s, S, p), T)
           shares(T) == [p \in Parts |-> share(T, p)]
           P == {T \in SUBSET S : SumFunctionOnSet(f, T) = SumFunction(shares(T))}
<1>0. \A T \in SUBSET S : IsFiniteSet(T) /\ SumFunctionOnSet(f, T) \in Nat
  BY FS_Subset, SumOnNat
<1>1. \A T \in SUBSET S, p \in Parts : share(T, p) \in Nat
  BY <1>0, SumOnNat DEF Share
<1>2. ASSUME NEW T \in SUBSET S, \A x \in T : T \ {x} \in P
      PROVE  T \in P
  <2>1. CASE T = {}
    <3>1. \A p \in Parts : share(T, p) = 0
      BY <2>1, <1>0, SumStep DEF Share
    <3>2. SumFunction(shares(T)) = 0
      <4> HIDE DEF share
      <4>1. shares(T) \in [Parts -> Nat] /\ \A p \in Parts : shares(T)[p] = 0
        BY <3>1
      <4> QED BY <4>1, SumOfZeros
    <3>3. SumFunctionOnSet(f, T) = 0
      BY <2>1, <1>0, SumStep
    <3> QED BY <3>2, <3>3
  <2>2. CASE T # {}
    <3>1. PICK a \in T : TRUE
      BY <2>2
    <3> DEFINE rest == T \ {a}
    <3>2. rest \in SUBSET S /\ rest \in P
      BY <1>2
    <3>3. SumFunctionOnSet(f, T) = f[a] + SumFunctionOnSet(f, rest)
      BY <1>0, SumRemove
    <3>4. \A p \in Parts : share(T, p) = Share(f, s, S, p)[a] + share(rest, p)
      BY <1>0, SumRemove DEF Share
    <3>5. /\ s[a] \in Parts /\ f[a] \in Nat
          /\ \A p \in Parts : Share(f, s, S, p)[a] = IF s[a] = p THEN f[a] ELSE 0
      BY DEF Share
    <3> HIDE DEF rest, share
    <3>6. /\ shares(T) \in [Parts -> Nat] /\ shares(rest) \in [Parts -> Nat]
          /\ \A p \in Parts \ {s[a]} : shares(T)[p] = shares(rest)[p]
          /\ shares(T)[s[a]] = f[a] + shares(rest)[s[a]]
      BY <1>1, <3>2, <3>4, <3>5
    <3>7. SumFunction(shares(T)) + shares(rest)[s[a]] = SumFunction(shares(rest)) + shares(T)[s[a]]
      BY <3>5, <3>6, SumChange
    <3>8. SumFunction(shares(T)) \in Nat /\ SumFunction(shares(rest)) \in Nat
      BY <3>6, SumNat
    <3>9. SumFunction(shares(T)) = SumFunction(shares(rest)) + f[a]
      <4>1. shares(rest)[s[a]] \in Nat
        BY <3>5, <3>6
      <4> QED BY <3>5, <3>6, <3>7, <3>8, <4>1
    <3>10. SumFunctionOnSet(f, rest) = SumFunction(shares(rest))
      BY <3>2
    <3> QED BY <1>0, <3>2, <3>3, <3>5, <3>9, <3>10
  <2> QED BY <2>1, <2>2
<1>3. P = SUBSET S
  <2>1. P \in SUBSET (SUBSET S)
    OBVIOUS
  <2> HIDE DEF P
  <2> QED BY <1>2, <2>1, SubsetInduction
<1>4. \A p \in Parts : share(S, p) = SumFunction(Share(f, s, S, p))
  BY DEF SumFunction, Share
<1> QED BY <1>3, <1>4 DEF SumFunction
=============================================================================
