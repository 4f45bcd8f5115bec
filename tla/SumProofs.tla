------------------------------ MODULE SumProofs ------------------------------
(***************************************************************************)
(* What SumFunctionOnSet of the community modules adds up to: the debt of  *)
(* Sales and the units of Loyalty are such sums.  The module defines it by *)
(* a fold that takes the elements out in an order of its own choice; the   *)
(* lemmas say that any order gives the same sum.  Induction is by minimal  *)
(* counterexample: strict inclusion of finite sets is well founded.  The   *)
(* last lemma is about quotients.                                          *)
(***************************************************************************)
EXTENDS Functions, Integers, FiniteSets, FiniteSetTheorems, TLAPS

\* A set of finite sets that is not empty has a smallest member.
LEMMA SmallestSet ==
  ASSUME NEW S, NEW T \in SUBSET FiniteSubsetsOf(S), T # {}
  PROVE  \E x \in T : \A y \in T : y \subseteq x => y = x
<1>1. IsWellFoundedOn(StrictSubsetOrdering(S), FiniteSubsetsOf(S))
  BY FS_StrictSubsetOrderingWellFounded
<1>2. PICK x \in T : \A y \in T : <<y, x>> \notin StrictSubsetOrdering(S)
  BY <1>1, WFMin
<1>3. ASSUME NEW y \in T, y \subseteq x PROVE y = x
  BY <1>2, <1>3 DEF StrictSubsetOrdering, FiniteSubsetsOf
<1> QED BY <1>3

-----------------------------------------------------------------------------
\* The element the fold takes next, and the table of partial sums it defines.
Any(s) == CHOOSE x \in s : TRUE

IsSum(it, fun, S) ==
  it = [s \in SUBSET S |-> IF s = {} THEN 0 ELSE fun[Any(s)] + it[s \ {Any(s)}]]

Partial(fun, S) == CHOOSE it : IsSum(it, fun, S)

\* The library's sum is the last entry of its table of partial sums.
LEMMA SumIsPartial ==
  ASSUME NEW fun, NEW S
  PROVE  SumFunctionOnSet(fun, S) = Partial(fun, S)[S]
BY Zenon DEF SumFunctionOnSet, FoldFunctionOnSet, MapThenFoldSet, IsSum, Any, Partial

\* The element taken next is one of the set.
LEMMA AnyIn ==
  ASSUME NEW s, s # {}
  PROVE  Any(s) \in s
BY DEF Any

\* A table of partial sums, entry by entry.
LEMMA SumEntry ==
  ASSUME NEW fun, NEW S, NEW it, IsSum(it, fun, S), NEW s \in SUBSET S
  PROVE  /\ s = {} => it[s] = 0
         /\ s # {} => it[s] = fun[Any(s)] + it[s \ {Any(s)}]
<1>1. it[s] = [t \in SUBSET S |-> IF t = {} THEN 0 ELSE fun[Any(t)] + it[t \ {Any(t)}]][s]
  BY Zenon DEF IsSum
<1>2. it[s] = IF s = {} THEN 0 ELSE fun[Any(s)] + it[s \ {Any(s)}]
  BY <1>1, Zenon
<1> QED BY <1>2, Zenon

\* Two tables agree wherever both are defined.
LEMMA SumUnique ==
  ASSUME NEW fun, NEW S, IsFiniteSet(S), NEW R, NEW g, NEW h,
         IsSum(g, fun, S), IsSum(h, fun, R),
         NEW s0 \in SUBSET S, s0 \in SUBSET R
  PROVE  g[s0] = h[s0]
<1> DEFINE Bad == {s \in SUBSET S : s \subseteq R /\ g[s] # h[s]}
<1>1. SUFFICES ASSUME Bad # {} PROVE FALSE
  <2>1. s0 \notin Bad => g[s0] = h[s0]
    OBVIOUS
  <2> QED BY <1>1, <2>1
<1>2. Bad \in SUBSET FiniteSubsetsOf(S)
  BY FS_Subset DEF FiniteSubsetsOf
<1>3. PICK s \in Bad : \A y \in Bad : y \subseteq s => y = s
  <2> HIDE DEF Bad
  <2> QED BY <1>1, <1>2, SmallestSet
<1>4. s # {}
  BY <1>3, SumEntry, Zenon
<1>5. Any(s) \in s
  BY <1>4, AnyIn
<1>6. /\ s \ {Any(s)} \in SUBSET S /\ s \ {Any(s)} \subseteq R
      /\ s \ {Any(s)} \subseteq s /\ s \ {Any(s)} # s
  BY <1>3, <1>5
<1>7. g[s \ {Any(s)}] = h[s \ {Any(s)}]
  BY <1>3, <1>6
<1>8. /\ g[s] = fun[Any(s)] + g[s \ {Any(s)}]
      /\ h[s] = fun[Any(s)] + h[s \ {Any(s)}]
  BY <1>3, <1>4, SumEntry
<1> QED BY <1>3, <1>7, <1>8

\* Every finite set has a table: the recursion of the fold is well founded.
LEMMA SumExists ==
  ASSUME NEW fun, NEW S, IsFiniteSet(S)
  PROVE  IsSum(Partial(fun, S), fun, S)
<1> DEFINE Bad == {s \in SUBSET S : ~ IsSum(Partial(fun, s), fun, s)}
<1>1. SUFFICES ASSUME Bad # {} PROVE FALSE
  BY <1>1, Zenon
<1>2. Bad \in SUBSET FiniteSubsetsOf(S)
  BY FS_Subset DEF FiniteSubsetsOf
<1>3. PICK x \in Bad : \A y \in Bad : y \subseteq x => y = x
  <2> HIDE DEF Bad
  <2> QED BY <1>1, <1>2, SmallestSet
<1>4. \A s \in SUBSET x : s # x => IsSum(Partial(fun, s), fun, s)
  BY <1>3
<1> DEFINE H(s) == Partial(fun, s)[s]
           g == [s \in SUBSET x |-> IF s # x THEN H(s)
                   ELSE IF x = {} THEN 0 ELSE fun[Any(x)] + H(x \ {Any(x)})]
<1>5. ASSUME NEW s \in SUBSET x
      PROVE  g[s] = IF s = {} THEN 0 ELSE fun[Any(s)] + g[s \ {Any(s)}]
  <2>1. CASE s = {}
    <3>1. CASE x = {}
      BY <2>1, <3>1
    <3>2. CASE x # {}
      <4>1. IsSum(Partial(fun, s), fun, s) /\ s \in SUBSET s
        BY <1>4, <2>1, <3>2
      <4> DEFINE it == Partial(fun, s)
      <4>2. it[s] = 0
        <5> HIDE DEF it
        <5>1. IsSum(it, fun, s)
          BY <4>1 DEF it
        <5> QED BY <4>1, <5>1, <2>1, SumEntry
      <4>3. g[s] = H(s)
        BY <2>1, <3>2
      <4> QED BY <2>1, <4>2, <4>3
    <3> QED BY <3>1, <3>2
  <2>2. CASE s # {}
    <3> DEFINE t == s \ {Any(s)}
    <3>1. Any(s) \in s
      BY <2>2, AnyIn
    <3>2. t \in SUBSET x /\ t # x /\ t \in SUBSET s
      BY <3>1
    <3>3. g[t] = H(t)
      <4> HIDE DEF t, H
      <4> QED BY <3>2
    <3>4. CASE s = x
      <4>1. g[s] = fun[Any(s)] + H(t)
        BY <2>2, <3>4
      <4> HIDE DEF g, H
      <4> QED BY <2>2, <3>3, <4>1
    <3>5. CASE s # x
      <4>1. IsSum(Partial(fun, s), fun, s) /\ IsSum(Partial(fun, t), fun, t)
        BY <1>4, <3>2, <3>5
      <4>2. s \in SUBSET S
        BY <1>3
      <4>3. IsFiniteSet(s)
        BY <4>2, FS_Subset
      <4>4. Partial(fun, s)[t] = Partial(fun, t)[t]
        <5> HIDE DEF t
        <5> QED BY <3>2, <4>1, <4>3, SumUnique
      <4>5. Partial(fun, s)[s] = fun[Any(s)] + Partial(fun, s)[t]
        BY <2>2, <4>1, SumEntry
      <4>6. g[s] = H(s)
        BY <3>5
      <4>7. g[s] = fun[Any(s)] + g[t]
        BY <3>3, <4>4, <4>5, <4>6
      <4> HIDE DEF g, H
      <4> QED BY <2>2, <4>7
    <3> QED BY <3>4, <3>5
  <2> QED BY <2>1, <2>2
<1>6. g = [s \in SUBSET x |-> g[s]]
  OBVIOUS
<1>7. IsSum(g, fun, x)
  <2> HIDE DEF g
  <2>1. [s \in SUBSET x |-> g[s]]
          = [s \in SUBSET x |-> IF s = {} THEN 0 ELSE fun[Any(s)] + g[s \ {Any(s)}]]
    BY <1>5
  <2> QED BY <1>6, <2>1 DEF IsSum
<1>8. IsSum(Partial(fun, x), fun, x)
  BY <1>7, Zenon DEF Partial
<1> QED BY <1>3, <1>8

-----------------------------------------------------------------------------
\* What the folds above come to: nothing of the empty set, and the element
\* taken next plus the rest.
LEMMA SumNext ==
  ASSUME NEW fun, NEW S, IsFiniteSet(S)
  PROVE  /\ S = {} => SumFunctionOnSet(fun, S) = 0
         /\ S # {} => SumFunctionOnSet(fun, S)
                        = fun[Any(S)] + SumFunctionOnSet(fun, S \ {Any(S)})
<1> DEFINE it == Partial(fun, S)
<1>1. IsSum(it, fun, S) /\ SumFunctionOnSet(fun, S) = it[S]
  BY SumExists, SumIsPartial
<1> HIDE DEF it
<1>2. CASE S = {}
  <2>1. it[S] = 0
    BY <1>1, <1>2, SumEntry
  <2> QED BY <1>1, <1>2, <2>1
<1>3. CASE S # {}
  <2> DEFINE rest == S \ {Any(S)}
             less == Partial(fun, rest)
  <2>1. rest \in SUBSET S /\ IsFiniteSet(rest) /\ rest \in SUBSET rest
    BY FS_Subset
  <2>2. IsSum(less, fun, rest) /\ SumFunctionOnSet(fun, rest) = less[rest]
    BY <2>1, SumExists, SumIsPartial
  <2> HIDE DEF less
  <2>3. it[rest] = less[rest]
    <3> HIDE DEF rest
    <3> QED BY <1>1, <2>1, <2>2, SumUnique
  <2>4. it[S] = fun[Any(S)] + it[rest]
    BY <1>1, <1>3, SumEntry
  <2> QED BY <1>1, <1>3, <2>2, <2>3, <2>4
<1> QED BY <1>2, <1>3

\* Nothing adds up to zero.
LEMMA SumEmpty ==
  ASSUME NEW fun
  PROVE  SumFunctionOnSet(fun, {}) = 0
BY SumNext, FS_EmptySet

\* A sum of integers is an integer.
LEMMA SumTyped ==
  ASSUME NEW fun, NEW S, IsFiniteSet(S), \A x \in S : fun[x] \in Int
  PROVE  SumFunctionOnSet(fun, S) \in Int
<1> DEFINE Bad == {s \in SUBSET S : SumFunctionOnSet(fun, s) \notin Int}
<1>1. SUFFICES ASSUME Bad # {} PROVE FALSE
  BY <1>1
<1>2. Bad \in SUBSET FiniteSubsetsOf(S)
  BY FS_Subset DEF FiniteSubsetsOf
<1>3. PICK s \in Bad : \A y \in Bad : y \subseteq s => y = s
  <2> HIDE DEF Bad
  <2> QED BY <1>1, <1>2, SmallestSet
<1>4. IsFiniteSet(s)
  BY <1>3, FS_Subset
<1>5. CASE s = {}
  BY <1>3, <1>5, SumEmpty
<1>6. CASE s # {}
  <2>1. Any(s) \in s
    BY <1>6, AnyIn
  <2>2. SumFunctionOnSet(fun, s \ {Any(s)}) \in Int
    BY <1>3, <2>1
  <2>3. fun[Any(s)] \in Int
    BY <1>3, <2>1
  <2> QED BY <1>3, <1>4, <1>6, <2>2, <2>3, SumNext
<1> QED BY <1>5, <1>6

\* Any element may be taken out first.
LEMMA SumTakeOut ==
  ASSUME NEW fun, NEW S, IsFiniteSet(S), \A x \in S : fun[x] \in Int, NEW x0 \in S
  PROVE  SumFunctionOnSet(fun, S) = fun[x0] + SumFunctionOnSet(fun, S \ {x0})
<1> DEFINE Sum(s) == SumFunctionOnSet(fun, s)
           Bad == {s \in SUBSET S : \E x \in s : Sum(s) # fun[x] + Sum(s \ {x})}
<1>1. SUFFICES ASSUME Bad # {} PROVE FALSE
  <2>1. S \notin Bad => Sum(S) = fun[x0] + Sum(S \ {x0})
    OBVIOUS
  <2> QED BY <1>1, <2>1
<1>2. Bad \in SUBSET FiniteSubsetsOf(S)
  BY FS_Subset DEF FiniteSubsetsOf
<1>3. PICK s \in Bad : \A y \in Bad : y \subseteq s => y = s
  <2> HIDE DEF Bad
  <2> QED BY <1>1, <1>2, SmallestSet
<1>4. PICK x \in s : Sum(s) # fun[x] + Sum(s \ {x})
  BY <1>3
<1> DEFINE y == Any(s)
<1>5. y \in s /\ s \in SUBSET S
  BY <1>3, <1>4, AnyIn
<1>6. Sum(s) = fun[y] + Sum(s \ {y})
  BY <1>4, <1>5, FS_Subset, SumNext
<1> HIDE DEF y
<1>7. x # y
  BY <1>4, <1>6
<1>8. Sum(s \ {y}) = fun[x] + Sum((s \ {y}) \ {x})
  <2>1. s \ {y} \notin Bad
    <3> HIDE DEF Bad
    <3> QED BY <1>3, <1>5
  <2> QED BY <1>4, <1>5, <1>7, <2>1
<1>9. Sum(s \ {x}) = fun[y] + Sum((s \ {x}) \ {y})
  <2>1. s \ {x} \notin Bad
    <3> HIDE DEF Bad
    <3> QED BY <1>3, <1>4, <1>5
  <2> QED BY <1>4, <1>5, <1>7, <2>1
<1>10. (s \ {y}) \ {x} = (s \ {x}) \ {y}
  OBVIOUS
<1>11. Sum((s \ {y}) \ {x}) \in Int /\ fun[x] \in Int /\ fun[y] \in Int
  BY <1>4, <1>5, FS_Subset, SumTyped
<1> DEFINE r == Sum((s \ {y}) \ {x})
<1>12. Sum(s \ {y}) = fun[x] + r /\ Sum(s \ {x}) = fun[y] + r
  BY <1>8, <1>9, <1>10
<1>13. r \in Int /\ Sum(s) = fun[y] + (fun[x] + r)
  BY <1>6, <1>11, <1>12
<1> HIDE DEF r
<1>14. Sum(s) = fun[x] + (fun[y] + r)
  BY <1>11, <1>13
<1> QED BY <1>4, <1>12, <1>14

\* The sum depends on the values in the set alone.
LEMMA SumSame ==
  ASSUME NEW f, NEW g, NEW S, IsFiniteSet(S), \A x \in S : f[x] = g[x]
  PROVE  SumFunctionOnSet(f, S) = SumFunctionOnSet(g, S)
<1> DEFINE Bad == {s \in SUBSET S : SumFunctionOnSet(f, s) # SumFunctionOnSet(g, s)}
<1>1. SUFFICES ASSUME Bad # {} PROVE FALSE
  BY <1>1
<1>2. Bad \in SUBSET FiniteSubsetsOf(S)
  BY FS_Subset DEF FiniteSubsetsOf
<1>3. PICK s \in Bad : \A y \in Bad : y \subseteq s => y = s
  <2> HIDE DEF Bad
  <2> QED BY <1>1, <1>2, SmallestSet
<1>4. IsFiniteSet(s) /\ s # {}
  <2>1. IsFiniteSet(s)
    BY <1>3, FS_Subset
  <2>2. CASE s = {}
    <3>1. SumFunctionOnSet(f, s) = 0 /\ SumFunctionOnSet(g, s) = 0
      BY <2>1, <2>2, SumNext
    <3> QED BY <1>3, <3>1
  <2> QED BY <2>1, <2>2
<1>5. Any(s) \in s
  BY <1>4, AnyIn
<1>6. SumFunctionOnSet(f, s \ {Any(s)}) = SumFunctionOnSet(g, s \ {Any(s)})
  BY <1>3, <1>5
<1>7. f[Any(s)] = g[Any(s)]
  BY <1>3, <1>5
<1> QED BY <1>3, <1>4, <1>6, <1>7, SumNext

\* No term below zero, no sum below zero.
LEMMA SumNatural ==
  ASSUME NEW fun, NEW S, IsFiniteSet(S), \A x \in S : fun[x] \in Nat
  PROVE  SumFunctionOnSet(fun, S) \in Nat
<1> DEFINE Bad == {s \in SUBSET S : SumFunctionOnSet(fun, s) \notin Nat}
<1>1. SUFFICES ASSUME Bad # {} PROVE FALSE
  BY <1>1
<1>2. Bad \in SUBSET FiniteSubsetsOf(S)
  BY FS_Subset DEF FiniteSubsetsOf
<1>3. PICK s \in Bad : \A y \in Bad : y \subseteq s => y = s
  <2> HIDE DEF Bad
  <2> QED BY <1>1, <1>2, SmallestSet
<1>4. IsFiniteSet(s)
  BY <1>3, FS_Subset
<1>5. CASE s = {}
  BY <1>3, <1>5, SumEmpty
<1>6. CASE s # {}
  <2>1. Any(s) \in s
    BY <1>6, AnyIn
  <2>2. SumFunctionOnSet(fun, s \ {Any(s)}) \in Nat
    BY <1>3, <2>1
  <2>3. fun[Any(s)] \in Nat
    BY <1>3, <2>1
  <2> QED BY <1>3, <1>4, <1>6, <2>2, <2>3, SumNext
<1> QED BY <1>5, <1>6

\* One term more adds its value to the sum.
LEMMA SumWithOneMore ==
  ASSUME NEW f, NEW g, IsFiniteSet(DOMAIN f), NEW x, x \notin DOMAIN f,
         DOMAIN g = DOMAIN f \cup {x},
         \A y \in DOMAIN f : f[y] \in Int /\ g[y] = f[y], g[x] \in Int
  PROVE  /\ SumFunction(f) \in Int
         /\ SumFunction(g) = SumFunction(f) + g[x]
<1> DEFINE D == DOMAIN f
<1>1. IsFiniteSet(D \cup {x}) /\ x \in D \cup {x} /\ (D \cup {x}) \ {x} = D
  BY FS_AddElement
<1>2. \A y \in D \cup {x} : g[y] \in Int
  OBVIOUS
<1>3. SumFunctionOnSet(g, D \cup {x}) = g[x] + SumFunctionOnSet(g, (D \cup {x}) \ {x})
  BY <1>1, <1>2, SumTakeOut
<1>4. SumFunctionOnSet(g, D) = SumFunctionOnSet(f, D)
  BY SumSame
<1>5. SumFunctionOnSet(f, D) \in Int
  BY SumTyped
<1> QED BY <1>1, <1>3, <1>4, <1>5 DEF SumFunction

\* Leaving out terms never makes a sum of naturals larger, and leaving out zeros
\* does not change it.
LEMMA SumOfPart ==
  ASSUME NEW fun, NEW T, IsFiniteSet(T), \A x \in T : fun[x] \in Nat, NEW S \in SUBSET T
  PROVE  /\ SumFunctionOnSet(fun, S) <= SumFunctionOnSet(fun, T)
         /\ (\A x \in T \ S : fun[x] = 0) => SumFunctionOnSet(fun, S) = SumFunctionOnSet(fun, T)
<1> DEFINE Sum(s) == SumFunctionOnSet(fun, s)
           Right(s) == /\ Sum(S) <= Sum(s)
                       /\ (\A x \in s \ S : fun[x] = 0) => Sum(S) = Sum(s)
           Bad == {s \in SUBSET T : S \subseteq s /\ ~ Right(s)}
<1>1. SUFFICES ASSUME Bad # {} PROVE FALSE
  OBVIOUS
<1>2. Bad \in SUBSET FiniteSubsetsOf(T)
  BY FS_Subset DEF FiniteSubsetsOf
<1>3. PICK s \in Bad : \A y \in Bad : y \subseteq s => y = s
  <2> HIDE DEF Bad
  <2> QED BY <1>1, <1>2, SmallestSet
<1>4. s \in SUBSET T /\ S \subseteq s /\ IsFiniteSet(s) /\ \A y \in SUBSET s : Sum(y) \in Nat
  <2>1. s \in SUBSET T /\ S \subseteq s /\ IsFiniteSet(s)
    BY <1>3, FS_Subset
  <2>2. ASSUME NEW y \in SUBSET s PROVE Sum(y) \in Nat
    BY <2>1, FS_Subset, SumNatural
  <2> QED BY <2>1, <2>2
<1>5. s # S
  BY <1>3, <1>4
<1>6. PICK x \in s : x \notin S
  BY <1>4, <1>5
<1>7. Sum(s) = fun[x] + Sum(s \ {x}) /\ fun[x] \in Nat /\ Sum(s \ {x}) \in Nat
  <2>1. \A y \in s : fun[y] \in Int /\ fun[y] \in Nat
    BY <1>4
  <2>2. Sum(s) = fun[x] + Sum(s \ {x})
    BY <1>4, <2>1, SumTakeOut
  <2> QED BY <1>4, <2>1, <2>2
<1>8. Right(s \ {x})
  <2>1. s \ {x} \in SUBSET T /\ S \subseteq s \ {x} /\ s \ {x} \subseteq s /\ s \ {x} # s
    BY <1>4, <1>6
  <2> HIDE DEF Right
  <2> QED BY <1>3, <2>1
<1>9. Sum(S) \in Nat
  BY <1>4
<1>10. Right(s)
  <2>1. Sum(S) <= Sum(s)
    BY <1>7, <1>8, <1>9
  <2>2. ASSUME \A y \in s \ S : fun[y] = 0 PROVE Sum(S) = Sum(s)
    <3>1. fun[x] = 0 /\ Sum(S) = Sum(s \ {x})
      BY <1>6, <1>8, <2>2
    <3> QED BY <1>7, <3>1
  <2> QED BY <2>1, <2>2
<1> QED BY <1>3, <1>10
\* Renaming the terms, each to a name of its own, does not change their sum.
LEMMA SumRenamed ==
  ASSUME NEW f, NEW g, NEW h, NEW S, IsFiniteSet(S),
         \A x \in S : f[x] \in Int /\ g[h[x]] = f[x],
         \A x, y \in S : h[x] = h[y] => x = y
  PROVE  SumFunctionOnSet(g, {h[x] : x \in S}) = SumFunctionOnSet(f, S)
<1> DEFINE Image(s) == {h[x] : x \in s}
           Bad == {s \in SUBSET S : SumFunctionOnSet(g, Image(s)) # SumFunctionOnSet(f, s)}
<1>1. SUFFICES ASSUME Bad # {} PROVE FALSE
  BY <1>1
<1>2. Bad \in SUBSET FiniteSubsetsOf(S)
  BY FS_Subset DEF FiniteSubsetsOf
<1>3. PICK s \in Bad : \A y \in Bad : y \subseteq s => y = s
  <2> HIDE DEF Bad
  <2> QED BY <1>1, <1>2, SmallestSet
<1>4. s \in SUBSET S /\ IsFiniteSet(s) /\ IsFiniteSet(Image(s))
  <2>1. IsFiniteSet(s)
    BY <1>3, FS_Subset
  <2>2. [x \in s |-> h[x]] \in Surjection(s, Image(s))
    BY DEF Surjection
  <2>3. IsFiniteSet(Image(s))
    <3> HIDE DEF Image
    <3> QED BY <2>1, <2>2, FS_Surjection
  <2> QED BY <1>3, <2>1, <2>3
<1>5. s # {}
  <2>1. SUFFICES ASSUME s = {} PROVE FALSE
    OBVIOUS
  <2>2. Image(s) = {}
    BY <2>1
  <2>3. SumFunctionOnSet(g, Image(s)) = 0 /\ SumFunctionOnSet(f, s) = 0
    BY <2>1, <2>2, SumEmpty
  <2> QED BY <1>3, <2>3
<1>6. PICK x \in s : TRUE
  BY <1>5
<1>7. Image(s) \ {h[x]} = Image(s \ {x}) /\ h[x] \in Image(s)
  BY <1>4, <1>6
<1>8. SumFunctionOnSet(f, s) = f[x] + SumFunctionOnSet(f, s \ {x})
  BY <1>4, <1>6, SumTakeOut
<1>9. SumFunctionOnSet(g, Image(s)) = g[h[x]] + SumFunctionOnSet(g, Image(s) \ {h[x]})
  <2>1. \A y \in Image(s) : g[y] \in Int
    BY <1>4
  <2> HIDE DEF Image
  <2> QED BY <1>4, <1>7, <2>1, SumTakeOut
<1>10. SumFunctionOnSet(g, Image(s \ {x})) = SumFunctionOnSet(f, s \ {x})
  <2>1. s \ {x} \in SUBSET S /\ s \ {x} # s /\ s \ {x} \subseteq s
    BY <1>4, <1>6
  <2>2. s \ {x} \notin Bad
    <3> HIDE DEF Bad
    <3> QED BY <1>3, <2>1
  <2> QED BY <2>1, <2>2
<1>11. g[h[x]] = f[x]
  BY <1>4, <1>6
<1> HIDE DEF Image
<1>12. SumFunctionOnSet(g, Image(s)) = SumFunctionOnSet(f, s)
  BY <1>7, <1>8, <1>9, <1>10, <1>11
<1> QED BY <1>3, <1>12 DEF Image

-----------------------------------------------------------------------------
\* How many whole groups of g there are in n, and what is left.
LEMMA Quotient ==
  ASSUME NEW n \in Nat, NEW g \in Nat \ {0}
  PROVE  /\ n \div g \in Nat /\ n % g \in Nat /\ n % g < g
         /\ (n % g) + g * (n \div g) = n
         /\ (n \div g) * g <= n /\ n < ((n \div g) + 1) * g
<1> DEFINE k == n \div g
           r == n % g
<1>1. k \in Int /\ r \in 0..(g-1) /\ r = n - g * k
  OBVIOUS
<1> HIDE DEF k, r
<1>2. k \in Nat
  <2>1. SUFFICES ASSUME k <= -1 PROVE FALSE
    BY <1>1
  <2>2. g * k <= -g
    BY <1>1, <2>1
  <2> QED BY <1>1, <2>2
<1>3. k * g = g * k /\ (k + 1) * g = g * k + g
  BY <1>1
<1>4. r + g * k = n
  BY <1>1
<1> QED BY <1>1, <1>2, <1>3, <1>4 DEF k, r
=============================================================================
