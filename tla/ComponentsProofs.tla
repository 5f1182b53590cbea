---------------------------- MODULE ComponentsProofs ----------------------------
(***************************************************************************)
(* The components together.  The panels, for rings of any size and any     *)
(* records: the details of a stutter, the pie of the scripts, and two      *)
(* facts about the charts for any number of frames and any times.  Then    *)
(* the composition that TLC runs: it is a behaviour of every component,    *)
(* so that what is proved of each holds in it.                             *)
(***************************************************************************)
EXTENDS MCComponents, SamplersProofs, PluginLoadProofs, RollingRecorderProofs,
        FiniteSetTheorems, NaturalsInduction, TLAPS

-----------------------------------------------------------------------------
(* Sums over a finite set.                                                 *)

\* What holds of the empty set, and of a set when it holds of the set without any
\* one of its elements, holds of a finite set: a least one for which it did not
\* would be left.
LEMMA SubsetInduction ==
  ASSUME NEW S, IsFiniteSet(S), NEW Good, {} \in Good,
         \A T \in SUBSET S : T # {} /\ (\A x \in T : T \ {x} \in Good) => T \in Good
  PROVE  S \in Good
<1> SUFFICES ASSUME S \notin Good PROVE FALSE
  OBVIOUS
<1> DEFINE Bad == {T \in SUBSET S : T \notin Good}
           sizes == {Cardinality(T) : T \in Bad}
<1>1. \A T \in SUBSET S : IsFiniteSet(T) /\ Cardinality(T) \in Nat
  BY FS_Subset, FS_CardinalityType
<1>2. sizes \in SUBSET Nat /\ sizes # {}
  BY <1>1
<1>3. PICK n \in sizes : \A m \in sizes : <<m, n>> \notin OpToRel(<, Nat)
  BY <1>2, NatLessThanWellFounded, WFMin
<1>4. \A m \in sizes : ~(m < n)
  BY <1>2, <1>3 DEF OpToRel
<1>5. PICK T \in Bad : Cardinality(T) = n
  OBVIOUS
<1>6. ASSUME NEW x \in T PROVE T \ {x} \in Good
  <2>1. Cardinality(T \ {x}) = n - 1 /\ n \in Nat
    BY <1>1, <1>5, FS_RemoveElement
  <2>2. n - 1 < n
    BY <2>1
  <2>3. Cardinality(T \ {x}) \notin sizes
    BY <1>4, <2>1, <2>2
  <2> QED BY <2>3
<1>7. T # {} /\ T \in SUBSET S
  OBVIOUS
<1> QED BY <1>5, <1>6, <1>7

\* The element that the fold takes next.
AnyOf(s) == CHOOSE x \in s : TRUE

\* The recursion of the fold behind SumFunctionOnSet.
Adds(g, f, S) ==
  g = [s \in SUBSET S |-> IF s = {} THEN 0 ELSE f[AnyOf(s)] + g[s \ {AnyOf(s)}]]

\* The fold is a function of the subsets that satisfies the recursion.
LEMMA SumIs ==
  ASSUME NEW f, NEW S
  PROVE  SumFunctionOnSet(f, S) = (CHOOSE g : Adds(g, f, S))[S]
BY DEF SumFunctionOnSet, FoldFunctionOnSet, MapThenFoldSet, Adds, AnyOf

\* It is one of the set.
LEMMA AnyOne ==
  ASSUME NEW s, s # {}
  PROVE  AnyOf(s) \in s
BY DEF AnyOf

\* The recursion at one subset.
LEMMA AddsAt ==
  ASSUME NEW f, NEW S, NEW g, Adds(g, f, S), NEW s \in SUBSET S
  PROVE  g[s] = IF s = {} THEN 0 ELSE f[AnyOf(s)] + g[s \ {AnyOf(s)}]
<1> DEFINE h == [t \in SUBSET S |-> IF t = {} THEN 0 ELSE f[AnyOf(t)] + g[t \ {AnyOf(t)}]]
<1>1. g = h
  BY DEF Adds
<1>2. h[s] = IF s = {} THEN 0 ELSE f[AnyOf(s)] + g[s \ {AnyOf(s)}]
  OBVIOUS
<1> HIDE DEF h
<1> QED BY <1>1, <1>2

\* There is one such function on the subsets of a finite set.
LEMMA AddsOnce ==
  ASSUME NEW f, NEW S, IsFiniteSet(S), NEW g, Adds(g, f, S), NEW h, Adds(h, f, S)
  PROVE  g[S] = h[S]
<1> DEFINE Good == {T \in SUBSET S : g[T] = h[T]}
<1>1. {} \in Good
  BY AddsAt
<1>2. ASSUME NEW T \in SUBSET S, T # {}, \A x \in T : T \ {x} \in Good
      PROVE  T \in Good
  <2>1. AnyOf(T) \in T
    BY <1>2, AnyOne
  <2>2. g[T \ {AnyOf(T)}] = h[T \ {AnyOf(T)}]
    BY <1>2, <2>1
  <2> QED BY <1>2, <2>2, AddsAt
<1> HIDE DEF Good
<1>3. S \in Good
  BY <1>1, <1>2, SubsetInduction
<1> QED BY <1>3 DEF Good

\* The empty sum is zero.
LEMMA SumEmpty ==
  ASSUME NEW f
  PROVE  SumFunctionOnSet(f, {}) = 0
<1> DEFINE g == [s \in SUBSET {} |-> 0]
<1>1. Adds(g, f, {})
  BY DEF Adds
<1>2. \E h : Adds(h, f, {})
  BY <1>1
<1> DEFINE c == CHOOSE h : Adds(h, f, {})
<1>3. Adds(c, f, {})
  BY <1>2
<1> HIDE DEF c
<1>4. c[{}] = 0
  BY <1>3, AddsAt
<1> QED BY <1>4, SumIs DEF c

\* What the fold computes: the recursion holds of it, for any finite set.
LEMMA SumStep ==
  ASSUME NEW f, NEW S, IsFiniteSet(S), S # {}
  PROVE  SumFunctionOnSet(f, S) = f[AnyOf(S)] + SumFunctionOnSet(f, S \ {AnyOf(S)})
<1> DEFINE Sum(s) == SumFunctionOnSet(f, s)
           Recurs(s) == s # {} => Sum(s) = f[AnyOf(s)] + Sum(s \ {AnyOf(s)})
           Good == {T \in SUBSET S : \A U \in SUBSET T : Recurs(U)}
<1> HIDE DEF Sum
<1>0. Sum({}) = 0
  BY SumEmpty DEF Sum
<1>1. {} \in Good
  OBVIOUS
<1>2. ASSUME NEW T \in SUBSET S, T # {}, \A x \in T : T \ {x} \in Good
      PROVE  T \in Good
  <2> DEFINE G == [s \in SUBSET T |-> IF s = {} THEN 0 ELSE f[AnyOf(s)] + Sum(s \ {AnyOf(s)})]
  <2>1. ASSUME NEW U \in SUBSET T, U # T PROVE Recurs(U) /\ Sum(U) = G[U]
    <3>1. PICK x \in T : x \notin U
      BY <2>1
    <3>2. U \in SUBSET (T \ {x})
      BY <3>1
    <3>3. Recurs(U)
      BY <1>2, <3>1, <3>2
    <3> QED BY <1>0, <3>3
  <2>2. Adds(G, f, T)
    <3>1. ASSUME NEW s \in SUBSET T, s # {}
          PROVE  G[s \ {AnyOf(s)}] = Sum(s \ {AnyOf(s)})
      <4>1. AnyOf(s) \in s
        BY <3>1, AnyOne
      <4>2. s \ {AnyOf(s)} \in SUBSET T /\ s \ {AnyOf(s)} # T
        BY <4>1
      <4> QED BY <2>1, <4>2
    <3> DEFINE R == [s \in SUBSET T |-> IF s = {} THEN 0 ELSE f[AnyOf(s)] + G[s \ {AnyOf(s)}]]
    <3>2. ASSUME NEW s \in SUBSET T PROVE G[s] = R[s]
      <4>1. CASE s = {}
        BY <4>1
      <4>2. CASE s # {}
        BY <3>1, <4>2
      <4> QED BY <4>1, <4>2
    <3>3. G = R
      BY <3>2
    <3> QED BY <3>3 DEF Adds
  <2> DEFINE c == CHOOSE g : Adds(g, f, T)
  <2>3. Adds(c, f, T)
    BY <2>2
  <2>4. IsFiniteSet(T)
    BY FS_Subset
  <2>5. Sum(T) = c[T]
    BY SumIs DEF Sum
  <2>6. G[T] = f[AnyOf(T)] + Sum(T \ {AnyOf(T)})
    BY <1>2
  <2> HIDE DEF c, G
  <2>7. c[T] = G[T]
    BY <2>2, <2>3, <2>4, AddsOnce
  <2>8. Recurs(T)
    BY <2>5, <2>6, <2>7
  <2> QED BY <2>1, <2>8
<1> HIDE DEF Good
<1>3. S \in Good
  BY <1>1, <1>2, SubsetInduction
<1>4. Recurs(S)
  BY <1>3 DEF Good
<1> QED BY <1>4 DEF Sum

\* The sum of natural numbers is one.
LEMMA SumNat ==
  ASSUME NEW f, NEW S, IsFiniteSet(S), \A x \in S : f[x] \in Nat
  PROVE  SumFunctionOnSet(f, S) \in Nat
<1> DEFINE Good == {T \in SUBSET S : SumFunctionOnSet(f, T) \in Nat}
<1>1. {} \in Good
  BY SumEmpty
<1>2. ASSUME NEW T \in SUBSET S, T # {}, \A x \in T : T \ {x} \in Good
      PROVE  T \in Good
  <2>1. AnyOf(T) \in T
    BY <1>2, AnyOne
  <2>2. SumFunctionOnSet(f, T) = f[AnyOf(T)] + SumFunctionOnSet(f, T \ {AnyOf(T)})
    BY <1>2, FS_Subset, SumStep
  <2>3. f[AnyOf(T)] \in Nat /\ SumFunctionOnSet(f, T \ {AnyOf(T)}) \in Nat
    BY <1>2, <2>1
  <2> QED BY <2>2, <2>3
<1> HIDE DEF Good
<1>3. S \in Good
  BY <1>1, <1>2, SubsetInduction
<1> QED BY <1>3 DEF Good

\* Any of the numbers may be the last one added.
LEMMA SumAny ==
  ASSUME NEW f, NEW S, IsFiniteSet(S), \A x \in S : f[x] \in Nat, NEW y \in S
  PROVE  SumFunctionOnSet(f, S) = f[y] + SumFunctionOnSet(f, S \ {y})
<1> DEFINE Sum(s) == SumFunctionOnSet(f, s)
           Good == {T \in SUBSET S : \A x \in T : Sum(T) = f[x] + Sum(T \ {x})}
<1>0. \A T \in SUBSET S : Sum(T) \in Nat
  BY SumNat, FS_Subset
<1> HIDE DEF Sum
<1>1. {} \in Good
  OBVIOUS
<1>2. ASSUME NEW T \in SUBSET S, T # {}, \A x \in T : T \ {x} \in Good
      PROVE  T \in Good
  <2> DEFINE a == AnyOf(T)
  <2>1. a \in T
    BY <1>2, AnyOne
  <2>2. Sum(T) = f[a] + Sum(T \ {a})
    BY <1>2, FS_Subset, SumStep DEF Sum
  <2> HIDE DEF a
  <2>3. ASSUME NEW x \in T, x # a PROVE Sum(T) = f[x] + Sum(T \ {x})
    <3>1. Sum(T \ {a}) = f[x] + Sum((T \ {a}) \ {x})
      BY <1>2, <2>1, <2>3
    <3>2. Sum(T \ {x}) = f[a] + Sum((T \ {x}) \ {a})
      BY <1>2, <2>1, <2>3
    <3>3. (T \ {a}) \ {x} = (T \ {x}) \ {a}
      OBVIOUS
    <3>4. Sum((T \ {a}) \ {x}) \in Nat /\ f[a] \in Nat /\ f[x] \in Nat
      BY <1>0, <2>1
    <3> QED BY <2>2, <3>1, <3>2, <3>3, <3>4
  <2> QED BY <2>2, <2>3
<1> HIDE DEF Good
<1>3. S \in Good
  BY <1>1, <1>2, SubsetInduction
<1> QED BY <1>3 DEF Good, Sum

\* The sum over two sets without a common element.
LEMMA SumCat ==
  ASSUME NEW f, NEW S, IsFiniteSet(S), NEW T, IsFiniteSet(T), S \cap T = {},
         \A x \in S \union T : f[x] \in Nat
  PROVE  SumFunctionOnSet(f, S \union T) = SumFunctionOnSet(f, S) + SumFunctionOnSet(f, T)
<1> DEFINE Sum(s) == SumFunctionOnSet(f, s)
           Good == {U \in SUBSET T : Sum(S \union U) = Sum(S) + Sum(U)}
<1>0. Sum({}) = 0 /\ \A U \in SUBSET (S \union T) : IsFiniteSet(U) /\ Sum(U) \in Nat
  BY SumEmpty, SumNat, FS_Subset, FS_Union
<1>a. \A U \in SUBSET (S \union T) : \A x \in U : Sum(U) = f[x] + Sum(U \ {x})
  BY <1>0, SumAny
<1> HIDE DEF Sum
<1>1. {} \in Good
  <2>1. S \union {} = S /\ Sum(S) \in Nat
    BY <1>0
  <2> QED BY <1>0, <2>1
<1>2. ASSUME NEW U \in SUBSET T, U # {}, \A x \in U : U \ {x} \in Good
      PROVE  U \in Good
  <2>1. PICK x \in U : TRUE
    BY <1>2
  <2>2. (S \union U) \ {x} = S \union (U \ {x})
    OBVIOUS
  <2>3. Sum(S \union U) = f[x] + Sum(S \union (U \ {x})) /\ Sum(U) = f[x] + Sum(U \ {x})
    BY <1>a, <2>1, <2>2
  <2>4. Sum(S \union (U \ {x})) = Sum(S) + Sum(U \ {x})
    BY <1>2
  <2>5. Sum(S) \in Nat /\ Sum(U \ {x}) \in Nat /\ f[x] \in Nat
    BY <1>0, <2>1
  <2> QED BY <2>3, <2>4, <2>5
<1> HIDE DEF Good
<1>3. T \in Good
  BY <1>1, <1>2, SubsetInduction
<1> QED BY <1>3 DEF Good, Sum

\* Zeros add nothing.
LEMMA SumZeros ==
  ASSUME NEW f, NEW S, IsFiniteSet(S), \A x \in S : f[x] = 0
  PROVE  SumFunctionOnSet(f, S) = 0
<1> DEFINE Good == {T \in SUBSET S : SumFunctionOnSet(f, T) = 0}
<1>1. {} \in Good
  BY SumEmpty
<1>2. ASSUME NEW T \in SUBSET S, T # {}, \A x \in T : T \ {x} \in Good
      PROVE  T \in Good
  <2>1. AnyOf(T) \in T
    BY <1>2, AnyOne
  <2>2. SumFunctionOnSet(f, T) = f[AnyOf(T)] + SumFunctionOnSet(f, T \ {AnyOf(T)})
    BY <1>2, FS_Subset, SumStep
  <2>3. f[AnyOf(T)] = 0 /\ SumFunctionOnSet(f, T \ {AnyOf(T)}) = 0
    BY <1>2, <2>1
  <2> QED BY <2>2, <2>3
<1> HIDE DEF Good
<1>3. S \in Good
  BY <1>1, <1>2, SubsetInduction
<1> QED BY <1>3 DEF Good

\* The sum of the sums of two functions.
LEMMA SumPlus ==
  ASSUME NEW f, NEW g, NEW h, NEW S, IsFiniteSet(S),
         \A x \in S : f[x] \in Nat /\ g[x] \in Nat /\ h[x] = f[x] + g[x]
  PROVE  SumFunctionOnSet(h, S) = SumFunctionOnSet(f, S) + SumFunctionOnSet(g, S)
<1> DEFINE Sum(e, s) == SumFunctionOnSet(e, s)
           Good == {T \in SUBSET S : Sum(h, T) = Sum(f, T) + Sum(g, T)}
<1>0. Sum(f, {}) = 0 /\ Sum(g, {}) = 0 /\ Sum(h, {}) = 0
  BY SumEmpty
<1>a. \A T \in SUBSET S : IsFiniteSet(T) /\ Sum(f, T) \in Nat /\ Sum(g, T) \in Nat
  BY SumNat, FS_Subset
<1>b. \A T \in SUBSET S : T # {} =>
        LET x == AnyOf(T)
        IN  /\ Sum(f, T) = f[x] + Sum(f, T \ {x}) /\ Sum(g, T) = g[x] + Sum(g, T \ {x})
            /\ Sum(h, T) = h[x] + Sum(h, T \ {x})
  BY <1>a, SumStep
<1> HIDE DEF Sum
<1>1. {} \in Good
  BY <1>0
<1>2. ASSUME NEW T \in SUBSET S, T # {}, \A x \in T : T \ {x} \in Good
      PROVE  T \in Good
  <2> DEFINE x == AnyOf(T)
  <2>1. x \in T
    BY <1>2, AnyOne
  <2>2. /\ Sum(f, T) = f[x] + Sum(f, T \ {x}) /\ Sum(g, T) = g[x] + Sum(g, T \ {x})
        /\ Sum(h, T) = h[x] + Sum(h, T \ {x})
    BY <1>2, <1>b
  <2> HIDE DEF x
  <2>3. Sum(h, T \ {x}) = Sum(f, T \ {x}) + Sum(g, T \ {x})
    BY <1>2, <2>1
  <2>4. Sum(f, T \ {x}) \in Nat /\ Sum(g, T \ {x}) \in Nat /\ f[x] \in Nat /\ g[x] \in Nat
        /\ h[x] = f[x] + g[x]
    BY <1>a, <2>1
  <2> QED BY <2>2, <2>3, <2>4
<1> HIDE DEF Good
<1>3. S \in Good
  BY <1>1, <1>2, SubsetInduction
<1> QED BY <1>3 DEF Good, Sum

\* Equal functions have equal sums.
LEMMA SumSame ==
  ASSUME NEW f, NEW g, NEW S, IsFiniteSet(S), \A x \in S : f[x] \in Nat /\ f[x] = g[x]
  PROVE  SumFunctionOnSet(f, S) = SumFunctionOnSet(g, S)
<1> DEFINE z == [x \in S |-> 0]
<1>1. \A x \in S : z[x] \in Nat /\ z[x] = 0
  OBVIOUS
<1>2. \A x \in S : g[x] \in Nat /\ f[x] = g[x] + z[x]
  BY <1>1
<1> HIDE DEF z
<1>3. SumFunctionOnSet(f, S) = SumFunctionOnSet(g, S) + SumFunctionOnSet(z, S)
  BY <1>1, <1>2, SumPlus
<1>4. SumFunctionOnSet(z, S) = 0 /\ SumFunctionOnSet(g, S) \in Nat
  BY <1>1, <1>2, SumZeros, SumNat
<1> QED BY <1>3, <1>4

\* Zeros may be left out.
LEMMA SumWithout ==
  ASSUME NEW f, NEW S, IsFiniteSet(S), \A x \in S : f[x] \in Nat,
         NEW T \in SUBSET S, \A x \in S \ T : f[x] = 0
  PROVE  SumFunctionOnSet(f, T) = SumFunctionOnSet(f, S)
<1>1. IsFiniteSet(T) /\ IsFiniteSet(S \ T) /\ T \cap (S \ T) = {} /\ T \union (S \ T) = S
  BY FS_Subset
<1>2. \A x \in T \union (S \ T) : f[x] \in Nat
  BY <1>1
<1>3. SumFunctionOnSet(f, S) = SumFunctionOnSet(f, T) + SumFunctionOnSet(f, S \ T)
  BY <1>1, <1>2, SumCat
<1>4. SumFunctionOnSet(f, S \ T) = 0
  BY <1>1, SumZeros
<1>5. SumFunctionOnSet(f, T) \in Nat
  BY <1>1, SumNat
<1> QED BY <1>3, <1>4, <1>5

\* The rows of a record are finitely many natural numbers.
LEMMA TimesOf ==
  ASSUME NEW r \in Rec
  PROVE  /\ DOMAIN RowTimes(r) = DOMAIN ScriptsOf[r] /\ IsFiniteSet(DOMAIN ScriptsOf[r])
         /\ \A i \in DOMAIN ScriptsOf[r] :
              RowTimes(r)[i] \in Nat /\ ScriptsOf[r][i] \in STRING \X Nat
<1>1. ScriptsOf[r] \in Seq(STRING \X Nat)
  BY StoreAssumption DEF StoreAssumption
<1>2. DOMAIN ScriptsOf[r] = 1 .. Len(ScriptsOf[r]) /\ Len(ScriptsOf[r]) \in Nat
  BY <1>1
<1>3. IsFiniteSet(DOMAIN ScriptsOf[r])
  BY <1>2, FS_Interval
<1>4. \A i \in DOMAIN ScriptsOf[r] : ScriptsOf[r][i] \in STRING \X Nat
  BY <1>1
<1> QED BY <1>3, <1>4 DEF RowTimes

\* The rows of a record, name by name or all at once.
LEMMA TimesByName ==
  ASSUME NEW r \in Rec, NEW S, IsFiniteSet(S), NEW h,
         \A s \in S : h[s] = TimeIn(r, {s})
  PROVE  /\ TimeIn(r, S) \in Nat
         /\ TimeIn(r, S) = SumFunctionOnSet(h, S)
<1> DEFINE f == RowTimes(r)
           D == DOMAIN ScriptsOf[r]
           Good == {T \in SUBSET S : TimeIn(r, T) = SumFunctionOnSet(h, T)}
<1>1. IsFiniteSet(D) /\ \A i \in D : f[i] \in Nat
  BY TimesOf
<1>2. \A T : RowsOf(r, T) \in SUBSET D /\ IsFiniteSet(RowsOf(r, T)) /\ TimeIn(r, T) \in Nat
  <2> TAKE T
  <2>1. RowsOf(r, T) \in SUBSET D
    BY DEF RowsOf
  <2>2. IsFiniteSet(RowsOf(r, T))
    BY <1>1, <2>1, FS_Subset
  <2>3. TimeIn(r, T) \in Nat
    BY <1>1, <2>1, <2>2, SumNat DEF TimeIn
  <2> QED BY <2>1, <2>2, <2>3
<1>3. \A s \in S : h[s] \in Nat
  BY <1>2
<1>4. {} \in Good
  <2>1. RowsOf(r, {}) = {}
    BY DEF RowsOf
  <2> QED BY <2>1, SumEmpty DEF TimeIn
<1>5. ASSUME NEW T \in SUBSET S, T # {}, \A s \in T : T \ {s} \in Good
      PROVE  T \in Good
  <2>1. PICK s \in T : TRUE
    BY <1>5
  <2>2. /\ RowsOf(r, T) = RowsOf(r, {s}) \union RowsOf(r, T \ {s})
        /\ RowsOf(r, {s}) \cap RowsOf(r, T \ {s}) = {}
    BY <2>1 DEF RowsOf
  <2>3. \A i \in RowsOf(r, {s}) \union RowsOf(r, T \ {s}) : f[i] \in Nat
    BY <1>1, <1>2
  <2>4. TimeIn(r, T) = TimeIn(r, {s}) + TimeIn(r, T \ {s})
    <3> DEFINE A == RowsOf(r, {s})
               B == RowsOf(r, T \ {s})
    <3>1. IsFiniteSet(A) /\ IsFiniteSet(B) /\ A \cap B = {} /\ RowsOf(r, T) = A \union B
      BY <1>2, <2>2
    <3>2. \A i \in A \union B : f[i] \in Nat
      BY <2>3
    <3> HIDE DEF f, A, B
    <3>3. SumFunctionOnSet(f, A \union B) = SumFunctionOnSet(f, A) + SumFunctionOnSet(f, B)
      BY <3>1, <3>2, SumCat
    <3> QED BY <3>1, <3>3 DEF TimeIn, f, A, B
  <2>5. SumFunctionOnSet(h, T) = h[s] + SumFunctionOnSet(h, T \ {s})
    BY <1>3, <2>1, FS_Subset, SumAny
  <2>6. TimeIn(r, T \ {s}) = SumFunctionOnSet(h, T \ {s}) /\ h[s] = TimeIn(r, {s})
    BY <1>5, <2>1
  <2> QED BY <2>4, <2>5, <2>6
<1> HIDE DEF Good
<1>6. S \in Good
  BY <1>4, <1>5, SubsetInduction
<1> QED BY <1>2, <1>6 DEF Good

\* A record's names are finitely many strings, and another name took no time.
LEMMA NamesOf ==
  ASSUME NEW r \in Rec
  PROVE  /\ IsFiniteSet(Named(r)) /\ Named(r) \subseteq STRING \ {Unnamed}
         /\ \A s : TimeIn(r, {s}) \in Nat
         /\ \A s : s # Unnamed /\ s \notin Named(r) => TimeIn(r, {s}) = 0
<1> DEFINE D == DOMAIN ScriptsOf[r]
           all == {ScriptsOf[r][i][1] : i \in D}
<1>3. IsFiniteSet(D)
  BY TimesOf
<1>4. \A i \in D : ScriptsOf[r][i] \in STRING \X Nat
  BY TimesOf
<1>5. IsFiniteSet(all)
  <2> DEFINE g == [i \in D |-> ScriptsOf[r][i][1]]
  <2>1. g \in Surjection(D, all)
    BY DEF Surjection
  <2> HIDE DEF g, all, D
  <2> QED BY <1>3, <2>1, FS_Surjection
<1>6. Named(r) = all \ {Unnamed}
  BY DEF Named
<1>7. all \subseteq STRING
  BY <1>4
<1>8. IsFiniteSet(Named(r))
  BY <1>5, <1>6, FS_Subset
<1>9. ASSUME NEW s PROVE TimeIn(r, {s}) \in Nat
  <2> DEFINE h == [t \in {s} |-> TimeIn(r, {t})]
  <2>1. \A t \in {s} : h[t] = TimeIn(r, {t})
    OBVIOUS
  <2> HIDE DEF h
  <2>2. IsFiniteSet({s})
    BY FS_Singleton
  <2> QED BY <2>1, <2>2, TimesByName
<1>10. ASSUME NEW s, s # Unnamed, s \notin Named(r) PROVE TimeIn(r, {s}) = 0
  <2>1. RowsOf(r, {s}) = {}
    BY <1>6, <1>10 DEF RowsOf
  <2> QED BY <2>1, SumEmpty DEF TimeIn
<1> QED BY <1>6, <1>7, <1>8, <1>9, <1>10

\* The time of a record's named scripts.
LEMMA NamedNat ==
  ASSUME NEW r \in Rec
  PROVE  TimeIn(r, Named(r)) \in Nat
<1> DEFINE h == [s \in Named(r) |-> TimeIn(r, {s})]
<1>1. \A s \in Named(r) : h[s] = TimeIn(r, {s})
  OBVIOUS
<1> HIDE DEF h
<1> QED BY <1>1, NamesOf, TimesByName

\* What is observed of the scripts adds up to what the store has cumulated.
LEMMA CumulateAdds ==
  ASSUME NEW c, NEW r \in Rec, c \in [DOMAIN c -> Nat], IsFiniteSet(DOMAIN c),
         DOMAIN c \subseteq STRING \ {Unnamed}
  PROVE  LET d == Cumulate(c, r)
         IN  /\ d \in [DOMAIN d -> Nat] /\ IsFiniteSet(DOMAIN d)
             /\ DOMAIN d \subseteq STRING \ {Unnamed}
             /\ SumFunction(d) = SumFunction(c) + TimeIn(r, Named(r))
<1> DEFINE d == Cumulate(c, r)
           U == DOMAIN c \union Named(r)
           h == [s \in U |-> TimeIn(r, {s})]
           e == [s \in U |-> IF s \in DOMAIN c THEN c[s] ELSE 0]
<1>1. /\ IsFiniteSet(Named(r)) /\ Named(r) \subseteq STRING \ {Unnamed}
      /\ \A s : TimeIn(r, {s}) \in Nat
      /\ \A s : s # Unnamed /\ s \notin Named(r) => TimeIn(r, {s}) = 0
  BY NamesOf
<1>2. IsFiniteSet(U) /\ U \subseteq STRING \ {Unnamed}
  BY <1>1, FS_Union
<1>3. d = [s \in U |-> TimeIn(r, {s}) + IF s \in DOMAIN c THEN c[s] ELSE 0]
  BY DEF Cumulate
<1>4. \A s \in U : h[s] \in Nat /\ e[s] \in Nat /\ d[s] = h[s] + e[s]
  BY <1>1, <1>3
<1>5. DOMAIN d = U
  BY <1>3
<1>6. d \in [U -> Nat]
  <2>1. \A s \in U : d[s] \in Nat
    <3> HIDE DEF d, U, h, e
    <3> QED BY <1>4
  <2>2. d = [s \in U |-> d[s]]
    BY <1>3
  <2> HIDE DEF d, U
  <2> QED BY <2>1, <2>2
<1>7. SumFunctionOnSet(d, U) = SumFunctionOnSet(h, U) + SumFunctionOnSet(e, U)
  <2> HIDE DEF d, U, h, e
  <2> QED BY <1>2, <1>4, SumPlus
<1>8. SumFunctionOnSet(e, U) = SumFunctionOnSet(c, DOMAIN c)
  <2>1. \A s \in U : e[s] \in Nat /\ (s \notin DOMAIN c => e[s] = 0)
    OBVIOUS
  <2>2. \A s \in DOMAIN c : c[s] \in Nat /\ e[s] = c[s]
    OBVIOUS
  <2>3. DOMAIN c \in SUBSET U
    OBVIOUS
  <2> HIDE DEF e, U
  <2>4. SumFunctionOnSet(e, DOMAIN c) = SumFunctionOnSet(e, U)
    BY <1>2, <2>1, <2>3, SumWithout
  <2>5. SumFunctionOnSet(c, DOMAIN c) = SumFunctionOnSet(e, DOMAIN c)
    BY <2>2, SumSame
  <2> QED BY <2>4, <2>5
<1>9. SumFunctionOnSet(h, U) = TimeIn(r, Named(r))
  <2>1. \A s \in U : h[s] \in Nat /\ (s \notin Named(r) => h[s] = 0)
    BY <1>1, <1>2
  <2>2. \A s \in Named(r) : h[s] = TimeIn(r, {s})
    OBVIOUS
  <2>3. Named(r) \in SUBSET U
    OBVIOUS
  <2> HIDE DEF h, U
  <2>4. SumFunctionOnSet(h, Named(r)) = SumFunctionOnSet(h, U)
    BY <1>2, <2>1, <2>3, SumWithout
  <2>5. TimeIn(r, Named(r)) = SumFunctionOnSet(h, Named(r))
    BY <1>1, <2>2, TimesByName
  <2> QED BY <2>4, <2>5
<1>10. SumFunctionOnSet(c, DOMAIN c) \in Nat /\ TimeIn(r, Named(r)) \in Nat
  BY SumNat, NamedNat
<1> HIDE DEF d, U, h, e
<1>11. SumFunction(d) = SumFunction(c) + TimeIn(r, Named(r))
  BY <1>5, <1>7, <1>8, <1>9, <1>10 DEF SumFunction
<1> QED BY <1>2, <1>5, <1>6, <1>11 DEF d

\* Wherever rows of times are cut, the slices before the cut and "(other)" add up
\* to all of them.
LEMMA SlicesSum ==
  ASSUME NEW rows, IsFiniteSet(DOMAIN rows), \A i \in DOMAIN rows : rows[i] \in Nat,
         NEW cut \in SUBSET DOMAIN rows
  PROVE  SumFunctionOnSet(rows, Slices(rows, cut).rows) + Slices(rows, cut).other
           = SumFunction(rows)
<1> DEFINE D == DOMAIN rows
           shown == {i \in cut : rows[i] > 0}
<1>1. Slices(rows, cut).rows = shown
      /\ Slices(rows, cut).other = SumFunctionOnSet(rows, D \ cut)
  BY DEF Slices
<1>2. IsFiniteSet(cut) /\ IsFiniteSet(D \ cut) /\ cut \cap (D \ cut) = {}
      /\ cut \union (D \ cut) = D
  BY FS_Subset
<1>3. \A i \in cut \union (D \ cut) : rows[i] \in Nat
  OBVIOUS
<1>4. SumFunctionOnSet(rows, D) = SumFunctionOnSet(rows, cut) + SumFunctionOnSet(rows, D \ cut)
  <2> HIDE DEF D
  <2> QED BY <1>2, <1>3, SumCat
<1>5. SumFunctionOnSet(rows, shown) = SumFunctionOnSet(rows, cut)
  <2>1. shown \in SUBSET cut /\ \A i \in cut \ shown : rows[i] = 0
    OBVIOUS
  <2> HIDE DEF shown
  <2> QED BY <1>2, <1>3, <2>1, SumWithout
<1> QED BY <1>1, <1>4, <1>5 DEF SumFunction

\* There is such a cut, whatever the rows are.
LEMMA SomeCut ==
  ASSUME NEW rows, IsFiniteSet(DOMAIN rows), \A i \in DOMAIN rows : rows[i] \in Nat
  PROVE  Cuts(rows) # {}
<1> DEFINE D == DOMAIN rows
           Cut(T, k, cut) == /\ cut \in SUBSET T /\ Cardinality(cut) = k
                             /\ \A i \in cut, j \in T \ cut : rows[i] >= rows[j]
           Good == {T \in SUBSET D : \A k \in 0 .. Cardinality(T) : \E cut : Cut(T, k, cut)}
<1>1. \A T \in SUBSET D : IsFiniteSet(T) /\ Cardinality(T) \in Nat
  BY FS_Subset, FS_CardinalityType
<1>2. {} \in Good
  <2>1. Cardinality({}) = 0
    BY FS_EmptySet
  <2>2. \A k \in 0 .. Cardinality({}) : Cut({}, k, {})
    BY <2>1
  <2> QED BY <2>2
<1>3. ASSUME NEW T \in SUBSET D, T # {}, \A x \in T : T \ {x} \in Good
      PROVE  T \in Good
  <2>1. PICK x \in T : \A y \in T : rows[x] <= rows[y]
    <3> DEFINE values == {rows[y] : y \in T}
    <3>1. values \in SUBSET Nat /\ values # {}
      BY <1>3
    <3>2. PICK v \in values : \A w \in values : <<w, v>> \notin OpToRel(<, Nat)
      BY <3>1, NatLessThanWellFounded, WFMin
    <3> HIDE DEF values
    <3>3. \A w \in values : ~(w < v)
      BY <3>1, <3>2 DEF OpToRel
    <3>4. \A w \in values : v <= w
      BY <3>1, <3>3
    <3>5. \E x \in T : \A y \in T : rows[x] <= rows[y]
      BY <3>4 DEF values
    <3> QED BY <3>5
  <2>2. Cardinality(T \ {x}) = Cardinality(T) - 1 /\ Cardinality(T) \in Nat
    BY <1>1, <2>1, FS_RemoveElement
  <2>3. ASSUME NEW k \in 0 .. Cardinality(T)
        PROVE  \E cut : Cut(T, k, cut)
    <3>1. CASE k = Cardinality(T)
      <4>1. Cut(T, k, T)
        BY <3>1
      <4> QED BY <4>1
    <3>2. CASE k # Cardinality(T)
      <4>1. k \in 0 .. Cardinality(T \ {x})
        BY <2>2, <3>2
      <4>2. T \ {x} \in Good
        BY <1>3, <2>1
      <4>3. PICK cut : Cut(T \ {x}, k, cut)
        BY <4>1, <4>2
      <4>4. \A i \in cut : rows[i] >= rows[x]
        BY <2>1, <4>3
      <4>5. Cut(T, k, cut)
        BY <4>3, <4>4
      <4> QED BY <4>5
    <3> QED BY <3>1, <3>2
  <2> QED BY <2>3
<1> HIDE DEF Good
<1>4. D \in Good
  BY <1>2, <1>3, SubsetInduction
<1> DEFINE k == Min({MaxSlices, Cardinality(D)})
<1>5. k \in 0 .. Cardinality(D)
  <2>1. MaxSlices \in Nat /\ Cardinality(D) \in Nat
    BY <1>1, PanelsAssumption DEF PanelsAssumption
  <2>2. \E x \in {MaxSlices, Cardinality(D)} : \A y \in {MaxSlices, Cardinality(D)} : x <= y
    BY <2>1
  <2>3. k \in {MaxSlices, Cardinality(D)} /\ k <= Cardinality(D)
    BY <2>2 DEF Min
  <2> QED BY <2>1, <2>3
<1>6. PICK cut : Cut(D, k, cut)
  BY <1>4, <1>5 DEF Good
<1> QED BY <1>6 DEF Cuts

-----------------------------------------------------------------------------
(***************************************************************************)
(* The panels' invariant: their types, that the index which was chosen     *)
(* stays that of the stutter clicked as long as none was dropped (the ring *)
(* grows at its far end), and that what was observed of the scripts is     *)
(* what the store has cumulated of them.                                   *)
(***************************************************************************)
ClickInv ==
  /\ Len(Stutters) <= RingCap
  /\ clicked # NoRecord /\ ~shifted =>
       /\ selected \in DOMAIN Stutters /\ Stutters[selected] = clicked
       /\ jumpTo = TimeOf[clicked]

PieInv == observed = SumFunction(store.cumulative)

PanelsInv == PanelsTypeOK /\ ClickInv /\ PieInv

\* A ring grows at its far end, and drops its first record only when it is full.
LEMMA RingGrows ==
  ASSUME NEW ring \in Seq(Rec), NEW r \in Rec, Len(ring) <= RingCap
  PROVE  /\ PushCapped(ring, r) \in Seq(Rec) /\ Len(PushCapped(ring, r)) <= RingCap
         /\ Len(ring) # RingCap => PushCapped(ring, r) = Append(ring, r)
<1> DEFINE longer == Append(ring, r)
<1>1. longer \in Seq(Rec) /\ Len(longer) = Len(ring) + 1 /\ Len(ring) \in Nat
  OBVIOUS
<1>2. RingCap \in Nat \ {0}
  BY StoreAssumption DEF StoreAssumption
<1> HIDE DEF longer
<1>3. longer # <<>>
  BY <1>1
<1>4. Tail(longer) \in Seq(Rec) /\ Len(Tail(longer)) = Len(ring)
  BY <1>1, <1>3
<1>5. PushCapped(ring, r) = IF Len(longer) > RingCap THEN Tail(longer) ELSE longer
  BY DEF PushCapped, longer
<1>6. CASE Len(ring) = RingCap
  <2>1. PushCapped(ring, r) = Tail(longer)
    BY <1>1, <1>2, <1>5, <1>6
  <2> QED BY <1>4, <1>6, <2>1
<1>7. CASE Len(ring) # RingCap
  <2>1. Len(ring) + 1 <= RingCap
    BY <1>1, <1>2, <1>7
  <2>2. PushCapped(ring, r) = longer
    BY <1>1, <1>2, <1>5, <2>1
  <2> QED BY <1>1, <2>1, <2>2 DEF longer
<1> QED BY <1>6, <1>7

\* One record keeps the store's types, and leaves the stutters as they were, adds
\* one at the end, or has the full ring drop one.
LEMMA IngestKeeps ==
  ASSUME StoreTypeOK, Len(Stutters) <= RingCap, NEW r \in Rec, Ingest(r)
  PROVE  /\ StoreTypeOK'
         /\ store'.cumulative = IF TypeOf[r] = "papyrus.top" THEN Cumulate(store.cumulative, r)
                                ELSE store.cumulative
         /\ Len(Stutters') <= RingCap
         /\ \/ Stutters' = Stutters
            \/ Stutters' = Append(Stutters, r)
            \/ TypeOf[r] = "event.stutter" /\ Len(Stutters) = RingCap
<1> DEFINE t == TypeOf[r]
           rings == store.rings
           pushed == IF t \in RingType THEN [rings EXCEPT ![t] = PushCapped(rings[t], r)] ELSE rings
           L == IF t \in LatestType THEN [store.last EXCEPT ![t] = r] ELSE store.last
           C == IF t = "papyrus.top" THEN Cumulate(store.cumulative, r) ELSE store.cumulative
           n == store.total + 1
<1>1. store' = [last |-> L, rings |-> pushed, cumulative |-> C, total |-> n]
  <2>1. store = [last |-> store.last, rings |-> store.rings,
                 cumulative |-> store.cumulative, total |-> store.total]
    BY DEF StoreTypeOK
  <2>2. store' = [store EXCEPT !.total = n, !.last = L, !.rings = pushed, !.cumulative = C]
    BY <2>1 DEF Ingest
  <2> HIDE DEF L, C, n, pushed
  <2> QED BY <2>1, <2>2
<1>2. rings \in [RingType -> Seq(Rec)] /\ "event.stutter" \in RingType
  BY DEF StoreTypeOK, RingType
<1>3. L \in [LatestType -> Rec \union {NoRecord}]
  BY DEF StoreTypeOK
<1>4. n \in Nat
  BY DEF StoreTypeOK
<1>5. /\ DOMAIN C \subseteq STRING \ {Unnamed} /\ IsFiniteSet(DOMAIN C)
      /\ C \in [DOMAIN C -> Nat]
  BY CumulateAdds DEF StoreTypeOK
<1>6. /\ pushed \in [RingType -> Seq(Rec)]
      /\ Len(pushed["event.stutter"]) <= RingCap
      /\ \/ pushed["event.stutter"] = Stutters
         \/ pushed["event.stutter"] = Append(Stutters, r)
         \/ t = "event.stutter" /\ Len(Stutters) = RingCap
  <2>1. CASE t = "event.stutter"
    <3> DEFINE p == PushCapped(rings["event.stutter"], r)
    <3>1. /\ p \in Seq(Rec) /\ Len(p) <= RingCap
          /\ Len(Stutters) # RingCap => p = Append(Stutters, r)
      BY <1>2, RingGrows DEF Stutters
    <3>2. pushed = [rings EXCEPT !["event.stutter"] = p]
      BY <1>2, <2>1
    <3> HIDE DEF p
    <3> QED BY <1>2, <2>1, <3>1, <3>2
  <2>2. CASE t # "event.stutter" /\ t \in RingType
    <3> DEFINE ring == rings[t]
               p == PushCapped(ring, r)
    <3>1. ring \in Seq(Rec)
      BY <1>2, <2>2
    <3>2. p = Append(ring, r) \/ p = Tail(Append(ring, r))
      BY DEF PushCapped
    <3> HIDE DEF ring
    <3>3. p \in Seq(Rec)
      BY <3>1, <3>2
    <3>4. pushed = [rings EXCEPT ![t] = p]
      BY <2>2 DEF ring
    <3> HIDE DEF p
    <3>5. pushed \in [RingType -> Seq(Rec)] /\ pushed["event.stutter"] = Stutters
      BY <1>2, <2>2, <3>3, <3>4 DEF Stutters
    <3> QED BY <3>5
  <2>3. CASE t \notin RingType
    BY <1>2, <2>3 DEF Stutters
  <2> QED BY <2>1, <2>2, <2>3
<1> HIDE DEF L, C, n, pushed
<1>7. StoreTypeOK'
  BY <1>1, <1>3, <1>4, <1>5, <1>6 DEF StoreTypeOK
<1>8. Stutters' = pushed["event.stutter"] /\ store'.cumulative = C
  BY <1>1 DEF Stutters
<1> QED BY <1>6, <1>7, <1>8 DEF C

\* The store starts, and is cleared to be, empty.
LEMMA EmptyIs ==
  /\ EmptyStore.last \in [LatestType -> Rec \union {NoRecord}]
  /\ EmptyStore.rings \in [RingType -> Seq(Rec)] /\ EmptyStore.total \in Nat
  /\ EmptyStore.cumulative = <<>> /\ DOMAIN EmptyStore.cumulative = {}
  /\ EmptyStore.cumulative \in [{} -> Nat] /\ IsFiniteSet({})
  /\ EmptyStore = [last |-> EmptyStore.last, rings |-> EmptyStore.rings,
                   cumulative |-> EmptyStore.cumulative, total |-> EmptyStore.total]
  /\ EmptyStore.rings["event.stutter"] = <<>> /\ Len(<<>>) <= RingCap
  /\ SumFunction(EmptyStore.cumulative) = 0
<1>1. /\ EmptyStore.last = [k \in LatestType |-> NoRecord]
      /\ EmptyStore.rings = [k \in RingType |-> <<>>]
      /\ EmptyStore.cumulative = <<>> /\ EmptyStore.total = 0
      /\ EmptyStore = [last |-> EmptyStore.last, rings |-> EmptyStore.rings,
                       cumulative |-> EmptyStore.cumulative, total |-> EmptyStore.total]
  BY DEF EmptyStore
<1>2. <<>> \in Seq(Rec) /\ DOMAIN <<>> = {} /\ <<>> \in [{} -> Nat]
  OBVIOUS
<1>3. RingCap \in Nat
  BY StoreAssumption DEF StoreAssumption
<1>4. SumFunction(<<>>) = 0
  BY <1>2, SumEmpty DEF SumFunction
<1> QED BY <1>1, <1>2, <1>3, <1>4, FS_EmptySet DEF RingType

\* The invariant holds in the first state: nothing is clicked, nothing observed.
LEMMA PanelsStart == PanelsInit => PanelsInv
<1> SUFFICES ASSUME PanelsInit PROVE PanelsInv
  OBVIOUS
<1>1. store = EmptyStore
  BY DEF PanelsInit
<1>2. StoreTypeOK /\ Len(Stutters) <= RingCap /\ SumFunction(store.cumulative) = 0
  BY <1>1, EmptyIs DEF StoreTypeOK, Stutters
<1>3. MaxOpens \in Nat \ {0} /\ RingCap \in Nat
  BY PanelsAssumption, StoreAssumption DEF PanelsAssumption, StoreAssumption
<1>4. PanelsTypeOK
  <2>1. opened = 1 /\ latchedFor = 0 /\ selected = 0 /\ jumpTo = 0 /\ playhead = 0
        /\ observed = 0 /\ clicked = NoRecord
    BY DEF PanelsInit
  <2>2. opened \in 1 .. MaxOpens /\ latchedFor \in 0 .. opened /\ selected \in 0 .. RingCap
    BY <1>3, <2>1
  <2>3. {replaying, pie, latched, shifted} \subseteq BOOLEAN
    <3>1. replaying \in BOOLEAN /\ pie = TRUE /\ latched = FALSE /\ shifted = FALSE
      BY DEF PanelsInit
    <3> QED BY <3>1
  <2>4. sort \in [col : Column, desc : BOOLEAN]
    BY DEF PanelsInit, Column
  <2>5. {jumpTo, playhead, observed} \subseteq Nat /\ clicked \in Rec \union {NoRecord}
    BY <2>1
  <2> QED BY <1>2, <2>2, <2>3, <2>4, <2>5 DEF PanelsInit, PanelsTypeOK
<1> QED BY <1>2, <1>4 DEF PanelsInit, PanelsInv, ClickInv, PieInv

\* A click chooses the index of the stutter in the row.
LEMMA ClickKeeps ==
  ASSUME PanelsInv, Click
  PROVE  PanelsInv'
<1>1. PICK idx \in Listings : \E row \in DOMAIN idx :
             /\ selected' = idx[row] /\ jumpTo' = TimeOf[Stutters[idx[row]]]
             /\ clicked' = Stutters[idx[row]]
  BY DEF Click, Chosen
<1>2. PICK row \in DOMAIN idx :
             /\ selected' = idx[row] /\ jumpTo' = TimeOf[Stutters[idx[row]]]
             /\ clicked' = Stutters[idx[row]]
  BY <1>1
<1>3. idx[row] \in DOMAIN Stutters
  BY <1>2 DEF Listings
<1>4. Stutters \in Seq(Rec) /\ Len(Stutters) <= RingCap /\ RingCap \in Nat
  BY StoreAssumption
  DEF PanelsInv, PanelsTypeOK, StoreTypeOK, ClickInv, Stutters, RingType, StoreAssumption
<1>5. selected' \in 0 .. RingCap /\ clicked' \in Rec
  BY <1>2, <1>3, <1>4
<1>6. jumpTo' \in Nat
  <2>1. TimeOf \in [Rec -> Nat]
    BY StoreAssumption DEF StoreAssumption
  <2> QED BY <1>2, <1>5, <2>1
<1>7. /\ UNCHANGED <<store, diet, opened, replaying, sort, pie, observed, playhead, latched,
                     latchedFor>>
      /\ shifted' = FALSE
  BY DEF Click, pieVars, timeVars
<1>8. StoreTypeOK' /\ Stutters' = Stutters
  BY <1>7 DEF PanelsInv, PanelsTypeOK, StoreTypeOK, Stutters
<1>9. PanelsTypeOK'
  BY <1>5, <1>6, <1>7, <1>8 DEF PanelsInv, PanelsTypeOK
<1> QED BY <1>2, <1>3, <1>4, <1>7, <1>8, <1>9 DEF PanelsInv, ClickInv, PieInv

\* One record: whatever the stutters' ring does, an index into it is still that
\* of the stutter clicked unless the ring was full.
LEMMA IngestOneKeeps ==
  ASSUME PanelsInv, NEW r \in Rec, IngestOne(r)
  PROVE  PanelsInv'
<1>1. /\ Ingest(r)
      /\ UNCHANGED <<diet, opened, replaying, sort, selected, jumpTo, clicked, pie,
                     playhead, latched, latchedFor>>
      /\ shifted' = (shifted \/ (TypeOf[r] = "event.stutter" /\ Len(Stutters) = RingCap))
      /\ observed' = IF TypeOf[r] = "papyrus.top" THEN observed + TimeIn(r, Named(r))
                     ELSE observed
  BY DEF IngestOne, timeVars
<1>2. StoreTypeOK /\ Len(Stutters) <= RingCap
  BY DEF PanelsInv, PanelsTypeOK, ClickInv
<1>3. /\ StoreTypeOK'
      /\ store'.cumulative = IF TypeOf[r] = "papyrus.top" THEN Cumulate(store.cumulative, r)
                             ELSE store.cumulative
      /\ Len(Stutters') <= RingCap
      /\ \/ Stutters' = Stutters
         \/ Stutters' = Append(Stutters, r)
         \/ TypeOf[r] = "event.stutter" /\ Len(Stutters) = RingCap
  BY <1>1, <1>2, IngestKeeps
<1>4. PieInv' /\ observed' \in Nat
  <2> DEFINE c == store.cumulative
  <2>1. /\ c \in [DOMAIN c -> Nat] /\ IsFiniteSet(DOMAIN c) /\ DOMAIN c \subseteq STRING \ {Unnamed}
        /\ observed = SumFunction(c) /\ observed \in Nat
    BY DEF PanelsInv, PanelsTypeOK, StoreTypeOK, PieInv
  <2>2. SumFunction(Cumulate(c, r)) = SumFunction(c) + TimeIn(r, Named(r))
    BY <2>1, CumulateAdds
  <2>3. TimeIn(r, Named(r)) \in Nat
    BY NamedNat
  <2> QED BY <1>1, <1>3, <2>1, <2>2, <2>3 DEF PieInv
<1>5. ASSUME clicked' # NoRecord, ~shifted'
      PROVE  /\ selected' \in DOMAIN Stutters' /\ Stutters'[selected'] = clicked'
             /\ jumpTo' = TimeOf[clicked']
  <2>1. clicked # NoRecord /\ ~shifted
        /\ ~(TypeOf[r] = "event.stutter" /\ Len(Stutters) = RingCap)
    BY <1>1, <1>5
  <2>2. /\ selected \in DOMAIN Stutters /\ Stutters[selected] = clicked
        /\ jumpTo = TimeOf[clicked]
    BY <2>1 DEF PanelsInv, ClickInv
  <2>3. Stutters \in Seq(Rec)
    BY <1>2 DEF StoreTypeOK, Stutters, RingType
  <2>4. Stutters' = Stutters \/ Stutters' = Append(Stutters, r)
    BY <1>3, <2>1
  <2>5. selected \in DOMAIN Stutters' /\ Stutters'[selected] = Stutters[selected]
    BY <2>2, <2>3, <2>4
  <2> QED BY <1>1, <2>2, <2>5
<1>6. ClickInv'
  BY <1>3, <1>5 DEF ClickInv
<1>7. PanelsTypeOK'
  BY <1>1, <1>3, <1>4 DEF PanelsInv, PanelsTypeOK
<1> QED BY <1>4, <1>6, <1>7 DEF PanelsInv

\* The playhead is the time of a frame in the ring, or between two.
LEMMA PlayheadKeeps ==
  ASSUME PanelsInv, LatchPlayhead \/ MovePlayhead
  PROVE  PanelsInv'
<1>1. /\ UNCHANGED <<store, diet, opened, replaying, sort, selected, jumpTo, clicked, shifted,
                     pie, observed>>
      /\ latchedFor' = opened /\ latched' \in {latched, TRUE}
  BY DEF LatchPlayhead, MovePlayhead, stutterVars, pieVars
<1>2. playhead' \in Nat
  <2> DEFINE ring == store.rings["frame"]
  <2>1. ring \in Seq(Rec) /\ TimeOf \in [Rec -> Nat]
    BY StoreAssumption DEF PanelsInv, PanelsTypeOK, StoreTypeOK, RingType, StoreAssumption
  <2>2. FrameTimes = [i \in DOMAIN ring |-> TimeOf[ring[i]]]
    BY DEF FrameTimes
  <2> HIDE DEF ring
  <2>3. FrameTimes \in Seq(Nat)
    BY <2>1, <2>2
  <2> HIDE DEF FrameTimes
  <2>4. FrameTimes # <<>> /\
        \/ playhead' = FrameTimes[Len(FrameTimes)]
        \/ playhead' \in FrameTimes[1] .. FrameTimes[Len(FrameTimes)]
    BY DEF LatchPlayhead, MovePlayhead, Last
  <2>5. FrameTimes[1] \in Nat /\ FrameTimes[Len(FrameTimes)] \in Nat
    BY <2>3, <2>4
  <2> QED BY <2>4, <2>5
<1>3. opened \in 1 .. MaxOpens /\ MaxOpens \in Nat
  BY PanelsAssumption DEF PanelsInv, PanelsTypeOK, PanelsAssumption
<1>4. StoreTypeOK' /\ Stutters' = Stutters
  BY <1>1 DEF PanelsInv, PanelsTypeOK, StoreTypeOK, Stutters
<1>5. PanelsTypeOK'
  <2>1. PanelsTypeOK
    BY DEF PanelsInv
  <2>2. latchedFor' \in 0 .. opened'
    BY <1>1, <1>3
  <2>3. {replaying', pie', latched', shifted'} \subseteq BOOLEAN
    BY <1>1, <2>1 DEF PanelsTypeOK
  <2> QED BY <1>1, <1>2, <1>4, <2>1, <2>2, <2>3 DEF PanelsTypeOK
<1> QED BY <1>1, <1>4, <1>5 DEF PanelsInv, ClickInv, PieInv

\* No step of the viewer's frame breaks the invariant.
LEMMA PanelsStep ==
  ASSUME PanelsInv, [PanelsNext]_panelVars
  PROVE  PanelsInv'
<1>1. ASSUME NEW r \in Rec, IngestOne(r)
      PROVE  PanelsInv'
  BY <1>1, IngestOneKeeps
<1>2. CASE OpenSource
  <2>1. /\ store' = EmptyStore /\ shifted' = TRUE /\ observed' = 0
        /\ opened < MaxOpens /\ opened' = opened + 1 /\ replaying' \in BOOLEAN
        /\ UNCHANGED <<diet, sort, selected, jumpTo, clicked, pie, playhead, latched, latchedFor>>
    BY <1>2 DEF OpenSource, Clear, timeVars
  <2>2. /\ StoreTypeOK' /\ Len(Stutters') <= RingCap /\ SumFunction(store'.cumulative) = 0
    BY <2>1, EmptyIs DEF StoreTypeOK, Stutters
  <2>3. MaxOpens \in Nat
    BY PanelsAssumption DEF PanelsAssumption
  <2>4. PanelsTypeOK'
    BY <2>1, <2>2, <2>3 DEF PanelsInv, PanelsTypeOK
  <2> QED BY <2>1, <2>2, <2>4 DEF PanelsInv, ClickInv, PieInv
<1>3. ASSUME NEW spec \in [col : Column, desc : BOOLEAN], SortBy(spec)
      PROVE  PanelsInv'
  <2>1. /\ UNCHANGED <<store, diet, opened, replaying, selected, jumpTo, clicked, shifted,
                       pie, observed, playhead, latched, latchedFor>>
        /\ sort' \in [col : Column, desc : BOOLEAN]
    BY <1>3 DEF SortBy, pieVars, timeVars
  <2>2. StoreTypeOK' /\ Stutters' = Stutters
    BY <2>1 DEF PanelsInv, PanelsTypeOK, StoreTypeOK, Stutters
  <2>3. PanelsTypeOK'
    BY <2>1, <2>2 DEF PanelsInv, PanelsTypeOK
  <2> QED BY <2>1, <2>2, <2>3 DEF PanelsInv, ClickInv, PieInv
<1>4. CASE Click
  BY <1>4, ClickKeeps
<1>5. CASE ChoosePie
  <2>1. /\ UNCHANGED <<store, diet, opened, replaying, sort, selected, jumpTo, clicked, shifted,
                       observed, playhead, latched, latchedFor>>
        /\ pie' \in BOOLEAN
    BY <1>5 DEF ChoosePie, stutterVars, timeVars
  <2>2. StoreTypeOK' /\ Stutters' = Stutters
    BY <2>1 DEF PanelsInv, PanelsTypeOK, StoreTypeOK, Stutters
  <2>3. PanelsTypeOK'
    BY <2>1, <2>2 DEF PanelsInv, PanelsTypeOK
  <2> QED BY <2>1, <2>2, <2>3 DEF PanelsInv, ClickInv, PieInv
<1>6. CASE ResetPie
  <2>1. /\ store' = [store EXCEPT !.cumulative = EmptyStore.cumulative] /\ observed' = 0
        /\ UNCHANGED <<diet, opened, replaying, sort, selected, jumpTo, clicked, shifted,
                       pie, playhead, latched, latchedFor>>
    BY <1>6 DEF ResetPie, ResetPapyrusCumulative, stutterVars, timeVars
  <2>2. EmptyStore.cumulative = <<>> /\ DOMAIN <<>> = {} /\ <<>> \in [{} -> Nat]
    BY DEF EmptyStore
  <2>3. StoreTypeOK
    BY DEF PanelsInv, PanelsTypeOK
  <2>4. /\ store'.last = store.last /\ store'.rings = store.rings
        /\ store'.cumulative = <<>> /\ store'.total = store.total
        /\ store' = [last |-> store'.last, rings |-> store'.rings,
                     cumulative |-> store'.cumulative, total |-> store'.total]
    <3>1. store = [last |-> store.last, rings |-> store.rings,
                   cumulative |-> store.cumulative, total |-> store.total]
      BY <2>3 DEF StoreTypeOK
    <3> QED BY <2>1, <2>2, <3>1
  <2>5. StoreTypeOK' /\ Stutters' = Stutters
    <3>1. IsFiniteSet(DOMAIN store'.cumulative)
      BY <2>2, <2>4, FS_EmptySet
    <3>2. /\ store'.last \in [LatestType -> Rec \union {NoRecord}]
          /\ store'.rings \in [RingType -> Seq(Rec)] /\ store'.total \in Nat
      BY <2>3, <2>4 DEF StoreTypeOK
    <3> QED BY <2>2, <2>4, <3>1, <3>2 DEF StoreTypeOK, Stutters
  <2>6. SumFunction(<<>>) = 0
    BY <2>2, SumEmpty DEF SumFunction
  <2>7. PanelsTypeOK'
    BY <2>1, <2>5 DEF PanelsInv, PanelsTypeOK
  <2> QED BY <2>1, <2>4, <2>5, <2>6, <2>7 DEF PanelsInv, ClickInv, PieInv
<1>7. CASE LatchPlayhead \/ MovePlayhead
  BY <1>7, PlayheadKeeps
<1>8. CASE UNCHANGED panelVars
  <2>1. UNCHANGED <<store, diet, opened, replaying, sort, selected, jumpTo, clicked, shifted,
                    pie, observed, playhead, latched, latchedFor>>
    BY <1>8 DEF panelVars, stutterVars, pieVars, timeVars
  <2>2. StoreTypeOK' /\ Stutters' = Stutters
    BY <2>1 DEF PanelsInv, PanelsTypeOK, StoreTypeOK, Stutters
  <2>3. PanelsTypeOK'
    BY <2>1, <2>2 DEF PanelsInv, PanelsTypeOK
  <2> QED BY <2>1, <2>2, <2>3 DEF PanelsInv, ClickInv, PieInv
<1> QED BY <1>1, <1>2, <1>3, <1>4, <1>5, <1>6, <1>7, <1>8 DEF PanelsNext

\* The pie, of any rows of the state.
LEMMA PieAddsUp == PanelsInv => PieIsWhole
<1> SUFFICES ASSUME PanelsInv, NEW cut \in Cuts(PieRows)
             PROVE  SumFunctionOnSet(PieRows, Slices(PieRows, cut).rows)
                      + Slices(PieRows, cut).other =
                      IF pie THEN observed ELSE SumFunction(HotTimes)
  BY DEF PieIsWhole
<1>1. StoreTypeOK /\ observed = SumFunction(store.cumulative)
  BY DEF PanelsInv, PanelsTypeOK, PieInv
<1>2. IsFiniteSet(DOMAIN HotTimes) /\ \A i \in DOMAIN HotTimes : HotTimes[i] \in Nat
  <2> DEFINE r == store.last["papyrus.top"]
  <2>1. CASE r = NoRecord
    <3>1. HotTimes = <<>> /\ DOMAIN <<>> = {}
      BY <2>1 DEF HotTimes
    <3> QED BY <3>1, FS_EmptySet
  <2>2. CASE r # NoRecord
    <3>1. r \in Rec
      BY <1>1, <2>2 DEF StoreTypeOK, LatestType
    <3>2. HotTimes = RowTimes(r)
      BY <2>2 DEF HotTimes
    <3> QED BY <3>1, <3>2, TimesOf
  <2> QED BY <2>1, <2>2
<1>3. IsFiniteSet(DOMAIN PieRows) /\ \A i \in DOMAIN PieRows : PieRows[i] \in Nat
  <2>1. CASE pie
    <3>1. PieRows = store.cumulative
      BY <2>1 DEF PieRows
    <3>2. IsFiniteSet(DOMAIN store.cumulative) /\ store.cumulative \in [DOMAIN store.cumulative -> Nat]
      BY <1>1 DEF StoreTypeOK
    <3> QED BY <3>1, <3>2
  <2>2. CASE ~pie
    BY <1>2, <2>2 DEF PieRows
  <2> QED BY <2>1, <2>2
<1>4. cut \in SUBSET DOMAIN PieRows
  BY DEF Cuts
<1>5. SumFunctionOnSet(PieRows, Slices(PieRows, cut).rows) + Slices(PieRows, cut).other
        = SumFunction(PieRows)
  BY <1>3, <1>4, SlicesSum
<1> QED BY <1>1, <1>5 DEF PieRows

\* The panels' invariant holds.
LEMMA PanelsInvariant == PanelsSpec => []PanelsInv
<1>1. PanelsInit => PanelsInv
  BY PanelsStart
<1>2. PanelsInv /\ [PanelsNext]_panelVars => PanelsInv'
  BY PanelsStep
<1> QED BY <1>1, <1>2, PTL DEF PanelsSpec

(* The panels' state has its types, and the store's the fields that Ingest  *)
(* gives it, for any records and rings.                                     *)
THEOREM PanelsTyped == PanelsSpec => []PanelsTypeOK
<1>1. PanelsInv => PanelsTypeOK
  BY DEF PanelsInv
<1> QED BY <1>1, PanelsInvariant, PTL

(* stutter_panel::Draw, for rings of any size and any records: the details  *)
(* and the jump are those of the stutter that was clicked, until the ring   *)
(* drops a stutter or the store is cleared.                                 *)
THEOREM DetailsOfClicked == PanelsSpec => []DetailsAreClicked
<1>1. PanelsInv => DetailsAreClicked
  BY DEF PanelsInv, ClickInv, DetailsAreClicked, Details
<1> QED BY <1>1, PanelsInvariant, PTL

(* DrawTopPie, for any scripts, names that occur more than once, and number *)
(* of slices: wherever the partial sort cuts the rows, the slices and       *)
(* "(other)" sum to the time of all scripts.                                *)
THEOREM PieSumsUp == PanelsSpec => []PieIsWhole
<1> QED BY PieAddsUp, PanelsInvariant, PTL

-----------------------------------------------------------------------------
(* The charts.                                                             *)

(* pIdx of ComputePacing: the index is one of the n sorted times, and the  *)
(* times after it are the part of n - 1 that the quantile leaves, rounded  *)
(* up: the "1% low" is not the worst frame as soon as there are two.       *)
THEOREM PercentileSplits ==
  ASSUME NEW n \in Nat \ {0}, NEW q \in 0 .. 1000
  PROVE  LET after == n - 1 - PercentileIndex(q, n)
         IN  /\ PercentileIndex(q, n) \in 0 .. n - 1
             /\ (1000 - q) * (n - 1) <= 1000 * after
             /\ 1000 * after < (1000 - q) * (n - 1) + 1000
<1> DEFINE m == n - 1
           x == q * m
<1>1. m \in Nat /\ q \in Nat /\ q <= 1000
  OBVIOUS
<1>2. x \in Nat
  BY <1>1
<1>3. x <= 1000 * m
  <2>1. (1000 - q) * m \in Nat
    BY <1>1
  <2>2. (1000 - q) * m = 1000 * m - x
    BY <1>1
  <2> QED BY <1>1, <1>2, <2>1, <2>2
<1>4. (1000 - q) * m = 1000 * m - x
  BY <1>1
<1> HIDE DEF x, m
<1>5. x \div 1000 \in Nat /\ 1000 * (x \div 1000) <= x /\ x < 1000 * (x \div 1000) + 1000
  BY <1>2
<1>6. PercentileIndex(q, n) = x \div 1000
  BY DEF PercentileIndex, x, m
<1>7. /\ x \div 1000 <= m
      /\ (1000 - q) * m <= 1000 * (m - x \div 1000)
      /\ 1000 * (m - x \div 1000) < (1000 - q) * m + 1000
  BY <1>1, <1>2, <1>3, <1>4, <1>5
<1>8. n - 1 = m
  BY DEF m
<1> QED BY <1>1, <1>5, <1>6, <1>7, <1>8

(* DrawBreakdownChart: every band is as high as its part of the frame, so  *)
(* that the top line is the sum of the parts, whichever are zero.          *)
THEOREM BandsAreParts ==
  ASSUME NEW s \in [Band -> Nat]
  PROVE  /\ \A b \in Band : Shade(s, b).high - Shade(s, b).low = s[b]
         /\ Stack(s)["other"] = s["papyrus"] + s["havok"] + s["ai"]
                                  + s["render_submit"] + s["streaming"] + s["other"]
<1>1. \A b \in Band : s[b] \in Nat
  OBVIOUS
<1>2. /\ Stack(s)["papyrus"] = s["papyrus"]
      /\ Stack(s)["havok"] = s["papyrus"] + s["havok"]
      /\ Stack(s)["ai"] = Stack(s)["havok"] + s["ai"]
      /\ Stack(s)["render_submit"] = Stack(s)["ai"] + s["render_submit"]
      /\ Stack(s)["streaming"] = Stack(s)["render_submit"] + s["streaming"]
      /\ Stack(s)["other"] = Stack(s)["streaming"] + s["other"]
  BY DEF Stack, Band
<1>3. \A b \in Band \ {"papyrus"} : Stack(s)[b] = Stack(s)[Below[b]] + s[b]
  BY <1>2 DEF Below, Band
<1>4. \A b \in Band : Stack(s)[b] \in Nat
  <2>1. /\ s["papyrus"] \in Nat /\ s["havok"] \in Nat /\ s["ai"] \in Nat
        /\ s["render_submit"] \in Nat /\ s["streaming"] \in Nat /\ s["other"] \in Nat
    BY <1>1 DEF Band
  <2> HIDE DEF Stack
  <2>2. Stack(s)["papyrus"] \in Nat /\ Stack(s)["havok"] \in Nat /\ Stack(s)["ai"] \in Nat
    BY <1>2, <2>1
  <2>3. /\ Stack(s)["render_submit"] \in Nat /\ Stack(s)["streaming"] \in Nat
        /\ Stack(s)["other"] \in Nat
    BY <1>2, <2>1, <2>2
  <2> QED BY <2>2, <2>3 DEF Band
<1>5. \A b \in Band \ {"papyrus"} : Below[b] \in Band
  BY DEF Below, Band
<1>6. ASSUME NEW b \in Band
      PROVE  Shade(s, b).high - Shade(s, b).low = s[b]
  <2>1. CASE b = "papyrus"
    <3>1. Shade(s, b).low = 0 /\ Shade(s, b).high = Stack(s)["papyrus"]
      BY <2>1 DEF Shade
    <3> QED BY <1>1, <1>2, <2>1, <3>1
  <2>2. CASE b # "papyrus"
    BY <1>1, <1>3, <1>4, <1>5, <2>2 DEF Shade
  <2> QED BY <2>1, <2>2
<1> QED BY <1>1, <1>2, <1>6 DEF Band
-----------------------------------------------------------------------------
(* The composition.                                                        *)

\* It starts each component in one of its initial states.
LEMMA PartsStart ==
  PartsInit => /\ FrameInit /\ PapyrusInit /\ LoopInit /\ CellInit /\ PressureInit
               /\ StateInit /\ HookInit /\ LoadInit /\ PanelsInit /\ Init
BY DEF PartsInit

\* A step of it is a step of one component, and leaves the others as they are.
LEMMA PartsStep ==
  ASSUME [PartsNext]_mcVars
  PROVE  /\ [FrameNext]_frameVars /\ [PapyrusNext]_papyrusVars /\ [LoopNext]_loopVars
         /\ [CellNext]_cellVars /\ [PressureNext]_pressureVars /\ [StateNext]_stateVars
         /\ [HookNext]_installVars /\ [LoadNext]_loadVars /\ [PanelsNext]_panelVars
         /\ [Next]_vars
<1>1. CASE FramePart
  BY <1>1 DEF FramePart
<1>2. CASE PapyrusPart
  BY <1>2 DEF PapyrusPart
<1>3. CASE LoopPart
  BY <1>3 DEF LoopPart
<1>4. CASE CellPart
  BY <1>4 DEF CellPart
<1>5. CASE PressurePart
  BY <1>5 DEF PressurePart
<1>6. CASE StatePart
  BY <1>6 DEF StatePart
<1>7. CASE HookPart
  BY <1>7 DEF HookPart
<1>8. CASE LoadPart
  BY <1>8 DEF LoadPart
<1>9. CASE PanelsPart
  BY <1>9 DEF PanelsPart
<1>10. CASE RecorderPart
  BY <1>10 DEF RecorderPart
<1>11. CASE UNCHANGED mcVars
  BY <1>11 DEF mcVars
<1> QED BY <1>1, <1>2, <1>3, <1>4, <1>5, <1>6, <1>7, <1>8, <1>9, <1>10, <1>11 DEF PartsNext

(* Every behaviour of the components side by side is one of each of them:  *)
(* none of them writes another's state, so what is proved of a component   *)
(* holds of it there.                                                      *)
THEOREM PartsAreComponents ==
  PartsSpec => /\ FrameSpec /\ PapyrusSpec /\ LoopSpec /\ CellSpec /\ PressureSpec
               /\ StateSpec /\ HookSpec /\ LoadSpec /\ PanelsSpec /\ Spec
<1> USE PartsStart, PartsStep
<1>1. PartsSpec => FrameSpec
  BY PTL DEF PartsSpec, FrameSpec
<1>2. PartsSpec => PapyrusSpec
  BY PTL DEF PartsSpec, PapyrusSpec
<1>3. PartsSpec => LoopSpec
  BY PTL DEF PartsSpec, LoopSpec
<1>4. PartsSpec => CellSpec
  BY PTL DEF PartsSpec, CellSpec
<1>5. PartsSpec => PressureSpec
  BY PTL DEF PartsSpec, PressureSpec
<1>6. PartsSpec => StateSpec
  BY PTL DEF PartsSpec, StateSpec
<1>7. PartsSpec => HookSpec
  BY PTL DEF PartsSpec, HookSpec
<1>8. PartsSpec => LoadSpec
  BY PTL DEF PartsSpec, LoadSpec
<1>9. PartsSpec => PanelsSpec
  BY PTL DEF PartsSpec, PanelsSpec
<1>10. PartsSpec => Spec
  BY PTL DEF PartsSpec, Spec
<1> QED BY <1>1, <1>2, <1>3, <1>4, <1>5, <1>6, <1>7, <1>8, <1>9, <1>10

(* The state of every component has its type, for any instance of each.    *)
THEOREM PartsTyped == PartsSpec => []PartsTypeOK
<1>1. /\ FrameTypeOK /\ PapyrusTypeOK /\ LoopTypeOK /\ CellTypeOK /\ PressureTypeOK
      /\ StateTypeOK /\ HookTypeOK /\ LoadTypeOK /\ PanelsTypeOK /\ TypeOK
      => PartsTypeOK
  BY DEF PartsTypeOK
<1>2. Spec => []TypeOK
  BY TypeCorrect, RecorderIsAssumed
<1> QED
  BY <1>1, <1>2, PartsAreComponents, FrameTyped, PapyrusTyped, LoopTyped, CellTyped,
     PressureTyped, StateTyped, HookTyped, LoadTyped, PanelsTyped, PTL
=============================================================================
