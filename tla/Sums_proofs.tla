----------------------------- MODULE Sums_proofs ----------------------------
(* The laws of a sum over a finite set.  SumOver is defined by a recursive *)
(* function, so each law is shown for the smallest set it could fail for.  *)
EXTENDS Sums, FiniteSetTheorems, TLAPS

-----------------------------------------------------------------------------
(* The smallest counterexample. *)

\* The proper subsets of S.
Proper(S) == (SUBSET S) \ {S}

LEMMA SmallestSet ==
  ASSUME NEW S, IsFiniteSet(S), NEW C, C \subseteq SUBSET S, C # {}
  PROVE  \E T \in C : \A U \in Proper(T) : U \notin C
<1> DEFINE R == StrictSubsetOrdering(S)
<1>1. IsWellFoundedOn(R, SUBSET S)
  BY FS_StrictSubsetOrderingWellFounded, FS_FiniteSubsetsOfFinite
<1>2. PICK T \in C : \A U \in C : ~ (<<U, T>> \in R)
  <2> HIDE DEF R
  <2> QED
    BY <1>1, WFMin
<1>3. ASSUME NEW U \in Proper(T), U \in C PROVE FALSE
  BY <1>2, <1>3 DEF StrictSubsetOrdering, Proper
<1> QED
  BY <1>3

LEMMA FiniteSubset == ASSUME NEW S, IsFiniteSet(S), NEW T \in SUBSET S PROVE IsFiniteSet(T)
BY FS_Subset

-----------------------------------------------------------------------------
(* SumOver unfolds. *)

Pick(s) == CHOOSE x \in s : TRUE

\* it is the table of the sums of f over the subsets of S.
IsTable(f, S, it) ==
  it = [s \in SUBSET S |-> IF s = {} THEN 0 ELSE f[Pick(s)] + it[s \ {Pick(s)}]]

Table(f, S) == CHOOSE it : IsTable(f, S, it)

LEMMA SumOverTable == ASSUME NEW f, NEW S PROVE SumOver(f, S) = Table(f, S)[S]
BY DEF SumOver, MapThenSumSet, MapThenFoldSet, Table, IsTable, Pick

LEMMA PickFrom == ASSUME NEW S, S # {} PROVE Pick(S) \in S /\ S \ {Pick(S)} \in Proper(S)
BY DEF Pick, Proper

LEMMA TableEntry ==
  ASSUME NEW f, NEW S, NEW it, IsTable(f, S, it), NEW s \in SUBSET S
  PROVE  /\ s = {} => it[s] = 0
         /\ s # {} => it[s] = f[Pick(s)] + it[s \ {Pick(s)}]
BY DEF IsTable

(* Two tables agree where both are defined. *)
LEMMA TablesAgree ==
  ASSUME NEW f, NEW S, NEW T, IsFiniteSet(S), T \subseteq S,
         NEW a, IsTable(f, S, a), NEW b, IsTable(f, T, b)
  PROVE  \A s \in SUBSET T : a[s] = b[s]
<1> DEFINE C == {s \in SUBSET T : a[s] # b[s]}
<1> SUFFICES ASSUME C # {} PROVE FALSE
  OBVIOUS
<1>1. PICK s \in C : \A u \in Proper(s) : u \notin C
  <2>1. IsFiniteSet(T) /\ C \subseteq SUBSET T
    BY FiniteSubset
  <2> HIDE DEF C
  <2> QED
    BY <2>1, SmallestSet
<1>2. s # {}
  BY TableEntry
<1>3. a[s \ {Pick(s)}] = b[s \ {Pick(s)}]
  BY <1>1, <1>2, PickFrom DEF Proper
<1>4. a[s] = f[Pick(s)] + a[s \ {Pick(s)}] /\ b[s] = f[Pick(s)] + b[s \ {Pick(s)}]
  BY <1>2, TableEntry
<1> QED
  BY <1>3, <1>4

LEMMA TableExists ==
  ASSUME NEW f, NEW S, IsFiniteSet(S)
  PROVE  IsTable(f, S, Table(f, S))
<1> DEFINE C == {s \in SUBSET S : ~ \E it : IsTable(f, s, it)}
<1> SUFFICES ASSUME C # {} PROVE FALSE
  BY DEF Table
<1>1. PICK T \in C : \A u \in Proper(T) : u \notin C
  <2>1. C \subseteq SUBSET S
    OBVIOUS
  <2> HIDE DEF C
  <2> QED
    BY <2>1, SmallestSet
<1>2. ASSUME NEW u \in Proper(T) PROVE IsFiniteSet(u) /\ IsTable(f, u, Table(f, u))
  <2>1. u \in SUBSET S
    BY DEF Proper
  <2> QED
    BY <1>1, <2>1, FiniteSubset DEF Table
<1> DEFINE it == [s \in SUBSET T |-> IF s = {} THEN 0
                                     ELSE f[Pick(s)] + SumOver(f, s \ {Pick(s)})]
<1>3. ASSUME NEW s \in SUBSET T, s # {}
      PROVE  it[s \ {Pick(s)}] = SumOver(f, s \ {Pick(s)})
  <2> DEFINE r == s \ {Pick(s)}
  <2>1. r \in Proper(T) /\ r \in SUBSET T
    BY <1>3, PickFrom DEF Proper
  <2>2. SumOver(f, r) = Table(f, r)[r]
    BY SumOverTable
  <2>3. CASE r = {}
    BY <1>2, <2>1, <2>2, <2>3, TableEntry
  <2>4. CASE r # {}
    <3> DEFINE q == r \ {Pick(r)}
    <3>1. q \in Proper(T) /\ q \in SUBSET r
      BY <2>1, <2>4, PickFrom DEF Proper
    <3>2. Table(f, r)[q] = Table(f, q)[q]
      BY <1>2, <2>1, <3>1, TablesAgree
    <3>3. Table(f, r)[r] = f[Pick(r)] + Table(f, r)[q]
      <4>1. IsTable(f, r, Table(f, r)) /\ r \in SUBSET r
        BY <1>2, <2>1
      <4> HIDE DEF r
      <4> QED
        BY <4>1, <2>4, TableEntry
    <3>4. it[r] = f[Pick(r)] + SumOver(f, q)
      BY <2>1, <2>4
    <3> QED
      BY <2>2, <3>2, <3>3, <3>4, SumOverTable
  <2> QED
    BY <2>3, <2>4
<1>4. IsTable(f, T, it)
  BY <1>3 DEF IsTable
<1> QED
  BY <1>4

(* The sum over a set is that of one element and the rest. *)
LEMMA SumUnfolds ==
  ASSUME NEW f, NEW S, IsFiniteSet(S)
  PROVE  /\ S = {} => SumOver(f, S) = 0
         /\ S # {} => SumOver(f, S) = f[Pick(S)] + SumOver(f, S \ {Pick(S)})
<1>1. IsTable(f, S, Table(f, S)) /\ SumOver(f, S) = Table(f, S)[S]
  BY TableExists, SumOverTable
<1>2. CASE S = {}
  BY <1>1, <1>2, TableEntry
<1>3. CASE S # {}
  <2> DEFINE r == S \ {Pick(S)}
  <2>1. r \in SUBSET S /\ IsFiniteSet(r)
    BY FiniteSubset
  <2>2. IsTable(f, r, Table(f, r)) /\ SumOver(f, r) = Table(f, r)[r]
    BY <2>1, TableExists, SumOverTable
  <2>3. Table(f, S)[r] = Table(f, r)[r]
    BY <1>1, <2>1, <2>2, TablesAgree
  <2>4. Table(f, S)[S] = f[Pick(S)] + Table(f, S)[r]
    BY <1>1, <1>3, TableEntry
  <2> QED
    BY <1>1, <1>3, <2>2, <2>3, <2>4
<1> QED
  BY <1>2, <1>3

-----------------------------------------------------------------------------
(* The laws of a sum. *)

\* f gives a natural number for every element of S.
Counts(f, S) == \A x \in S : f[x] \in Nat

LEMMA SumIsNat ==
  ASSUME NEW f, NEW S, IsFiniteSet(S), Counts(f, S)
  PROVE  SumOver(f, S) \in Nat
<1> DEFINE C == {s \in SUBSET S : SumOver(f, s) \notin Nat}
<1> SUFFICES ASSUME C # {} PROVE FALSE
  OBVIOUS
<1>1. PICK T \in C : \A u \in Proper(T) : u \notin C
  <2>1. C \subseteq SUBSET S
    OBVIOUS
  <2> HIDE DEF C
  <2> QED
    BY <2>1, SmallestSet
<1>2. IsFiniteSet(T)
  BY FiniteSubset
<1>3. T # {}
  <2>1. T = {} => SumOver(f, T) = 0
    BY <1>2, SumUnfolds
  <2> QED
    BY <2>1
<1>4. SumOver(f, T) = f[Pick(T)] + SumOver(f, T \ {Pick(T)})
  BY <1>2, <1>3, SumUnfolds
<1>5. f[Pick(T)] \in Nat /\ SumOver(f, T \ {Pick(T)}) \in Nat
  BY <1>1, <1>3, PickFrom DEF Proper, Counts
<1> QED
  BY <1>4, <1>5

(* Any element may be taken out. *)
LEMMA SumTakesOut ==
  ASSUME NEW f, NEW S, IsFiniteSet(S), Counts(f, S), NEW x \in S
  PROVE  SumOver(f, S) = f[x] + SumOver(f, S \ {x})
<1> DEFINE C == {s \in SUBSET S : \E y \in s : SumOver(f, s) # f[y] + SumOver(f, s \ {y})}
<1> SUFFICES ASSUME C # {} PROVE FALSE
  OBVIOUS
<1>1. PICK T \in C : \A u \in Proper(T) : u \notin C
  <2>1. C \subseteq SUBSET S
    OBVIOUS
  <2> HIDE DEF C
  <2> QED
    BY <2>1, SmallestSet
<1>2. PICK y \in T : SumOver(f, T) # f[y] + SumOver(f, T \ {y})
  OBVIOUS
<1> DEFINE p == Pick(T)
           rest == T \ {p, y}
<1>3. IsFiniteSet(T) /\ p \in T
  BY FiniteSubset, PickFrom
<1>4. SumOver(f, T) = f[p] + SumOver(f, T \ {p})
  BY <1>3, SumUnfolds
<1>5. y # p
  BY <1>2, <1>4
<1>6. T \ {p} \in Proper(T) /\ T \ {y} \in Proper(T)
  BY <1>3 DEF Proper
<1>7. SumOver(f, T \ {p}) = f[y] + SumOver(f, rest)
  <2>1. y \in T \ {p} /\ (T \ {p}) \ {y} = rest
    BY <1>5
  <2> QED
    BY <1>1, <1>6, <2>1 DEF Proper
<1>8. SumOver(f, T \ {y}) = f[p] + SumOver(f, rest)
  <2>1. p \in T \ {y} /\ (T \ {y}) \ {p} = rest
    BY <1>3, <1>5
  <2> QED
    BY <1>1, <1>6, <2>1 DEF Proper
<1>9. f[p] \in Nat /\ f[y] \in Nat /\ SumOver(f, rest) \in Nat
  <2>1. rest \in SUBSET S /\ Counts(f, rest)
    BY DEF Counts
  <2> QED
    BY <1>3, <2>1, FiniteSubset, SumIsNat DEF Counts
<1> QED
  BY <1>2, <1>4, <1>7, <1>8, <1>9

(* A sum grows with what is summed, and with the set it is summed over. *)
LEMMA SumGrows ==
  ASSUME NEW f, NEW g, NEW S, IsFiniteSet(S), Counts(f, S), Counts(g, S),
         \A x \in S : f[x] <= g[x]
  PROVE  SumOver(f, S) <= SumOver(g, S)
<1> DEFINE C == {s \in SUBSET S : ~ (SumOver(f, s) <= SumOver(g, s))}
<1> SUFFICES ASSUME C # {} PROVE FALSE
  OBVIOUS
<1>1. PICK T \in C : \A u \in Proper(T) : u \notin C
  <2>1. C \subseteq SUBSET S
    OBVIOUS
  <2> HIDE DEF C
  <2> QED
    BY <2>1, SmallestSet
<1> DEFINE p == Pick(T)
           rest == T \ {p}
<1>2. IsFiniteSet(T)
  BY FiniteSubset
<1>3. T # {}
  BY <1>2, SumUnfolds
<1>4. SumOver(f, T) = f[p] + SumOver(f, rest) /\ SumOver(g, T) = g[p] + SumOver(g, rest)
  BY <1>2, <1>3, SumUnfolds
<1>5. SumOver(f, rest) <= SumOver(g, rest)
  BY <1>1, <1>3, PickFrom DEF Proper
<1>6. SumOver(f, rest) \in Nat /\ SumOver(g, rest) \in Nat
  <2>1. rest \in SUBSET S /\ Counts(f, rest) /\ Counts(g, rest)
    BY DEF Counts
  <2> QED
    BY <2>1, FiniteSubset, SumIsNat
<1>7. f[p] \in Nat /\ g[p] \in Nat /\ f[p] <= g[p]
  BY <1>3, PickFrom DEF Counts
<1> QED
  BY <1>4, <1>5, <1>6, <1>7

LEMMA SumOfPart ==
  ASSUME NEW f, NEW S, IsFiniteSet(S), Counts(f, S), NEW T \in SUBSET S
  PROVE  SumOver(f, T) <= SumOver(f, S)
<1> DEFINE C == {s \in SUBSET S : T \subseteq s /\ ~ (SumOver(f, T) <= SumOver(f, s))}
<1> SUFFICES ASSUME C # {} PROVE FALSE
  OBVIOUS
<1>1. PICK U \in C : \A u \in Proper(U) : u \notin C
  <2>1. C \subseteq SUBSET S
    OBVIOUS
  <2> HIDE DEF C
  <2> QED
    BY <2>1, SmallestSet
<1>2. /\ SumOver(f, T) \in Nat
      /\ \A s \in SUBSET S : IsFiniteSet(s) /\ Counts(f, s) /\ SumOver(f, s) \in Nat
  <2>1. \A s \in SUBSET S : IsFiniteSet(s) /\ Counts(f, s)
    BY FiniteSubset DEF Counts
  <2> QED
    BY <2>1, SumIsNat
<1>3. PICK x \in U : x \notin T
  BY <1>2
<1>4. SumOver(f, U) = f[x] + SumOver(f, U \ {x})
  BY <1>2, SumTakesOut
<1>5. SumOver(f, T) <= SumOver(f, U \ {x})
  BY <1>1, <1>3 DEF Proper
<1> QED
  BY <1>2, <1>4, <1>5 DEF Counts

(* A sum of nothing is nothing. *)
LEMMA SumOfNothing ==
  ASSUME NEW f, NEW S, IsFiniteSet(S), \A x \in S : f[x] = 0
  PROVE  SumOver(f, S) = 0
<1> DEFINE C == {s \in SUBSET S : SumOver(f, s) # 0}
<1> SUFFICES ASSUME C # {} PROVE FALSE
  OBVIOUS
<1>1. PICK T \in C : \A u \in Proper(T) : u \notin C
  <2>1. C \subseteq SUBSET S
    OBVIOUS
  <2> HIDE DEF C
  <2> QED
    BY <2>1, SmallestSet
<1>2. IsFiniteSet(T)
  BY FiniteSubset
<1>3. T # {}
  BY <1>2, SumUnfolds
<1>4. SumOver(f, T) = f[Pick(T)] + SumOver(f, T \ {Pick(T)})
  BY <1>2, <1>3, SumUnfolds
<1>5. f[Pick(T)] = 0 /\ SumOver(f, T \ {Pick(T)}) = 0
  BY <1>1, <1>3, PickFrom DEF Proper
<1> QED
  BY <1>4, <1>5

(* A sum that grows at one element grows by as much. *)
LEMMA SumGrowsAt ==
  ASSUME NEW f, NEW g, NEW S, IsFiniteSet(S), Counts(f, S), Counts(g, S),
         NEW x \in S, \A y \in S \ {x} : g[y] = f[y], NEW n \in Nat, g[x] = f[x] + n
  PROVE  SumOver(g, S) = SumOver(f, S) + n
<1> DEFINE rest == S \ {x}
<1>1. IsFiniteSet(rest) /\ Counts(f, rest) /\ Counts(g, rest)
  BY FiniteSubset DEF Counts
<1>2. SumOver(f, rest) \in Nat /\ SumOver(g, rest) \in Nat
  BY <1>1, SumIsNat
<1>3. SumOver(f, rest) <= SumOver(g, rest) /\ SumOver(g, rest) <= SumOver(f, rest)
  <2>1. \A y \in rest : f[y] <= g[y] /\ g[y] <= f[y]
    BY <1>1 DEF Counts
  <2> HIDE DEF rest
  <2> QED
    BY <1>1, <2>1, SumGrows
<1>4. SumOver(f, S) = f[x] + SumOver(f, rest) /\ SumOver(g, S) = g[x] + SumOver(g, rest)
  BY SumTakesOut
<1>5. f[x] \in Nat
  BY DEF Counts
<1> QED
  BY <1>2, <1>3, <1>4, <1>5

(* A sum that is nothing but at one element is that element. *)
LEMMA SumOfOne ==
  ASSUME NEW f, NEW S, IsFiniteSet(S), NEW x \in S, f[x] \in Nat,
         \A y \in S \ {x} : f[y] = 0
  PROVE  SumOver(f, S) = f[x]
<1> DEFINE rest == S \ {x}
<1>1. IsFiniteSet(rest) /\ Counts(f, S) /\ Counts(f, rest)
  BY FiniteSubset DEF Counts
<1>2. SumOver(f, S) = f[x] + SumOver(f, rest)
  BY <1>1, SumTakesOut
<1>3. SumOver(f, rest) = 0
  BY <1>1, SumOfNothing
<1> QED
  BY <1>2, <1>3

(* No element is more than the sum. *)
LEMMA SumCovers ==
  ASSUME NEW f, NEW S, IsFiniteSet(S), Counts(f, S), NEW x \in S
  PROVE  f[x] <= SumOver(f, S)
<1>1. IsFiniteSet(S \ {x}) /\ Counts(f, S \ {x})
  BY FiniteSubset DEF Counts
<1>2. SumOver(f, S \ {x}) \in Nat /\ f[x] \in Nat
  BY <1>1, SumIsNat DEF Counts
<1> QED
  BY <1>2, SumTakesOut
=============================================================================
