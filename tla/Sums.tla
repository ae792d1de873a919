-------------------------------- MODULE Sums --------------------------------
(***************************************************************************)
(* Sums over finite sets.  The folds of the community modules build a sum  *)
(* from a recursive function on the parts of the set; Total names its      *)
(* value, and the lemmas say what it is, by induction on the size of a     *)
(* set.  The balances of the ledger and the totals of refunds, settlements *)
(* and payments are such sums.                                             *)
(***************************************************************************)
EXTENDS Integers, Sequences, FiniteSets, FiniteSetTheorems, WellFoundedInduction, TLAPS

\* An element of s: the community modules' folds take their elements in this order.
Pick(s) == CHOOSE x \in s : TRUE

\* g gives every part of S the sum of f over it.
IsSum(g, f, S) ==
    g = [s \in SUBSET S |-> IF s = {} THEN 0 ELSE f[Pick(s)] + g[s \ {Pick(s)}]]

\* The sum of the function f over the finite set S.
Total(f, S) == (CHOOSE g : IsSum(g, f, S))[S]

\* The order of the natural numbers, as a relation.
Below == {ss \in Nat \X Nat : ss[1] < ss[2]}

\* There is no endless descent in it.
LEMMA BelowWF == IsWellFoundedOn(Below, Nat)
BY NatLessThanWellFounded DEF OpToRel, Below

\* A set of finite sets that is not empty has a member that no other one is a part of.
LEMMA Least ==
    ASSUME NEW F, F # {}, \A S \in F : IsFiniteSet(S)
    PROVE  \E S \in F : \A T \in F : ~(T \subseteq S /\ T # S)
<1> DEFINE N == {Cardinality(S) : S \in F}
<1>1. N \subseteq Nat /\ N # {}
  BY FS_CardinalityType
<1> HIDE DEF N
<1>2. PICK m \in N : \A n \in N : ~(<<n, m>> \in Below)
  BY <1>1, WFMin, BelowWF
<1>3. \A n \in N : ~(n < m)
  BY <1>1, <1>2 DEF Below
<1>4. PICK S \in F : Cardinality(S) = m
  BY DEF N
<1>5. ASSUME NEW T \in F, T \subseteq S, T # S PROVE FALSE
  <2>1. Cardinality(T) <= Cardinality(S) /\ Cardinality(T) # Cardinality(S)
    BY <1>5, FS_Subset
  <2>2. Cardinality(T) < m
    BY <1>1, <1>4, <2>1, FS_CardinalityType DEF N
  <2> QED
    BY <1>3, <2>2 DEF N
<1> QED
  BY <1>5

\* The chosen element is one.
LEMMA PickIn == ASSUME NEW s, s # {} PROVE Pick(s) \in s
BY DEF Pick

\* Two functions that both sum f agree wherever both are defined.
LEMMA SumUnique ==
    ASSUME NEW f, NEW S, NEW T, NEW g, NEW h, IsSum(g, f, S), IsSum(h, f, T),
           NEW s, IsFiniteSet(s), s \subseteq S, s \subseteq T
    PROVE  g[s] = h[s]
<1> DEFINE F == {t \in SUBSET s : g[t] # h[t]}
<1> SUFFICES ASSUME F # {} PROVE FALSE
  OBVIOUS
<1>1. \A t \in F : IsFiniteSet(t)
  BY FS_Subset
<1>2. PICK t \in F : \A u \in F : ~(u \subseteq t /\ u # t)
  <2> HIDE DEF F
  <2> QED
    BY <1>1, Least
<1>3. t # {} => Pick(t) \in t
  BY PickIn
<1>4. t # {} => t \ {Pick(t)} \notin F /\ t \ {Pick(t)} \in SUBSET s
  BY <1>2, <1>3
<1>5. t # {} => g[t \ {Pick(t)}] = h[t \ {Pick(t)}]
  BY <1>4
<1>6. g[t] = IF t = {} THEN 0 ELSE f[Pick(t)] + g[t \ {Pick(t)}]
  BY DEF IsSum
<1>7. h[t] = IF t = {} THEN 0 ELSE f[Pick(t)] + h[t \ {Pick(t)}]
  BY DEF IsSum
<1> QED
  BY <1>2, <1>5, <1>6, <1>7

\* There is a function that sums f over every part of a finite set.
LEMMA SumExists ==
    ASSUME NEW f, NEW S, IsFiniteSet(S)
    PROVE  \E g : IsSum(g, f, S)
<1> DEFINE F == {s \in SUBSET S : ~\E g : IsSum(g, f, s)}
<1> SUFFICES ASSUME F # {} PROVE FALSE
  OBVIOUS
<1>1. \A s \in F : IsFiniteSet(s)
  BY FS_Subset
<1>2. PICK s \in F : \A u \in F : ~(u \subseteq s /\ u # s)
  <2> HIDE DEF F
  <2> QED
    BY <1>1, Least
<1>3. \A u \in SUBSET s : u # s => \E g : IsSum(g, f, u)
  BY <1>2
<1> DEFINE G(u) == CHOOSE g : IsSum(g, f, u)
           value(u) == IF u = {} THEN 0 ELSE f[Pick(u)] + G(u \ {Pick(u)})[u \ {Pick(u)}]
           h == [u \in SUBSET s |-> value(u)]
<1>4. \A u \in SUBSET s : u # s => IsSum(G(u), f, u)
  BY <1>3
<1>5. ASSUME NEW u \in SUBSET s, u # {}
      PROVE  h[u] = f[Pick(u)] + h[u \ {Pick(u)}]
  <2> DEFINE v == u \ {Pick(u)}
  <2>1. Pick(u) \in u /\ v \in SUBSET s /\ v # s /\ IsFiniteSet(v)
    BY <1>1, <1>5, PickIn, FS_Subset
  <2>2. IsSum(G(v), f, v)
    BY <1>4, <2>1
  <2>3. h[v] = value(v) /\ h[u] = f[Pick(u)] + G(v)[v]
    BY <1>5, <2>1
  <2>4. G(v)[v] = IF v = {} THEN 0 ELSE f[Pick(v)] + G(v)[v \ {Pick(v)}]
    BY <2>2 DEF IsSum
  <2>5. ASSUME v # {} PROVE G(v)[v \ {Pick(v)}] = G(v \ {Pick(v)})[v \ {Pick(v)}]
    <3> DEFINE w == v \ {Pick(v)}
    <3>1. Pick(v) \in v /\ w \in SUBSET s /\ w # s /\ w \subseteq v /\ IsFiniteSet(w)
      BY <2>1, <2>5, PickIn, FS_Subset
    <3>2. IsSum(G(w), f, w)
      BY <1>4, <3>1
    <3> HIDE DEF G, w
    <3>3. G(v)[w] = G(w)[w]
      BY <2>2, <3>1, <3>2, SumUnique
    <3> QED
      BY <3>3 DEF w
  <2>6. G(v)[v] = value(v)
    BY <2>4, <2>5
  <2> QED
    BY <2>3, <2>6
<1>6. h[{}] = 0
  OBVIOUS
<1>7. IsSum(h, f, s)
  <2>1. h = [u \in SUBSET s |-> h[u]]
    OBVIOUS
  <2> HIDE DEF h
  <2> QED
    BY <1>5, <1>6, <2>1 DEF IsSum
<1> QED
  BY <1>2, <1>7

\* Any such function gives the total.
LEMMA TotalIsSum ==
    ASSUME NEW f, NEW S, IsFiniteSet(S), NEW g, IsSum(g, f, S), NEW s \in SUBSET S
    PROVE  g[s] = Total(f, s)
<1> DEFINE h == CHOOSE h : IsSum(h, f, s)
<1>1. IsFiniteSet(s)
  BY FS_Subset
<1>2. IsSum(h, f, s)
  BY <1>1, SumExists
<1> HIDE DEF h
<1>3. g[s] = h[s]
  BY <1>1, <1>2, SumUnique
<1> QED
  BY <1>3 DEF Total, h

\* The recursion that the total satisfies.
LEMMA TotalPick ==
    ASSUME NEW f, NEW S, IsFiniteSet(S)
    PROVE  Total(f, S) = IF S = {} THEN 0 ELSE f[Pick(S)] + Total(f, S \ {Pick(S)})
<1>1. PICK g : IsSum(g, f, S)
  BY SumExists
<1>2. g[S] = Total(f, S) /\ g[S \ {Pick(S)}] = Total(f, S \ {Pick(S)})
  <2>1. S \in SUBSET S /\ S \ {Pick(S)} \in SUBSET S
    OBVIOUS
  <2> QED
    BY <1>1, <2>1, TotalIsSum
<1>3. g[S] = IF S = {} THEN 0 ELSE f[Pick(S)] + g[S \ {Pick(S)}]
  BY <1>1 DEF IsSum
<1> QED
  BY <1>2, <1>3

\* Induction over a finite set, for a set of its parts.
LEMMA Induct ==
    ASSUME NEW S, IsFiniteSet(S), NEW P, {} \in P,
           \A T \in SUBSET S : \A x \in S \ T : T \in P => T \cup {x} \in P
    PROVE  \A T \in SUBSET S : T \in P
<1> DEFINE F == {T \in SUBSET S : T \notin P}
<1> SUFFICES ASSUME F # {} PROVE FALSE
  OBVIOUS
<1>1. \A T \in F : IsFiniteSet(T)
  BY FS_Subset
<1>2. PICK T \in F : \A U \in F : ~(U \subseteq T /\ U # T)
  <2> HIDE DEF F
  <2> QED
    BY <1>1, Least
<1>3. PICK x : x \in T
  OBVIOUS
<1>4. T \ {x} \in P
  BY <1>2, <1>3
<1>5. (T \ {x}) \cup {x} = T
  BY <1>3
<1>6. (T \ {x}) \cup {x} \in P
  BY <1>3, <1>4
<1> QED
  BY <1>2, <1>5, <1>6

\* A total of integers is an integer.
LEMMA TotalType ==
    ASSUME NEW S, IsFiniteSet(S), NEW f, \A x \in S : f[x] \in Int
    PROVE  \A T \in SUBSET S : Total(f, T) \in Int
<1> DEFINE F == {T \in SUBSET S : Total(f, T) \notin Int}
<1> SUFFICES ASSUME F # {} PROVE FALSE
  OBVIOUS
<1>1. \A T \in F : IsFiniteSet(T)
  BY FS_Subset
<1>2. PICK T \in F : \A U \in F : ~(U \subseteq T /\ U # T)
  <2> HIDE DEF F
  <2> QED
    BY <1>1, Least
<1>3. T # {} => Pick(T) \in T /\ Total(f, T \ {Pick(T)}) \in Int
  BY <1>2, PickIn
<1>4. CASE T = {}
  <2>1. Total(f, T) = 0
    BY <1>1, <1>2, <1>4, TotalPick
  <2> QED
    BY <1>2, <2>1
<1>5. CASE T # {}
  <2>1. Total(f, T) = f[Pick(T)] + Total(f, T \ {Pick(T)})
    BY <1>1, <1>2, <1>5, TotalPick
  <2>2. f[Pick(T)] \in Int /\ Total(f, T \ {Pick(T)}) \in Int
    BY <1>2, <1>3, <1>5
  <2> QED
    BY <1>2, <2>1, <2>2
<1> QED
  BY <1>4, <1>5

\* The order of the elements does not matter.
LEMMA TotalTake ==
    ASSUME NEW S, IsFiniteSet(S), NEW f, \A x \in S : f[x] \in Int
    PROVE  \A T \in SUBSET S : \A x \in T : Total(f, T) = f[x] + Total(f, T \ {x})
<1> DEFINE F == {T \in SUBSET S : \E x \in T : Total(f, T) # f[x] + Total(f, T \ {x})}
<1> SUFFICES ASSUME F # {} PROVE FALSE
  OBVIOUS
<1>1. \A T \in F : IsFiniteSet(T)
  BY FS_Subset
<1>2. PICK T \in F : \A U \in F : ~(U \subseteq T /\ U # T)
  <2> HIDE DEF F
  <2> QED
    BY <1>1, Least
<1>3. PICK x \in T : Total(f, T) # f[x] + Total(f, T \ {x})
  OBVIOUS
<1> DEFINE y == Pick(T)
           Y == T \ {y}
           X == T \ {x}
<1>4. y \in T /\ Total(f, T) = f[y] + Total(f, Y)
  BY <1>1, <1>3, TotalPick, PickIn
<1>5. x # y
  BY <1>3, <1>4
<1>6. Y \notin F /\ X \notin F /\ x \in Y /\ y \in X
  BY <1>2, <1>3, <1>4, <1>5
<1>7. Total(f, Y) = f[x] + Total(f, Y \ {x}) /\ Total(f, X) = f[y] + Total(f, X \ {y})
  BY <1>6
<1>8. Total(f, Y \ {x}) = Total(f, X \ {y})
  <2>1. Y \ {x} = X \ {y}
    OBVIOUS
  <2> QED
    BY <2>1, Zenon
<1>9. f[x] \in Int /\ f[y] \in Int /\ Total(f, Y \ {x}) \in Int
  BY <1>3, <1>4, TotalType
<1> HIDE DEF y, Y, X
<1> QED
  BY <1>3, <1>4, <1>7, <1>8, <1>9 DEF X

\* One element more.
LEMMA TotalInsert ==
    ASSUME NEW S, IsFiniteSet(S), NEW f, \A x \in S : f[x] \in Int,
           NEW T \in SUBSET S, NEW x \in S \ T
    PROVE  Total(f, T \cup {x}) = Total(f, T) + f[x]
<1>1. Total(f, T \cup {x}) = f[x] + Total(f, (T \cup {x}) \ {x})
  BY TotalTake
<1>2. Total(f, (T \cup {x}) \ {x}) = Total(f, T)
  <2>1. (T \cup {x}) \ {x} = T
    OBVIOUS
  <2> QED
    BY <2>1, Zenon
<1>3. f[x] \in Int /\ Total(f, T) \in Int
  BY TotalType
<1> QED
  BY <1>1, <1>2, <1>3

\* Nothing adds up to zero.
LEMMA TotalEmpty == ASSUME NEW f PROVE Total(f, {}) = 0
BY TotalPick, FS_EmptySet

\* Functions that agree on a set have one total over it.
LEMMA TotalSame ==
    ASSUME NEW S, IsFiniteSet(S), NEW f, NEW g, \A x \in S : f[x] = g[x] /\ f[x] \in Int
    PROVE  Total(f, S) = Total(g, S)
<1> DEFINE P == {T \in SUBSET S : Total(f, T) = Total(g, T)}
<1>1. {} \in P
  BY TotalEmpty
<1>2. ASSUME NEW T \in SUBSET S, NEW x \in S \ T, T \in P PROVE T \cup {x} \in P
  BY <1>2, TotalInsert
<1>3. \A T \in SUBSET S : T \in P
  <2> HIDE DEF P
  <2> QED
    BY <1>1, <1>2, Induct
<1> QED
  BY <1>3

\* The total of the sums is the sum of the totals.
LEMMA TotalPlus ==
    ASSUME NEW S, IsFiniteSet(S), NEW f, NEW g, NEW h,
           \A x \in S : f[x] \in Int /\ g[x] \in Int /\ h[x] = f[x] + g[x]
    PROVE  Total(h, S) = Total(f, S) + Total(g, S)
<1> DEFINE P == {T \in SUBSET S : Total(h, T) = Total(f, T) + Total(g, T)}
<1>1. {} \in P
  BY TotalEmpty
<1>2. ASSUME NEW T \in SUBSET S, NEW x \in S \ T, T \in P PROVE T \cup {x} \in P
  <2>1. \A z \in S : h[z] \in Int
    OBVIOUS
  <2>2. /\ Total(f, T \cup {x}) = Total(f, T) + f[x]
        /\ Total(g, T \cup {x}) = Total(g, T) + g[x]
        /\ Total(h, T \cup {x}) = Total(h, T) + h[x]
    BY <2>1, TotalInsert
  <2>3. Total(f, T) \in Int /\ Total(g, T) \in Int
    BY TotalType
  <2> QED
    BY <1>2, <2>2, <2>3
<1>3. \A T \in SUBSET S : T \in P
  <2> HIDE DEF P
  <2> QED
    BY <1>1, <1>2, Induct
<1> QED
  BY <1>3

\* Zeros add up to zero.
LEMMA TotalZero ==
    ASSUME NEW S, IsFiniteSet(S), NEW f, \A x \in S : f[x] = 0
    PROVE  Total(f, S) = 0
<1> DEFINE P == {T \in SUBSET S : Total(f, T) = 0}
<1>1. {} \in P
  BY TotalEmpty
<1>2. ASSUME NEW T \in SUBSET S, NEW x \in S \ T, T \in P PROVE T \cup {x} \in P
  <2>1. \A z \in S : f[z] \in Int
    OBVIOUS
  <2>2. Total(f, T \cup {x}) = Total(f, T) + f[x]
    BY <2>1, TotalInsert
  <2> QED
    BY <1>2, <2>2
<1>3. \A T \in SUBSET S : T \in P
  <2> HIDE DEF P
  <2> QED
    BY <1>1, <1>2, Induct
<1> QED
  BY <1>3

\* Only x counts.
LEMMA TotalOne ==
    ASSUME NEW S, IsFiniteSet(S), NEW f, NEW x \in S, f[x] \in Int, \A y \in S \ {x} : f[y] = 0
    PROVE  Total(f, S) = f[x]
<1>1. \A y \in S : f[y] \in Int
  OBVIOUS
<1>2. Total(f, S) = f[x] + Total(f, S \ {x})
  BY <1>1, TotalTake
<1>3. IsFiniteSet(S \ {x})
  BY FS_RemoveElement
<1>4. Total(f, S \ {x}) = 0
  BY <1>3, TotalZero
<1> QED
  BY <1>2, <1>4

\* The total of the negatives is the negative of the total.
LEMMA TotalMinus ==
    ASSUME NEW S, IsFiniteSet(S), NEW f, NEW g, \A x \in S : f[x] \in Int /\ g[x] = -f[x]
    PROVE  Total(g, S) = -Total(f, S)
<1> DEFINE h == [x \in S |-> 0]
<1>1. \A x \in S : g[x] \in Int /\ h[x] = f[x] + g[x]
  OBVIOUS
<1>2. Total(h, S) = 0
  BY TotalZero
<1> HIDE DEF h
<1>3. Total(h, S) = Total(f, S) + Total(g, S)
  BY <1>1, TotalPlus
<1>4. Total(f, S) \in Int /\ Total(g, S) \in Int
  BY <1>1, TotalType
<1> QED
  BY <1>2, <1>3, <1>4

\* A table, given by its rows m and by its columns c, with their totals.
Table(A, B, m, c, row, col) ==
    /\ IsFiniteSet(A) /\ IsFiniteSet(B)
    /\ \A a \in A, b \in B : m[a][b] \in Int /\ c[b][a] = m[a][b]
    /\ \A a \in A : row[a] = Total(m[a], B)
    /\ \A b \in B : col[b] = Total(c[b], A)

\* The rows together are the columns together.
LEMMA TotalTable ==
    ASSUME NEW A, NEW B, NEW m, NEW c, NEW row, NEW col, Table(A, B, m, c, row, col)
    PROVE  Total(row, A) = Total(col, B)
<1> USE DEF Table
<1> DEFINE C(T) == [b \in B |-> Total(c[b], T)]
           P == {T \in SUBSET A : Total(row, T) = Total(C(T), B)}
<1>0. \A a \in A : row[a] \in Int
  BY TotalType
<1>1. {} \in P
  <2>1. Total(row, {}) = 0 /\ \A b \in B : Total(c[b], {}) = 0
    BY TotalEmpty
  <2>2. Total(C({}), B) = 0
    BY <2>1, TotalZero
  <2> QED
    BY <2>1, <2>2
<1>2. ASSUME NEW T \in SUBSET A, NEW x \in A \ T, T \in P PROVE T \cup {x} \in P
  <2>1. Total(row, T \cup {x}) = Total(row, T) + Total(m[x], B)
    BY <1>0, TotalInsert
  <2>2. ASSUME NEW b \in B
        PROVE  /\ Total(c[b], T) \in Int
               /\ Total(c[b], T \cup {x}) = Total(c[b], T) + m[x][b]
    <3>1. \A a \in A : c[b][a] \in Int /\ c[b][a] = m[a][b]
      OBVIOUS
    <3> QED
      BY <3>1, TotalInsert, TotalType
  <2>3. \A b \in B : C(T)[b] \in Int /\ m[x][b] \in Int /\ C(T \cup {x})[b] = C(T)[b] + m[x][b]
    BY <2>2
  <2> HIDE DEF C
  <2>4. Total(C(T \cup {x}), B) = Total(C(T), B) + Total(m[x], B)
    <3> DEFINE f == C(T)
               g == m[x]
               h == C(T \cup {x})
    <3>1. \A b \in B : f[b] \in Int /\ g[b] \in Int /\ h[b] = f[b] + g[b]
      BY <2>3
    <3> HIDE DEF f, g, h
    <3>2. Total(h, B) = Total(f, B) + Total(g, B)
      BY <3>1, TotalPlus
    <3> QED
      BY <3>2 DEF f, g, h
  <2> QED
    BY <1>2, <2>1, <2>4
<1>3. A \in P
  <2> HIDE DEF P
  <2> QED
    BY <1>1, <1>2, Induct
<1>4. \A b \in B : C(A)[b] = col[b] /\ col[b] \in Int
  <2> SUFFICES ASSUME NEW b \in B PROVE Total(c[b], A) \in Int
    OBVIOUS
  <2>1. \A a \in A : c[b][a] \in Int
    OBVIOUS
  <2> QED
    BY <2>1, TotalType
<1>5. Total(C(A), B) = Total(col, B)
  <2> HIDE DEF C
  <2> QED
    BY <1>4, TotalSame
<1> QED
  BY <1>3, <1>5

\* Elements whose value is zero can be left out.
LEMMA TotalPart ==
    ASSUME NEW S, IsFiniteSet(S), NEW f, \A x \in S : f[x] \in Int,
           NEW R \in SUBSET S, \A x \in S \ R : f[x] = 0
    PROVE  Total(f, S) = Total(f, R)
<1> DEFINE P == {T \in SUBSET S : Total(f, T) = Total(f, T \cap R)}
<1>1. {} \in P
  <2>1. Total(f, {} \cap R) = Total(f, {})
    <3>1. {} \cap R = {}
      OBVIOUS
    <3> QED
      BY <3>1, Zenon
  <2> QED
    BY <2>1
<1>2. ASSUME NEW T \in SUBSET S, NEW x \in S \ T, T \in P PROVE T \cup {x} \in P
  <2>1. Total(f, T \cup {x}) = Total(f, T) + f[x] /\ Total(f, T) \in Int
    BY TotalInsert, TotalType
  <2>2. CASE x \in R
    <3>1. Total(f, (T \cap R) \cup {x}) = Total(f, T \cap R) + f[x]
      BY <2>2, TotalInsert
    <3>2. Total(f, (T \cup {x}) \cap R) = Total(f, (T \cap R) \cup {x})
      <4>1. (T \cup {x}) \cap R = (T \cap R) \cup {x}
        BY <2>2
      <4> QED
        BY <4>1, Zenon
    <3> QED
      BY <1>2, <2>1, <3>1, <3>2
  <2>3. CASE x \notin R
    <3>1. Total(f, (T \cup {x}) \cap R) = Total(f, T \cap R)
      <4>1. (T \cup {x}) \cap R = T \cap R
        BY <2>3
      <4> QED
        BY <4>1, Zenon
    <3> QED
      BY <1>2, <2>1, <2>3, <3>1
  <2> QED
    BY <2>2, <2>3
<1>3. Total(f, S) = Total(f, S \cap R)
  <2>1. S \in P
    <3> HIDE DEF P
    <3> QED
      BY <1>1, <1>2, Induct
  <2> QED
    BY <2>1
<1>4. Total(f, S \cap R) = Total(f, R)
  <2>1. S \cap R = R
    OBVIOUS
  <2> QED
    BY <2>1, Zenon
<1> QED
  BY <1>3, <1>4

\* Two indices are finitely many.
LEMMA TwoFinite == IsFiniteSet(1..2)
<1>1. IsFiniteSet(({} \cup {1}) \cup {2})
  BY FS_EmptySet, FS_AddElement
<1>2. ({} \cup {1}) \cup {2} = 1..2
  OBVIOUS
<1> QED
  BY <1>1, <1>2, Zenon

\* Two terms.
LEMMA TotalTwo ==
    ASSUME NEW f, f[1] \in Int, f[2] \in Int
    PROVE  Total(f, 1..2) = f[1] + f[2]
<1>1. IsFiniteSet(1..2) /\ \A x \in 1..2 : f[x] \in Int
  <2>1. IsFiniteSet(1..2)
    BY TwoFinite
  <2>2. \A x \in 1..2 : x = 1 \/ x = 2
    OBVIOUS
  <2> QED
    BY <2>1, <2>2, Zenon
<1>2. Total(f, {1} \cup {2}) = Total(f, {1}) + f[2]
  BY <1>1, TotalInsert
<1>3. Total(f, {} \cup {1}) = Total(f, {}) + f[1]
  BY <1>1, TotalInsert
<1>4. Total(f, {1} \cup {2}) = Total(f, 1..2) /\ Total(f, {} \cup {1}) = Total(f, {1})
  <2>1. {1} \cup {2} = 1..2 /\ {} \cup {1} = {1}
    OBVIOUS
  <2> QED
    BY <2>1, Zenon
<1> QED
  BY <1>2, <1>3, <1>4, TotalEmpty
-----------------------------------------------------------------------------
(* Amounts of the rows of a table. *)

\* A sum of natural numbers is one, and no part of it is larger.
LEMMA TotalNat ==
    ASSUME NEW S, IsFiniteSet(S), NEW f, \A x \in S : f[x] \in Nat
    PROVE  \A T \in SUBSET S : Total(f, T) \in Nat /\ Total(f, T) <= Total(f, S)
<1>1. \A x \in S : f[x] \in Int
  OBVIOUS
<1>2. ASSUME NEW A \in SUBSET S PROVE Total(f, A) \in Nat
  <2> DEFINE P == {T \in SUBSET A : Total(f, T) \in Nat}
  <2>1. {} \in P
    BY TotalEmpty
  <2>2. ASSUME NEW T \in SUBSET A, NEW x \in A \ T, T \in P PROVE T \cup {x} \in P
    <3>1. Total(f, T \cup {x}) = Total(f, T) + f[x] /\ f[x] \in Nat
      BY <1>1, TotalInsert
    <3> QED
      BY <2>2, <3>1
  <2>3. IsFiniteSet(A)
    BY FS_Subset
  <2>4. A \in P
    <3> HIDE DEF P
    <3> QED
      BY <2>1, <2>2, <2>3, Induct
  <2> QED
    BY <2>4
<1>3. ASSUME NEW A \in SUBSET S PROVE Total(f, A) <= Total(f, S)
  <2> DEFINE B == S \ A
             P == {T \in SUBSET B : Total(f, A) <= Total(f, A \cup T)}
  <2>1. {} \in P
    <3>1. Total(f, A \cup {}) = Total(f, A)
      <4>1. A \cup {} = A
        OBVIOUS
      <4> QED
        BY <4>1, Zenon
    <3> QED
      BY <1>2, <3>1
  <2>2. ASSUME NEW T \in SUBSET B, NEW x \in B \ T, T \in P PROVE T \cup {x} \in P
    <3>1. A \cup T \in SUBSET S /\ x \in S \ (A \cup T) /\ f[x] \in Nat
      BY <2>2
    <3>2. Total(f, (A \cup T) \cup {x}) = Total(f, A \cup T) + f[x]
      <4> DEFINE U == A \cup T
      <4>1. U \in SUBSET S /\ x \in S \ U
        BY <3>1
      <4> HIDE DEF U
      <4>2. Total(f, U \cup {x}) = Total(f, U) + f[x]
        BY <1>1, <4>1, TotalInsert
      <4> QED
        BY <4>2 DEF U
    <3>3. Total(f, A \cup (T \cup {x})) = Total(f, (A \cup T) \cup {x})
      <4>1. A \cup (T \cup {x}) = (A \cup T) \cup {x}
        OBVIOUS
      <4> QED
        BY <4>1, Zenon
    <3>4. Total(f, A) \in Nat /\ Total(f, A \cup T) \in Nat
      BY <1>2, <3>1
    <3> QED
      BY <2>2, <3>1, <3>2, <3>3, <3>4
  <2>3. B \in P
    <3>1. IsFiniteSet(B)
      BY FS_Subset
    <3> HIDE DEF P, B
    <3>2. \A T \in SUBSET B : T \in P
      BY <2>1, <2>2, <3>1, Induct
    <3> QED
      BY <3>2
  <2>4. Total(f, A \cup (S \ A)) = Total(f, S)
    <3>1. A \cup (S \ A) = S
      OBVIOUS
    <3> QED
      BY <3>1, Zenon
  <2> QED
    BY <2>3, <2>4
<1> QED
  BY <1>2, <1>3

\* The column of the amounts.
Amounts(rows) == [n \in DOMAIN rows |-> rows[n].amount]

\* What the folds compute of it is its total.
LEMMA AmountFold ==
    ASSUME NEW rows, NEW S \in SUBSET DOMAIN rows, IsFiniteSet(S)
    PROVE  (CHOOSE g : g = [s \in SUBSET S |->
               IF s = {} THEN 0 ELSE rows[Pick(s)].amount + g[s \ {Pick(s)}]])[S]
             = Total(Amounts(rows), S)
<1> DEFINE f == Amounts(rows)
           Q(g) == g = [s \in SUBSET S |->
                          IF s = {} THEN 0 ELSE rows[Pick(s)].amount + g[s \ {Pick(s)}]]
<1>1. \A s \in SUBSET S : s # {} => f[Pick(s)] = rows[Pick(s)].amount
  BY PickIn DEF Amounts
<1> HIDE DEF f
<1>2. ASSUME NEW g PROVE Q(g) <=> IsSum(g, f, S)
  BY <1>1 DEF IsSum
<1> DEFINE G == CHOOSE g : Q(g)
<1>3. Q(G)
  BY <1>2, SumExists
<1> HIDE DEF G
<1>4. G[S] = Total(f, S)
  <2>1. IsSum(G, f, S)
    BY <1>2, <1>3
  <2>2. S \in SUBSET S
    OBVIOUS
  <2> HIDE DEF Q
  <2> QED
    BY <2>1, <2>2, TotalIsSum
<1> QED
  BY <1>4 DEF G, f

\* Only the place of k changes: it comes to the set, leaves it, or stays.
LEMMA TotalChange ==
    ASSUME NEW S, IsFiniteSet(S), NEW f, NEW g, NEW A \in SUBSET S, NEW B \in SUBSET S, NEW k \in S,
           \A x \in S : g[x] \in Int, \A x \in A : f[x] = g[x], A \ {k} = B \ {k}
    PROVE  /\ Total(f, A) \in Int
           /\ (k \in A <=> k \in B) => Total(g, B) = Total(f, A)
           /\ k \in B \ A => Total(g, B) = Total(f, A) + g[k]
           /\ k \in A \ B => Total(g, B) = Total(f, A) - g[k]
<1>1. IsFiniteSet(A) /\ \A x \in A : f[x] = g[x] /\ f[x] \in Int
  BY FS_Subset
<1>2. Total(f, A) = Total(g, A) /\ Total(f, A) \in Int /\ Total(g, B) \in Int
  BY <1>1, TotalSame, TotalType
<1>3. ASSUME k \in A <=> k \in B PROVE Total(g, A) = Total(g, B)
  <2>1. A = B
    BY <1>3
  <2> QED
    BY <2>1, Zenon
<1>4. ASSUME k \in B \ A PROVE Total(g, B) = Total(g, A) + g[k]
  <2>1. A \cup {k} = B /\ k \in S \ A
    BY <1>4
  <2>2. Total(g, A \cup {k}) = Total(g, A) + g[k]
    BY <2>1, TotalInsert
  <2> QED
    BY <2>1, <2>2, Zenon
<1>5. ASSUME k \in A \ B PROVE Total(g, A) = Total(g, B) + g[k]
  <2>1. B \cup {k} = A /\ k \in S \ B
    BY <1>5
  <2>2. Total(g, B \cup {k}) = Total(g, B) + g[k]
    BY <2>1, TotalInsert
  <2> QED
    BY <2>1, <2>2, Zenon
<1> QED
  BY <1>2, <1>3, <1>4, <1>5

\* The rows of a sequence are finitely many.
LEMMA RowsFinite ==
    ASSUME NEW R, NEW rows \in Seq(R)
    PROVE  IsFiniteSet(DOMAIN rows) /\ IsFiniteSet(DOMAIN rows \cup {Len(rows) + 1})
<1>1. DOMAIN rows = 1..Len(rows) /\ Len(rows) \in Nat
  OBVIOUS
<1>2. IsFiniteSet(1..Len(rows))
  BY <1>1, FS_Interval
<1> QED
  BY <1>1, <1>2, FS_AddElement

\* Each is a row.
LEMMA RowIn == ASSUME NEW R, NEW rows \in Seq(R) PROVE \A n \in DOMAIN rows : rows[n] \in R
OBVIOUS

\* One row more.
LEMMA AmountAppend ==
    ASSUME NEW R, \A r \in R : r.amount \in Int, NEW rows \in Seq(R), NEW new \in R,
           NEW T \in SUBSET DOMAIN rows
    PROVE  /\ Total(Amounts(rows), T) \in Int
           /\ Total(Amounts(Append(rows, new)), T) = Total(Amounts(rows), T)
           /\ Total(Amounts(Append(rows, new)), T \cup {Len(rows) + 1}) =
                Total(Amounts(rows), T) + new.amount
<1> DEFINE more == Append(rows, new)
           k == Len(rows) + 1
           f == Amounts(rows)
           g == Amounts(more)
<1>1. /\ DOMAIN more = DOMAIN rows \cup {k} /\ k \notin DOMAIN rows /\ more[k] = new
      /\ \A n \in DOMAIN rows : more[n] = rows[n] /\ rows[n] \in R
  OBVIOUS
<1>2. /\ \A n \in DOMAIN rows : f[n] = g[n] /\ f[n] \in Int
      /\ g[k] = new.amount /\ \A n \in DOMAIN more : g[n] \in Int
  BY <1>1 DEF Amounts
<1>3. IsFiniteSet(T) /\ IsFiniteSet(DOMAIN rows) /\ IsFiniteSet(DOMAIN more)
  BY <1>1, RowsFinite, FS_Subset
<1> HIDE DEF f, g, k
<1>4. Total(f, T) \in Int
  BY <1>2, <1>3, TotalType
<1>5. Total(g, T) = Total(f, T)
  BY <1>2, <1>3, TotalSame
<1>6. Total(g, T \cup {k}) = Total(g, T) + g[k]
  <2>1. T \in SUBSET DOMAIN more /\ k \in DOMAIN more \ T
    BY <1>1
  <2> QED
    BY <1>2, <1>3, <2>1, TotalInsert
<1> QED
  BY <1>2, <1>4, <1>5, <1>6 DEF f, g, k

\* Terms that are found, each at a place of its own, among others that are not negative.
LEMMA TotalImage ==
    ASSUME NEW S, IsFiniteSet(S), NEW T, IsFiniteSet(T), NEW f, NEW g, NEW h,
           \A y \in T : g[y] \in Nat, \A x \in S : h[x] \in T /\ f[x] = g[h[x]],
           \A x, y \in S : h[x] = h[y] => x = y
    PROVE  Total(f, S) <= Total(g, T)
<1> DEFINE Image(U) == {h[x] : x \in U}
           P == {U \in SUBSET S : Total(f, U) = Total(g, Image(U))}
<1>1. {} \in P
  <2>1. Image({}) = {}
    OBVIOUS
  <2>2. Total(g, Image({})) = 0
    BY <2>1, TotalEmpty, Zenon
  <2> HIDE DEF Image
  <2> QED
    BY <2>2, TotalEmpty
<1>2. ASSUME NEW U \in SUBSET S, NEW x \in S \ U, U \in P PROVE U \cup {x} \in P
  <2>1. Image(U \cup {x}) = Image(U) \cup {h[x]}
    OBVIOUS
  <2>2. Image(U) \in SUBSET T /\ h[x] \in T \ Image(U)
    OBVIOUS
  <2>3. \A y \in S : f[y] \in Int
    OBVIOUS
  <2>4. Total(f, U) = Total(g, Image(U))
    BY <1>2
  <2>5. f[x] = g[h[x]]
    OBVIOUS
  <2> HIDE DEF Image, P
  <2>6. Total(f, U \cup {x}) = Total(f, U) + f[x]
    BY <2>3, TotalInsert
  <2>7. Total(g, Image(U) \cup {h[x]}) = Total(g, Image(U)) + g[h[x]]
    <3>1. \A y \in T : g[y] \in Int
      OBVIOUS
    <3> QED
      BY <2>2, <3>1, TotalInsert
  <2>8. Total(g, Image(U \cup {x})) = Total(g, Image(U) \cup {h[x]})
    BY <2>1, Zenon
  <2>9. Total(f, U \cup {x}) = Total(g, Image(U \cup {x}))
    BY <2>4, <2>5, <2>6, <2>7, <2>8
  <2> QED
    BY <2>9 DEF P
<1>3. S \in P
  <2>1. \A U \in SUBSET S : \A x \in S \ U : U \in P => U \cup {x} \in P
    BY <1>2
  <2> HIDE DEF P
  <2> QED
    BY <1>1, <2>1, Induct
<1>4. Image(S) \in SUBSET T
  OBVIOUS
<1> HIDE DEF Image
<1>5. Total(g, Image(S)) <= Total(g, T)
  BY <1>4, TotalNat
<1> QED
  BY <1>3, <1>5
=============================================================================
