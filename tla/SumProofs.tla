------------------------------ MODULE SumProofs ------------------------------
(***************************************************************************)
(* Lemmas about sums over finite sets, for the proofs that keep accounts.  *)
(***************************************************************************)
EXTENDS Sums, Integers, FiniteSetTheorems, TLAPS

-----------------------------------------------------------------------------
(* Total.  It is defined by a recursive function, which is shown to exist; *)
(* then the order in which it takes the elements does not matter.          *)

Pick(S) == CHOOSE t \in S : TRUE

(* g is the running total of f over the subsets of S.                      *)
Runs(g, f, S) ==
    g = [s \in SUBSET S |-> IF s = {} THEN 0 ELSE f[Pick(s)] + g[s \ {Pick(s)}]]

LEMMA TotalDef ==
    ASSUME NEW f, NEW S
    PROVE  Total(f, S) = (CHOOSE g : Runs(g, f, S))[S]
BY DEF Total, MapThenFoldSet, Runs, Pick

(* A set of subsets of a finite set has a least member.                    *)
LEMMA LeastSubset ==
    ASSUME NEW S, IsFiniteSet(S), NEW T, T \subseteq SUBSET S, T # {}
    PROVE  \E s \in T : \A u \in T : ~(u \subseteq s /\ u # s)
<1> DEFINE R == StrictSubsetOrdering(S)
<1>1. IsWellFoundedOn(R, SUBSET S)
  BY FS_StrictSubsetOrderingWellFounded, FS_FiniteSubsetsOfFinite
<1>2. \A u, s \in SUBSET S : u \subseteq s /\ u # s => <<u, s>> \in R
  BY DEF StrictSubsetOrdering
<1> HIDE DEF R
<1>3. PICK s \in T : \A u \in T : <<u, s>> \notin R
  BY <1>1, WFMin
<1> QED BY <1>2, <1>3

LEMMA PickFacts ==
    ASSUME NEW S, S # {}
    PROVE  Pick(S) \in S /\ S \ {Pick(S)} \subseteq S /\ S \ {Pick(S)} # S
BY DEF Pick

LEMMA RunsAt ==
    ASSUME NEW f, NEW S, NEW g, Runs(g, f, S), NEW s \in SUBSET S
    PROVE  g[s] = IF s = {} THEN 0 ELSE f[Pick(s)] + g[s \ {Pick(s)}]
<1> DEFINE h == [u \in SUBSET S |-> IF u = {} THEN 0 ELSE f[Pick(u)] + g[u \ {Pick(u)}]]
<1>1. g = h
  BY DEF Runs
<1>2. h[s] = IF s = {} THEN 0 ELSE f[Pick(s)] + g[s \ {Pick(s)}]
  OBVIOUS
<1> HIDE DEF h
<1> QED BY <1>1, <1>2

LEMMA RunsUnique ==
    ASSUME NEW f, NEW S, IsFiniteSet(S), NEW g, Runs(g, f, S),
           NEW R \in SUBSET S, NEW h, Runs(h, f, R), NEW s \in SUBSET R
    PROVE  g[s] = h[s]
<1> DEFINE T == {u \in SUBSET R : g[u] # h[u]}
<1> SUFFICES ASSUME T # {} PROVE FALSE
  OBVIOUS
<1>1. T \subseteq SUBSET S /\ \A u : u \in T <=> u \in SUBSET R /\ g[u] # h[u]
  OBVIOUS
<1> HIDE DEF T
<1>2. PICK u \in T : \A v \in T : ~(v \subseteq u /\ v # u)
  BY <1>1, LeastSubset
<1>3. u \in SUBSET S /\ u \in SUBSET R /\ g[u] # h[u]
  BY <1>1
<1>4. /\ g[u] = IF u = {} THEN 0 ELSE f[Pick(u)] + g[u \ {Pick(u)}]
      /\ h[u] = IF u = {} THEN 0 ELSE f[Pick(u)] + h[u \ {Pick(u)}]
  BY <1>3, RunsAt
<1>5. u # {}
  BY <1>3, <1>4
<1>6. g[u \ {Pick(u)}] = h[u \ {Pick(u)}]
  BY <1>1, <1>2, <1>3, <1>5, PickFacts
<1> QED BY <1>3, <1>4, <1>5, <1>6

LEMMA RunsExists ==
    ASSUME NEW f, NEW S, IsFiniteSet(S)
    PROVE  \E g : Runs(g, f, S)
<1> DEFINE T == {s \in SUBSET S : ~\E g : Runs(g, f, s)}
<1> SUFFICES ASSUME T # {} PROVE FALSE
  OBVIOUS
<1>0. T \subseteq SUBSET S /\ \A s : s \in T <=> s \in SUBSET S /\ ~\E g : Runs(g, f, s)
  OBVIOUS
<1> HIDE DEF T
<1>1. PICK s \in T : \A u \in T : ~(u \subseteq s /\ u # s)
  BY <1>0, LeastSubset
<1>2. s \in SUBSET S /\ ~\E g : Runs(g, f, s)
  BY <1>0
<1>3. ASSUME NEW u \in SUBSET s, u # s
      PROVE  IsFiniteSet(u) /\ Runs(CHOOSE g : Runs(g, f, u), f, u)
  <2>1. u \in SUBSET S /\ u \notin T
    BY <1>1, <1>2, <1>3
  <2>2. \E g : Runs(g, f, u)
    BY <1>0, <2>1
  <2> QED BY <2>1, <2>2, FS_Subset
<1> DEFINE h == [u \in SUBSET s |-> IF u = {} THEN 0
                                    ELSE f[Pick(u)] + Total(f, u \ {Pick(u)})]
<1>4. ASSUME NEW v \in SUBSET s, v # s
      PROVE  h[v] = Total(f, v)
  <2> DEFINE g == CHOOSE g : Runs(g, f, v)
  <2>1. Runs(g, f, v) /\ Total(f, v) = g[v] /\ IsFiniteSet(v)
    BY <1>3, <1>4, TotalDef
  <2> HIDE DEF g
  <2>2. g[v] = IF v = {} THEN 0 ELSE f[Pick(v)] + g[v \ {Pick(v)}]
    BY <2>1, RunsAt
  <2>3. CASE v = {}
    BY <2>1, <2>2, <2>3
  <2>4. CASE v # {}
    <3> DEFINE w == v \ {Pick(v)}
               k == CHOOSE k : Runs(k, f, w)
    <3>1. w \in SUBSET v /\ w \in SUBSET s /\ w # s
      BY <1>4, <2>4, PickFacts
    <3>2. Runs(k, f, w) /\ Total(f, w) = k[w]
      BY <1>3, <3>1, TotalDef
    <3> HIDE DEF w, k
    <3>3. g[w] = k[w]
      BY <2>1, <3>1, <3>2, RunsUnique
    <3>4. h[v] = f[Pick(v)] + Total(f, w)
      BY <2>4 DEF w
    <3> QED BY <2>1, <2>2, <2>4, <3>2, <3>3, <3>4 DEF w
  <2> QED BY <2>3, <2>4
<1>5. ASSUME NEW u \in SUBSET s
      PROVE  (IF u = {} THEN 0 ELSE f[Pick(u)] + h[u \ {Pick(u)}]) = h[u]
  <2>1. CASE u = {}
    BY <2>1
  <2>2. CASE u # {}
    <3>1. u \ {Pick(u)} \in SUBSET s /\ u \ {Pick(u)} # s
      BY <2>2, PickFacts
    <3>2. h[u \ {Pick(u)}] = Total(f, u \ {Pick(u)})
      BY <1>4, <3>1
    <3>3. h[u] = f[Pick(u)] + Total(f, u \ {Pick(u)})
      BY <2>2
    <3> HIDE DEF h
    <3> QED BY <2>2, <3>2, <3>3
  <2> QED BY <2>1, <2>2
<1>6. h = [u \in SUBSET s |-> h[u]]
  OBVIOUS
<1> HIDE DEF h
<1>7. [u \in SUBSET s |-> h[u]]
         = [u \in SUBSET s |-> IF u = {} THEN 0 ELSE f[Pick(u)] + h[u \ {Pick(u)}]]
  BY <1>5
<1>8. Runs(h, f, s)
  BY <1>6, <1>7 DEF Runs
<1> QED BY <1>2, <1>8

LEMMA TotalStep ==
    ASSUME NEW f, NEW S, IsFiniteSet(S)
    PROVE  Total(f, S) = IF S = {} THEN 0 ELSE f[Pick(S)] + Total(f, S \ {Pick(S)})
<1> DEFINE g == CHOOSE g : Runs(g, f, S)
<1>1. Runs(g, f, S) /\ Total(f, S) = g[S]
  BY RunsExists, TotalDef
<1> HIDE DEF g
<1>2. g[S] = IF S = {} THEN 0 ELSE f[Pick(S)] + g[S \ {Pick(S)}]
  BY <1>1, RunsAt
<1>3. CASE S = {}
  BY <1>1, <1>2, <1>3
<1>4. CASE S # {}
  <2> DEFINE R == S \ {Pick(S)}
             h == CHOOSE h : Runs(h, f, R)
  <2>1. R \in SUBSET S /\ R \in SUBSET R /\ IsFiniteSet(R)
    BY FS_Subset
  <2>2. Runs(h, f, R) /\ Total(f, R) = h[R]
    BY <2>1, RunsExists, TotalDef
  <2> HIDE DEF R, h
  <2>3. g[R] = h[R]
    BY <1>1, <2>1, <2>2, RunsUnique
  <2> QED BY <1>1, <1>2, <1>4, <2>2, <2>3 DEF R
<1> QED BY <1>3, <1>4

(* Totals of integers, of equal, and of no smaller values.                 *)
LEMMA TotalType ==
    ASSUME NEW f, NEW S, IsFiniteSet(S), \A x \in S : f[x] \in Int
    PROVE  Total(f, S) \in Int
<1> DEFINE T == {s \in SUBSET S : Total(f, s) \notin Int}
<1> SUFFICES ASSUME T # {} PROVE FALSE
  OBVIOUS
<1>1. T \subseteq SUBSET S /\ \A s : s \in T <=> s \in SUBSET S /\ Total(f, s) \notin Int
  OBVIOUS
<1> HIDE DEF T
<1>2. PICK s \in T : \A u \in T : ~(u \subseteq s /\ u # s)
  BY <1>1, LeastSubset
<1>3. s \in SUBSET S /\ IsFiniteSet(s) /\ Total(f, s) \notin Int
  BY <1>1, FS_Subset
<1>4. s # {}
  <2>1. CASE s = {}
    <3>1. Total(f, s) = 0
      BY <1>3, <2>1, TotalStep
    <3> QED BY <1>3, <3>1
  <2> QED BY <2>1
<1>5. Total(f, s \ {Pick(s)}) \in Int /\ f[Pick(s)] \in Int
  BY <1>1, <1>2, <1>3, <1>4, PickFacts
<1>6. Total(f, s) = f[Pick(s)] + Total(f, s \ {Pick(s)})
  BY <1>3, <1>4, TotalStep
<1> QED BY <1>3, <1>5, <1>6

LEMMA TotalMonotone ==
    ASSUME NEW f, NEW g, NEW S, IsFiniteSet(S),
           \A x \in S : f[x] \in Int /\ g[x] \in Int /\ f[x] <= g[x]
    PROVE  Total(f, S) <= Total(g, S)
<1> DEFINE T == {s \in SUBSET S : ~(Total(f, s) <= Total(g, s))}
<1> SUFFICES ASSUME T # {} PROVE FALSE
  OBVIOUS
<1>1. /\ T \subseteq SUBSET S
      /\ \A s : s \in T <=> s \in SUBSET S /\ ~(Total(f, s) <= Total(g, s))
  OBVIOUS
<1> HIDE DEF T
<1>2. PICK s \in T : \A u \in T : ~(u \subseteq s /\ u # s)
  BY <1>1, LeastSubset
<1>3. s \in SUBSET S /\ IsFiniteSet(s) /\ ~(Total(f, s) <= Total(g, s))
  BY <1>1, FS_Subset
<1>4. s # {}
  <2>1. CASE s = {}
    <3>1. Total(f, s) = 0 /\ Total(g, s) = 0
      BY <1>3, <2>1, TotalStep
    <3> QED BY <1>3, <3>1
  <2> QED BY <2>1
<1> DEFINE p == Pick(s)
           r == s \ {p}
<1>5. p \in S /\ r \in SUBSET S /\ IsFiniteSet(r) /\ r \notin T
  BY <1>1, <1>2, <1>3, <1>4, PickFacts, FS_Subset
<1>6. Total(f, s) = f[p] + Total(f, r) /\ Total(g, s) = g[p] + Total(g, r)
  BY <1>3, <1>4, TotalStep
<1>7. f[p] \in Int /\ g[p] \in Int /\ f[p] <= g[p]
  BY <1>5
<1> HIDE DEF p, r
<1>8. Total(f, r) \in Int /\ Total(g, r) \in Int
  BY <1>5, TotalType
<1>9. Total(f, r) <= Total(g, r)
  BY <1>1, <1>5
<1> QED BY <1>3, <1>6, <1>7, <1>8, <1>9

LEMMA TotalSame ==
    ASSUME NEW f, NEW g, NEW S, IsFiniteSet(S), \A x \in S : f[x] = g[x]
    PROVE  Total(f, S) = Total(g, S)
<1> DEFINE T == {s \in SUBSET S : Total(f, s) # Total(g, s)}
<1> SUFFICES ASSUME T # {} PROVE FALSE
  OBVIOUS
<1>1. T \subseteq SUBSET S /\ \A s : s \in T <=> s \in SUBSET S /\ Total(f, s) # Total(g, s)
  OBVIOUS
<1> HIDE DEF T
<1>2. PICK s \in T : \A u \in T : ~(u \subseteq s /\ u # s)
  BY <1>1, LeastSubset
<1>3. s \in SUBSET S /\ IsFiniteSet(s) /\ Total(f, s) # Total(g, s)
  BY <1>1, FS_Subset
<1>4. s # {}
  BY <1>3, TotalStep
<1> DEFINE p == Pick(s)
           r == s \ {p}
<1>5. p \in S /\ r \in SUBSET S /\ r \notin T
  BY <1>1, <1>2, <1>3, <1>4, PickFacts
<1>6. Total(f, s) = f[p] + Total(f, r) /\ Total(g, s) = g[p] + Total(g, r)
  BY <1>3, <1>4, TotalStep
<1>7. f[p] = g[p] /\ Total(f, r) = Total(g, r)
  BY <1>1, <1>5
<1> QED BY <1>3, <1>6, <1>7

LEMMA TotalZero ==
    ASSUME NEW f, NEW S, IsFiniteSet(S), \A y \in S : f[y] = 0
    PROVE  Total(f, S) = 0
<1> DEFINE T == {s \in SUBSET S : Total(f, s) # 0}
<1> SUFFICES ASSUME T # {} PROVE FALSE
  OBVIOUS
<1>1. T \subseteq SUBSET S /\ \A s : s \in T <=> s \in SUBSET S /\ Total(f, s) # 0
  OBVIOUS
<1> HIDE DEF T
<1>2. PICK s \in T : \A u \in T : ~(u \subseteq s /\ u # s)
  BY <1>1, LeastSubset
<1>3. s \in SUBSET S /\ IsFiniteSet(s) /\ Total(f, s) # 0
  BY <1>1, FS_Subset
<1>4. s # {}
  <2>1. CASE s = {}
    <3>1. Total(f, s) = 0
      BY <1>3, <2>1, TotalStep
    <3> QED BY <1>3, <3>1
  <2> QED BY <2>1
<1>5. Total(f, s \ {Pick(s)}) = 0 /\ f[Pick(s)] = 0
  BY <1>1, <1>2, <1>3, <1>4, PickFacts
<1>6. Total(f, s) = f[Pick(s)] + Total(f, s \ {Pick(s)})
  BY <1>3, <1>4, TotalStep
<1> QED BY <1>3, <1>5, <1>6

(* Any element may be taken first.                                         *)
LEMMA TotalAt ==
    ASSUME NEW f, NEW S, IsFiniteSet(S), \A y \in S : f[y] \in Int, NEW x \in S
    PROVE  Total(f, S) = f[x] + Total(f, S \ {x})
<1> DEFINE Any(s) == \A y \in s : Total(f, s) = f[y] + Total(f, s \ {y})
           T == {s \in SUBSET S : ~Any(s)}
<1>1. T \subseteq SUBSET S /\ \A s : s \in T <=> s \in SUBSET S /\ ~Any(s)
  OBVIOUS
<1>2. T = {}
  <2> SUFFICES ASSUME T # {} PROVE FALSE
    OBVIOUS
  <2> HIDE DEF T
  <2>1. PICK s \in T : \A u \in T : ~(u \subseteq s /\ u # s)
    BY <1>1, LeastSubset
  <2>2. PICK y \in s : Total(f, s) # f[y] + Total(f, s \ {y})
    BY <1>1
  <2> DEFINE p == Pick(s)
             r == (s \ {y}) \ {p}
  <2>3. s \in SUBSET S /\ IsFiniteSet(s) /\ s # {}
    BY <1>1, FS_Subset
  <2>4. p \in s /\ Total(f, s) = f[p] + Total(f, s \ {p})
    BY <2>3, PickFacts, TotalStep
  <2> HIDE DEF p
  <2>5. p # y
    BY <2>2, <2>4
  <2>6. Any(s \ {p}) /\ Any(s \ {y})
    BY <1>1, <2>1, <2>3, <2>4
  <2>7. (s \ {p}) \ {y} = r /\ y \in s \ {p} /\ p \in s \ {y}
    BY <2>4, <2>5
  <2>8. Total(f, s \ {p}) = f[y] + Total(f, r) /\ Total(f, s \ {y}) = f[p] + Total(f, r)
    BY <2>6, <2>7
  <2>9. f[p] \in Int /\ f[y] \in Int /\ Total(f, r) \in Int
    <3>1. r \in SUBSET S /\ IsFiniteSet(r) /\ \A z \in r : f[z] \in Int
      BY <2>3, FS_Subset
    <3> HIDE DEF r
    <3> QED BY <2>3, <2>4, <3>1, TotalType
  <2> HIDE DEF r
  <2> QED BY <2>2, <2>4, <2>8, <2>9
<1>3. Any(S)
  BY <1>1, <1>2
<1> QED BY <1>3

(* One element changes, and the total with it.                             *)
LEMMA TotalChange ==
    ASSUME NEW f, NEW g, NEW S, IsFiniteSet(S), NEW x,
           \A y \in S : f[y] \in Int /\ g[y] \in Int, \A y \in S \ {x} : f[y] = g[y]
    PROVE  Total(g, S) = Total(f, S) + (IF x \in S THEN g[x] - f[x] ELSE 0)
<1>1. CASE x \notin S
  <2>1. Total(g, S) = Total(f, S) /\ Total(f, S) \in Int
    BY <1>1, TotalSame, TotalType
  <2> QED BY <1>1, <2>1
<1>2. CASE x \in S
  <2> DEFINE r == S \ {x}
  <2>1. r \in SUBSET S /\ IsFiniteSet(r)
    BY FS_Subset
  <2>2. Total(f, S) = f[x] + Total(f, r) /\ Total(g, S) = g[x] + Total(g, r)
    BY <1>2, TotalAt
  <2>3. \A y \in r : f[y] = g[y] /\ f[y] \in Int /\ g[y] \in Int
    OBVIOUS
  <2> HIDE DEF r
  <2>4. Total(f, r) = Total(g, r) /\ Total(f, r) \in Int
    BY <2>1, <2>3, TotalSame, TotalType
  <2> QED BY <1>2, <2>2, <2>4
<1> QED BY <1>1, <1>2

(* Naturals: the total bounds each of them, and is 0 only if they are.     *)
LEMMA TotalNat ==
    ASSUME NEW f, NEW S, IsFiniteSet(S), \A y \in S : f[y] \in Nat
    PROVE  /\ Total(f, S) \in Nat
           /\ \A x \in S : f[x] <= Total(f, S)
           /\ \A R \in SUBSET S : Total(f, R) <= Total(f, S)
<1>1. ASSUME NEW R, IsFiniteSet(R), \A y \in R : f[y] \in Nat
      PROVE  Total(f, R) \in Nat
  <2> DEFINE T == {s \in SUBSET R : Total(f, s) \notin Nat}
  <2> SUFFICES ASSUME T # {} PROVE FALSE
    OBVIOUS
  <2>1. T \subseteq SUBSET R /\ \A s : s \in T <=> s \in SUBSET R /\ Total(f, s) \notin Nat
    OBVIOUS
  <2> HIDE DEF T
  <2>2. PICK s \in T : \A u \in T : ~(u \subseteq s /\ u # s)
    BY <1>1, <2>1, LeastSubset
  <2>3. s \in SUBSET R /\ IsFiniteSet(s) /\ Total(f, s) \notin Nat
    BY <1>1, <2>1, FS_Subset
  <2>4. s # {}
    <3>1. CASE s = {}
      <4>1. Total(f, s) = 0
        BY <2>3, <3>1, TotalStep
      <4> QED BY <2>3, <4>1
    <3> QED BY <3>1
  <2>5. Total(f, s \ {Pick(s)}) \in Nat /\ f[Pick(s)] \in Nat
    BY <1>1, <2>1, <2>2, <2>3, <2>4, PickFacts
  <2>6. Total(f, s) = f[Pick(s)] + Total(f, s \ {Pick(s)})
    BY <2>3, <2>4, TotalStep
  <2> QED BY <2>3, <2>5, <2>6
<1>2. ASSUME NEW x \in S PROVE f[x] <= Total(f, S)
  <2> DEFINE r == S \ {x}
  <2>1. IsFiniteSet(r) /\ \A y \in r : f[y] \in Nat
    BY FS_Subset
  <2>2. Total(f, S) = f[x] + Total(f, r)
    BY TotalAt
  <2> HIDE DEF r
  <2>3. Total(f, r) \in Nat /\ f[x] \in Nat
    BY <1>1, <2>1
  <2> QED BY <2>2, <2>3
<1>3. ASSUME NEW R \in SUBSET S PROVE Total(f, R) <= Total(f, S)
  <2> DEFINE T == {u \in SUBSET S : R \subseteq u /\ ~(Total(f, R) <= Total(f, u))}
  <2> SUFFICES ASSUME T # {} PROVE FALSE
    OBVIOUS
  <2>1. /\ T \subseteq SUBSET S
        /\ \A u : u \in T <=> u \in SUBSET S /\ R \subseteq u /\ ~(Total(f, R) <= Total(f, u))
    OBVIOUS
  <2> HIDE DEF T
  <2>2. PICK s \in T : \A u \in T : ~(u \subseteq s /\ u # s)
    BY <2>1, LeastSubset
  <2>3. s \in SUBSET S /\ IsFiniteSet(s) /\ R \subseteq s /\ ~(Total(f, R) <= Total(f, s))
    BY <2>1, FS_Subset
  <2>4. IsFiniteSet(R) /\ Total(f, R) \in Nat
    BY <1>1, FS_Subset
  <2>5. PICK x \in s : x \notin R
    <3>1. R # s
      BY <2>3, <2>4
    <3> QED BY <2>3, <3>1
  <2> DEFINE r == s \ {x}
  <2>6. /\ r \in SUBSET S /\ IsFiniteSet(r) /\ R \subseteq r /\ r \notin T
        /\ \A y \in r : f[y] \in Nat
    BY <2>1, <2>2, <2>3, <2>5, FS_Subset
  <2>7. Total(f, s) = f[x] + Total(f, r) /\ f[x] \in Nat
    BY <2>3, <2>5, TotalAt
  <2> HIDE DEF r
  <2>8. Total(f, r) \in Nat /\ Total(f, R) <= Total(f, r)
    BY <1>1, <2>1, <2>6
  <2> QED BY <2>3, <2>4, <2>7, <2>8
<1> QED BY <1>1, <1>2, <1>3
=============================================================================
