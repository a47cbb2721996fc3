--------------------------- MODULE FrontDoorProofs ---------------------------
(***************************************************************************)
(* Theorems about FrontDoor and its limiters, for every set of networks    *)
(* and sessions, every limit, every size of a table and every window.      *)
(*                                                                         *)
(* The argument.  A table is tidy: no key twice, no count above the limit, *)
(* and the windows in the order in which they end, because a new window    *)
(* ends last and is appended.  So when any window of a table is over its   *)
(* first one is.  And a network's budget sees at most two of its windows   *)
(* in one window of the raw global budget; of the first at least one       *)
(* request came before it.                                                 *)
(***************************************************************************)
EXTENDS FrontDoor, Integers, FiniteSetTheorems, SequenceTheorems, TLAPS

Entry(K) == [key : K, count : Nat, resetAt : Nat]

Tidy(K, t, lim, cap, at) ==
    /\ lim \in Nat \ {0} /\ cap \in Nat \ {0} /\ at \in Nat
    /\ t \in Seq(Entry(K))
    /\ Len(t) <= cap
    /\ \A i \in 1 .. Len(t) : t[i].count \in 1 .. lim /\ t[i].resetAt <= at + Window
    /\ \A i, j \in 1 .. Len(t) :
          i < j => t[i].key # t[j].key /\ t[i].resetAt <= t[j].resetAt

Entries(t) == {t[i] : i \in 1 .. Len(t)}

-----------------------------------------------------------------------------
(* The limiter.                                                            *)

(* A set of naturals that is not empty has a least member.                 *)
LEMMA LeastOf ==
    ASSUME NEW n \in Nat, NEW I \in SUBSET (1 .. n), I # {}
    PROVE  Min(I) \in I /\ \A j \in I : Min(I) <= j
<1> DEFINE R == {p \in Nat \X Nat : p[1] < p[2]}
<1>1. IsWellFoundedOn(R, Nat)
  BY NatLessThanWellFounded DEF OpToRel
<1>2. \A j, k \in Nat : j < k => <<j, k>> \in R
  OBVIOUS
<1>3. I \subseteq Nat
  OBVIOUS
<1> HIDE DEF R
<1>4. PICK i \in I : \A j \in I : <<j, i>> \notin R
  BY <1>1, <1>3, WFMin
<1>5. \A j \in I : j \in Nat /\ i \in Nat /\ ~ j < i
  BY <1>2, <1>3, <1>4
<1>6. \A j \in I : i <= j
  BY <1>5
<1> QED BY <1>6 DEF Min

(* Position is where the key is, and 0 when it is nowhere.                 *)
LEMMA PositionFacts ==
    ASSUME NEW K, NEW t \in Seq(Entry(K)), NEW key
    PROVE  /\ Position(t, key) \in 0 .. Len(t)
           /\ Position(t, key) # 0 => t[Position(t, key)].key = key
           /\ Position(t, key) = 0 => \A i \in 1 .. Len(t) : t[i].key # key
<1> DEFINE I == {i \in 1 .. Len(t) : t[i].key = key}
<1>1. Position(t, key) = IF I # {} THEN Min(I) ELSE 0
  BY DEF Position, SelectInSeq
<1>2. Len(t) \in Nat /\ I \in SUBSET (1 .. Len(t))
  OBVIOUS
<1>3. I # {} => Min(I) \in I
  BY <1>2, LeastOf
<1> QED BY <1>1, <1>2, <1>3

(* What makeSpace deletes is in the table and over; and it finds something *)
(* when the first entry is over.                                           *)
LEMMA RemovableFacts ==
    ASSUME NEW K, NEW t \in Seq(Entry(K)), NEW at \in Nat
    PROVE  /\ Removable(t, at) \in 0 .. Len(t)
           /\ Removable(t, at) # 0 => Over(t[Removable(t, at)], at)
           /\ t # << >> /\ Over(t[1], at) => Removable(t, at) # 0
<1> DEFINE m == Min({Inspect, Len(t)})
           looked == SubSeq(t, 1, m)
           I == {i \in 1 .. Len(looked) : Over(looked[i], at)}
<1>1. Inspect \in Nat \ {0} /\ Len(t) \in Nat
  BY LimiterAssumption
<1>2. m = IF Inspect <= Len(t) THEN Inspect ELSE Len(t)
  BY <1>1 DEF Min
<1>3. m \in 0 .. Len(t) /\ (t # << >> => m # 0)
  BY <1>1, <1>2
<1> HIDE DEF m
<1>4. /\ Len(looked) = m
      /\ \A i \in 1 .. m : looked[i] = t[i]
  BY <1>3, SubSeqProperties
<1>5. Removable(t, at) = IF I # {} THEN Min(I) ELSE 0
  BY DEF Removable, SelectInSeq, m
<1>6. m \in Nat /\ I \in SUBSET (1 .. m)
  BY <1>3, <1>4
<1>7. I # {} => Min(I) \in I
  BY <1>6, LeastOf
<1>8. t # << >> /\ Over(t[1], at) => 1 \in I
  BY <1>3, <1>4
<1> HIDE DEF looked
<1> QED BY <1>3, <1>4, <1>5, <1>6, <1>7, <1>8

(* A tidy table without one of its entries.                                *)
LEMMA RemoveFacts ==
    ASSUME NEW K, NEW t \in Seq(Entry(K)), NEW i \in 1 .. Len(t)
    PROVE  /\ RemoveAt(t, i) \in Seq(Entry(K))
           /\ Len(RemoveAt(t, i)) = Len(t) - 1
           /\ \A j \in 1 .. Len(t) - 1 :
                 RemoveAt(t, i)[j] = IF j < i THEN t[j] ELSE t[j + 1]
<1>1. /\ SubSeq(t, 1, i - 1) \in Seq(Entry(K)) /\ Len(SubSeq(t, 1, i - 1)) = i - 1
      /\ \A j \in 1 .. i - 1 : SubSeq(t, 1, i - 1)[j] = t[j]
  BY SMTT(30)
<1>2. /\ SubSeq(t, i + 1, Len(t)) \in Seq(Entry(K))
      /\ Len(SubSeq(t, i + 1, Len(t))) = Len(t) - i
      /\ \A j \in 1 .. Len(t) - i : SubSeq(t, i + 1, Len(t))[j] = t[i + j]
  BY SMTT(30)
<1> DEFINE a == SubSeq(t, 1, i - 1)
           b == SubSeq(t, i + 1, Len(t))
<1>3. RemoveAt(t, i) = a \o b
  BY DEF RemoveAt
<1> HIDE DEF a, b
<1>4. /\ a \in Seq(Entry(K)) /\ Len(a) = i - 1 /\ \A j \in 1 .. i - 1 : a[j] = t[j]
      /\ b \in Seq(Entry(K)) /\ Len(b) = Len(t) - i /\ \A j \in 1 .. Len(t) - i : b[j] = t[i + j]
  BY <1>1, <1>2 DEF a, b
<1>5. /\ a \o b \in Seq(Entry(K)) /\ Len(a \o b) = Len(a) + Len(b)
      /\ \A j \in 1 .. Len(a) + Len(b) :
            (a \o b)[j] = IF j <= Len(a) THEN a[j] ELSE b[j - Len(a)]
  BY <1>4, ConcatProperties
<1> DEFINE c == a \o b
<1> HIDE DEF c
<1>6. ASSUME NEW j \in 1 .. Len(t) - 1
      PROVE  c[j] = IF j < i THEN t[j] ELSE t[j + 1]
  <2>1. CASE j < i
    BY <1>4, <1>5, <2>1 DEF c
  <2>2. CASE j >= i
    <3>1. c[j] = b[j - (i - 1)] /\ j - (i - 1) \in 1 .. Len(t) - i
      BY <1>4, <1>5, <2>2 DEF c
    <3>2. b[j - (i - 1)] = t[i + (j - (i - 1))] /\ i + (j - (i - 1)) = j + 1
      BY <1>4, <3>1
    <3> QED BY <3>1, <3>2, <2>2
  <2> QED BY <2>1, <2>2
<1>7. c \in Seq(Entry(K)) /\ Len(c) = Len(t) - 1
  BY <1>4, <1>5 DEF c
<1> QED BY <1>3, <1>6, <1>7 DEF c

-----------------------------------------------------------------------------
(* What consume does to a tidy table.                                      *)

(* Without one of its entries a table is tidy and has the others.          *)
LEMMA RemoveTidy ==
    ASSUME NEW K, NEW lim, NEW cap, NEW at,
           NEW t, Tidy(K, t, lim, cap, at), NEW i \in 1 .. Len(t)
    PROVE  /\ Tidy(K, RemoveAt(t, i), lim, cap, at)
           /\ Len(RemoveAt(t, i)) < cap
           /\ Entries(RemoveAt(t, i)) = Entries(t) \ {t[i]}
           /\ \A e \in Entries(RemoveAt(t, i)) : e.key # t[i].key
<1> DEFINE u == RemoveAt(t, i)
<1>1. lim \in Nat /\ at \in Nat /\ t \in Seq(Entry(K)) /\ Len(t) \in Nat /\ Len(t) <= cap
  BY DEF Tidy
<1>2. u \in Seq(Entry(K)) /\ Len(u) = Len(t) - 1
  BY <1>1, RemoveFacts
<1>A. \A j \in 1 .. Len(t) - 1 : u[j] = IF j < i THEN t[j] ELSE t[j + 1]
  BY <1>1, RemoveFacts
<1> HIDE DEF u
<1>3. \A j \in 1 .. Len(u) :
         /\ j < i => u[j] = t[j] /\ j \in 1 .. Len(t)
         /\ j >= i => u[j] = t[j + 1] /\ j + 1 \in 1 .. Len(t)
  BY <1>1, <1>2, <1>A
<1>4. \A j \in 1 .. Len(u) : u[j].count \in 1 .. lim /\ u[j].resetAt <= at + Window
  <2> SUFFICES ASSUME NEW j \in 1 .. Len(u)
               PROVE  u[j].count \in 1 .. lim /\ u[j].resetAt <= at + Window
    OBVIOUS
  <2>1. \E k \in 1 .. Len(t) : u[j] = t[k]
    <3>1. CASE j < i
      BY <1>3, <3>1
    <3>2. CASE j >= i
      BY <1>3, <3>2
    <3> QED BY <1>2, <3>1, <3>2
  <2> QED BY <2>1 DEF Tidy
<1>5. \A j, k \in 1 .. Len(u) :
         j < k => u[j].key # u[k].key /\ u[j].resetAt <= u[k].resetAt
  <2> SUFFICES ASSUME NEW j \in 1 .. Len(u), NEW k \in 1 .. Len(u), j < k
               PROVE  u[j].key # u[k].key /\ u[j].resetAt <= u[k].resetAt
    OBVIOUS
  <2>1. \E p, q \in 1 .. Len(t) : p < q /\ u[j] = t[p] /\ u[k] = t[q]
    <3>1. CASE k < i
      <4>1. u[j] = t[j] /\ u[k] = t[k] /\ j \in 1 .. Len(t) /\ k \in 1 .. Len(t)
        BY <1>2, <1>3, <3>1
      <4> QED BY <4>1
    <3>2. CASE j < i /\ k >= i
      <4>1. u[j] = t[j] /\ u[k] = t[k + 1] /\ j < k + 1
        BY <1>2, <1>3, <3>2
      <4>2. j \in 1 .. Len(t) /\ k + 1 \in 1 .. Len(t)
        BY <1>3, <3>2
      <4> QED BY <4>1, <4>2
    <3>3. CASE j >= i
      <4>1. u[j] = t[j + 1] /\ u[k] = t[k + 1] /\ j + 1 < k + 1
        BY <1>2, <1>3, <3>3
      <4>2. j + 1 \in 1 .. Len(t) /\ k + 1 \in 1 .. Len(t)
        BY <1>2, <1>3, <3>3
      <4> QED BY <4>1, <4>2
    <3> QED BY <3>1, <3>2, <3>3
  <2> QED BY <2>1 DEF Tidy
<1>6. Tidy(K, u, lim, cap, at) /\ Len(u) < cap
  BY <1>1, <1>2, <1>4, <1>5 DEF Tidy
<1>7. \A j \in 1 .. Len(t) : j # i => t[j].key # t[i].key
  <2> SUFFICES ASSUME NEW j \in 1 .. Len(t), j # i PROVE t[j].key # t[i].key
    OBVIOUS
  <2>1. j < i \/ i < j
    BY <1>1
  <2> QED BY <2>1 DEF Tidy
<1>8. ASSUME NEW e \in Entries(u)
      PROVE  e \in Entries(t) /\ e.key # t[i].key
  <2>1. PICK j \in 1 .. Len(u) : e = u[j]
    BY DEF Entries
  <2>2. \E k \in 1 .. Len(t) : k # i /\ e = t[k]
    <3>1. CASE j < i
      BY <1>3, <2>1, <3>1
    <3>2. CASE j >= i
      <4>1. e = t[j + 1] /\ j + 1 \in 1 .. Len(t) /\ j + 1 # i
        BY <1>3, <2>1, <3>2
      <4> QED BY <4>1
    <3> QED BY <1>2, <3>1, <3>2
  <2> QED BY <1>7, <2>2 DEF Entries
<1>9. ASSUME NEW e \in Entries(t), e # t[i]
      PROVE  e \in Entries(u)
  <2>1. PICK k \in 1 .. Len(t) : e = t[k]
    BY DEF Entries
  <2>2. k < i \/ k > i
    BY <1>1, <1>9, <2>1
  <2>3. CASE k < i
    <3>1. k \in 1 .. Len(u) /\ u[k] = t[k]
      BY <1>1, <1>2, <1>3, <2>3
    <3> QED BY <2>1, <3>1 DEF Entries
  <2>4. CASE k > i
    <3>1. k - 1 \in 1 .. Len(u) /\ u[k - 1] = t[(k - 1) + 1] /\ (k - 1) + 1 = k
      BY <1>1, <1>2, <1>3, <2>4
    <3> QED BY <2>1, <3>1 DEF Entries
  <2> QED BY <2>2, <2>3, <2>4
<1> QED BY <1>6, <1>8, <1>9 DEF u

(* A key that is not in a table with room gets a window that ends last.    *)
LEMMA AppendTidy ==
    ASSUME NEW K, NEW lim, NEW cap, NEW at,
           NEW t, Tidy(K, t, lim, cap, at), Len(t) < cap,
           NEW key \in K, \A e \in Entries(t) : e.key # key
    PROVE  /\ Tidy(K, Append(t, Fresh(key, at)), lim, cap, at)
           /\ Entries(Append(t, Fresh(key, at))) = Entries(t) \cup {Fresh(key, at)}
<1> DEFINE f == Fresh(key, at)
           u == Append(t, f)
<1>1. /\ f \in Entry(K) /\ f.key = key /\ f.count = 1 /\ f.resetAt = at + Window
      /\ at + Window \in Nat
  BY LimiterAssumption DEF Tidy, Fresh, Entry
<1>2. lim \in Nat \ {0} /\ t \in Seq(Entry(K)) /\ Len(t) \in Nat
  BY DEF Tidy
<1> HIDE DEF f
<1>3. u \in Seq(Entry(K)) /\ Len(u) = Len(t) + 1
  BY <1>1, <1>2
<1>4. (\A i \in 1 .. Len(t) : u[i] = t[i]) /\ u[Len(t) + 1] = f
  BY <1>1, <1>2
<1> HIDE DEF u
<1>5. \A i \in 1 .. Len(t) :
         t[i].count \in 1 .. lim /\ t[i].resetAt <= at + Window /\ t[i].key # key
  BY DEF Tidy, Entries
<1>6. \A i \in 1 .. Len(u) : u[i].count \in 1 .. lim /\ u[i].resetAt <= at + Window
  <2> SUFFICES ASSUME NEW i \in 1 .. Len(u)
               PROVE  u[i].count \in 1 .. lim /\ u[i].resetAt <= at + Window
    OBVIOUS
  <2>1. CASE i \in 1 .. Len(t)
    BY <1>4, <1>5, <2>1
  <2>2. CASE i = Len(t) + 1
    <3>1. 1 \in 1 .. lim /\ f.resetAt <= at + Window
      BY <1>1, <1>2
    <3> QED BY <1>1, <1>4, <2>2, <3>1
  <2> QED BY <1>2, <1>3, <2>1, <2>2
<1>7. \A i, j \in 1 .. Len(u) :
         i < j => u[i].key # u[j].key /\ u[i].resetAt <= u[j].resetAt
  <2> SUFFICES ASSUME NEW i \in 1 .. Len(u), NEW j \in 1 .. Len(u), i < j
               PROVE  u[i].key # u[j].key /\ u[i].resetAt <= u[j].resetAt
    OBVIOUS
  <2>1. i \in 1 .. Len(t)
    BY <1>2, <1>3
  <2>2. CASE j \in 1 .. Len(t)
    BY <1>4, <2>1, <2>2 DEF Tidy
  <2>3. CASE j = Len(t) + 1
    BY <1>1, <1>4, <1>5, <2>1, <2>3
  <2> QED BY <1>2, <1>3, <2>2, <2>3
<1>8. Tidy(K, u, lim, cap, at)
  BY <1>2, <1>3, <1>6, <1>7 DEF Tidy
<1>9. Entries(u) = Entries(t) \cup {f}
  <2>1. ASSUME NEW e \in Entries(u) PROVE e \in Entries(t) \cup {f}
    <3>1. PICK i \in 1 .. Len(u) : e = u[i]
      BY DEF Entries
    <3>2. CASE i \in 1 .. Len(t)
      BY <1>4, <3>1, <3>2 DEF Entries
    <3>3. CASE i = Len(t) + 1
      BY <1>4, <3>1, <3>3
    <3> QED BY <1>2, <1>3, <3>2, <3>3
  <2>2. ASSUME NEW e \in Entries(t) PROVE e \in Entries(u)
    BY <1>2, <1>3, <1>4 DEF Entries
  <2>3. f \in Entries(u)
    <3>1. Len(t) + 1 \in 1 .. Len(u)
      BY <1>2, <1>3
    <3> QED BY <1>4, <3>1 DEF Entries
  <2> QED BY <2>1, <2>2, <2>3
<1> QED BY <1>8, <1>9 DEF u, f

(* One more request in the window of the entry i.                          *)
Counted(t, i) == [t EXCEPT ![i].count = @ + 1]

Grown(e) == [e EXCEPT !.count = @ + 1]

LEMMA CountTidy ==
    ASSUME NEW K, NEW lim, NEW cap, NEW at,
           NEW t, Tidy(K, t, lim, cap, at), NEW i \in 1 .. Len(t), t[i].count < lim
    PROVE  /\ Tidy(K, Counted(t, i), lim, cap, at)
           /\ Entries(Counted(t, i)) = (Entries(t) \ {t[i]}) \cup {Grown(t[i])}
<1> DEFINE g == Grown(t[i])
           u == Counted(t, i)
<1>1. lim \in Nat /\ at \in Nat /\ t \in Seq(Entry(K)) /\ Len(t) \in Nat /\ t[i] \in Entry(K)
  BY DEF Tidy
<1>2. /\ g \in Entry(K) /\ g.key = t[i].key /\ g.resetAt = t[i].resetAt
      /\ g.count = t[i].count + 1
  <2>1. \A r \in Entry(K) :
           /\ Grown(r) \in Entry(K) /\ Grown(r).key = r.key
           /\ Grown(r).resetAt = r.resetAt /\ Grown(r).count = r.count + 1
    BY DEF Entry, Grown
  <2> QED BY <1>1, <2>1
<1>3. u = [t EXCEPT ![i] = g]
  BY <1>1 DEF Counted, Grown
<1> HIDE DEF g, u
<1>4. u \in Seq(Entry(K)) /\ Len(u) = Len(t)
  BY <1>1, <1>2, <1>3
<1>5. u[i] = g /\ \A j \in 1 .. Len(t) : j # i => u[j] = t[j]
  BY <1>1, <1>2, <1>3
<1>6. \A j \in 1 .. Len(t) :
         /\ u[j].key = t[j].key /\ u[j].resetAt = t[j].resetAt
         /\ u[j].count \in 1 .. lim
  <2> SUFFICES ASSUME NEW j \in 1 .. Len(t)
               PROVE  /\ u[j].key = t[j].key /\ u[j].resetAt = t[j].resetAt
                      /\ u[j].count \in 1 .. lim
    OBVIOUS
  <2>1. t[j].count \in 1 .. lim /\ lim \in Nat
    BY DEF Tidy
  <2>2. CASE j = i
    BY <1>2, <1>5, <2>1, <2>2
  <2> QED BY <1>5, <2>1, <2>2
<1>7. Tidy(K, u, lim, cap, at)
  BY <1>4, <1>6 DEF Tidy
<1>8. \A j \in 1 .. Len(t) : j # i => t[j] # t[i]
  <2> SUFFICES ASSUME NEW j \in 1 .. Len(t), j # i PROVE t[j] # t[i]
    OBVIOUS
  <2>1. j < i \/ i < j
    BY <1>1
  <2> QED BY <2>1 DEF Tidy
<1>9. Entries(u) = (Entries(t) \ {t[i]}) \cup {g}
  BY <1>4, <1>5, <1>8 DEF Entries
<1> QED BY <1>7, <1>9 DEF u, g

(* A key has one entry.                                                    *)
LEMMA OneEntry ==
    ASSUME NEW K, NEW lim, NEW cap, NEW at, NEW t, Tidy(K, t, lim, cap, at),
           NEW e \in Entries(t), NEW f \in Entries(t), e.key = f.key
    PROVE  e = f
<1>1. PICK i \in 1 .. Len(t) : e = t[i]
  BY DEF Entries
<1>2. PICK j \in 1 .. Len(t) : f = t[j]
  BY DEF Entries
<1>3. Len(t) \in Nat
  BY DEF Tidy
<1>4. i = j \/ i < j \/ j < i
  BY <1>3
<1> QED BY <1>1, <1>2, <1>4 DEF Tidy

EntryFacts(K, e, lim, at) ==
    e \in Entry(K) /\ e.count \in 1 .. lim /\ e.resetAt <= at + Window

LEMMA EntryOfTidy ==
    ASSUME NEW K, NEW lim, NEW cap, NEW at, NEW t, Tidy(K, t, lim, cap, at),
           NEW e \in Entries(t)
    PROVE  EntryFacts(K, e, lim, at)
<1>1. PICK i \in 1 .. Len(t) : e = t[i]
  BY DEF Entries
<1>2. t[i] \in Entry(K)
  BY DEF Tidy
<1> QED BY <1>1, <1>2 DEF Tidy, EntryFacts

(* What an admitted request of key makes of table t: its window starts or  *)
(* goes on, and of the others only windows that are over may go.           *)
Charges(t, u, key, at) ==
    /\ \A e \in Entries(u) : e.key # key => e \in Entries(t)
    /\ \A e \in Entries(t) : e.key # key => e \in Entries(u) \/ Over(e, at)
    /\ \E e \in Entries(u) :
          /\ e.key = key
          /\ \/ e = Fresh(key, at) /\ \A f \in Entries(t) : f.key = key => Over(f, at)
             \/ \E f \in Entries(t) :
                   f.key = key /\ ~Over(f, at) /\ e = Grown(f)

LEMMA ConsumeFacts ==
    ASSUME NEW K, NEW lim, NEW cap, NEW at,
           NEW t, Tidy(K, t, lim, cap, at), NEW key \in K
    PROVE  /\ Tidy(K, Consumed(t, key, lim, cap, at), lim, cap, at)
           /\ ~Admits(t, key, lim, cap, at) => Consumed(t, key, lim, cap, at) = t
           /\ Admits(t, key, lim, cap, at) => Charges(t, Consumed(t, key, lim, cap, at), key, at)
<1> DEFINE u == Consumed(t, key, lim, cap, at)
           i == Position(t, key)
<1>1. CASE ~Admits(t, key, lim, cap, at)
  <2>1. u = t
    BY <1>1 DEF Consumed
  <2> QED BY <1>1, <2>1
<1>2. CASE Admits(t, key, lim, cap, at)
  <2> SUFFICES Tidy(K, u, lim, cap, at) /\ Charges(t, u, key, at)
    BY <1>2
  <2>t. at \in Nat /\ t \in Seq(Entry(K)) /\ Len(t) \in Nat /\ Len(t) <= cap
    BY DEF Tidy
  <2>i. /\ i \in 0 .. Len(t) /\ (i # 0 => t[i].key = key)
        /\ i = 0 => \A j \in 1 .. Len(t) : t[j].key # key
    BY <2>t, PositionFacts
  <2>1. CASE i = 0
    <3> DEFINE r == Removable(t, at)
               v == IF Len(t) < cap THEN t ELSE RemoveAt(t, r)
    <3>1. u = Append(v, Fresh(key, at)) /\ MakeSpace(t, cap, at)
      BY <1>2, <2>1 DEF Consumed, Admits, Has
    <3>2. \A e \in Entries(t) : e.key # key
      BY <2>i, <2>1 DEF Entries
    <3>3. CASE Len(t) < cap
      <4>1. v = t
        BY <3>3
      <4>2. Tidy(K, u, lim, cap, at) /\ Entries(u) = Entries(t) \cup {Fresh(key, at)}
        BY <3>1, <3>2, <3>3, <4>1, AppendTidy
      <4>3. Fresh(key, at).key = key
        BY DEF Fresh
      <4> QED BY <3>2, <4>2, <4>3 DEF Charges
    <3>4. CASE ~(Len(t) < cap)
      <4>1. r \in 1 .. Len(t) /\ Over(t[r], at)
        BY <2>t, <3>1, <3>4, RemovableFacts DEF MakeSpace
      <4>2. /\ v = RemoveAt(t, r)
            /\ Tidy(K, v, lim, cap, at) /\ Len(v) < cap /\ Entries(v) = Entries(t) \ {t[r]}
        BY <3>4, <4>1, RemoveTidy
      <4> HIDE DEF v, r
      <4>3. \A e \in Entries(v) : e.key # key
        BY <3>2, <4>2
      <4>4. Tidy(K, u, lim, cap, at) /\ Entries(u) = Entries(v) \cup {Fresh(key, at)}
        BY <3>1, <4>2, <4>3, AppendTidy
      <4>5. Fresh(key, at).key = key
        BY DEF Fresh
      <4> QED BY <3>2, <4>1, <4>2, <4>4, <4>5 DEF Charges
    <3> QED BY <3>3, <3>4
  <2>2. CASE i # 0 /\ Over(t[i], at)
    <3>1. i \in 1 .. Len(t) /\ t[i].key = key /\ t[i] \in Entries(t)
      BY <2>i, <2>2 DEF Entries
    <3>2. u = Append(RemoveAt(t, i), Fresh(key, at))
      BY <1>2, <2>2 DEF Consumed, Has
    <3> DEFINE v == RemoveAt(t, i)
    <3>3. /\ Tidy(K, v, lim, cap, at) /\ Len(v) < cap /\ Entries(v) = Entries(t) \ {t[i]}
          /\ \A e \in Entries(v) : e.key # key
      <4>1. /\ Tidy(K, v, lim, cap, at) /\ Len(v) < cap /\ Entries(v) = Entries(t) \ {t[i]}
            /\ \A e \in Entries(v) : e.key # t[i].key
        BY <3>1, RemoveTidy
      <4> QED BY <3>1, <4>1
    <3> HIDE DEF v
    <3>4. Tidy(K, u, lim, cap, at) /\ Entries(u) = Entries(v) \cup {Fresh(key, at)}
      BY <3>2, <3>3, AppendTidy DEF v
    <3>5. Fresh(key, at).key = key
      BY DEF Fresh
    <3>6. \A f \in Entries(t) : f.key = key => f = t[i]
      BY <3>1, OneEntry
    <3> HIDE DEF u, i
    <3> QED BY <2>2, <3>1, <3>3, <3>4, <3>5, <3>6 DEF Charges
  <2>3. CASE i # 0 /\ ~Over(t[i], at)
    <3>1. i \in 1 .. Len(t) /\ t[i].key = key /\ t[i] \in Entries(t)
      BY <2>i, <2>3 DEF Entries
    <3>2. u = Counted(t, i) /\ t[i].count < lim
      BY <1>2, <2>3 DEF Consumed, Admits, Has, Counted
    <3> DEFINE g == Grown(t[i])
    <3>3. Tidy(K, u, lim, cap, at) /\ Entries(u) = (Entries(t) \ {t[i]}) \cup {g}
      BY <3>1, <3>2, CountTidy
    <3>4. g.key = key
      <4>1. t[i] \in Entry(K)
        BY <2>t, <3>1
      <4>2. \A r \in Entry(K) : Grown(r).key = r.key
        BY DEF Entry, Grown
      <4> QED BY <3>1, <4>1, <4>2
    <3>5. g \in Entries(u)
      BY <3>3
    <3>6. \E f \in Entries(t) : f.key = key /\ ~Over(f, at) /\ g = Grown(f)
      BY <2>3, <3>1
    <3> HIDE DEF u, i, g
    <3>7. \A e \in Entries(u) : e.key # key => e \in Entries(t)
      BY <3>3, <3>4
    <3>8. \A e \in Entries(t) : e.key # key => e \in Entries(u)
      BY <3>1, <3>3
    <3> QED BY <3>3, <3>4, <3>5, <3>6, <3>7, <3>8 DEF Charges
  <2> QED BY <2>1, <2>2, <2>3
<1> QED BY <1>1, <1>2

-----------------------------------------------------------------------------
(* The inductive invariant.                                                *)

Keys == Network \cup Session \cup {None, "global"}

TablesTidy(ts, at) ==
    /\ DOMAIN ts = Limiter
    /\ \A l \in Limiter : Tidy(Keys, ts[l], Limit[l], MaxKeys[l], at)

(* c requests of n fit what its table t shows of them when the window of   *)
(* the raw global budget ends at end.  A window that ends before it began  *)
(* before it, with a request that does not count; one that ends later may  *)
(* have had such a window before it.                                       *)
Share(t, n, end, at, c) ==
    /\ \A e \in Entries(t) : e.key = n =>
          c <= (IF e.resetAt < end THEN 0 ELSE Limit["upgrade"]) + e.count - 1
    /\ (\A e \in Entries(t) : e.key # n) =>
          c <= (IF at < end THEN 0 ELSE Limit["upgrade"]) + Limit["upgrade"] - 1

Shares(ts, n, end, at, c) ==
    \E a, b \in Nat :
        /\ c = a + b
        /\ Share(ts["upgrade"], n, end, at, a) /\ Share(ts["untrustedUpgrade"], n, end, at, b)

ChargedSane(ch, ts, at) ==
    /\ ch \in [Network -> Nat]
    /\ \A g \in Entries(ts["rawGlobalUpgrade"]) : g.key = "global"
    /\ Entries(ts["rawGlobalUpgrade"]) = {} => \A n \in Network : ch[n] = 0
    /\ \A g \in Entries(ts["rawGlobalUpgrade"]), n \in Network :
          Shares(ts, n, g.resetAt, at, ch[n])

(* The verifications under way are those that hold a slot.                 *)
RequestSane(rq, act) ==
    /\ rq \in [Session -> RequestType]
    /\ act \in Nat /\ act <= MaximumConcurrent
    /\ act = Cardinality({s \in Session : rq[s].at = "verifying"})

Inv ==
    /\ now \in 0 .. MaxNow
    /\ TablesTidy(tables, now)
    /\ ChargedSane(charged, tables, now)
    /\ RequestSane(request, active)

LEMMA Limits ==
    /\ Window \in Nat \ {0} /\ MaxNow \in Nat /\ MaximumConcurrent \in Nat \ {0}
    /\ TicketTTL \in Nat \ {0}
    /\ \A l \in Limiter : Limit[l] \in Nat \ {0} /\ MaxKeys[l] \in Nat \ {0}
    /\ Limit["untrustedUpgrade"] = Limit["upgrade"]
    /\ Limit["rawGlobalUpgrade"] >= 4 * Limit["upgrade"] - 1
    /\ MaxKeys["rawGlobalUpgrade"] = 1
    /\ Limit["upgrade"] \in Nat \ {0} /\ Limit["rawGlobalUpgrade"] \in Nat \ {0}
    /\ IsFiniteSet(Session)
BY LimiterAssumption, FrontDoorAssumption DEF Limiter, Shared

-----------------------------------------------------------------------------
(* What one budget of a network adds to its share.                         *)

LEMMA EntriesTyped ==
    ASSUME NEW lim, NEW cap, NEW at, NEW t, Tidy(Keys, t, lim, cap, at)
    PROVE  /\ lim \in Nat \ {0} /\ at \in Nat
           /\ \A e \in Entries(t) :
                 /\ e \in Entry(Keys) /\ e.resetAt \in Nat /\ e.count \in Nat
                 /\ 1 <= e.count /\ e.count <= lim /\ e.resetAt <= at + Window
<1>1. lim \in Nat \ {0} /\ at \in Nat
  BY DEF Tidy
<1>2. ASSUME NEW e \in Entries(t)
      PROVE  /\ e \in Entry(Keys) /\ e.resetAt \in Nat /\ e.count \in Nat
             /\ 1 <= e.count /\ e.count <= lim /\ e.resetAt <= at + Window
  <2>1. EntryFacts(Keys, e, lim, at)
    BY EntryOfTidy
  <2> QED BY <1>1, <2>1 DEF EntryFacts, Entry
<1> QED BY <1>1, <1>2

(* Two windows of a budget give a network less than twice its limit.       *)
LEMMA ShareBounded ==
    ASSUME NEW cap, NEW at, NEW t, Tidy(Keys, t, Limit["upgrade"], cap, at),
           NEW n, NEW end \in Nat, NEW c \in Nat, Share(t, n, end, at, c)
    PROVE  c <= 2 * Limit["upgrade"] - 1
<1>1. Limit["upgrade"] \in Nat \ {0}
  BY Limits
<1>2. CASE \A e \in Entries(t) : e.key # n
  BY <1>1, <1>2 DEF Share
<1>3. CASE \E e \in Entries(t) : e.key = n
  <2>1. PICK e \in Entries(t) : e.key = n
    BY <1>3
  <2>2. e.count \in Nat /\ e.count <= Limit["upgrade"]
    BY EntriesTyped
  <2>3. c <= (IF e.resetAt < end THEN 0 ELSE Limit["upgrade"]) + e.count - 1
    BY <2>1 DEF Share
  <2> QED BY <1>1, <2>2, <2>3
<1> QED BY <1>2, <1>3

(* When the raw global window starts nothing has been charged.             *)
LEMMA ShareNothing ==
    ASSUME NEW cap, NEW at, NEW t, Tidy(Keys, t, Limit["upgrade"], cap, at),
           NEW n, NEW end \in Nat
    PROVE  Share(t, n, end, at, 0)
<1>1. Limit["upgrade"] \in Nat \ {0}
  BY Limits
<1>2. \A e \in Entries(t) : e.count \in Nat /\ 1 <= e.count
  BY EntriesTyped
<1> QED BY <1>1, <1>2 DEF Share

(* The request that starts it.                                             *)
LEMMA ShareFirst ==
    ASSUME NEW cap, NEW at \in Nat, NEW t, Tidy(Keys, t, Limit["upgrade"], cap, at),
           NEW u, Tidy(Keys, u, Limit["upgrade"], cap, at),
           NEW n, Charges(t, u, n, at)
    PROVE  Share(u, n, at + Window, at, 1)
<1>1. Limit["upgrade"] \in Nat \ {0} /\ Window \in Nat \ {0}
  BY Limits
<1>2. PICK e \in Entries(u) :
         /\ e.key = n
         /\ \/ e = Fresh(n, at)
            \/ \E f \in Entries(t) : f.key = n /\ e = Grown(f)
  BY DEF Charges
<1>3. \A d \in Entries(u) : d.key = n => d = e
  BY <1>2, OneEntry
<1>4. e.count \in Nat /\ 1 <= e.count /\ e.resetAt \in Nat
  BY EntriesTyped
<1>5. CASE e = Fresh(n, at)
  <2>1. e.resetAt = at + Window
    BY <1>5 DEF Fresh
  <2> QED BY <1>1, <1>2, <1>3, <1>4, <2>1 DEF Share
<1>6. CASE \E f \in Entries(t) : f.key = n /\ e = Grown(f)
  <2>1. PICK f \in Entries(t) : e = Grown(f)
    BY <1>6
  <2>2. f \in Entry(Keys) /\ f.count \in Nat /\ 1 <= f.count
    BY EntriesTyped
  <2>3. e.count = f.count + 1
    BY <2>1, <2>2 DEF Grown, Entry
  <2>4. 2 <= e.count
    BY <2>2, <2>3
  <2> QED BY <1>1, <1>2, <1>3, <1>4, <2>4 DEF Share
<1> QED BY <1>2, <1>5, <1>6

(* A further request in it.                                                *)
LEMMA ShareNext ==
    ASSUME NEW cap, NEW at \in Nat, NEW t, Tidy(Keys, t, Limit["upgrade"], cap, at),
           NEW u, Tidy(Keys, u, Limit["upgrade"], cap, at),
           NEW n, Charges(t, u, n, at),
           NEW end \in Nat, at < end, end <= at + Window,
           NEW c \in Nat, Share(t, n, end, at, c)
    PROVE  Share(u, n, end, at, c + 1)
<1>1. Limit["upgrade"] \in Nat \ {0} /\ Window \in Nat \ {0}
  BY Limits
<1>2. PICK e \in Entries(u) :
         /\ e.key = n
         /\ \/ e = Fresh(n, at) /\ \A f \in Entries(t) : f.key = n => Over(f, at)
            \/ \E f \in Entries(t) : f.key = n /\ e = Grown(f)
  BY DEF Charges
<1>3. \A d \in Entries(u) : d.key = n => d = e
  BY <1>2, OneEntry
<1>4. e.count \in Nat /\ e.resetAt \in Nat
  BY EntriesTyped
<1> SUFFICES c + 1 <= (IF e.resetAt < end THEN 0 ELSE Limit["upgrade"]) + e.count - 1
  BY <1>2, <1>3 DEF Share
<1>5. CASE e = Fresh(n, at) /\ \A f \in Entries(t) : f.key = n => Over(f, at)
  <2>1. e.resetAt = at + Window /\ e.count = 1
    BY <1>5 DEF Fresh
  <2>2. c <= Limit["upgrade"] - 1
    <3>1. CASE \A f \in Entries(t) : f.key # n
      BY <1>1, <3>1 DEF Share
    <3>2. CASE \E f \in Entries(t) : f.key = n
      <4>1. PICK f \in Entries(t) : f.key = n
        BY <3>2
      <4>2. /\ f.count \in Nat /\ f.count <= Limit["upgrade"] /\ f.resetAt \in Nat
            /\ f.resetAt < end
        BY <1>5, <4>1, EntriesTyped DEF Over
      <4>3. c <= 0 + f.count - 1
        BY <4>1, <4>2 DEF Share
      <4> QED BY <1>1, <4>2, <4>3
    <3> QED BY <3>1, <3>2
  <2> QED BY <1>1, <2>1, <2>2
<1>6. CASE \E f \in Entries(t) : f.key = n /\ e = Grown(f)
  <2>1. PICK f \in Entries(t) : f.key = n /\ e = Grown(f)
    BY <1>6
  <2>2. f \in Entry(Keys) /\ f.count \in Nat
    BY EntriesTyped
  <2>3. e.count = f.count + 1 /\ e.resetAt = f.resetAt
    BY <2>1, <2>2 DEF Grown, Entry
  <2>4. c <= (IF f.resetAt < end THEN 0 ELSE Limit["upgrade"]) + f.count - 1
    BY <2>1 DEF Share
  <2> QED BY <1>1, <2>2, <2>3, <2>4
<1> QED BY <1>2, <1>5, <1>6

(* A request of another network, and the time that passes.                 *)
LEMMA ShareOther ==
    ASSUME NEW cap, NEW at \in Nat, NEW t, Tidy(Keys, t, Limit["upgrade"], cap, at),
           NEW u, NEW n, NEW m, m # n, Charges(t, u, n, at),
           NEW end \in Nat, NEW c \in Nat, Share(t, m, end, at, c)
    PROVE  Share(u, m, end, at, c)
<1>1. Limit["upgrade"] \in Nat \ {0}
  BY Limits
<1>2. \A e \in Entries(u) : e.key = m => e \in Entries(t)
  BY DEF Charges
<1>3. ASSUME \A e \in Entries(u) : e.key # m
      PROVE  c <= (IF at < end THEN 0 ELSE Limit["upgrade"]) + Limit["upgrade"] - 1
  <2>1. CASE \A e \in Entries(t) : e.key # m
    BY <2>1 DEF Share
  <2>2. CASE \E e \in Entries(t) : e.key = m
    <3>1. PICK e \in Entries(t) : e.key = m
      BY <2>2
    <3>2. /\ e.count \in Nat /\ e.count <= Limit["upgrade"] /\ e.resetAt \in Nat
          /\ e.resetAt <= at
      BY <1>3, <3>1, EntriesTyped DEF Charges, Over
    <3>3. c <= (IF e.resetAt < end THEN 0 ELSE Limit["upgrade"]) + e.count - 1
      BY <3>1 DEF Share
    <3> QED BY <1>1, <3>2, <3>3
  <2> QED BY <2>1, <2>2
<1> QED BY <1>2, <1>3 DEF Share

LEMMA ShareLess ==
    ASSUME NEW cap, NEW at \in Nat, NEW t, Tidy(Keys, t, Limit["upgrade"], cap, at),
           NEW n, NEW end \in Nat, NEW c \in Nat,
           Share(t, n, end, at, c) \/ Share(t, n, end, at, c + 1)
    PROVE  Share(t, n, end, at, c) /\ Share(t, n, end, at + 1, c)
<1>1. Limit["upgrade"] \in Nat \ {0}
  BY Limits
<1>2. \A e \in Entries(t) : e.count \in Nat
  BY EntriesTyped
<1>3. Share(t, n, end, at, c)
  BY <1>1, <1>2 DEF Share
<1>4. Share(t, n, end, at + 1, c)
  BY <1>1, <1>2, <1>3 DEF Share
<1> QED BY <1>3, <1>4

-----------------------------------------------------------------------------
(* The chain of limiters.                                                  *)

(* limiter.consume touches its own table.                                  *)
LEMMA TookFacts ==
    ASSUME NEW ts, TablesTidy(ts, now), NEW l \in Limiter, NEW key \in Keys
    PROVE  /\ TablesTidy(Took(ts, l, key), now)
           /\ \A m \in Limiter \ {l} : Took(ts, l, key)[m] = ts[m]
           /\ ~Lets(ts, l, key) => Took(ts, l, key)[l] = ts[l]
           /\ Lets(ts, l, key) => Charges(ts[l], Took(ts, l, key)[l], key, now)
           /\ Took(ts, l, key)[l] = Consumed(ts[l], key, Limit[l], MaxKeys[l], now)
<1> DEFINE us == Took(ts, l, key)
<1>1. /\ us[l] = Consumed(ts[l], key, Limit[l], MaxKeys[l], now)
      /\ \A m \in Limiter \ {l} : us[m] = ts[m]
      /\ DOMAIN us = Limiter
  BY DEF Took, TablesTidy
<1>2. Tidy(Keys, ts[l], Limit[l], MaxKeys[l], now)
  BY DEF TablesTidy
<1>3. /\ Tidy(Keys, us[l], Limit[l], MaxKeys[l], now)
      /\ ~Lets(ts, l, key) => us[l] = ts[l]
      /\ Lets(ts, l, key) => Charges(ts[l], us[l], key, now)
  BY <1>1, <1>2, ConsumeFacts DEF Lets
<1> HIDE DEF us
<1>4. TablesTidy(us, now)
  BY <1>1, <1>3 DEF TablesTidy
<1> QED BY <1>1, <1>3, <1>4 DEF us

(* The raw global table: nothing yet, or the window of the one key, which  *)
(* is refused only while it lasts.                                         *)
LEMMA RawFacts ==
    ASSUME NEW t, Tidy(Keys, t, Limit["rawGlobalUpgrade"], MaxKeys["rawGlobalUpgrade"], now),
           \A g \in Entries(t) : g.key = "global"
    PROVE  /\ Entries(t) = {} \/ Entries(t) = {t[1]}
           /\ Entries(t) # {} => t[1] \in Entry(Keys) /\ t[1].resetAt \in Nat
           /\ ~Admits(t, "global", Limit["rawGlobalUpgrade"], MaxKeys["rawGlobalUpgrade"], now)
                 => \A g \in Entries(t) : ~Over(g, now)
<1>1. t \in Seq(Entry(Keys)) /\ Len(t) \in Nat /\ Len(t) <= 1
  BY Limits DEF Tidy
<1>2. Entries(t) = {} \/ Entries(t) = {t[1]}
  <2>1. CASE Len(t) = 0
    BY <2>1 DEF Entries
  <2>2. CASE Len(t) = 1
    <3>1. 1 .. Len(t) = {1}
      BY <2>2
    <3> QED BY <3>1 DEF Entries
  <2>3. Len(t) = 0 \/ Len(t) = 1
    <3>1. \A k \in Nat : k <= 1 => k = 0 \/ k = 1
      OBVIOUS
    <3> QED BY <1>1, <3>1, Zenon
  <2> QED BY <2>1, <2>2, <2>3
<1>3. Entries(t) # {} => t[1] \in Entry(Keys) /\ t[1].resetAt \in Nat
  BY <1>2, EntriesTyped
<1>4. ASSUME ~Admits(t, "global", Limit["rawGlobalUpgrade"], MaxKeys["rawGlobalUpgrade"], now),
             NEW g \in Entries(t)
      PROVE  ~Over(g, now)
  <2> DEFINE i == Position(t, "global")
  <2>1. PICK j \in 1 .. Len(t) : g = t[j]
    BY DEF Entries
  <2>2. i # 0 /\ i \in 1 .. Len(t) /\ t[i].key = "global"
    BY <1>1, <2>1, PositionFacts
  <2>3. ~Over(t[i], now)
    BY <1>4, <2>2 DEF Admits, Has
  <2>4. t[i] \in Entries(t) /\ t[i].key = g.key
    BY <2>2 DEF Entries
  <2>5. t[i] = g
    BY <2>4, OneEntry
  <2> QED BY <2>3, <2>5
<1> QED BY <1>2, <1>3, <1>4

(* What the handler leaves of the tables it charges.                       *)
UpgradeLeaves(n, door, us) ==
    /\ us["rawGlobalUpgrade"] = Took(tables, "rawGlobalUpgrade", "global")["rawGlobalUpgrade"]
    /\ us[door] = Took(tables, door, n)[door]
    /\ \A d \in {"upgrade", "untrustedUpgrade"} \ {door} : us[d] = tables[d]
    /\ Lets(tables, door, n)

LEMMA UpgradeTables ==
    ASSUME TablesTidy(tables, now), NEW n \in Network, NEW trusted \in BOOLEAN,
           NEW s \in Session \cup {None}, Upgrade(n, trusted, s)
    PROVE  /\ TablesTidy(tables', now)
           /\ \/ tables'["rawGlobalUpgrade"] = tables["rawGlobalUpgrade"]
                 /\ tables'["upgrade"] = tables["upgrade"]
                 /\ tables'["untrustedUpgrade"] = tables["untrustedUpgrade"]
              \/ \E door \in {"upgrade", "untrustedUpgrade"} : UpgradeLeaves(n, door, tables')
<1> DEFINE door == IF trusted THEN "upgrade" ELSE "untrustedUpgrade"
           own == Took(tables, door, n)
           raw == Took(own, "rawGlobalUpgrade", "global")
           ticket == Took(raw, "ticketUpgrade", s)
           all == Took(ticket, "globalUpgrade", "global")
<1>1. /\ door \in {"upgrade", "untrustedUpgrade"} /\ door \in Limiter
      /\ {"upgrade", "untrustedUpgrade", "rawGlobalUpgrade", "ticketUpgrade", "globalUpgrade"}
            \subseteq Limiter
      /\ n \in Keys /\ s \in Keys /\ "global" \in Keys
  BY DEF Limiter, Keys
<1>2. \/ ~Lets(tables, door, n) /\ tables' = own
      \/ Lets(tables, door, n) /\ tables' \in {raw, ticket, all}
  BY DEF Upgrade
<1> HIDE DEF door
<1>3. /\ TablesTidy(own, now) /\ \A m \in Limiter \ {door} : own[m] = tables[m]
      /\ ~Lets(tables, door, n) => own[door] = tables[door]
  BY <1>1, TookFacts
<1> HIDE DEF own
<1>4. /\ TablesTidy(raw, now) /\ \A m \in Limiter \ {"rawGlobalUpgrade"} : raw[m] = own[m]
      /\ raw["rawGlobalUpgrade"]
            = Consumed(own["rawGlobalUpgrade"], "global", Limit["rawGlobalUpgrade"],
                       MaxKeys["rawGlobalUpgrade"], now)
  BY <1>1, <1>3, TookFacts
<1> HIDE DEF raw
<1>5. TablesTidy(ticket, now) /\ \A m \in Limiter \ {"ticketUpgrade"} : ticket[m] = raw[m]
  BY <1>1, <1>4, TookFacts
<1> HIDE DEF ticket
<1>6. TablesTidy(all, now) /\ \A m \in Limiter \ {"globalUpgrade"} : all[m] = ticket[m]
  BY <1>1, <1>5, TookFacts
<1> HIDE DEF all
<1>7. own["rawGlobalUpgrade"] = tables["rawGlobalUpgrade"]
  BY <1>1, <1>3
<1>8. Took(tables, "rawGlobalUpgrade", "global")["rawGlobalUpgrade"]
         = Consumed(tables["rawGlobalUpgrade"], "global", Limit["rawGlobalUpgrade"],
                    MaxKeys["rawGlobalUpgrade"], now)
  BY <1>1, TookFacts
<1>9. CASE ~Lets(tables, door, n) /\ tables' = own
  BY <1>1, <1>3, <1>9
<1>10. CASE Lets(tables, door, n) /\ tables' \in {raw, ticket, all}
  <2>1. /\ TablesTidy(tables', now)
        /\ \A m \in {"upgrade", "untrustedUpgrade", "rawGlobalUpgrade"} : tables'[m] = raw[m]
    BY <1>1, <1>4, <1>5, <1>6, <1>10
  <2>2. \A d \in {"upgrade", "untrustedUpgrade"} : tables'[d] = own[d]
    BY <1>1, <1>4, <2>1
  <2>3. UpgradeLeaves(n, door, tables')
    BY <1>1, <1>3, <1>4, <1>7, <1>8, <1>10, <2>1, <2>2 DEF UpgradeLeaves, own
  <2> QED BY <1>1, <2>1, <2>3
<1> QED BY <1>2, <1>9, <1>10

(* One door's table changes and with it the share of it that m may have.   *)
LEMMA SharesOf ==
    ASSUME NEW ts, NEW us, NEW m, NEW end, NEW at, NEW k \in Nat,
           NEW door \in {"upgrade", "untrustedUpgrade"},
           \A d \in {"upgrade", "untrustedUpgrade"} \ {door} : us[d] = ts[d],
           \A c \in Nat : Share(ts[door], m, end, at, c) => Share(us[door], m, end, at, c + k),
           NEW x \in Nat, Shares(ts, m, end, at, x)
    PROVE  Shares(us, m, end, at, x + k)
<1>1. PICK a, b \in Nat :
         /\ x = a + b
         /\ Share(ts["upgrade"], m, end, at, a) /\ Share(ts["untrustedUpgrade"], m, end, at, b)
  BY DEF Shares
<1>2. CASE door = "upgrade"
  <2>1. /\ Share(us["upgrade"], m, end, at, a + k)
        /\ Share(us["untrustedUpgrade"], m, end, at, b)
    BY <1>1, <1>2
  <2>2. a + k \in Nat /\ x + k = (a + k) + b
    BY <1>1
  <2> QED BY <2>1, <2>2 DEF Shares
<1>3. CASE door = "untrustedUpgrade"
  <2>1. /\ Share(us["upgrade"], m, end, at, a)
        /\ Share(us["untrustedUpgrade"], m, end, at, b + k)
    BY <1>1, <1>3
  <2>2. b + k \in Nat /\ x + k = a + (b + k)
    BY <1>1
  <2> QED BY <2>1, <2>2 DEF Shares
<1> QED BY <1>2, <1>3

(* An upgrade that its network's budget lets pass is charged to the raw    *)
(* global window or refused by it, and the shares keep up with it.         *)
LEMMA UpgradeCharges ==
    ASSUME Inv, NEW n \in Network, NEW us, TablesTidy(us, now),
           NEW door \in {"upgrade", "untrustedUpgrade"}, UpgradeLeaves(n, door, us)
    PROVE  ChargedSane(Noted(n, us), us, now)
<1> DEFINE R == tables["rawGlobalUpgrade"]
           Q == us["rawGlobalUpgrade"]
           L == Limit["upgrade"]
<1>1. /\ L \in Nat \ {0} /\ Window \in Nat \ {0} /\ now \in Nat
      /\ door \in Limiter /\ "rawGlobalUpgrade" \in Limiter /\ "global" \in Keys /\ n \in Keys
      /\ Limit[door] = L
  BY Limits DEF Inv, Limiter, Keys
<1>2. TablesTidy(tables, now) /\ ChargedSane(charged, tables, now)
  BY DEF Inv
<1>3. /\ Charges(tables[door], us[door], n, now)
      /\ \A d \in {"upgrade", "untrustedUpgrade"} \ {door} : us[d] = tables[d]
      /\ ~Lets(tables, "rawGlobalUpgrade", "global") => Q = R
      /\ Lets(tables, "rawGlobalUpgrade", "global") => Charges(R, Q, "global", now)
  BY <1>1, <1>2, TookFacts DEF UpgradeLeaves
<1>4. /\ \A d \in {"upgrade", "untrustedUpgrade"} :
            /\ Tidy(Keys, tables[d], L, MaxKeys[d], now)
            /\ Tidy(Keys, us[d], L, MaxKeys[d], now)
      /\ Tidy(Keys, R, Limit["rawGlobalUpgrade"], MaxKeys["rawGlobalUpgrade"], now)
      /\ Tidy(Keys, Q, Limit["rawGlobalUpgrade"], MaxKeys["rawGlobalUpgrade"], now)
  BY <1>2, Limits DEF TablesTidy, Limiter
<1>5. /\ charged \in [Network -> Nat]
      /\ \A g \in Entries(R) : g.key = "global"
      /\ Entries(R) = {} => \A m \in Network : charged[m] = 0
      /\ \A g \in Entries(R), m \in Network : Shares(tables, m, g.resetAt, now, charged[m])
  BY <1>2 DEF ChargedSane
<1>6. ASSUME NEW end \in Nat, NEW m \in Network, m # n,
             Shares(tables, m, end, now, charged[m])
      PROVE  Shares(us, m, end, now, charged[m])
  <2>1. \A c \in Nat : Share(tables[door], m, end, now, c) => Share(us[door], m, end, now, c + 0)
    <3> SUFFICES ASSUME NEW c \in Nat, Share(tables[door], m, end, now, c)
                 PROVE  Share(us[door], m, end, now, c)
      OBVIOUS
    <3> QED BY <1>1, <1>3, <1>4, <1>6, ShareOther
  <2>2. charged[m] \in Nat
    BY <1>5
  <2>3. Shares(us, m, end, now, charged[m] + 0)
    BY <1>3, <1>6, <2>1, <2>2, SharesOf
  <2> QED BY <2>2, <2>3
<1>7. ASSUME NEW end \in Nat, now < end, end <= now + Window,
             Shares(tables, n, end, now, charged[n])
      PROVE  Shares(us, n, end, now, charged[n]) /\ Shares(us, n, end, now, charged[n] + 1)
  <2>1. ASSUME NEW c \in Nat, Share(tables[door], n, end, now, c)
        PROVE  Share(us[door], n, end, now, c + 1) /\ Share(us[door], n, end, now, c + 0)
    <3>1. Share(us[door], n, end, now, c + 1)
      BY <1>1, <1>3, <1>4, <1>7, <2>1, ShareNext
    <3>2. Share(us[door], n, end, now, c)
      BY <1>1, <1>4, <3>1, ShareLess
    <3> QED BY <3>1, <3>2
  <2>2. charged[n] \in Nat
    BY <1>5
  <2>3. Shares(us, n, end, now, charged[n] + 1)
    BY <1>3, <1>7, <2>1, <2>2, SharesOf
  <2>4. Shares(us, n, end, now, charged[n] + 0)
    BY <1>3, <1>7, <2>1, <2>2, SharesOf
  <2> QED BY <2>2, <2>3, <2>4
<1> DEFINE ch == Noted(n, us)
<1> SUFFICES ChargedSane(ch, us, now)
  OBVIOUS
<1>8. CASE ~Lets(tables, "rawGlobalUpgrade", "global")
  <2>1. Q = R /\ ch = charged
    BY <1>3, <1>8 DEF Noted
  <2>2. ASSUME NEW g \in Entries(R), NEW m \in Network
        PROVE  Shares(us, m, g.resetAt, now, charged[m])
    <3>1. ~Over(g, now) /\ g.resetAt \in Nat /\ g.resetAt <= now + Window
      BY <1>4, <1>5, <1>8, RawFacts, EntriesTyped DEF Lets
    <3>2. Shares(tables, m, g.resetAt, now, charged[m]) /\ now < g.resetAt
      BY <1>1, <1>5, <3>1 DEF Over
    <3> QED BY <1>6, <1>7, <3>1, <3>2
  <2> HIDE DEF ch
  <2> QED BY <1>5, <2>1, <2>2 DEF ChargedSane
<1>9. CASE Lets(tables, "rawGlobalUpgrade", "global")
  <2>1. PICK e \in Entries(Q) :
           /\ e.key = "global"
           /\ \/ e = Fresh("global", now) /\ \A f \in Entries(R) : f.key = "global" => Over(f, now)
              \/ \E f \in Entries(R) : f.key = "global" /\ ~Over(f, now) /\ e = Grown(f)
    BY <1>3, <1>9 DEF Charges
  <2>2. \A d \in Entries(Q) : d.key = "global"
    BY <1>3, <1>5, <1>9 DEF Charges
  <2>3. Entries(Q) = {e} /\ Q[1] = e
    BY <1>4, <2>1, <2>2, RawFacts
  <2>4. e.count \in Nat /\ e.resetAt \in Nat
    BY <1>4, EntriesTyped
  <2>5. CASE e = Fresh("global", now) /\ \A f \in Entries(R) : f.key = "global" => Over(f, now)
    <3>1. e.count = 1 /\ e.resetAt = now + Window
      BY <2>5 DEF Fresh
    <3>2. ~Over(e, now)
      BY <1>1, <3>1 DEF Over
    <3>3. e \notin Entries(R)
      BY <2>1, <2>5, <3>2
    <3>4. ch = [m \in Network |-> IF m = n THEN 1 ELSE 0]
      BY <2>3, <3>1, <3>3 DEF Noted
    <3>5. \A d \in {"upgrade", "untrustedUpgrade"}, m \in Network :
             Share(us[d], m, now + Window, now, 0)
      BY <1>1, <1>4, ShareNothing
    <3>6. Share(us[door], n, now + Window, now, 1)
      BY <1>1, <1>3, <1>4, ShareFirst
    <3> HIDE DEF ch
    <3>7. ASSUME NEW m \in Network
          PROVE  Shares(us, m, e.resetAt, now, ch[m])
      <4>1. CASE m = n
        <5>1. ch[m] = 1 + 0 /\ ch[m] = 0 + 1
          BY <3>4, <4>1
        <5>2. CASE door = "upgrade"
          BY <3>1, <3>5, <3>6, <4>1, <5>1, <5>2 DEF Shares
        <5>3. CASE door = "untrustedUpgrade"
          BY <3>1, <3>5, <3>6, <4>1, <5>1, <5>3 DEF Shares
        <5> QED BY <5>2, <5>3
      <4>2. CASE m # n
        <5>1. ch[m] = 0 + 0
          BY <3>4, <4>2
        <5> QED BY <3>1, <3>5, <5>1 DEF Shares
      <4> QED BY <4>1, <4>2
    <3>8. ch \in [Network -> Nat]
      BY <3>4
    <3> QED BY <2>2, <2>3, <3>7, <3>8 DEF ChargedSane
  <2>6. CASE \E f \in Entries(R) : f.key = "global" /\ ~Over(f, now) /\ e = Grown(f)
    <3>1. PICK f \in Entries(R) : f.key = "global" /\ ~Over(f, now) /\ e = Grown(f)
      BY <2>6
    <3>2. /\ f \in Entry(Keys) /\ f.count \in Nat /\ 1 <= f.count /\ f.resetAt \in Nat
          /\ f.resetAt <= now + Window
      BY <1>4, EntriesTyped
    <3>3. e.count = f.count + 1 /\ e.resetAt = f.resetAt
      BY <3>1, <3>2 DEF Grown, Entry
    <3>4. e.count # 1 /\ e # f /\ now < f.resetAt
      BY <1>1, <3>1, <3>2, <3>3 DEF Over
    <3>5. e \notin Entries(R)
      BY <1>4, <2>1, <3>1, <3>4, OneEntry
    <3>6. ch = [charged EXCEPT ![n] = @ + 1]
      BY <2>3, <3>4, <3>5 DEF Noted
    <3> HIDE DEF ch
    <3>7. ASSUME NEW m \in Network
          PROVE  Shares(us, m, e.resetAt, now, ch[m])
      <4>1. Shares(tables, m, e.resetAt, now, charged[m]) /\ e.resetAt \in Nat
        BY <1>5, <3>2, <3>3
      <4>2. CASE m = n
        <5>1. ch[m] = charged[n] + 1
          BY <1>5, <3>6, <4>2
        <5> QED BY <1>7, <3>2, <3>3, <3>4, <4>1, <4>2, <5>1
      <4>3. CASE m # n
        <5>1. ch[m] = charged[m]
          BY <1>5, <3>6, <4>3
        <5> QED BY <1>6, <4>1, <4>3, <5>1
      <4> QED BY <4>2, <4>3
    <3>8. ch \in [Network -> Nat]
      BY <1>5, <3>6
    <3> QED BY <2>2, <2>3, <3>7, <3>8 DEF ChargedSane
  <2> QED BY <2>1, <2>5, <2>6
<1> QED BY <1>8, <1>9

-----------------------------------------------------------------------------
(* Tables that do not concern the upgrade handler's doors.                 *)
LEMMA ChargedElsewhere ==
    ASSUME NEW ts, NEW us, NEW at, NEW ch,
           \A d \in {"rawGlobalUpgrade", "upgrade", "untrustedUpgrade"} : us[d] = ts[d],
           ChargedSane(ch, ts, at)
    PROVE  ChargedSane(ch, us, at)
BY DEF ChargedSane, Shares

(* Time that passes leaves tables tidy and shares within their bound.      *)
LEMMA TimePasses ==
    ASSUME NEW ts, NEW at \in Nat, TablesTidy(ts, at), NEW ch, ChargedSane(ch, ts, at)
    PROVE  TablesTidy(ts, at + 1) /\ ChargedSane(ch, ts, at + 1)
<1>1. ASSUME NEW l \in Limiter
      PROVE  Tidy(Keys, ts[l], Limit[l], MaxKeys[l], at + 1)
  <2>1. Tidy(Keys, ts[l], Limit[l], MaxKeys[l], at)
    BY DEF TablesTidy
  <2> DEFINE t == ts[l]
  <2> HIDE DEF t
  <2>2. t \in Seq(Entry(Keys)) /\ \A i \in 1 .. Len(t) : t[i] \in Entry(Keys)
    BY <2>1 DEF Tidy, t
  <2>3. \A i \in 1 .. Len(t) : t[i].resetAt \in Nat
    BY <2>2 DEF Entry
  <2>4. \A i \in 1 .. Len(t) : t[i].resetAt <= (at + 1) + Window
    BY <2>1, <2>3, Limits DEF Tidy, t
  <2> QED BY <2>1, <2>4 DEF Tidy, t
<1>2. TablesTidy(ts, at + 1)
  BY <1>1 DEF TablesTidy
<1>3. ASSUME NEW g \in Entries(ts["rawGlobalUpgrade"]), NEW n \in Network
      PROVE  Shares(ts, n, g.resetAt, at + 1, ch[n])
  <2>1. \A d \in {"upgrade", "untrustedUpgrade"} :
           Tidy(Keys, ts[d], Limit["upgrade"], MaxKeys[d], at)
    BY Limits DEF TablesTidy, Limiter
  <2>2. g.resetAt \in Nat
    <3>1. Tidy(Keys, ts["rawGlobalUpgrade"], Limit["rawGlobalUpgrade"],
               MaxKeys["rawGlobalUpgrade"], at)
      BY DEF TablesTidy, Limiter
    <3> QED BY <3>1, EntriesTyped
  <2>3. PICK a, b \in Nat :
           /\ ch[n] = a + b
           /\ Share(ts["upgrade"], n, g.resetAt, at, a)
           /\ Share(ts["untrustedUpgrade"], n, g.resetAt, at, b)
    BY DEF ChargedSane, Shares
  <2>4. /\ Share(ts["upgrade"], n, g.resetAt, at + 1, a)
        /\ Share(ts["untrustedUpgrade"], n, g.resetAt, at + 1, b)
    BY <2>1, <2>2, <2>3, ShareLess
  <2> QED BY <2>3, <2>4 DEF Shares
<1> QED BY <1>2, <1>3 DEF ChargedSane

(* The slots, when one request goes from a step to another.                *)
Verifying(rq) == {s \in Session : rq[s].at = "verifying"}

LEMMA SlotsFollow ==
    ASSUME RequestSane(request, active), NEW s \in Session, NEW r \in RequestType,
           request' = [request EXCEPT ![s] = r], NEW act \in Nat,
           \/ r.at # "verifying" /\ request[s].at # "verifying" /\ act = active
           \/ /\ r.at = "verifying" /\ request[s].at # "verifying"
              /\ active < MaximumConcurrent /\ act = active + 1
           \/ r.at # "verifying" /\ request[s].at = "verifying" /\ act = active - 1
    PROVE  RequestSane(request', act)
<1> DEFINE V == Verifying(request)
           W == Verifying(request')
<1>1. /\ request \in [Session -> RequestType] /\ request' \in [Session -> RequestType]
      /\ active \in Nat /\ active <= MaximumConcurrent /\ MaximumConcurrent \in Nat
      /\ active = Cardinality(V)
  BY Limits DEF RequestSane, Verifying
<1>2. /\ IsFiniteSet(V) /\ (s \in V <=> request[s].at = "verifying")
      /\ (s \in W <=> r.at = "verifying") /\ \A q \in Session \ {s} : q \in W <=> q \in V
  <2>1. V \subseteq Session
    BY DEF Verifying
  <2>2. IsFiniteSet(V)
    BY <2>1, Limits, FS_Subset
  <2> QED BY <1>1, <2>2 DEF Verifying
<1>3. W \subseteq Session /\ V \subseteq Session
  BY DEF Verifying
<1> HIDE DEF V, W
<1>4. act = Cardinality(W) /\ act <= MaximumConcurrent
  <2>1. CASE r.at # "verifying" /\ request[s].at # "verifying" /\ act = active
    <3>1. W = V
      BY <1>2, <1>3, <2>1
    <3> QED BY <1>1, <2>1, <3>1
  <2>2. CASE /\ r.at = "verifying" /\ request[s].at # "verifying"
             /\ active < MaximumConcurrent /\ act = active + 1
    <3>1. W = V \cup {s} /\ s \notin V
      BY <1>2, <1>3, <2>2
    <3>2. Cardinality(W) = Cardinality(V) + 1
      BY <1>2, <3>1, FS_AddElement
    <3> QED BY <1>1, <2>2, <3>2
  <2>3. CASE r.at # "verifying" /\ request[s].at = "verifying" /\ act = active - 1
    <3>1. W = V \ {s} /\ s \in V
      BY <1>2, <1>3, <2>3
    <3>2. Cardinality(W) = Cardinality(V) - 1
      BY <1>2, <3>1, FS_RemoveElement
    <3> QED BY <1>1, <2>3, <3>2
  <2> QED BY <2>1, <2>2, <2>3
<1> QED BY <1>1, <1>4 DEF RequestSane, W, Verifying

LEMMA RequestTypes ==
    ASSUME NEW s \in Session, request \in [Session -> RequestType], now \in Nat
    PROVE  /\ Unasked \in RequestType /\ Unasked.at = "none"
           /\ Issued \in RequestType /\ Issued.at = "issued"
           /\ request[s].network \in Keys
           /\ \A n \in Network : LET r == [request[s] EXCEPT !.at = "reading", !.network = n]
                                 IN  r \in RequestType /\ r.at = "reading"
           /\ LET r == [request[s] EXCEPT !.at = "verifying"]
              IN  r \in RequestType /\ r.at = "verifying"
<1>1. now + TicketTTL \in Nat
  BY Limits
<1>2. request[s] \in RequestType
  OBVIOUS
<1>3. Unasked \in RequestType /\ Unasked.at = "none"
  BY DEF Unasked, RequestType
<1>4. Issued \in RequestType /\ Issued.at = "issued"
  BY <1>1 DEF Issued, Unasked, RequestType
<1> QED BY <1>2, <1>3, <1>4 DEF RequestType, Keys

-----------------------------------------------------------------------------
(* Every step.                                                             *)

LEMMA Start == Init => Inv
<1> SUFFICES ASSUME Init PROVE Inv
  OBVIOUS
<1>1. now \in 0 .. MaxNow
  BY Limits DEF Init
<1>2. ASSUME NEW l \in Limiter
      PROVE  Tidy(Keys, tables[l], Limit[l], MaxKeys[l], now) /\ Entries(tables[l]) = {}
  <2>1. tables[l] = << >> /\ now \in Nat
    BY DEF Init
  <2> QED BY <2>1, Limits DEF Tidy, Entries
<1>3. TablesTidy(tables, now)
  BY <1>2 DEF TablesTidy, Init
<1>4. ChargedSane(charged, tables, now)
  <2>1. Entries(tables["rawGlobalUpgrade"]) = {}
    BY <1>2 DEF Limiter
  <2> QED BY <2>1 DEF ChargedSane, Init
<1>5. RequestSane(request, active)
  <2>1. Unasked \in RequestType /\ Unasked.at # "verifying"
    BY DEF Unasked, RequestType
  <2>2. {s \in Session : request[s].at = "verifying"} = {}
    BY <2>1 DEF Init
  <2>3. request \in [Session -> RequestType] /\ active = 0
    BY <2>1 DEF Init
  <2>4. active = Cardinality({s \in Session : request[s].at = "verifying"})
    BY <2>2, <2>3, FS_EmptySet
  <2> QED BY <2>3, <2>4, Limits DEF RequestSane
<1> QED BY <1>1, <1>3, <1>4, <1>5 DEF Inv

LEMMA UpgradeStep ==
    ASSUME Inv, NEW n \in Network, NEW trusted \in BOOLEAN, NEW s \in Session \cup {None},
           Upgrade(n, trusted, s)
    PROVE  Inv'
<1>1. /\ TablesTidy(tables, now) /\ ChargedSane(charged, tables, now)
      /\ now' = now /\ request' = request /\ active' = active
      /\ charged' = Noted(n, tables')
  BY DEF Inv, Upgrade
<1>2. TablesTidy(tables', now)
  BY <1>1, UpgradeTables
<1>3. CASE /\ tables'["rawGlobalUpgrade"] = tables["rawGlobalUpgrade"]
           /\ tables'["upgrade"] = tables["upgrade"]
           /\ tables'["untrustedUpgrade"] = tables["untrustedUpgrade"]
  <2>1. charged' = charged
    BY <1>1, <1>3 DEF Noted
  <2>2. ChargedSane(charged', tables', now)
    BY <1>1, <1>3, <2>1, ChargedElsewhere
  <2> QED BY <1>1, <1>2, <2>2 DEF Inv
<1>4. CASE \E door \in {"upgrade", "untrustedUpgrade"} : UpgradeLeaves(n, door, tables')
  <2>1. ChargedSane(charged', tables', now)
    BY <1>1, <1>2, <1>4, UpgradeCharges
  <2> QED BY <1>1, <1>2, <2>1 DEF Inv
<1> QED BY <1>1, <1>3, <1>4, UpgradeTables

LEMMA AskStep ==
    ASSUME Inv, NEW s \in Session, NEW n \in Network, Ask(s, n)
    PROVE  Inv'
<1>1. /\ TablesTidy(tables, now) /\ ChargedSane(charged, tables, now) /\ now \in 0 .. MaxNow
      /\ RequestSane(request, active) /\ request \in [Session -> RequestType] /\ active \in Nat
      /\ now' = now /\ active' = active /\ charged' = charged /\ now \in Nat
      /\ tables' = Took(tables, "rawTicket", n) /\ n \in Keys /\ "rawTicket" \in Limiter
  BY DEF Inv, Ask, RequestSane, Keys, Limiter
<1>2. /\ TablesTidy(tables', now)
      /\ \A d \in {"rawGlobalUpgrade", "upgrade", "untrustedUpgrade"} : tables'[d] = tables[d]
  <2>1. TablesTidy(tables', now) /\ \A m \in Limiter \ {"rawTicket"} : tables'[m] = tables[m]
    BY <1>1, TookFacts
  <2> QED BY <2>1 DEF Limiter
<1>3. ChargedSane(charged', tables', now)
  BY <1>1, <1>2, ChargedElsewhere
<1>4. RequestSane(request', active)
  <2>1. CASE request' = request
    BY <1>1, <2>1
  <2> DEFINE r == [request[s] EXCEPT !.at = "reading", !.network = n]
  <2>2. CASE request' = [request EXCEPT ![s] = r]
    <3>1. r \in RequestType /\ r.at # "verifying" /\ request[s].at # "verifying"
      BY <1>1, RequestTypes DEF Ask
    <3> HIDE DEF r
    <3> QED BY <1>1, <2>2, <3>1, SlotsFollow
  <2> QED BY <2>1, <2>2 DEF Ask
<1> QED BY <1>1, <1>2, <1>3, <1>4 DEF Inv

LEMMA BodyRefusedStep ==
    ASSUME Inv, NEW s \in Session, BodyRefused(s)
    PROVE  Inv'
<1>1. /\ RequestSane(request, active) /\ request \in [Session -> RequestType] /\ active \in Nat
      /\ now \in Nat /\ request[s].at = "reading" /\ request' = [request EXCEPT ![s] = Unasked]
      /\ UNCHANGED <<now, tables, active, charged>>
  BY DEF Inv, BodyRefused, RequestSane, Answered
<1>2. Unasked \in RequestType /\ Unasked.at = "none"
  BY <1>1, RequestTypes
<1>3. RequestSane(request', active)
  BY <1>1, <1>2, SlotsFollow
<1> QED BY <1>1, <1>3 DEF Inv

LEMMA BodyAcceptedStep ==
    ASSUME Inv, NEW s \in Session, BodyAccepted(s)
    PROVE  Inv'
<1> DEFINE own == Took(tables, "ticket", request[s].network)
           both == Took(own, "turnstile", "global")
           r == [request[s] EXCEPT !.at = "verifying"]
<1>1. /\ TablesTidy(tables, now) /\ ChargedSane(charged, tables, now) /\ now \in Nat
      /\ now \in 0 .. MaxNow
      /\ RequestSane(request, active) /\ request \in [Session -> RequestType] /\ active \in Nat
      /\ now' = now /\ charged' = charged /\ tables' \in {own, both}
      /\ request[s].at = "reading"
      /\ \/ request' = [request EXCEPT ![s] = Unasked] /\ active' = active
         \/ /\ active < MaximumConcurrent /\ active' = active + 1
            /\ request' = [request EXCEPT ![s].at = "verifying"]
  BY DEF Inv, BodyAccepted, RequestSane, Answered
<1>2. /\ request[s].network \in Keys /\ "global" \in Keys
      /\ Unasked \in RequestType /\ Unasked.at = "none"
      /\ r \in RequestType /\ r.at = "verifying"
  BY <1>1, RequestTypes DEF Keys
<1>3. [request EXCEPT ![s].at = "verifying"] = [request EXCEPT ![s] = r]
  BY <1>1
<1> HIDE DEF r
<1>4. /\ TablesTidy(own, now)
      /\ \A d \in {"rawGlobalUpgrade", "upgrade", "untrustedUpgrade"} : own[d] = tables[d]
  <2>1. "ticket" \in Limiter
    BY DEF Limiter
  <2>2. TablesTidy(own, now) /\ \A m \in Limiter \ {"ticket"} : own[m] = tables[m]
    BY <1>1, <1>2, <2>1, TookFacts
  <2> HIDE DEF own
  <2> QED BY <2>2 DEF Limiter
<1> HIDE DEF own
<1>5. /\ TablesTidy(both, now)
      /\ \A d \in {"rawGlobalUpgrade", "upgrade", "untrustedUpgrade"} : both[d] = own[d]
  <2>1. "turnstile" \in Limiter
    BY DEF Limiter
  <2>2. TablesTidy(both, now) /\ \A m \in Limiter \ {"turnstile"} : both[m] = own[m]
    BY <1>2, <1>4, <2>1, TookFacts
  <2> HIDE DEF both
  <2> QED BY <2>2 DEF Limiter
<1> HIDE DEF both
<1>6. /\ TablesTidy(tables', now)
      /\ \A d \in {"rawGlobalUpgrade", "upgrade", "untrustedUpgrade"} : tables'[d] = tables[d]
  BY <1>1, <1>4, <1>5
<1>7. ChargedSane(charged', tables', now)
  BY <1>1, <1>6, ChargedElsewhere
<1>8. RequestSane(request', active')
  <2>1. CASE request' = [request EXCEPT ![s] = Unasked] /\ active' = active
    BY <1>1, <1>2, <2>1, SlotsFollow
  <2>2. CASE /\ active < MaximumConcurrent /\ active' = active + 1
             /\ request' = [request EXCEPT ![s].at = "verifying"]
    <3>1. request' = [request EXCEPT ![s] = r] /\ active + 1 \in Nat
      BY <1>1, <1>3, <2>2
    <3> QED BY <1>1, <1>2, <2>2, <3>1, SlotsFollow
  <2> QED BY <1>1, <2>1, <2>2
<1> QED BY <1>1, <1>6, <1>7, <1>8 DEF Inv

LEMMA VerificationStep ==
    ASSUME Inv, NEW s \in Session, VerificationSettles(s)
    PROVE  Inv'
<1>1. /\ RequestSane(request, active) /\ request \in [Session -> RequestType] /\ active \in Nat
      /\ now \in Nat /\ request[s].at = "verifying" /\ active' = active - 1
      /\ \/ request' = [request EXCEPT ![s] = Unasked]
         \/ request' = [request EXCEPT ![s] = Issued]
      /\ UNCHANGED <<now, tables, charged>>
  BY DEF Inv, VerificationSettles, RequestSane, Answered
<1>2. /\ Unasked \in RequestType /\ Unasked.at = "none"
      /\ Issued \in RequestType /\ Issued.at = "issued"
  BY <1>1, RequestTypes
<1>3. active - 1 \in Nat
  <2>1. Verifying(request) \subseteq Session /\ s \in Verifying(request)
    BY <1>1 DEF Verifying
  <2>2. IsFiniteSet(Verifying(request)) /\ active = Cardinality(Verifying(request))
    BY <1>1, <2>1, Limits, FS_Subset DEF RequestSane, Verifying
  <2>3. active # 0
    BY <2>1, <2>2, FS_EmptySet
  <2> QED BY <1>1, <2>3
<1> HIDE DEF Issued
<1>4. RequestSane(request', active')
  BY <1>1, <1>2, <1>3, SlotsFollow
<1> QED BY <1>1, <1>4 DEF Inv

LEMMA Step == Inv /\ [Next]_vars => Inv'
<1> SUFFICES ASSUME Inv, [Next]_vars PROVE Inv'
  OBVIOUS
<1>1. CASE Upgrades
  BY <1>1, UpgradeStep DEF Upgrades
<1>2. CASE TicketRoute
  BY <1>2, AskStep, BodyRefusedStep, BodyAcceptedStep, VerificationStep DEF TicketRoute
<1>3. CASE Tick
  <2>1. /\ now \in Nat /\ now' = now + 1 /\ now' \in 0 .. MaxNow
        /\ UNCHANGED <<tables, request, active, charged>>
    BY <1>3, Limits DEF Inv, Tick
  <2>2. TablesTidy(tables', now') /\ ChargedSane(charged', tables', now')
    BY <2>1, TimePasses DEF Inv
  <2> QED BY <2>1, <2>2 DEF Inv
<1>4. CASE UNCHANGED vars
  BY <1>4 DEF Inv, vars
<1> QED BY <1>1, <1>2, <1>3, <1>4 DEF Next

-----------------------------------------------------------------------------
(* The tables stay tidy, the charges within the shares and the slots       *)
(* counted, whatever requests come and however time passes.                *)
THEOREM Invariance == Spec => []Inv
<1> QED BY Start, Step, PTL DEF Spec

(* No network takes the whole of a raw global window (server.ts: its own   *)
(* budget is asked first, and config.ts asks for the margin): of the four  *)
(* windows of its two budgets that can meet it, two began before it.       *)
THEOREM SharedAllowance == Spec => []SharedAllowanceKept
<1>1. Inv => SharedAllowanceKept
  <2> SUFFICES ASSUME Inv, NEW n \in Network
               PROVE  charged[n] < Limit["rawGlobalUpgrade"]
    BY DEF SharedAllowanceKept
  <2> DEFINE R == tables["rawGlobalUpgrade"]
             L == Limit["upgrade"]
  <2>1. L \in Nat \ {0} /\ Limit["rawGlobalUpgrade"] \in Nat /\ Limit["rawGlobalUpgrade"] >= 4 * L - 1
    BY Limits
  <2>2. TablesTidy(tables, now) /\ ChargedSane(charged, tables, now)
    BY DEF Inv
  <2>3. CASE Entries(R) = {}
    <3>1. charged[n] = 0
      BY <2>2, <2>3 DEF ChargedSane
    <3> QED BY <2>1, <3>1
  <2>4. CASE Entries(R) # {}
    <3>1. PICK g \in Entries(R) : Shares(tables, n, g.resetAt, now, charged[n])
      BY <2>2, <2>4 DEF ChargedSane
    <3>2. /\ \A d \in {"upgrade", "untrustedUpgrade"} : Tidy(Keys, tables[d], L, MaxKeys[d], now)
          /\ Tidy(Keys, R, Limit["rawGlobalUpgrade"], MaxKeys["rawGlobalUpgrade"], now)
      BY <2>2, Limits DEF TablesTidy, Limiter
    <3>3. g.resetAt \in Nat
      BY <3>2, EntriesTyped
    <3>4. PICK a, b \in Nat :
             /\ charged[n] = a + b
             /\ Share(tables["upgrade"], n, g.resetAt, now, a)
             /\ Share(tables["untrustedUpgrade"], n, g.resetAt, now, b)
      BY <3>1 DEF Shares
    <3>5. a <= 2 * L - 1 /\ b <= 2 * L - 1
      BY <3>2, <3>3, <3>4, ShareBounded
    <3> QED BY <2>1, <3>4, <3>5
  <2> QED BY <2>3, <2>4
<1> QED BY <1>1, Invariance, PTL

(* A full table with a window that is over admits a new key, although      *)
(* makeSpace looks at its first entries only (rate-limiter.ts): windows    *)
(* stand in the order in which they end, so the first is over.             *)
THEOREM NewKeys == Spec => []NewKeysAdmitted
<1>1. Inv => NewKeysAdmitted
  <2> SUFFICES ASSUME Inv, NEW l \in Limiter,
                      NEW i \in 1 .. Len(tables[l]), Over(tables[l][i], now)
               PROVE  MakeSpace(tables[l], MaxKeys[l], now)
    BY DEF NewKeysAdmitted
  <2> DEFINE t == tables[l]
  <2>1. Tidy(Keys, t, Limit[l], MaxKeys[l], now)
    BY DEF Inv, TablesTidy
  <2> HIDE DEF t
  <2>2. /\ t \in Seq(Entry(Keys)) /\ Len(t) \in Nat /\ now \in Nat
        /\ \A j \in 1 .. Len(t) : t[j] \in Entry(Keys)
    BY <2>1 DEF Tidy
  <2>3. i \in 1 .. Len(t) /\ 1 \in 1 .. Len(t) /\ (i = 1 \/ 1 < i) /\ t # << >>
    BY <2>2 DEF t
  <2>4. t[1].resetAt \in Nat /\ t[i].resetAt \in Nat
    BY <2>2, <2>3 DEF Entry
  <2>5. t[1].resetAt <= t[i].resetAt
    BY <2>1, <2>3, <2>4 DEF Tidy
  <2>6. Over(t[1], now)
    BY <2>2, <2>4, <2>5 DEF Over, t
  <2>7. Removable(t, now) # 0
    BY <2>2, <2>3, <2>6, RemovableFacts
  <2> QED BY <2>7 DEF MakeSpace, t
<1> QED BY <1>1, Invariance, PTL

(* TurnstileVerifier never has more verifications under way than it may,   *)
(* and the slots it counts are the verifications under way: a slot is      *)
(* taken only after every check, and returned once.                        *)
SlotsExact ==
    /\ active = Cardinality({s \in Session : request[s].at = "verifying"})
    /\ active <= MaximumConcurrent

(* No order of answers, refusals and departures makes it count wrong.      *)
THEOREM Slots == Spec => []SlotsExact
<1>1. Inv => SlotsExact
  BY DEF Inv, RequestSane, SlotsExact
<1> QED BY <1>1, Invariance, PTL

(* The state keeps its type.                                               *)
THEOREM Typing == Spec => []TypeOK
<1>1. Inv => TypeOK
  <2> SUFFICES ASSUME Inv PROVE TypeOK
    OBVIOUS
  <2>1. ASSUME NEW l \in Limiter
        PROVE  /\ Len(tables[l]) <= MaxKeys[l]
               /\ \A i \in 1 .. Len(tables[l]) : tables[l][i].count \in 1 .. Limit[l]
    <3>1. Tidy(Keys, tables[l], Limit[l], MaxKeys[l], now)
      BY DEF Inv, TablesTidy
    <3> QED BY <3>1 DEF Tidy
  <2> QED BY <2>1 DEF Inv, TablesTidy, ChargedSane, RequestSane, TypeOK
<1> QED BY <1>1, Invariance, PTL
=============================================================================
