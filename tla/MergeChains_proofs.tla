------------------------- MODULE MergeChains_proofs -------------------------
(* Lemmas about Root and Ended, for any set of rows and any links between  *)
(* them.                                                                   *)
EXTENDS MergeChains, FiniteSetTheorems, WellFoundedInduction, TLAPS

(* Links between the rows of a finite set.                                 *)
Links(into) ==
  /\ IsFiniteSet(DOMAIN into) /\ 0 \notin DOMAIN into
  /\ into = [r \in DOMAIN into |-> into[r]]
  /\ \A r \in DOMAIN into : into[r] \in DOMAIN into \cup {0}

-----------------------------------------------------------------------------
(* Induction on the numbers, for a set instead of a predicate: the theorem *)
(* of the library takes an operator, a minimal element of a set does not.  *)
LEMMA Least ==
  ASSUME NEW T \in SUBSET Nat, T # {}
  PROVE  \E x \in T : \A y \in T : ~(y < x)
<1>1. IsWellFoundedOn(OpToRel(<, Nat), Nat)
  BY NatLessThanWellFounded
<1>2. \E x \in T : \A y \in T : ~ (<<y, x>> \in OpToRel(<, Nat))
  BY <1>1, WFMin
<1> QED BY <1>2 DEF OpToRel

LEMMA Climb ==
  ASSUME NEW G, 0 \in G, \A n \in Nat : n \in G => n + 1 \in G
  PROVE  Nat \subseteq G
<1> DEFINE T == Nat \ G
<1> SUFFICES ASSUME T # {} PROVE FALSE
  OBVIOUS
<1>1. PICK x \in T : \A y \in T : ~(y < x)
  BY Least
<1>2. x \in Nat /\ x # 0 /\ x - 1 \in Nat /\ x - 1 < x
  BY <1>1
<1>3. x - 1 \in G
  BY <1>1, <1>2
<1>4. (x - 1) + 1 = x
  BY <1>2
<1> QED BY <1>1, <1>2, <1>3, <1>4

-----------------------------------------------------------------------------
(* The walk that Root takes.                                               *)
Onward(into, s) == IF into[s] = 0 THEN s ELSE into[s]

WalkStep(into, r, w, n) == IF n = 0 THEN r ELSE Onward(into, w[n - 1])

Walks(into, r, w, m) == w = [n \in 0..m |-> WalkStep(into, r, w, n)]

LEMMA WalkExtends ==
  ASSUME NEW into, NEW r, NEW m \in Nat, NEW w, Walks(into, r, w, m)
  PROVE  \E v : Walks(into, r, v, m + 1)
<1> DEFINE v == [n \in 0..(m + 1) |-> IF n = m + 1 THEN WalkStep(into, r, w, n) ELSE w[n]]
<1>1. \A n \in 0..m : v[n] = w[n] /\ w[n] = WalkStep(into, r, w, n)
  BY DEF Walks
<1>2. ASSUME NEW n \in 0..(m + 1)
      PROVE  v[n] = WalkStep(into, r, v, n)
  <2>1. n # 0 => n - 1 \in 0..m
    BY <1>2
  <2>2. n # 0 => v[n - 1] = w[n - 1]
    BY <1>1, <2>1
  <2>3. WalkStep(into, r, v, n) = WalkStep(into, r, w, n)
    BY <2>2 DEF WalkStep
  <2>4. CASE n = m + 1
    BY <2>3, <2>4
  <2>5. CASE n # m + 1
    <3>1. n \in 0..m
      BY <2>5
    <3> QED BY <1>1, <2>3, <3>1
  <2> QED BY <2>4, <2>5
<1>3. v = [n \in 0..(m + 1) |-> WalkStep(into, r, v, n)]
  <2> HIDE DEF v
  <2>1. v = [n \in 0..(m + 1) |-> v[n]]
    BY DEF v
  <2> QED BY <1>2, <2>1
<1> HIDE DEF v
<1> QED BY <1>3 DEF Walks

LEMMA WalkExists ==
  ASSUME NEW into, NEW r, NEW m \in Nat
  PROVE  \E w : Walks(into, r, w, m)
<1> DEFINE G == {n \in Nat : \E w : Walks(into, r, w, n)}
<1>1. 0 \in G
  <2> DEFINE w == [n \in 0..0 |-> r]
  <2>1. w = [n \in 0..0 |-> WalkStep(into, r, w, n)]
    BY DEF WalkStep
  <2> HIDE DEF w
  <2> QED BY <2>1 DEF Walks
<1>2. \A n \in Nat : n \in G => n + 1 \in G
  BY WalkExtends
<1>3. Nat \subseteq G
  <2> HIDE DEF G
  <2> QED BY <1>1, <1>2, Climb
<1> QED BY <1>3

(* Root is where the walk is after as many steps as there are rows.        *)
LEMMA RootIs ==
  ASSUME NEW into, Links(into), NEW r \in DOMAIN into
  PROVE  /\ Cardinality(DOMAIN into) \in Nat
         /\ \E w : /\ w[0] = r /\ Root(into, r) = w[Cardinality(DOMAIN into)]
                   /\ \A n \in 0..(Cardinality(DOMAIN into) - 1) : w[n + 1] = Onward(into, w[n])
<1> DEFINE N == Cardinality(DOMAIN into)
           w == CHOOSE w : Walks(into, r, w, N)
<1>1. N \in Nat
  BY FS_CardinalityType DEF Links
<1>2. Root(into, r) = w[N]
  BY DEF Root, Walks, WalkStep, Onward
<1>3. Walks(into, r, w, N)
  <2>1. \E v : Walks(into, r, v, N)
    BY <1>1, WalkExists
  <2> QED BY <2>1
<1> HIDE DEF w
<1>4. \A n \in 0..N : w[n] = WalkStep(into, r, w, n)
  BY <1>3 DEF Walks
<1>5. w[0] = r
  BY <1>1, <1>4 DEF WalkStep
<1>6. ASSUME NEW n \in 0..(N - 1)
      PROVE  w[n + 1] = Onward(into, w[n])
  <2>1. n + 1 \in 0..N /\ n + 1 # 0 /\ (n + 1) - 1 = n
    BY <1>1
  <2> QED BY <1>4, <2>1 DEF WalkStep
<1> QED BY <1>1, <1>2, <1>5, <1>6

-----------------------------------------------------------------------------
(* A set of rows that no link leaves keeps the walks that start in it.     *)
LEMMA RootStays ==
  ASSUME NEW into, Links(into), NEW S \in SUBSET DOMAIN into, NEW r \in S,
         \A x \in S : into[x] # 0 => into[x] \in S
  PROVE  Root(into, r) \in S
<1> DEFINE N == Cardinality(DOMAIN into)
<1>1. N \in Nat
  BY RootIs
<1>2. PICK w : /\ w[0] = r /\ Root(into, r) = w[N]
               /\ \A n \in 0..(N - 1) : w[n + 1] = Onward(into, w[n])
  BY RootIs
<1> DEFINE G == {n \in Nat : n <= N => w[n] \in S}
<1>3. 0 \in G
  BY <1>2
<1>4. ASSUME NEW n \in Nat, n \in G
      PROVE  n + 1 \in G
  <2>1. CASE n + 1 <= N
    <3>1. n \in 0..(N - 1) /\ n <= N
      BY <1>1, <2>1
    <3>2. w[n] \in S /\ w[n + 1] = Onward(into, w[n])
      BY <1>2, <1>4, <3>1
    <3> QED BY <3>2 DEF Onward
  <2>2. CASE ~(n + 1 <= N)
    BY <2>2
  <2> QED BY <2>1, <2>2
<1>5. N \in G
  <2> HIDE DEF G
  <2>1. Nat \subseteq G
    BY <1>3, <1>4, Climb
  <2> QED BY <1>1, <2>1
<1> QED BY <1>1, <1>2, <1>5

LEMMA RootTyped ==
  ASSUME NEW into, Links(into), NEW r \in DOMAIN into
  PROVE  Root(into, r) \in DOMAIN into
<1>1. \A x \in DOMAIN into : into[x] # 0 => into[x] \in DOMAIN into
  BY DEF Links
<1> QED BY <1>1, RootStays

(* A row without a link is its own root.                                   *)
LEMMA RootOfRoot ==
  ASSUME NEW into, Links(into), NEW r \in DOMAIN into, into[r] = 0
  PROVE  Root(into, r) = r /\ Ended(into, r)
<1>1. Root(into, r) \in {r}
  BY RootStays
<1> QED BY <1>1 DEF Ended

-----------------------------------------------------------------------------
(* Links without a cycle: an order of the rows in which every link goes    *)
(* up, and nothing is above a row without one.                             *)
Orders(D, into, R) ==
  /\ R \in SUBSET (D \X D)
  /\ \A x \in D : <<x, x>> \notin R
  /\ \A x, y, z \in D : <<x, y>> \in R /\ <<y, z>> \in R => <<x, z>> \in R
  /\ \A x \in D : into[x] # 0 => <<x, into[x]>> \in R
  /\ \A x, y \in D : <<x, y>> \in R => into[x] # 0

Acyclic(into) == \E R : Orders(DOMAIN into, into, R)

(* Then every chain ends: what is above the walk has one row less with     *)
(* every link it follows.                                                  *)
LEMMA AcyclicEnds ==
  ASSUME NEW into, Links(into), Acyclic(into), NEW r \in DOMAIN into
  PROVE  Ended(into, r)
<1> DEFINE D == DOMAIN into
           N == Cardinality(D)
<1>1. N \in Nat /\ IsFiniteSet(D) /\ \A x \in D : into[x] # 0 => into[x] \in D
  BY RootIs DEF Links
<1>2. PICK R : Orders(DOMAIN into, into, R)
  BY DEF Acyclic
<1> DEFINE Above(s) == {y \in D : <<s, y>> \in R}
<1>3. PICK w : /\ w[0] = r /\ Root(into, r) = w[N]
               /\ \A n \in 0..(N - 1) : w[n + 1] = Onward(into, w[n])
  BY RootIs
<1>4. ASSUME NEW s \in D
      PROVE  /\ IsFiniteSet(Above(s)) /\ Cardinality(Above(s)) \in Nat
             /\ Cardinality(Above(s)) <= N - 1
  <2>1. Above(s) \subseteq D \ {s}
    BY <1>2 DEF Orders
  <2>2. IsFiniteSet(D \ {s}) /\ Cardinality(D \ {s}) = N - 1
    BY <1>1, FS_RemoveElement
  <2>3. IsFiniteSet(Above(s)) /\ Cardinality(Above(s)) <= Cardinality(D \ {s})
    BY <2>1, <2>2, FS_Subset
  <2> QED BY <2>2, <2>3, FS_CardinalityType
<1>5. ASSUME NEW s \in D, into[s] # 0
      PROVE  Cardinality(Above(into[s])) < Cardinality(Above(s))
  <2> DEFINE t == into[s]
  <2>1. t \in D /\ <<s, t>> \in R
    BY <1>1, <1>2, <1>5 DEF Orders
  <2>2. \A y \in Above(t) : y \in Above(s) /\ y # t
    BY <1>2, <2>1 DEF Orders
  <2>3. Above(t) \subseteq Above(s) \ {t} /\ t \in Above(s)
    BY <2>1, <2>2
  <2>4. IsFiniteSet(Above(s) \ {t}) /\ Cardinality(Above(s) \ {t}) = Cardinality(Above(s)) - 1
    BY <1>4, <2>3, FS_RemoveElement
  <2>5. Cardinality(Above(t)) <= Cardinality(Above(s) \ {t})
    BY <2>3, <2>4, FS_Subset
  <2>6. Cardinality(Above(s)) \in Nat /\ Cardinality(Above(t)) \in Nat
    BY <1>4, <2>1
  <2> HIDE DEF Above
  <2> QED BY <2>4, <2>5, <2>6
<1> HIDE DEF Above
<1> DEFINE G == {n \in Nat : n <= N => /\ w[n] \in D
                                       /\ into[w[n]] = 0 \/ Cardinality(Above(w[n])) + n <= N - 1}
<1>6. 0 \in G
  <2>1. w[0] \in D /\ Cardinality(Above(w[0])) <= N - 1 /\ Cardinality(Above(w[0])) \in Nat
    BY <1>3, <1>4
  <2> QED BY <2>1
<1>7. ASSUME NEW n \in Nat, n \in G
      PROVE  n + 1 \in G
  <2>1. CASE n + 1 <= N
    <3>1. n \in 0..(N - 1) /\ n <= N
      BY <1>1, <2>1
    <3>2. w[n] \in D /\ w[n + 1] = Onward(into, w[n])
      BY <1>3, <1>7, <3>1
    <3>3. CASE into[w[n]] = 0
      BY <3>2, <3>3 DEF Onward
    <3>4. CASE into[w[n]] # 0
      <4>1. w[n + 1] = into[w[n]] /\ w[n + 1] \in D
        BY <1>1, <3>2, <3>4 DEF Onward
      <4>2. Cardinality(Above(w[n])) + n <= N - 1
        BY <1>7, <3>1, <3>4
      <4>3. Cardinality(Above(w[n + 1])) < Cardinality(Above(w[n]))
        BY <1>5, <3>2, <3>4, <4>1
      <4>4. Cardinality(Above(w[n + 1])) + (n + 1) <= N - 1
        BY <1>1, <1>4, <3>2, <4>1, <4>2, <4>3
      <4> QED BY <4>1, <4>4
    <3> QED BY <3>3, <3>4
  <2>2. CASE ~(n + 1 <= N)
    BY <2>2
  <2> QED BY <2>1, <2>2
<1>8. N \in G
  <2> HIDE DEF G
  <2>1. Nat \subseteq G
    BY <1>6, <1>7, Climb
  <2> QED BY <1>1, <2>1
<1>9. w[N] \in D /\ (into[w[N]] = 0 \/ Cardinality(Above(w[N])) + N <= N - 1)
  BY <1>1, <1>8
<1>10. into[w[N]] = 0
  <2>1. Cardinality(Above(w[N])) \in Nat
    BY <1>4, <1>9
  <2> QED BY <1>1, <1>9, <2>1
<1> QED BY <1>3, <1>10 DEF Ended

(* A link from one row without a link to another closes no cycle.          *)
LEMMA LinkAdded ==
  ASSUME NEW into, Links(into), Acyclic(into), NEW a \in DOMAIN into, NEW b \in DOMAIN into,
         a # b, into[a] = 0, into[b] = 0
  PROVE  Links([into EXCEPT ![a] = b]) /\ Acyclic([into EXCEPT ![a] = b])
<1> DEFINE D == DOMAIN into
           in2 == [into EXCEPT ![a] = b]
<1>1. PICK R : Orders(DOMAIN into, into, R)
  BY DEF Acyclic
<1>2. DOMAIN in2 = D /\ in2[a] = b /\ \A x \in D \ {a} : in2[x] = into[x]
  BY DEF Links
<1>3. b # 0
  BY DEF Links
<1>4. Links(in2)
  BY <1>2 DEF Links
<1> DEFINE Up(x, y) == <<x, y>> \in R \/ (y = b /\ (x = a \/ <<x, a>> \in R))
           R2 == {p \in D \X D : Up(p[1], p[2])}
<1>5. \A x, y \in D : <<x, y>> \in R2 <=> Up(x, y)
  OBVIOUS
<1>6. R2 \in SUBSET (D \X D)
  OBVIOUS
<1> HIDE DEF in2, R2
<1>12. /\ \A x \in D : <<x, x>> \notin R
       /\ \A x, y, z \in D : <<x, y>> \in R /\ <<y, z>> \in R => <<x, z>> \in R
       /\ \A y \in D : <<a, y>> \notin R /\ <<b, y>> \notin R
  BY <1>1 DEF Orders
<1>7. \A x \in D : <<x, x>> \notin R2
  <2>1. ASSUME NEW x \in D, Up(x, x)
        PROVE  FALSE
    BY <1>12, <2>1
  <2> HIDE DEF Up
  <2> QED BY <2>1, <1>5, Zenon
<1>8. \A x, y, z \in D : <<x, y>> \in R2 /\ <<y, z>> \in R2 => <<x, z>> \in R2
  <2>1. ASSUME NEW x \in D, NEW y \in D, NEW z \in D, Up(x, y), Up(y, z)
        PROVE  Up(x, z)
    BY <1>12, <2>1
  <2> HIDE DEF Up
  <2> QED BY <2>1, <1>5, Zenon
<1>9. \A x \in D : in2[x] # 0 => <<x, in2[x]>> \in R2
  <2>1. \A x \in D \ {a} : into[x] # 0 => into[x] \in D
    BY DEF Links
  <2> QED BY <1>1, <1>2, <1>5, <2>1 DEF Orders
<1>10. \A x, y \in D : <<x, y>> \in R2 => in2[x] # 0
  BY <1>1, <1>2, <1>3, <1>5 DEF Orders
<1>11. Orders(D, in2, R2)
  BY <1>6, <1>7, <1>8, <1>9, <1>10, Zenon DEF Orders
<1> QED BY <1>2, <1>4, <1>11 DEF in2, Acyclic

(* Nor does a link that is taken away.                                     *)
LEMMA LinksCut ==
  ASSUME NEW into, Links(into), Acyclic(into), NEW in2, Links(in2), DOMAIN in2 = DOMAIN into,
         \A r \in DOMAIN into : in2[r] \in {0, into[r]}
  PROVE  Acyclic(in2)
<1> DEFINE D == DOMAIN into
<1>1. PICK R : Orders(D, into, R)
  BY DEF Acyclic
<1> DEFINE R2 == {p \in R : in2[p[1]] # 0}
<1>2. \A x, y \in D : <<x, y>> \in R2 <=> <<x, y>> \in R /\ in2[x] # 0
  OBVIOUS
<1>3. R2 \in SUBSET (D \X D)
  BY <1>1 DEF Orders
<1> HIDE DEF R2
<1>4. \A x \in D : <<x, x>> \notin R2
  BY <1>1, <1>2, Zenon DEF Orders
<1>5. \A x, y, z \in D : <<x, y>> \in R2 /\ <<y, z>> \in R2 => <<x, z>> \in R2
  BY <1>1, <1>2 DEF Orders
<1>6. \A x \in D : in2[x] # 0 => <<x, in2[x]>> \in R2
  <2> SUFFICES ASSUME NEW x \in D, in2[x] # 0 PROVE <<x, in2[x]>> \in R2
    OBVIOUS
  <2>1. in2[x] = into[x] /\ in2[x] \in D /\ <<x, into[x]>> \in R
    BY <1>1 DEF Orders, Links
  <2> QED BY <1>2, <2>1
<1>7. \A x, y \in D : <<x, y>> \in R2 => in2[x] # 0
  BY <1>2
<1>8. Orders(D, in2, R2)
  BY <1>3, <1>4, <1>5, <1>6, <1>7, Zenon DEF Orders
<1> QED BY <1>8 DEF Acyclic
=============================================================================
