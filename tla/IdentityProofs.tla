--------------------------- MODULE IdentityProofs ---------------------------
(* Theorems about Identity for all JSON values and all objects.            *)
EXTENDS IdentityMeaning, FunctionTheorems, FiniteSetTheorems, WellFoundedInduction, TLAPS

-----------------------------------------------------------------------------
(* Ranked.                                                                 *)

LEMMA AheadFinite ==
  ASSUME NEW D, IsFiniteSet(D), NEW rank, DOMAIN rank = D, NEW i \in D
  PROVE  IsFiniteSet(Ahead(rank, i)) /\ Cardinality(Ahead(rank, i)) \in Nat
<1>1. Ahead(rank, i) \in SUBSET D
  BY DEF Ahead
<1> QED
  BY <1>1, FS_Subset, FS_CardinalityType

(* Of two places one is ahead of the other.                                *)
LEMMA AheadGrows ==
  ASSUME NEW D \in SUBSET Nat, IsFiniteSet(D), NEW rank \in [D -> Int],
         NEW i \in D, NEW j \in D, i \in Ahead(rank, j)
  PROVE  Cardinality(Ahead(rank, i)) < Cardinality(Ahead(rank, j))
<1>1. Ahead(rank, i) \in SUBSET Ahead(rank, j)
  <2> SUFFICES ASSUME NEW k \in Ahead(rank, i)
               PROVE  k \in Ahead(rank, j)
    OBVIOUS
  <2>1. k \in D /\ (rank[k] < rank[i] \/ (rank[k] = rank[i] /\ k < i))
    BY DEF Ahead
  <2>2. rank[i] < rank[j] \/ (rank[i] = rank[j] /\ i < j)
    BY DEF Ahead
  <2>3. rank[i] \in Int /\ rank[j] \in Int /\ rank[k] \in Int
    BY <2>1
  <2>4. i \in Nat /\ j \in Nat /\ k \in Nat
    BY <2>1
  <2>5. rank[k] < rank[j] \/ (rank[k] = rank[j] /\ k < j)
    BY <2>1, <2>2, <2>3, <2>4
  <2> QED
    BY <2>1, <2>5 DEF Ahead
<1>2. i \notin Ahead(rank, i)
  BY DEF Ahead
<1>3. IsFiniteSet(Ahead(rank, j)) /\ Cardinality(Ahead(rank, j)) \in Nat
  BY AheadFinite
<1>4. Cardinality(Ahead(rank, i)) \in Nat
  BY AheadFinite
<1>5. Cardinality(Ahead(rank, i)) <= Cardinality(Ahead(rank, j))
  BY <1>1, <1>3, FS_Subset
<1>6. Cardinality(Ahead(rank, i)) # Cardinality(Ahead(rank, j))
  BY <1>1, <1>2, <1>3, FS_Subset
<1> QED
  BY <1>3, <1>4, <1>5, <1>6

(* No two places have as many ahead of them, and Nth finds each.           *)
LEMMA NthFacts ==
  ASSUME NEW D \in SUBSET Nat, IsFiniteSet(D), NEW rank \in [D -> Int]
  PROVE  /\ Cardinality(D) \in Nat
         /\ \A i, j \in D :
              Cardinality(Ahead(rank, i)) = Cardinality(Ahead(rank, j)) => i = j
         /\ \A i \in D : Cardinality(Ahead(rank, i)) + 1 \in 1 .. Cardinality(D)
         /\ \A n \in 1 .. Cardinality(D) :
              /\ Nth(rank, n) \in D
              /\ Cardinality(Ahead(rank, Nth(rank, n))) = n - 1
<1> DEFINE N == Cardinality(D)
           count == [i \in D |-> Cardinality(Ahead(rank, i)) + 1]
<1>1. N \in Nat
  BY FS_CardinalityType
<1>2. ASSUME NEW i \in D, NEW j \in D, i # j
      PROVE  Cardinality(Ahead(rank, i)) # Cardinality(Ahead(rank, j))
  <2>1. i \in Ahead(rank, j) \/ j \in Ahead(rank, i)
    BY <1>2 DEF Ahead
  <2>2. Cardinality(Ahead(rank, i)) \in Nat /\ Cardinality(Ahead(rank, j)) \in Nat
    BY AheadFinite
  <2> QED
    BY <2>1, <2>2, AheadGrows
<1>3. ASSUME NEW i \in D
      PROVE  Cardinality(Ahead(rank, i)) + 1 \in 1 .. N
  <2>1. Ahead(rank, i) \in SUBSET D /\ i \notin Ahead(rank, i)
    BY DEF Ahead
  <2>2. Cardinality(Ahead(rank, i)) \in Nat
    BY AheadFinite
  <2>3. Cardinality(Ahead(rank, i)) <= N /\ Cardinality(Ahead(rank, i)) # N
    BY <2>1, FS_Subset
  <2> QED
    BY <1>1, <2>2, <2>3
<1>4. count \in Injection(D, 1 .. N)
  <2>1. count \in [D -> 1 .. N]
    BY <1>3
  <2>2. \A i, j \in D : count[i] = count[j] => i = j
    BY <1>2, AheadFinite
  <2> QED
    BY <2>1, <2>2, Fun_IsInj
<1>5. IsFiniteSet(1 .. N) /\ Cardinality(1 .. N) = N
  <2>1. IsFiniteSet(1 .. N) /\ Cardinality(1 .. N) = IF 1 > N THEN 0 ELSE N - 1 + 1
    BY <1>1, FS_Interval
  <2> QED
    BY <1>1, <2>1
<1>6. count \in Surjection(D, 1 .. N)
  BY <1>4, <1>5, FS_Injection
<1>7. ASSUME NEW n \in 1 .. N
      PROVE  \E i \in D : Cardinality(Ahead(rank, i)) = n - 1
  <2> HIDE DEF count
  <2>1. PICK i \in D : count[i] = n
    BY <1>6 DEF Surjection
  <2>2. n = Cardinality(Ahead(rank, i)) + 1
    BY <2>1 DEF count
  <2> QED
    BY <2>2, AheadFinite
<1> QED
  BY <1>1, <1>2, <1>3, <1>7 DEF Nth

LEMMA NthOnto ==
  ASSUME NEW D \in SUBSET Nat, IsFiniteSet(D), NEW rank \in [D -> Int], NEW i \in D
  PROVE  \E n \in 1 .. Cardinality(D) : Nth(rank, n) = i
<1> DEFINE n == Cardinality(Ahead(rank, i)) + 1
<1>1. n \in 1 .. Cardinality(D)
  BY NthFacts
<1>2. Nth(rank, n) \in D /\ Cardinality(Ahead(rank, Nth(rank, n))) = n - 1
  BY <1>1, NthFacts
<1>3. n - 1 = Cardinality(Ahead(rank, i))
  BY AheadFinite
<1>4. \A a, b \in D : Cardinality(Ahead(rank, a)) = Cardinality(Ahead(rank, b)) => a = b
  BY NthFacts
<1> HIDE DEF n
<1>5. Nth(rank, n) = i
  BY <1>2, <1>3, <1>4
<1> QED
  BY <1>1, <1>5

(* Ranks that agree on which of two places is ahead leave the same.        *)
LEMMA RankedAlike ==
  ASSUME NEW s, NEW D, NEW r1 \in [D -> Int], NEW r2 \in [D -> Int],
         \A i, j \in D : r1[i] < r1[j] <=> r2[i] < r2[j]
  PROVE  Ranked(s, r1) = Ranked(s, r2)
<1>1. ASSUME NEW i \in D PROVE Ahead(r1, i) = Ahead(r2, i)
  <2>1. \A j \in D : r1[j] = r1[i] <=> r2[j] = r2[i]
    BY <1>1
  <2> QED
    BY <1>1, <2>1 DEF Ahead
<1>2. \A n : Nth(r1, n) = Nth(r2, n)
  BY <1>1 DEF Nth
<1> QED
  BY <1>2 DEF Ranked

Items(s, D) == {s[i] : i \in D}

(* Sorting loses and adds nothing.                                         *)
LEMMA RankedItems ==
  ASSUME NEW D \in SUBSET Nat, IsFiniteSet(D), NEW rank \in [D -> Int], NEW s
  PROVE  Items(Ranked(s, rank), DOMAIN Ranked(s, rank)) = Items(s, D)
<1> DEFINE N == Cardinality(D)
<1>1. Ranked(s, rank) = [n \in 1 .. N |-> s[Nth(rank, n)]]
  BY DEF Ranked
<1>2. \A n \in 1 .. N : Nth(rank, n) \in D
  BY NthFacts
<1>3. \A i \in D : \E n \in 1 .. N : Nth(rank, n) = i
  BY NthOnto
<1>4. \A n \in 1 .. N : Ranked(s, rank)[n] \in Items(s, D)
  BY <1>1, <1>2 DEF Items
<1>5. \A i \in D : \E n \in 1 .. N : Ranked(s, rank)[n] = s[i]
  BY <1>1, <1>3
<1>6. DOMAIN Ranked(s, rank) = 1 .. N
  BY <1>1
<1> HIDE DEF N
<1> QED
  BY <1>4, <1>5, <1>6 DEF Items

(* The order in which the items come is lost, but among those of a rank.   *)
LEMMA RankedMoved ==
  ASSUME NEW D \in SUBSET Nat, IsFiniteSet(D), NEW E \in SUBSET Nat,
         NEW r \in [D -> Int], NEW q \in [E -> Int],
         NEW move \in Bijection(D, E), \A i \in D : q[move[i]] = r[i],
         \A i, j \in D : r[i] = r[j] => (i < j <=> move[i] < move[j]),
         NEW s, NEW t, \A i \in D : t[move[i]] = s[i]
  PROVE  Ranked(s, r) = Ranked(t, q)
<1>0. \A n \in 1 .. Cardinality(D) :
        Nth(r, n) \in D /\ Cardinality(Ahead(r, Nth(r, n))) = n - 1
  BY NthFacts
<1>1. /\ move \in [D -> E]
      /\ \A i, j \in D : move[i] = move[j] => i = j
      /\ \A e \in E : \E i \in D : move[i] = e
  BY DEF Bijection, Injection, Surjection, IsInjective
<1>2. IsFiniteSet(E) /\ Cardinality(E) = Cardinality(D)
  BY FS_Bijection DEF ExistsBijection
<1>3. ASSUME NEW i \in D
      PROVE  Cardinality(Ahead(q, move[i])) = Cardinality(Ahead(r, i))
  <2> DEFINE A == Ahead(r, i)
             B == Ahead(q, move[i])
             moved == [j \in A |-> move[j]]
  <2>1. A \in SUBSET D /\ B \in SUBSET E
    BY DEF Ahead
  <2>2. ASSUME NEW j \in D PROVE j \in A <=> move[j] \in B
    <3>1. r[j] \in Int /\ r[i] \in Int /\ q[move[j]] = r[j] /\ q[move[i]] = r[i]
      OBVIOUS
    <3>2. r[j] = r[i] => (j < i <=> move[j] < move[i])
      OBVIOUS
    <3>3. j \in A <=> r[j] < r[i] \/ (r[j] = r[i] /\ j < i)
      BY DEF Ahead
    <3>4. move[j] \in B <=>
            q[move[j]] < q[move[i]] \/ (q[move[j]] = q[move[i]] /\ move[j] < move[i])
      BY <1>1 DEF Ahead
    <3> QED
      BY <3>1, <3>2, <3>3, <3>4
  <2>3. moved \in [A -> B] /\ \A j \in A : moved[j] = move[j]
    BY <2>1, <2>2
  <2>4. \A b \in B : \E j \in A : moved[j] = b
    BY <1>1, <2>1, <2>2, <2>3
  <2>5. \A j, k \in A : moved[j] = moved[k] => j = k
    BY <1>1, <2>1, <2>3
  <2> HIDE DEF moved, A, B
  <2>6. moved \in Bijection(A, B)
    BY <2>3, <2>4, <2>5, Fun_IsBij
  <2>7. IsFiniteSet(A)
    BY AheadFinite DEF A
  <2>8. Cardinality(B) = Cardinality(A)
    BY <2>6, <2>7, FS_Bijection DEF ExistsBijection
  <2> QED
    BY <2>8 DEF A, B
<1>4. ASSUME NEW n \in 1 .. Cardinality(D)
      PROVE  Nth(q, n) = move[Nth(r, n)]
  <2>1. Nth(r, n) \in D /\ Cardinality(Ahead(r, Nth(r, n))) = n - 1
    BY <1>0
  <2>2. Nth(q, n) \in E /\ Cardinality(Ahead(q, Nth(q, n))) = n - 1
    BY <1>2, NthFacts
  <2>3. Cardinality(Ahead(q, move[Nth(r, n)])) = n - 1 /\ move[Nth(r, n)] \in E
    BY <1>1, <1>3, <2>1
  <2>4. \A i, j \in E : Cardinality(Ahead(q, i)) = Cardinality(Ahead(q, j)) => i = j
    BY <1>2, NthFacts, Zenon
  <2> QED
    BY <2>2, <2>3, <2>4
<1>5. ASSUME NEW n \in 1 .. Cardinality(D)
      PROVE  t[Nth(q, n)] = s[Nth(r, n)]
  <2>1. Nth(r, n) \in D
    BY <1>0
  <2> QED
    BY <1>4, <2>1
<1> QED
  BY <1>2, <1>5 DEF Ranked

-----------------------------------------------------------------------------
(* How often an item occurs.                                               *)

Class(s, x) == {j \in DOMAIN s : s[j] = x}
Count(s, x) == Cardinality(Class(s, x))
Level(s, x) == [j \in Class(s, x) |-> 0]

LEMMA ClassFacts ==
  ASSUME NEW s, NEW len \in Nat, DOMAIN s = 1 .. len, NEW x
  PROVE  /\ Class(s, x) \in SUBSET Nat /\ IsFiniteSet(Class(s, x))
         /\ Level(s, x) \in [Class(s, x) -> Int]
         /\ Count(s, x) \in Nat
<1>1. Class(s, x) \in SUBSET (1 .. len)
  BY DEF Class
<1>2. IsFiniteSet(1 .. len)
  BY FS_Interval
<1>3. IsFiniteSet(Class(s, x))
  BY <1>1, <1>2, FS_Subset
<1> QED
  BY <1>1, <1>3, FS_CardinalityType DEF Level, Count

(* Sorting keeps every item as often as it was there.                      *)
LEMMA RankedCounts ==
  ASSUME NEW s, NEW len \in Nat, DOMAIN s = 1 .. len, NEW r \in [1 .. len -> Int], NEW x
  PROVE  Count(Ranked(s, r), x) = Count(s, x)
<1> DEFINE R == Ranked(s, r)
           nth == [n \in Class(R, x) |-> Nth(r, n)]
<1>1. 1 .. len \in SUBSET Nat /\ IsFiniteSet(1 .. len) /\ Cardinality(1 .. len) = len
  <2>1. IsFiniteSet(1 .. len) /\ Cardinality(1 .. len) = IF 1 > len THEN 0 ELSE len - 1 + 1
    BY FS_Interval
  <2> QED
    BY <2>1
<1>2. /\ \A n \in 1 .. len : Nth(r, n) \in 1 .. len
      /\ \A n \in 1 .. len : Cardinality(Ahead(r, Nth(r, n))) = n - 1
      /\ \A i \in 1 .. len : \E n \in 1 .. len : Nth(r, n) = i
  <2> DEFINE D == 1 .. len
  <2>1. D \in SUBSET Nat /\ IsFiniteSet(D) /\ Cardinality(D) = len /\ r \in [D -> Int]
    BY <1>1
  <2> HIDE DEF D
  <2>2. \A n \in 1 .. len : Nth(r, n) \in D /\ Cardinality(Ahead(r, Nth(r, n))) = n - 1
    BY <2>1, NthFacts
  <2>3. \A i \in D : \E n \in 1 .. len : Nth(r, n) = i
    BY <2>1, NthOnto
  <2> QED
    BY <2>2, <2>3 DEF D
<1>3. R = [n \in 1 .. len |-> s[Nth(r, n)]]
  BY <1>1 DEF Ranked
<1> HIDE DEF R
<1>4. Class(R, x) = {n \in 1 .. len : s[Nth(r, n)] = x}
  BY <1>3 DEF Class
<1>5. nth \in [Class(R, x) -> Class(s, x)]
  BY <1>2, <1>4 DEF Class
<1>6. \A n, m \in Class(R, x) : nth[n] = nth[m] => n = m
  <2>1. ASSUME NEW n \in Class(R, x)
        PROVE  n \in Nat /\ Cardinality(Ahead(r, nth[n])) = n - 1
    <3>1. n \in 1 .. len /\ nth[n] = Nth(r, n)
      BY <1>4
    <3> QED
      BY <1>2, <3>1
  <2> HIDE DEF nth
  <2> QED
    BY <2>1
<1>7. \A i \in Class(s, x) : \E n \in Class(R, x) : nth[n] = i
  BY <1>2, <1>4 DEF Class
<1> HIDE DEF nth
<1>8. nth \in Bijection(Class(R, x), Class(s, x))
  BY <1>5, <1>6, <1>7, Fun_IsBij
<1>9. IsFiniteSet(Class(R, x))
  BY <1>3, ClassFacts
<1> QED
  BY <1>8, <1>9, FS_Bijection DEF ExistsBijection, Count, R

SameCounts(s, t) == \A x : Count(s, x) = Count(t, x)

Moves(s, t) ==
  {move \in Bijection(DOMAIN s, DOMAIN t) :
     /\ \A i \in DOMAIN s : t[move[i]] = s[i]
     /\ \A i, j \in DOMAIN s : s[i] = s[j] => (i < j <=> move[i] < move[j])}

(* What occurs equally often can be moved from one place to the other, and *)
(* what is alike stays in its order.                                       *)
LEMMA MoveExists ==
  ASSUME NEW s, NEW len \in Nat, DOMAIN s = 1 .. len,
         NEW t, NEW ten \in Nat, DOMAIN t = 1 .. ten,
         SameCounts(s, t)
  PROVE  Moves(s, t) # {}
<1> DEFINE Nr(u, i) == Cardinality(Ahead(Level(u, u[i]), i))
<1>1. ASSUME NEW u \in {s, t}, NEW i \in DOMAIN u
      PROVE  /\ i \in Class(u, u[i]) /\ Nr(u, i) + 1 \in 1 .. Count(u, u[i])
             /\ Nr(u, i) \in Nat
  <2>1. PICK l \in Nat : DOMAIN u = 1 .. l
    OBVIOUS
  <2>2. i \in Class(u, u[i])
    BY DEF Class
  <2> QED
    BY <2>1, <2>2, ClassFacts, NthFacts, AheadFinite DEF Count
<1>2. ASSUME NEW u \in {s, t}, NEW i \in DOMAIN u, NEW j \in DOMAIN u, u[i] = u[j]
      PROVE  /\ Nr(u, i) = Nr(u, j) => i = j
             /\ i < j <=> Nr(u, i) < Nr(u, j)
  <2>1. PICK l \in Nat : DOMAIN u = 1 .. l
    OBVIOUS
  <2> DEFINE D == Class(u, u[i])
             z == Level(u, u[i])
  <2>2. /\ i \in D /\ j \in D /\ i \in Nat /\ j \in Nat /\ u[j] = u[i]
        /\ Nr(u, i) = Cardinality(Ahead(z, i)) /\ Nr(u, j) = Cardinality(Ahead(z, j))
        /\ Nr(u, i) \in Nat /\ Nr(u, j) \in Nat
    BY <1>1, <1>2, <2>1 DEF Class
  <2>3. D \in SUBSET Nat /\ IsFiniteSet(D) /\ z \in [D -> Int] /\ \A k \in D : z[k] = 0
    BY <2>1, ClassFacts DEF Level
  <2> HIDE DEF D, z
  <2>4. /\ i \in Ahead(z, j) <=> i < j
        /\ j \in Ahead(z, i) <=> j < i
    BY <2>2, <2>3 DEF Ahead
  <2>5. i < j => Cardinality(Ahead(z, i)) < Cardinality(Ahead(z, j))
    BY <2>2, <2>3, <2>4, AheadGrows
  <2>6. j < i => Cardinality(Ahead(z, j)) < Cardinality(Ahead(z, i))
    BY <2>2, <2>3, <2>4, AheadGrows
  <2> QED
    BY <2>2, <2>5, <2>6
<1>3. ASSUME NEW u \in {s, t}, NEW v \in {s, t}, NEW i \in DOMAIN u
      PROVE  \E j \in DOMAIN v : v[j] = u[i] /\ Nr(v, j) = Nr(u, i)
  <2>1. PICK l \in Nat : DOMAIN v = 1 .. l
    OBVIOUS
  <2> DEFINE n == Nr(u, i) + 1
             j == Nth(Level(v, u[i]), n)
  <2>2. n \in 1 .. Count(v, u[i]) /\ n - 1 = Nr(u, i)
    <3>1. Count(u, u[i]) = Count(v, u[i])
      BY DEF SameCounts
    <3> QED
      BY <1>1, <3>1
  <2> HIDE DEF n
  <2>3. j \in Class(v, u[i]) /\ Cardinality(Ahead(Level(v, u[i]), j)) = n - 1
    <3> DEFINE D == Class(v, u[i])
               z == Level(v, u[i])
    <3>1. D \in SUBSET Nat /\ IsFiniteSet(D) /\ z \in [D -> Int]
      BY <2>1, ClassFacts
    <3>2. n \in 1 .. Cardinality(D)
      BY <2>2 DEF Count
    <3> HIDE DEF D, z
    <3>3. Nth(z, n) \in D /\ Cardinality(Ahead(z, Nth(z, n))) = n - 1
      BY <3>1, <3>2, NthFacts
    <3> QED
      BY <3>3 DEF D, z
  <2> HIDE DEF j
  <2>4. j \in DOMAIN v /\ v[j] = u[i]
    BY <2>3 DEF Class
  <2> QED
    BY <2>2, <2>3, <2>4
<1> HIDE DEF Nr
<1> DEFINE move == [i \in 1 .. len |-> CHOOSE j \in 1 .. ten : t[j] = s[i] /\ Nr(t, j) = Nr(s, i)]
<1>4. \A i \in 1 .. len : move[i] \in 1 .. ten /\ t[move[i]] = s[i] /\ Nr(t, move[i]) = Nr(s, i)
  BY <1>3
<1>5. move \in [1 .. len -> 1 .. ten]
  BY <1>4
<1> HIDE DEF move
<1>6. \A i, j \in 1 .. len : move[i] = move[j] => i = j
  BY <1>2, <1>4
<1>7. \A j \in 1 .. ten : \E i \in 1 .. len : move[i] = j
  <2> TAKE j \in 1 .. ten
  <2>1. PICK i \in 1 .. len : s[i] = t[j] /\ Nr(s, i) = Nr(t, j)
    BY <1>3
  <2>2. move[i] = j
    BY <1>2, <1>4, <2>1
  <2> QED
    BY <2>2
<1>8. \A i, j \in 1 .. len : s[i] = s[j] => (i < j <=> move[i] < move[j])
  <2> SUFFICES ASSUME NEW i \in 1 .. len, NEW j \in 1 .. len, s[i] = s[j]
               PROVE  i < j <=> move[i] < move[j]
    OBVIOUS
  <2>1. i < j <=> Nr(s, i) < Nr(s, j)
    BY <1>2
  <2>2. move[i] < move[j] <=> Nr(t, move[i]) < Nr(t, move[j])
    BY <1>2, <1>4
  <2> QED
    BY <1>4, <2>1, <2>2
<1>9. move \in Bijection(1 .. len, 1 .. ten)
  BY <1>5, <1>6, <1>7, Fun_IsBij
<1> QED
  BY <1>4, <1>8, <1>9 DEF Moves

-----------------------------------------------------------------------------
(* The fields of a map.                                                    *)

LEMMA MapFields ==
  ASSUME NEW m, IsMap(m)
  PROVE  /\ Len(m.fields) \in Nat /\ DOMAIN m.fields = 1 .. Len(m.fields)
         /\ \A i \in DOMAIN m.fields :
              m.fields[i] = <<m.fields[i][1], m.fields[i][2]>>
              /\ m.fields[i][1] \in Name /\ m.fields[i][2] \in Value
  BY DEF IsMap

LEMMA AtField ==
  ASSUME NEW m, NEW i \in DOMAIN m.fields,
         \A j \in DOMAIN m.fields : m.fields[j][1] = m.fields[i][1] => j = i
  PROVE  Has(m, m.fields[i][1]) /\ At(m, m.fields[i][1]) = m.fields[i][2]
  BY DEF Has, KeysOf, At

LEMMA AtKey ==
  ASSUME NEW m, NEW k, Has(m, k)
  PROVE  \E i \in DOMAIN m.fields : m.fields[i][1] = k /\ At(m, k) = m.fields[i][2]
  BY DEF Has, KeysOf, At

(* A field that is set is there.                                           *)
LEMMA AtWith ==
  ASSUME NEW m, NEW S, m.fields \in Seq(S), NEW k, NEW v
  PROVE  Has(With(m, k, v), k) /\ At(With(m, k, v), k) = v
<1> DEFINE f == With(m, k, v).fields
<1>1. CASE Has(m, k)
  <2>1. f = [i \in DOMAIN m.fields |-> IF m.fields[i][1] = k THEN <<k, v>> ELSE m.fields[i]]
    BY <1>1 DEF With, Map
  <2>2. \E i \in DOMAIN f : f[i][1] = k
    BY <1>1, <2>1, AtKey
  <2>3. \A i \in DOMAIN f : f[i][1] = k => f[i][2] = v
    BY <2>1
  <2> QED
    BY <2>2, <2>3 DEF Has, KeysOf, At
<1>2. CASE ~Has(m, k)
  <2>1. f = Append(m.fields, <<k, v>>)
    BY <1>2 DEF With, Map
  <2>2. /\ DOMAIN f = 1 .. Len(m.fields) + 1
        /\ f[Len(m.fields) + 1] = <<k, v>>
        /\ \A i \in 1 .. Len(m.fields) : f[i] = m.fields[i]
        /\ DOMAIN m.fields = 1 .. Len(m.fields) /\ Len(m.fields) \in Nat
    BY <2>1
  <2>3. \A i \in 1 .. Len(m.fields) : m.fields[i][1] # k
    BY <1>2, <2>2 DEF Has, KeysOf
  <2>4. \E i \in DOMAIN f : f[i][1] = k
    BY <2>2
  <2>5. \A i \in DOMAIN f : f[i][1] = k => f[i][2] = v
    BY <2>2, <2>3
  <2> QED
    BY <2>4, <2>5 DEF Has, KeysOf, At
<1> QED
  BY <1>1, <1>2

(* What serde keeps of an object.                                          *)
LEMMA StructFields ==
  ASSUME NEW o
  PROVE  /\ DOMAIN Struct(o).fields = 1 .. 5
         /\ \A i \in 1 .. 5 :
              Struct(o).fields[i] =
                <<Known[i], IF Has(o, Known[i]) THEN At(o, Known[i]) ELSE Null>>
         /\ \A i, j \in 1 .. 5 : Known[i] = Known[j] => i = j
  BY DEF Struct, Typed, Map, Known

LEMMA StructProducer ==
  ASSUME NEW o, Has(o, "producer")
  PROVE  At(Struct(o), "producer") = At(o, "producer")
<1>1. Struct(o).fields[2] = <<"producer", At(o, "producer")>>
  BY StructFields DEF Known
<1>2. \A j \in 1 .. 5 : Struct(o).fields[j][1] = "producer" => j = 2
  BY StructFields DEF Known
<1> QED
  BY <1>1, <1>2, StructFields, AtField

-----------------------------------------------------------------------------
(* BuiltVerifies.                                                          *)

(* The key_ref that is signed is the signer's in exactly these cases.      *)
NamesSigner(side) ==
  given \in {None, TextOf(ServiceKey)} \/ (side = "ts" /\ given = Null)

Valid(side, o) == IF side = "ts" THEN ValidTs(o) ELSE ValidRust(o)

(* What is hashed and what is signed is the object as it was built, with   *)
(* its key_ref in place.                                                   *)
BuiltInv ==
  memory # None =>
    /\ maker \in Side
    /\ memory = [object |-> memory.object, hash |-> memory.hash, signature |-> memory.signature]
    /\ memory.object \in Carried /\ origin \in Carried
    /\ memory.hash = Form(maker, origin)
    /\ Valid(maker, origin)
    /\ Signed(memory) =>
         /\ memory.signature = [payload |-> Form(maker, origin), key |-> ServiceKey]
         /\ GivenKey(origin) = TextOf(ServiceKey) <=> NamesSigner(maker)

LEMMA SetKeyGives ==
  ASSUME NEW o, NEW S, NEW T, NEW v,
         o.fields \in Seq(S), At(o, "producer").fields \in Seq(T)
  PROVE  GivenKey(SetKey(o, v)) = v
<1> DEFINE p == With(At(o, "producer"), "key_ref", v)
<1>1. Has(p, "key_ref") /\ At(p, "key_ref") = v
  BY AtWith
<1> HIDE DEF p
<1>2. At(With(o, "producer", p), "producer") = p
  BY AtWith
<1> QED
  BY <1>1, <1>2 DEF GivenKey, SetKey, p

LEMMA ObjectIsMap ==
  ASSUME NEW o \in Object
  PROVE  /\ IsMap(o) /\ Has(o, "producer") /\ IsMap(At(o, "producer"))
         /\ o.fields \in Seq(Name \X Value)
         /\ At(o, "producer").fields \in Seq(Name \X Value)
<1>1. o \in Carried
  BY DEF Carried
<1> QED
  BY <1>1, ObjectAssumption DEF IsMap

LEMMA KeyedTsKey ==
  ASSUME NEW o \in Object, NEW signer, signer # None
  PROVE  GivenKey(KeyedTs(o, signer)) =
           IF GivenKey(o) \in {None, Null} THEN TextOf(signer) ELSE GivenKey(o)
  BY ObjectIsMap, SetKeyGives DEF KeyedTs

LEMMA KeyedRustKey ==
  ASSUME NEW o \in Object, NEW signer, signer # None
  PROVE  GivenKey(KeyedRust(Struct(o), signer)) =
           IF GivenKey(o) = None THEN TextOf(signer) ELSE GivenKey(o)
<1>1. At(Struct(o), "producer") = At(o, "producer")
  BY ObjectIsMap, StructProducer
<1>2. GivenKey(Struct(o)) = GivenKey(o)
  BY <1>1 DEF GivenKey
<1>3. Struct(o).fields \in Seq({Struct(o).fields[i] : i \in 1 .. 5})
  BY StructFields DEF Struct, Typed, Map, Known
<1>4. GivenKey(SetKey(Struct(o), TextOf(signer))) = TextOf(signer)
  BY <1>1, <1>3, ObjectIsMap, SetKeyGives
<1> QED
  BY <1>2, <1>4 DEF KeyedRust

LEMMA BuiltCarried ==
  ASSUME NEW o \in Object, NEW signer \in {None, ServiceKey}
  PROVE  KeyedTs(o, signer) \in Carried /\ KeyedRust(Struct(o), signer) \in Carried
<1> DEFINE Pair(p, t) == {KeyedTs(p, t), KeyedRust(Struct(p), t)}
<1>1. Pair(o, signer) \in {Pair(p, t) : p \in Object, t \in {None, ServiceKey}}
  OBVIOUS
<1>2. KeyedTs(o, signer) \in Pair(o, signer) /\ KeyedRust(Struct(o), signer) \in Pair(o, signer)
  OBVIOUS
<1> HIDE DEF Pair
<1>3. Pair(o, signer) \subseteq UNION {Pair(p, t) : p \in Object, t \in {None, ServiceKey}}
  BY <1>1
<1> QED
  BY <1>2, <1>3 DEF Carried, Pair

LEMMA TextIsNotNull == \A t : TextOf(t) # Null
  BY DEF TextOf, Null

LEMMA BuiltInvStep ==
  ASSUME BuiltInv, [Next]_vars
  PROVE  BuiltInv'
<1>1. ASSUME NEW o \in Object, NEW signer \in {None, ServiceKey}, BuildTs(o, signer)
      PROVE  BuiltInv'
  <2> DEFINE keyed == KeyedTs(o, signer)
             form  == TsForm(keyed)
  <2>1. /\ memory' = [object |-> keyed, hash |-> form, signature |-> Signature(form, signer)]
        /\ maker' = "ts" /\ origin' = keyed /\ given' = GivenKey(o) /\ ValidTs(keyed)
    BY <1>1 DEF BuildTs, Build
  <2>2. form = Form("ts", keyed)
    BY DEF Form
  <2>3. signer # None =>
          (GivenKey(keyed) = TextOf(ServiceKey)
             <=> GivenKey(o) \in {None, TextOf(ServiceKey)} \/ GivenKey(o) = Null)
    BY KeyedTsKey, TextIsNotNull
  <2>4. Signature(form, signer) = IF signer = None THEN None
                                  ELSE [payload |-> form, key |-> ServiceKey]
    BY DEF Signature
  <2>5. keyed \in Carried
    BY BuiltCarried
  <2> HIDE DEF keyed, form
  <2> QED
    BY <2>1, <2>2, <2>3, <2>4, <2>5 DEF BuiltInv, Valid, Signed, NamesSigner, Side
<1>2. ASSUME NEW o \in Object, NEW signer \in {None, ServiceKey}, BuildRust(o, signer)
      PROVE  BuiltInv'
  <2> DEFINE keyed == KeyedRust(Struct(o), signer)
             form  == RustForm(keyed)
             sign  == IF signer = None THEN Null ELSE Signature(form, signer)
  <2>1. /\ memory' = [object |-> keyed, hash |-> form, signature |-> sign]
        /\ maker' = "rust" /\ origin' = keyed /\ given' = GivenKey(o) /\ ValidRust(keyed)
    BY <1>2 DEF BuildRust, Build
  <2>2. form = Form("rust", keyed)
    BY DEF Form
  <2>3. signer # None =>
          (GivenKey(keyed) = TextOf(ServiceKey)
             <=> GivenKey(o) \in {None, TextOf(ServiceKey)})
    BY KeyedRustKey
  <2>4. sign = IF signer = None THEN Null ELSE [payload |-> form, key |-> ServiceKey]
    BY DEF Signature
  <2>5. keyed \in Carried
    BY BuiltCarried
  <2> HIDE DEF keyed, form, sign
  <2> QED
    BY <2>1, <2>2, <2>3, <2>4, <2>5 DEF BuiltInv, Valid, Signed, NamesSigner, Side
<1>3. ASSUME NEW o \in Object, Carry(o)
      PROVE  BuiltInv'
  <2>1. /\ memory' = [object |-> o, hash |-> memory.hash, signature |-> memory.signature]
        /\ memory # None /\ UNCHANGED <<maker, origin, given>>
    BY <1>3 DEF Carry, BuiltInv
  <2>2. o \in Carried
    BY DEF Carried
  <2> QED
    BY <2>1, <2>2 DEF BuiltInv, Signed, NamesSigner
<1>4. CASE UNCHANGED vars
  BY <1>4 DEF vars, BuiltInv, Signed, NamesSigner
<1> QED
  BY <1>1, <1>2, <1>3, <1>4 DEF Next

(* On both sides and for every canonical form: what was signed where it    *)
(* was built verifies there exactly if it names the signer's key.          *)
THEOREM IdentityBuiltVerifies == Spec => []BuiltVerifies
<1>1. Init => BuiltInv
  BY DEF Init, BuiltInv
<1>2. BuiltInv => BuiltVerifies
  <2> SUFFICES ASSUME BuiltInv, memory # None, memory.object = origin, Signed(memory)
               PROVE  Verdict(maker, memory) = "ok" <=> NamesSigner(maker)
    BY DEF BuiltVerifies, NamesSigner
  <2>1. /\ memory.signature.key = ServiceKey
        /\ memory.signature.payload = Form(maker, memory.object)
        /\ memory.hash = Form(maker, memory.object)
        /\ Valid(maker, memory.object)
        /\ GivenKey(memory.object) = TextOf(ServiceKey) <=> NamesSigner(maker)
    BY DEF BuiltInv
  <2>2. Verifies(maker, memory) <=> NamesSigner(maker)
    BY <2>1 DEF Verifies
  <2>3. CASE maker = "ts"
    BY <2>1, <2>2, <2>3 DEF Verdict, VerdictTs, Valid, Form, Signed
  <2>4. CASE maker = "rust"
    BY <2>1, <2>2, <2>4 DEF Verdict, VerdictRust, Valid, Form, Signed
  <2> QED
    BY <2>3, <2>4 DEF BuiltInv, Side
<1> QED
  BY <1>1, <1>2, BuiltInvStep, PTL DEF Spec

-----------------------------------------------------------------------------
(* The two canonical forms of a plain value are the same.                  *)

Key == Name \cup {None}

(* Both orders rank every name, and code points tell names apart.          *)
LEMMA NameRanks ==
  /\ \A side : \A k \in Name : NameRank(side, k) \in Int
  /\ \A k, l \in Name : NameRank("rust", k) = NameRank("rust", l) => k = l
<1>1. ASSUME NEW side, side # "ts", NEW k \in Name
      PROVE  NameRank(side, k) \in 1 .. 16 /\ CodePointOrder[NameRank(side, k)] = k
  <2>1. DOMAIN CodePointOrder = 1 .. 16
    BY DEF CodePointOrder
  <2>2. \E i \in 1 .. 16 : k = CodePointOrder[i]
    BY <2>1 DEF Name
  <2> QED
    BY <1>1, <2>1, <2>2 DEF NameRank
<1>2. ASSUME NEW k \in Name
      PROVE  NameRank("ts", k) \in Int
  <2>1. DOMAIN TsOrder = 1 .. 14
    BY DEF TsOrder
  <2>2. \E i \in 1 .. 14 : k \in TsOrder[i]
    BY DEF Name, CodePointOrder, TsOrder
  <2>3. NameRank("ts", k) \in 1 .. 14
    BY <2>1, <2>2 DEF NameRank
  <2> QED
    BY <2>3
<1>3. ASSUME NEW side, NEW k \in Name
      PROVE  NameRank(side, k) \in Int
  <2>1. CASE side = "ts"
    BY <1>2, <2>1
  <2>2. CASE side # "ts"
    <3>1. NameRank(side, k) \in 1 .. 16
      BY <1>1, <2>2
    <3> QED
      BY <3>1
  <2> QED
    BY <2>1, <2>2
<1>4. ASSUME NEW k \in Name, NEW l \in Name, NameRank("rust", k) = NameRank("rust", l)
      PROVE  k = l
  <2>1. "rust" # "ts"
    OBVIOUS
  <2>2. CodePointOrder[NameRank("rust", k)] = k /\ CodePointOrder[NameRank("rust", l)] = l
    BY <1>1, <2>1
  <2> QED
    BY <1>4, <2>2
<1> QED
  BY <1>3, <1>4

LEMMA TextRanks ==
  ASSUME NEW side, NEW t \in Text
  PROVE  TextRank(side, t) \in Int
<1>1. t.letter \in Nat
  BY DEF Text
<1>2. LocaleRank(t) \in Int
  BY <1>1 DEF LocaleRank
<1>3. CodePointRank(t) \in Int
  BY <1>1 DEF CodePointRank
<1> QED
  BY <1>2, <1>3 DEF TextRank

LEMMA ChildFacts ==
  ASSUME NEW v \in Value, NEW key \in Key
  PROVE  /\ DOMAIN Children(v, key) = DOMAIN Children(v, None)
         /\ \A i \in DOMAIN Children(v, key) :
              /\ Children(v, key)[i][1] \in Value \cap Parts(v)
              /\ Children(v, key)[i][2] \in Key
<1>1. CASE v = Null
  BY <1>1 DEF Children, Null
<1>2. CASE IsText(v)
  BY <1>2 DEF Children, IsText
<1>3. CASE IsList(v)
  <2>1. v.items \in Seq(Value)
    BY <1>3 DEF IsList
  <2>2. /\ Children(v, key) = [i \in DOMAIN v.items |-> <<v.items[i], key>>]
        /\ Children(v, None) = [i \in DOMAIN v.items |-> <<v.items[i], None>>]
    BY <1>3 DEF IsList, Children
  <2>3. \A i \in DOMAIN v.items : v.items[i] \in Value
    BY <2>1
  <2>4. ASSUME NEW i \in DOMAIN v.items PROVE v.items[i] \in Parts(v)
    <3>1. i \in DOMAIN Children(v, None) /\ Children(v, None)[i][1] = v.items[i]
      BY <2>2
    <3> QED
      BY <3>1 DEF Parts
  <2> QED
    BY <2>2, <2>3, <2>4
<1>4. CASE IsMap(v)
  <2>1. \A i \in DOMAIN v.fields : v.fields[i][1] \in Name /\ v.fields[i][2] \in Value
    BY <1>4, MapFields
  <2>2. /\ Children(v, key) = [i \in DOMAIN v.fields |-> <<v.fields[i][2], v.fields[i][1]>>]
        /\ Children(v, None) = Children(v, key)
    BY <1>4 DEF IsMap, Children
  <2>3. ASSUME NEW i \in DOMAIN v.fields PROVE v.fields[i][2] \in Parts(v)
    <3>1. i \in DOMAIN Children(v, None) /\ Children(v, None)[i][1] = v.fields[i][2]
      BY <2>2
    <3> QED
      BY <3>1 DEF Parts
  <2> QED
    BY <2>1, <2>2, <2>3 DEF Key
<1> QED
  BY <1>1, <1>2, <1>3, <1>4, ValueAssumption

(* Going down a value ends.                                                *)
LEMMA PartsAreSmaller ==
  ASSUME NEW v \in Value, NEW w \in Parts(v)
  PROVE  /\ w \in Value
         /\ Inside(w) \subseteq Inside(v)
         /\ Cardinality(Inside(v)) \in Nat /\ Cardinality(Inside(w)) \in Nat
         /\ Cardinality(Inside(w)) < Cardinality(Inside(v))
<1>1. w \in Value
  <2>1. PICK i \in DOMAIN Children(v, None) : w = Children(v, None)[i][1]
    BY DEF Parts
  <2>2. None \in Key
    BY DEF Key
  <2> QED
    BY <2>1, <2>2, ChildFacts
<1>2. Inside(w) \subseteq Inside(v)
  BY InsideAssumption
<1>3. v \in Inside(v) /\ v \notin Inside(w)
  BY InsideAssumption
<1>4. IsFiniteSet(Inside(v)) /\ IsFiniteSet(Inside(w))
  BY <1>1, InsideAssumption
<1>5. Cardinality(Inside(v)) \in Nat /\ Cardinality(Inside(w)) \in Nat
  BY <1>4, FS_CardinalityType
<1>6. /\ Cardinality(Inside(w)) <= Cardinality(Inside(v))
      /\ Cardinality(Inside(w)) # Cardinality(Inside(v))
  BY <1>2, <1>3, <1>4, FS_Subset
<1> QED
  BY <1>1, <1>2, <1>5, <1>6

(* Both sides do the same with a plain value if their next are the same.   *)
PlainInside(v) == \A w \in Inside(v) : PlainNode(w)
Treatable(v, key) == PlainInside(v) /\ (key = "tags" => PlainTags(v))
Alike(v, key) == Canonical("ts", v, key) = Canonical("rust", v, key)

LEMMA ChildTreatable ==
  ASSUME NEW v \in Value, NEW key \in Key, Treatable(v, key),
         NEW i \in DOMAIN Children(v, key)
  PROVE  Treatable(Children(v, key)[i][1], Children(v, key)[i][2])
<1> DEFINE w == Children(v, key)[i][1]
           k == Children(v, key)[i][2]
<1>1. w \in Parts(v)
  BY ChildFacts
<1>2. PlainInside(w)
  BY <1>1, PartsAreSmaller DEF PlainInside, Treatable
<1>3. PlainNode(v)
  BY InsideAssumption DEF PlainInside, Treatable
<1>4. k = "tags" => PlainTags(w)
  <2>1. CASE v.kind = "list"
    BY <2>1 DEF Children, Treatable, PlainTags
  <2>2. CASE v.kind = "map"
    BY <1>3, <2>2 DEF Children, PlainNode
  <2> QED
    BY <2>1, <2>2 DEF Children
<1> QED
  BY <1>2, <1>4 DEF Treatable

LEMMA AlikeStep ==
  ASSUME NEW v \in Value, NEW key \in Key, Treatable(v, key),
         \A w \in Parts(v), k \in Key : Treatable(w, k) => Alike(w, k)
  PROVE  Alike(v, key)
<1> DEFINE F == Forms("ts", v, key)
<1>1. \A i \in DOMAIN Children(v, key) :
        Canonical("ts", Children(v, key)[i][1], Children(v, key)[i][2])
          = Canonical("rust", Children(v, key)[i][1], Children(v, key)[i][2])
  BY ChildFacts, ChildTreatable DEF Alike
<1>2. F = Forms("rust", v, key)
  BY <1>1 DEF Forms
<1>3. DOMAIN F = DOMAIN Children(v, key)
  BY DEF Forms
<1>4. /\ Canonical("ts", v, key) = Canonicalized("ts", v, key, F)
      /\ Canonical("rust", v, key) = Canonicalized("rust", v, key, F)
  BY <1>2, CanonicalAssumption DEF Side, Key
<1>5. PlainNode(v)
  BY InsideAssumption DEF PlainInside, Treatable
<1>6. SUFFICES Canonicalized("ts", v, key, F) = Canonicalized("rust", v, key, F)
  BY <1>4 DEF Alike
<1>7. CASE v = Null
  BY <1>7 DEF Canonicalized, Null
<1>8. CASE IsText(v)
  BY <1>5, <1>8 DEF Canonicalized, PlainNode, IsText, Normal, Nfc
<1>9. CASE IsList(v)
  <2>1. CASE key # "tags"
    BY <1>9, <2>1 DEF IsList, Canonicalized
  <2>2. CASE key = "tags"
    <3>1. PlainTags(v)
      BY <2>2 DEF Treatable
    <3>2. /\ Children(v, key) = [i \in DOMAIN v.items |-> <<v.items[i], key>>]
          /\ v.kind = "list" /\ v.items \in Seq(Value)
      BY <1>9 DEF IsList, Children
    <3> HIDE DEF F
    <3>3. DOMAIN F = DOMAIN v.items
      BY <1>3, <3>2
    <3>4. ASSUME NEW i \in DOMAIN F
          PROVE  F[i] = TextOf(v.items[i].text) /\ v.items[i].text \in Text
      <4>1. v.items[i] \in Value /\ v.items[i].kind = "text"
        BY <3>1, <3>2, <3>3 DEF PlainTags
      <4>2. IsText(v.items[i])
        BY <4>1, ValueAssumption DEF IsList, IsMap, Null
      <4>3. F[i] = Canonical("rust", v.items[i], key)
        BY <1>2, <3>2, <3>3 DEF Forms
      <4>4. F[i] = Canonicalized("rust", v.items[i], key, Forms("rust", v.items[i], key))
        BY <4>1, <4>3, CanonicalAssumption DEF Side, Key
      <4> QED
        BY <4>1, <4>2, <4>4 DEF Canonicalized, IsText, Normal
    <3>5. ASSUME NEW side, NEW i \in DOMAIN F
          PROVE  TagRank(side, F[i]) = TextRank(side, v.items[i].text)
      BY <3>4 DEF TagRank, TextOf
    <3> DEFINE r(side) == [i \in DOMAIN F |-> TagRank(side, F[i])]
    <3>6. r("ts") \in [DOMAIN F -> Int] /\ r("rust") \in [DOMAIN F -> Int]
      BY <3>4, <3>5, TextRanks
    <3>7. \A i, j \in DOMAIN F : r("ts")[i] < r("ts")[j] <=> r("rust")[i] < r("rust")[j]
      BY <3>1, <3>2, <3>3, <3>5 DEF PlainTags, SameOrder, Side
    <3> HIDE DEF r
    <3>8. Ranked(F, r("ts")) = Ranked(F, r("rust"))
      BY <3>6, <3>7, RankedAlike
    <3> QED
      BY <2>2, <3>2, <3>8 DEF Canonicalized, r
  <2> QED
    BY <2>1, <2>2
<1>10. CASE IsMap(v)
  <2> DEFINE kept == {i \in DOMAIN v.fields : v.fields[i][2] # Null /\ ~IsEmpty(F[i])}
             r(side) == [i \in kept |-> NameRank(side, v.fields[i][1])]
             named == [i \in DOMAIN v.fields |-> <<v.fields[i][1], F[i]>>]
  <2>1. \A side : Canonicalized(side, v, key, F) = Map(Ranked(named, r(side)))
    BY <1>10 DEF Canonicalized, IsMap
  <2>2. \A i \in kept : v.fields[i][1] \in Name
    BY <1>10, MapFields
  <2>3. r("ts") \in [kept -> Int] /\ r("rust") \in [kept -> Int]
    BY <2>2, NameRanks
  <2>4. v.kind = "map"
    BY <1>10 DEF IsMap
  <2>5. \A i, j \in kept : r("ts")[i] < r("ts")[j] <=> r("rust")[i] < r("rust")[j]
    BY <1>5, <2>4 DEF PlainNode, SameOrder, Side
  <2> HIDE DEF r, kept, named
  <2>6. Ranked(named, r("ts")) = Ranked(named, r("rust"))
    BY <2>3, <2>5, RankedAlike
  <2> QED
    BY <2>1, <2>6
<1> QED
  BY <1>7, <1>8, <1>9, <1>10, ValueAssumption

LEMMA LeastNatural ==
  ASSUME NEW T \in SUBSET Nat, T # {}
  PROVE  \E k \in T : \A j \in T : k <= j
<1>1. \E x \in T : \A y \in T : ~(<<y, x>> \in OpToRel(<, Nat))
  <2> DEFINE R == OpToRel(<, Nat)
  <2>1. IsWellFoundedOn(R, Nat)
    BY NatLessThanWellFounded
  <2> HIDE DEF R
  <2>2. \E x \in T : \A y \in T : ~(<<y, x>> \in R)
    BY <2>1, WFMin
  <2> QED
    BY <2>2 DEF R
<1>2. \A x, y \in Nat : ~(<<y, x>> \in OpToRel(<, Nat)) => x <= y
  BY DEF OpToRel
<1> QED
  BY <1>1, <1>2

(* Of any values some have no part among them: induction over values.      *)
LEMMA SmallestValue ==
  ASSUME NEW S \in SUBSET Value, S # {}
  PROVE  \E v \in S : \A w \in Parts(v) : w \notin S
<1> DEFINE Sizes == {Cardinality(Inside(v)) : v \in S}
<1>1. \A v \in Value : Cardinality(Inside(v)) \in Nat
  BY InsideAssumption, FS_CardinalityType
<1>2. Sizes \in SUBSET Nat /\ Sizes # {}
  BY <1>1
<1>3. PICK n \in Sizes : \A m \in Sizes : n <= m
  <2> HIDE DEF Sizes
  <2> QED
    BY <1>2, LeastNatural
<1>4. PICK v \in S : Cardinality(Inside(v)) = n
  OBVIOUS
<1>5. ASSUME NEW w \in Parts(v)
      PROVE  w \notin S
  <2>1. /\ Cardinality(Inside(w)) < n
        /\ Cardinality(Inside(w)) \in Nat /\ n \in Nat
    BY <1>4, PartsAreSmaller
  <2> QED
    BY <1>3, <2>1
<1> QED
  BY <1>5

LEMMA PlainAlike ==
  ASSUME NEW v \in Value, NEW key \in Key, Treatable(v, key)
  PROVE  Alike(v, key)
<1> DEFINE Differ == {w \in Value : \E k \in Key : Treatable(w, k) /\ ~Alike(w, k)}
<1> SUFFICES ASSUME Differ # {} PROVE FALSE
  OBVIOUS
<1>1. PICK w \in Differ : \A x \in Parts(w) : x \notin Differ
  <2> HIDE DEF Differ
  <2>1. Differ \in SUBSET Value
    BY DEF Differ
  <2> QED
    BY <2>1, SmallestValue
<1>2. PICK k \in Key : Treatable(w, k) /\ ~Alike(w, k)
  OBVIOUS
<1>3. \A x \in Parts(w), l \in Key : Treatable(x, l) => Alike(x, l)
  BY <1>1, PartsAreSmaller
<1> QED
  BY <1>2, <1>3, AlikeStep

-----------------------------------------------------------------------------
(* The forms of the items of a list and of the fields of a map.            *)

LEMMA ListForms ==
  ASSUME NEW side \in Side, NEW v \in Value, v.kind = "list", NEW key \in Key
  PROVE  /\ IsList(v) /\ Len(v.items) \in Nat /\ DOMAIN v.items = 1 .. Len(v.items)
         /\ Canonical(side, v, key) = Canonicalized(side, v, key, Forms(side, v, key))
         /\ DOMAIN Forms(side, v, key) = DOMAIN v.items
         /\ \A i \in DOMAIN v.items :
              /\ v.items[i] \in Value \cap Parts(v)
              /\ Forms(side, v, key)[i] = Canonical(side, v.items[i], key)
<1>1. IsList(v)
  BY ValueAssumption DEF IsText, IsMap, Null
<1>2. Children(v, key) = [i \in DOMAIN v.items |-> <<v.items[i], key>>]
  BY DEF Children
<1>3. Canonical(side, v, key) = Canonicalized(side, v, key, Forms(side, v, key))
  BY CanonicalAssumption DEF Key
<1> QED
  BY <1>1, <1>2, <1>3, ChildFacts DEF IsList, Forms

LEMMA MapForms ==
  ASSUME NEW side \in Side, NEW v \in Value, v.kind = "map", NEW key \in Key
  PROVE  /\ IsMap(v) /\ Len(v.fields) \in Nat /\ DOMAIN v.fields = 1 .. Len(v.fields)
         /\ Canonical(side, v, key) = Canonicalized(side, v, key, Forms(side, v, key))
         /\ DOMAIN Forms(side, v, key) = DOMAIN v.fields
         /\ \A i \in DOMAIN v.fields :
              /\ v.fields[i] = <<v.fields[i][1], v.fields[i][2]>>
              /\ v.fields[i][1] \in Name /\ v.fields[i][1] \in Key
              /\ v.fields[i][2] \in Value \cap Parts(v)
              /\ Forms(side, v, key)[i] = Canonical(side, v.fields[i][2], v.fields[i][1])
<1>1. IsMap(v)
  BY ValueAssumption DEF IsText, IsList, Null
<1>2. Children(v, key) = [i \in DOMAIN v.fields |-> <<v.fields[i][2], v.fields[i][1]>>]
  BY DEF Children
<1>3. Canonical(side, v, key) = Canonicalized(side, v, key, Forms(side, v, key))
  BY CanonicalAssumption DEF Key
<1>4. \A i \in DOMAIN v.fields : v.fields[i][2] \in Value \cap Parts(v)
  BY <1>2, ChildFacts
<1> QED
  BY <1>1, <1>2, <1>3, <1>4, MapFields DEF Forms, Key

LEMMA FormFacts ==
  ASSUME NEW side \in Side, NEW v \in Value, NEW key \in Key
  PROVE  /\ Canonical(side, v, key) \in Value
         /\ Canonical(side, v, key).kind = v.kind
<1>1. /\ Canonical(side, v, key) \in Value
      /\ Canonical(side, v, key) = Canonicalized(side, v, key, Forms(side, v, key))
  BY CanonicalAssumption DEF Key
<1> QED
  BY <1>1 DEF Canonicalized, TextOf, List, Map

LEMMA TagRanks ==
  ASSUME NEW side, NEW v \in Value
  PROVE  TagRank(side, v) \in Int
<1>1. v.kind = "text" => v.text \in Text
  BY ValueAssumption DEF IsText, IsList, IsMap, Null
<1> QED
  BY <1>1, TextRanks DEF TagRank

-----------------------------------------------------------------------------
(* What the canonical form of a map depends on.                            *)

Kept(side, m) ==
  {<<m.fields[i][1], Canonical(side, m.fields[i][2], m.fields[i][1])>> :
     i \in {j \in DOMAIN m.fields :
              /\ m.fields[j][2] # Null
              /\ ~IsEmpty(Canonical(side, m.fields[j][2], m.fields[j][1]))}}

KeptPlaces(side, m, key) ==
  {i \in DOMAIN m.fields : m.fields[i][2] # Null /\ ~IsEmpty(Forms(side, m, key)[i])}
KeptRank(side, m, key) ==
  [i \in KeptPlaces(side, m, key) |-> NameRank(side, m.fields[i][1])]
NamedForms(side, m, key) ==
  [i \in DOMAIN m.fields |-> <<m.fields[i][1], Forms(side, m, key)[i]>>]

LEMMA KeptFacts ==
  ASSUME NEW side \in Side, NEW key \in Key, NEW m \in Value, m.kind = "map"
  PROVE  LET D == KeptPlaces(side, m, key)
             rank == KeptRank(side, m, key)
             named == NamedForms(side, m, key)
         IN  /\ Canonical(side, m, key) = Map(Ranked(named, rank))
             /\ D \in SUBSET Nat /\ IsFiniteSet(D) /\ rank \in [D -> Int]
             /\ NamesApart(side, m) => \A i, j \in D : rank[i] = rank[j] => i = j
             /\ \A i, j \in D : named[i] = named[j] => i = j
             /\ \A i \in D : rank[i] = NameRank(side, named[i][1])
             /\ Kept(side, m) = Items(named, D)
<1> DEFINE D == KeptPlaces(side, m, key)
           rank == KeptRank(side, m, key)
           named == NamedForms(side, m, key)
           form(i) == Canonical(side, m.fields[i][2], m.fields[i][1])
<1>1. /\ IsMap(m) /\ Len(m.fields) \in Nat /\ DOMAIN m.fields = 1 .. Len(m.fields)
      /\ Canonical(side, m, key) = Canonicalized(side, m, key, Forms(side, m, key))
      /\ \A i \in DOMAIN m.fields :
           m.fields[i][1] \in Name /\ Forms(side, m, key)[i] = form(i)
      /\ \A i, j \in DOMAIN m.fields : m.fields[i][1] = m.fields[j][1] => i = j
  BY MapForms DEF IsMap
<1>2. Canonical(side, m, key) = Map(Ranked(named, rank))
  BY <1>1 DEF Canonicalized, KeptPlaces, KeptRank, NamedForms
<1>3. D \in SUBSET Nat /\ IsFiniteSet(D)
  <2> DEFINE len == Len(m.fields)
  <2>1. len \in Nat /\ D \in SUBSET (1 .. len)
    BY <1>1 DEF KeptPlaces
  <2> HIDE DEF len
  <2>2. IsFiniteSet(1 .. len)
    BY <2>1, FS_Interval
  <2>3. IsFiniteSet(D)
    BY <2>1, <2>2, FS_Subset
  <2> QED
    BY <2>1, <2>3
<1>4. ASSUME NEW i \in D
      PROVE  /\ m.fields[i][1] \in Name /\ i \in DOMAIN m.fields
             /\ rank[i] = NameRank(side, m.fields[i][1])
             /\ named[i] = <<m.fields[i][1], form(i)>>
             /\ m.fields[i][2] # Null /\ ~IsEmpty(form(i))
  BY <1>1 DEF KeptPlaces, KeptRank, NamedForms
<1>5. DOMAIN rank = D /\ rank = [i \in D |-> rank[i]]
  BY DEF KeptRank
<1>6. \A i \in DOMAIN m.fields : m.fields[i][2] # Null /\ ~IsEmpty(form(i)) => i \in D
  BY <1>1 DEF KeptPlaces
<1> HIDE DEF D, rank, named
<1>7. rank \in [D -> Int]
  BY <1>4, <1>5, NameRanks
<1>8. \A i, j \in D : m.fields[i][1] = m.fields[j][1] => i = j
  BY <1>1, <1>4
<1>9. /\ NamesApart(side, m) => \A i, j \in D : rank[i] = rank[j] => i = j
      /\ \A i, j \in D : named[i] = named[j] => i = j
      /\ \A i \in D : rank[i] = NameRank(side, named[i][1])
  BY <1>4, <1>8 DEF NamesApart
<1>10. /\ \A i \in D : named[i] \in Kept(side, m)
       /\ \A f \in Kept(side, m) : \E i \in D : named[i] = f
  BY <1>4, <1>6 DEF Kept
<1>11. Kept(side, m) = Items(named, D)
  BY <1>10 DEF Items
<1> QED
  BY <1>2, <1>3, <1>7, <1>9, <1>11 DEF D, rank, named

(* The canonical form of a map says which fields are kept, and no more     *)
(* where their names are apart.                                            *)
LEMMA KeptForms ==
  ASSUME NEW side \in Side, NEW key \in Key,
         NEW m \in Value, m.kind = "map", NEW n \in Value, n.kind = "map",
         NamesApart(side, m)
  PROVE  Canonical(side, m, key) = Canonical(side, n, key) <=> Kept(side, m) = Kept(side, n)
<1> DEFINE D == KeptPlaces(side, m, key)
           r == KeptRank(side, m, key)
           s == NamedForms(side, m, key)
           E == KeptPlaces(side, n, key)
           q == KeptRank(side, n, key)
           t == NamedForms(side, n, key)
<1>1. /\ Canonical(side, m, key) = Map(Ranked(s, r))
      /\ D \in SUBSET Nat /\ IsFiniteSet(D) /\ r \in [D -> Int]
      /\ \A i, j \in D : r[i] = r[j] => i = j
      /\ \A i, j \in D : s[i] = s[j] => i = j
      /\ \A i \in D : r[i] = NameRank(side, s[i][1])
      /\ Kept(side, m) = Items(s, D)
  BY KeptFacts
<1>2. /\ Canonical(side, n, key) = Map(Ranked(t, q))
      /\ E \in SUBSET Nat /\ IsFiniteSet(E) /\ q \in [E -> Int]
      /\ \A i, j \in E : t[i] = t[j] => i = j
      /\ \A i \in E : q[i] = NameRank(side, t[i][1])
      /\ Kept(side, n) = Items(t, E)
  BY KeptFacts
<1> HIDE DEF D, r, s, E, q, t
<1>3. ASSUME Kept(side, m) = Kept(side, n)
      PROVE  Canonical(side, m, key) = Canonical(side, n, key)
  <2> DEFINE move == [i \in D |-> CHOOSE j \in E : t[j] = s[i]]
  <2>0. Items(s, D) = Items(t, E)
    BY <1>1, <1>2, <1>3
  <2>1. \A i \in D : \E j \in E : t[j] = s[i]
    BY <2>0 DEF Items
  <2>2. \A i \in D : move[i] \in E /\ t[move[i]] = s[i]
    BY <2>1
  <2>3. move \in [D -> E]
    BY <2>2
  <2> HIDE DEF move
  <2>4. \A i, j \in D : move[i] = move[j] => i = j
    BY <1>1, <2>2
  <2>5. \A j \in E : \E i \in D : move[i] = j
    <3> TAKE j \in E
    <3>1. PICK i \in D : s[i] = t[j]
      BY <2>0 DEF Items
    <3>2. move[i] \in E /\ t[move[i]] = t[j]
      BY <2>2, <3>1
    <3>3. \A k, l \in E : t[k] = t[l] => k = l
      BY <1>2
    <3>4. move[i] = j
      BY <3>2, <3>3
    <3> QED
      BY <3>4
  <2>6. move \in Bijection(D, E)
    BY <2>3, <2>4, <2>5, Fun_IsBij
  <2>7. ASSUME NEW i \in D PROVE q[move[i]] = r[i]
    <3>1. move[i] \in E /\ t[move[i]] = s[i]
      BY <2>2
    <3>2. r[i] = NameRank(side, s[i][1])
      BY <1>1
    <3>3. \A j \in E : q[j] = NameRank(side, t[j][1])
      BY <1>2
    <3> QED
      BY <3>1, <3>2, <3>3
  <2>8. \A i, j \in D : r[i] = r[j] => (i < j <=> move[i] < move[j])
    <3>1. \A i \in D : i \in Nat /\ move[i] \in Nat
      BY <1>1, <1>2, <2>2
    <3> QED
      BY <1>1, <3>1
  <2>9. Ranked(s, r) = Ranked(t, q)
    BY <1>1, <1>2, <2>2, <2>6, <2>7, <2>8, RankedMoved
  <2> QED
    BY <1>1, <1>2, <2>9
<1>4. ASSUME Canonical(side, m, key) = Canonical(side, n, key)
      PROVE  Kept(side, m) = Kept(side, n)
  <2>1. Ranked(s, r) = Ranked(t, q)
    BY <1>1, <1>2, <1>4 DEF Map
  <2>2. Items(Ranked(s, r), DOMAIN Ranked(s, r)) = Items(s, D)
    BY <1>1, RankedItems
  <2>3. Items(Ranked(t, q), DOMAIN Ranked(t, q)) = Items(t, E)
    BY <1>2, RankedItems
  <2>4. Items(s, D) = Items(t, E)
    BY <2>1, <2>2, <2>3
  <2> QED
    BY <1>1, <1>2, <2>4
<1> QED
  BY <1>3, <1>4

Filled(m) == {m.fields[i] : i \in {j \in DOMAIN m.fields : m.fields[j][2] # Null}}

(* The order of the fields of a map and the fields that are null leave no  *)
(* trace in its canonical form where no two fields have names that the     *)
(* side's order cannot tell apart.                                         *)
THEOREM IdentityFieldsInAnyOrder ==
  ASSUME NEW side \in Side, NEW key \in Name \cup {None}, NEW m \in Value, NEW n \in Value,
         IsMap(m), IsMap(n), NamesApart(side, m), Filled(m) = Filled(n)
  PROVE  Canonical(side, m, key) = Canonical(side, n, key)
<1> DEFINE form(f) == Canonical(side, f[2], f[1])
<1>1. ASSUME NEW o
      PROVE  Kept(side, o) = {<<f[1], form(f)>> : f \in {g \in Filled(o) : ~IsEmpty(form(g))}}
  BY DEF Kept, Filled
<1>2. Kept(side, m) = Kept(side, n)
  BY <1>1
<1> QED
  BY <1>2, KeptForms DEF Key, IsMap

(* Code points tell all names apart.                                       *)
LEMMA RustNamesApart ==
  ASSUME NEW m, IsMap(m)
  PROVE  NamesApart("rust", m)
<1>1. \A i \in DOMAIN m.fields : m.fields[i][1] \in Name
  BY DEF IsMap
<1> QED
  BY <1>1, NameRanks DEF IsMap, NamesApart

(* Without keeps the fields that have another name.                        *)
LEMMA WithoutFields ==
  ASSUME NEW m, NEW len \in Nat, DOMAIN m.fields = 1 .. len, NEW k
  PROVE  /\ \A n \in DOMAIN Without(m, k).fields :
              \E i \in DOMAIN m.fields :
                m.fields[i][1] # k /\ Without(m, k).fields[n] = m.fields[i]
         /\ \A i \in DOMAIN m.fields :
              m.fields[i][1] # k =>
                \E n \in DOMAIN Without(m, k).fields : Without(m, k).fields[n] = m.fields[i]
<1> DEFINE D == {j \in DOMAIN m.fields : m.fields[j][1] # k}
           rank == [i \in D |-> 0]
           N == Cardinality(D)
<1>1. D \in SUBSET Nat /\ IsFiniteSet(D)
  <2>1. D \in SUBSET (1 .. len)
    OBVIOUS
  <2>2. IsFiniteSet(1 .. len)
    BY FS_Interval
  <2> HIDE DEF D
  <2>3. IsFiniteSet(D)
    BY <2>1, <2>2, FS_Subset
  <2> QED
    BY <2>1, <2>3
<1>2. Without(m, k).fields = Ranked(m.fields, rank)
  BY DEF Without, Map
<1>3. \A i \in D : i \in DOMAIN m.fields /\ m.fields[i][1] # k
  OBVIOUS
<1>4. \A i \in DOMAIN m.fields : m.fields[i][1] # k => i \in D
  OBVIOUS
<1> HIDE DEF D
<1>5. rank \in [D -> Int] /\ DOMAIN rank = D
  OBVIOUS
<1> HIDE DEF rank
<1>6. Ranked(m.fields, rank) = [n \in 1 .. N |-> m.fields[Nth(rank, n)]]
  BY <1>5 DEF Ranked
<1>7. N \in Nat /\ \A n \in 1 .. N : Nth(rank, n) \in D
  BY <1>1, <1>5, NthFacts
<1>8. \A i \in D : \E n \in 1 .. N : Nth(rank, n) = i
  BY <1>1, <1>5, NthOnto
<1> HIDE DEF N
<1>9. /\ DOMAIN Without(m, k).fields = 1 .. N
      /\ \A n \in 1 .. N : Without(m, k).fields[n] = m.fields[Nth(rank, n)]
  BY <1>2, <1>6
<1>10. \A n \in 1 .. N : Nth(rank, n) \in DOMAIN m.fields /\ m.fields[Nth(rank, n)][1] # k
  BY <1>3, <1>7
<1> QED
  BY <1>4, <1>8, <1>9, <1>10

LEMMA ReducedFields ==
  ASSUME NEW m, NEW len \in Nat, DOMAIN m.fields = 1 .. len
  PROVE  /\ \A n \in DOMAIN Reduced(m).fields :
              \E i \in DOMAIN m.fields :
                m.fields[i][1] # "anchors" /\ Reduced(m).fields[n] = m.fields[i]
         /\ \A i \in DOMAIN m.fields :
              m.fields[i][1] # "anchors" =>
                \E n \in DOMAIN Reduced(m).fields : Reduced(m).fields[n] = m.fields[i]
  BY WithoutFields DEF Reduced

LEMMA FilledReduced ==
  ASSUME NEW m, NEW len \in Nat, DOMAIN m.fields = 1 .. len, NEW f
  PROVE  f \in Filled(Reduced(m)) <=>
           \E i \in DOMAIN m.fields : m.fields[i] = f /\ f[1] # "anchors" /\ f[2] # Null
  BY ReducedFields DEF Filled

-----------------------------------------------------------------------------
(* SubmitterAgrees.                                                        *)

LEMMA CarriedFacts ==
  ASSUME NEW o \in Carried
  PROVE  /\ IsMap(o) /\ o \in Value
         /\ Reduced(o) \in Value /\ IsMap(Reduced(o))
         /\ Reduced(Struct(o)) \in Value /\ IsMap(Reduced(Struct(o)))
<1>1. IsMap(o) /\ o \in Value /\ Reduced(o) \in Value /\ Reduced(Struct(o)) \in Value
  BY ObjectAssumption
<1>2. Reduced(o).kind = "map" /\ Reduced(Struct(o)).kind = "map"
  BY DEF Reduced, Without, Map
<1> QED
  BY <1>1, <1>2, ValueAssumption DEF IsText, IsList, Null

(* Serde leaves a plain object as it is, but for the order of its fields.  *)
LEMMA PlainStruct ==
  ASSUME NEW o \in Carried, Plain(o)
  PROVE  Filled(Reduced(o)) = Filled(Reduced(Struct(o)))
<1> DEFINE S == Struct(o)
<1>1. /\ Len(o.fields) \in Nat /\ DOMAIN o.fields = 1 .. Len(o.fields)
      /\ \A i, j \in DOMAIN o.fields : o.fields[i][1] = o.fields[j][1] => i = j
      /\ \A i \in DOMAIN o.fields : o.fields[i] = <<o.fields[i][1], o.fields[i][2]>>
  BY CarriedFacts, MapFields DEF IsMap
<1>2. ASSUME NEW i \in DOMAIN o.fields
      PROVE  /\ Has(o, o.fields[i][1]) /\ At(o, o.fields[i][1]) = o.fields[i][2]
             /\ o.fields[i][2] # Null
             /\ \E j \in 1 .. 5 : Known[j] = o.fields[i][1]
  <2>1. Has(o, o.fields[i][1]) /\ At(o, o.fields[i][1]) = o.fields[i][2]
    BY <1>1, AtField
  <2> QED
    BY <2>1 DEF Plain, Has, Known
<1>3. /\ DOMAIN S.fields = 1 .. 5
      /\ \A i \in 1 .. 5 :
           S.fields[i] = <<Known[i], IF Has(o, Known[i]) THEN At(o, Known[i]) ELSE Null>>
  BY StructFields
<1> HIDE DEF S
<1>4. \A i \in DOMAIN o.fields : \E j \in DOMAIN S.fields : S.fields[j] = o.fields[i]
  BY <1>1, <1>2, <1>3
<1>5. ASSUME NEW j \in DOMAIN S.fields, S.fields[j][2] # Null
      PROVE  \E i \in DOMAIN o.fields : o.fields[i] = S.fields[j]
  <2>1. Has(o, Known[j]) /\ S.fields[j] = <<Known[j], At(o, Known[j])>>
    BY <1>3, <1>5
  <2>2. PICK i \in DOMAIN o.fields : o.fields[i][1] = Known[j] /\ At(o, Known[j]) = o.fields[i][2]
    BY <2>1, AtKey
  <2> QED
    BY <1>1, <2>1, <2>2
<1>6. ASSUME NEW f
      PROVE  f \in Filled(Reduced(o)) <=>
               \E i \in DOMAIN o.fields : o.fields[i] = f /\ f[1] # "anchors" /\ f[2] # Null
  BY <1>1, FilledReduced
<1>7. ASSUME NEW f
      PROVE  f \in Filled(Reduced(S)) <=>
               \E j \in DOMAIN S.fields : S.fields[j] = f /\ f[1] # "anchors" /\ f[2] # Null
  BY <1>3, FilledReduced
<1>8. \A f : f \in Filled(Reduced(o)) <=> f \in Filled(Reduced(S))
  BY <1>4, <1>5, <1>6, <1>7
<1> QED
  BY <1>8 DEF S

LEMMA PlainReduced ==
  ASSUME NEW o \in Carried, Plain(o)
  PROVE  PlainInside(Reduced(o))
<1> DEFINE r == Reduced(o)
<1>1. /\ IsMap(o) /\ o \in Value /\ r \in Value /\ IsMap(r)
      /\ o.kind = "map" /\ r.kind = "map"
  BY CarriedFacts DEF IsMap
<1>2. \A n \in DOMAIN r.fields : \E i \in DOMAIN o.fields : r.fields[n] = o.fields[i]
  BY <1>1, MapFields, ReducedFields
<1> HIDE DEF r
<1>3. PlainNode(o) /\ PlainInside(o)
  BY <1>1, InsideAssumption DEF Plain, PlainInside
<1>4. PlainNode(r)
  <2>1. \A i \in DOMAIN r.fields : r.fields[i][1] = "tags" => PlainTags(r.fields[i][2])
    BY <1>1, <1>2, <1>3 DEF PlainNode
  <2>2. \A i, j \in DOMAIN o.fields :
          NameRank("ts", o.fields[i][1]) < NameRank("ts", o.fields[j][1])
            <=> NameRank("rust", o.fields[i][1]) < NameRank("rust", o.fields[j][1])
    BY <1>1, <1>3 DEF PlainNode, SameOrder, Side
  <2>3. \A i, j \in DOMAIN r.fields :
          NameRank("ts", r.fields[i][1]) < NameRank("ts", r.fields[j][1])
            <=> NameRank("rust", r.fields[i][1]) < NameRank("rust", r.fields[j][1])
    BY <1>2, <2>2
  <2> QED
    BY <1>1, <2>1, <2>3 DEF PlainNode, SameOrder, Side
<1>5. Parts(r) \subseteq Parts(o)
  <2> SUFFICES ASSUME NEW w \in Parts(r)
               PROVE  w \in Parts(o)
    OBVIOUS
  <2>1. /\ Children(o, None) = [i \in DOMAIN o.fields |-> <<o.fields[i][2], o.fields[i][1]>>]
        /\ Children(r, None) = [i \in DOMAIN r.fields |-> <<r.fields[i][2], r.fields[i][1]>>]
    BY <1>1 DEF Children
  <2>2. PICK n \in DOMAIN r.fields : w = r.fields[n][2]
    BY <2>1 DEF Parts
  <2>3. PICK i \in DOMAIN o.fields : r.fields[n] = o.fields[i]
    BY <1>2
  <2>4. i \in DOMAIN Children(o, None) /\ Children(o, None)[i][1] = w
    BY <2>1, <2>2, <2>3
  <2> QED
    BY <2>4 DEF Parts
<1>6. \A w \in Parts(r) : Inside(w) \subseteq Inside(o)
  BY <1>1, <1>5, PartsAreSmaller
<1>7. Inside(r) = {r} \cup UNION {Inside(w) : w \in Parts(r)}
  BY <1>1, InsideAssumption
<1> QED
  BY <1>3, <1>4, <1>6, <1>7 DEF PlainInside, r

(* Both sides hash and sign the same of a plain object.                    *)
THEOREM IdentityPlainFormsAgree ==
  ASSUME NEW o \in Carried, Plain(o)
  PROVE  TsForm(o) = RustForm(o)
<1>1. Canonical("ts", Reduced(o), None) = Canonical("rust", Reduced(o), None)
  <2>1. None \in Key /\ None # "tags"
    BY NoneAssumption DEF Key, Name, CodePointOrder
  <2>2. Treatable(Reduced(o), None)
    BY <2>1, PlainReduced DEF Treatable
  <2>3. Reduced(o) \in Value
    BY CarriedFacts
  <2> QED
    BY <2>1, <2>2, <2>3, PlainAlike DEF Alike
<1>2. Canonical("rust", Reduced(o), None) = Canonical("rust", Reduced(Struct(o)), None)
  BY CarriedFacts, PlainStruct, RustNamesApart, IdentityFieldsInAnyOrder DEF Side
<1> QED
  BY <1>1, <1>2 DEF TsForm, RustForm

LEMMA PlainValid ==
  ASSUME NEW o, Plain(o), ValidRust(o)
  PROVE  ValidTs(o)
<1>1. \A k : Has(o, k) => At(o, k) # Null
  BY DEF Plain, Has
<1> QED
  BY <1>1 DEF ValidRust, ValidTs

(* Whatever the objects are: a submitter agrees with the SDK about what is *)
(* plain.                                                                  *)
THEOREM IdentitySubmitterAgrees == Spec => []SubmitterAgrees
<1>1. Init => BuiltInv
  BY DEF Init, BuiltInv
<1>2. BuiltInv => SubmitterAgrees
  <2> SUFFICES ASSUME BuiltInv, memory # None, maker = "ts", Signed(memory), Plain(memory.object)
               PROVE  /\ VerdictTs(memory) = "ok" /\ ValidRust(memory.object)
                           => VerdictRust(memory) = "ok"
                      /\ VerdictRust(memory) = "ok"
                           => VerdictTs(memory) \in {"ok", "hash mismatch"}
    BY DEF SubmitterAgrees
  <2>1. TsForm(memory.object) = RustForm(memory.object)
    BY IdentityPlainFormsAgree DEF BuiltInv
  <2>2. Verifies("ts", memory) <=> Verifies("rust", memory)
    BY <2>1 DEF Verifies, Form
  <2>3. ValidRust(memory.object) => ValidTs(memory.object)
    BY PlainValid
  <2> QED
    BY <2>2, <2>3 DEF VerdictTs, VerdictRust, Signed
<1> QED
  BY <1>1, <1>2, BuiltInvStep, PTL DEF Spec

-----------------------------------------------------------------------------
(* What is canonical stays as it is.                                       *)

(* What is sorted comes sorted, and is not touched by sorting it again.    *)
LEMMA RankedIsSorted ==
  ASSUME NEW D \in SUBSET Nat, IsFiniteSet(D), NEW rank \in [D -> Int],
         NEW n \in 1 .. Cardinality(D), NEW m \in 1 .. Cardinality(D), n < m
  PROVE  rank[Nth(rank, n)] <= rank[Nth(rank, m)]
<1>1. /\ Nth(rank, n) \in D /\ Cardinality(Ahead(rank, Nth(rank, n))) = n - 1
      /\ Nth(rank, m) \in D /\ Cardinality(Ahead(rank, Nth(rank, m))) = m - 1
      /\ Cardinality(D) \in Nat
  BY NthFacts
<1>2. rank[Nth(rank, n)] \in Int /\ rank[Nth(rank, m)] \in Int
  BY <1>1
<1> SUFFICES ASSUME rank[Nth(rank, m)] < rank[Nth(rank, n)]
             PROVE  FALSE
  BY <1>2
<1>3. Nth(rank, m) \in Ahead(rank, Nth(rank, n))
  BY <1>1 DEF Ahead
<1>4. m - 1 < n - 1
  BY <1>1, <1>3, AheadGrows
<1> QED
  BY <1>1, <1>4

LEMMA RankedSorted ==
  ASSUME NEW len \in Nat, NEW s, DOMAIN s = 1 .. len, NEW rank \in [1 .. len -> Int],
         \A i, j \in 1 .. len : i < j => rank[i] <= rank[j]
  PROVE  Ranked(s, rank) = [n \in 1 .. len |-> s[n]]
<1>1. ASSUME NEW i \in 1 .. len
      PROVE  Cardinality(Ahead(rank, i)) = i - 1
  <2>1. ASSUME NEW j \in 1 .. len
        PROVE  j \in Ahead(rank, i) <=> j < i
    BY DEF Ahead
  <2>2. Ahead(rank, i) = 1 .. i - 1
    BY <2>1 DEF Ahead
  <2>3. Cardinality(1 .. i - 1) = IF 1 > i - 1 THEN 0 ELSE i - 1 - 1 + 1
    BY FS_Interval
  <2> QED
    BY <2>2, <2>3
<1>2. IsFiniteSet(1 .. len) /\ Cardinality(1 .. len) = len
  <2>1. IsFiniteSet(1 .. len) /\ Cardinality(1 .. len) = IF 1 > len THEN 0 ELSE len - 1 + 1
    BY FS_Interval
  <2> QED
    BY <2>1
<1>3. ASSUME NEW n \in 1 .. len
      PROVE  Nth(rank, n) = n
  <2>1. Nth(rank, n) \in 1 .. len /\ Cardinality(Ahead(rank, Nth(rank, n))) = n - 1
    BY <1>2, NthFacts
  <2>2. Cardinality(Ahead(rank, Nth(rank, n))) = Nth(rank, n) - 1
    BY <1>1, <2>1
  <2> QED
    BY <2>1, <2>2
<1> QED
  BY <1>2, <1>3 DEF Ranked

Stable(side, v, key) == Canonical(side, v, key) = v

LEMMA StableStep ==
  ASSUME NEW side \in Side, NEW v \in Value, NEW key \in Key,
         \A w \in Parts(v), k \in Key : Stable(side, Canonical(side, w, k), k)
  PROVE  Stable(side, Canonical(side, v, key), key)
<1> DEFINE F == Forms(side, v, key)
           u == Canonical(side, v, key)
           G == Forms(side, u, key)
<1>1. /\ u \in Value /\ u.kind = v.kind
      /\ u = Canonicalized(side, v, key, F)
      /\ Canonical(side, u, key) = Canonicalized(side, u, key, G)
  BY FormFacts, CanonicalAssumption DEF Key
<1> HIDE DEF u
<1>2. SUFFICES Canonicalized(side, u, key, G) = u
  BY <1>1 DEF Stable, u
<1>3. CASE v = Null
  BY <1>1, <1>3 DEF Canonicalized, Null
<1>4. CASE IsText(v)
  <2>1. u = TextOf(Normal(side, v.text))
    BY <1>1, <1>4 DEF Canonicalized, IsText
  <2>2. v.text = [letter |-> v.text.letter, upper |-> v.text.upper,
                  accent |-> v.text.accent, hidden |-> v.text.hidden]
    BY <1>4 DEF IsText, Text
  <2>3. Normal(side, Normal(side, v.text)) = Normal(side, v.text)
    BY <2>2 DEF Normal, Nfc
  <2> QED
    BY <2>1, <2>3 DEF Canonicalized, TextOf
<1>5. CASE IsList(v)
  <2>1. /\ v.kind = "list" /\ u.kind = "list"
        /\ DOMAIN F = DOMAIN v.items /\ DOMAIN v.items = 1 .. Len(v.items)
        /\ Len(v.items) \in Nat /\ DOMAIN G = DOMAIN u.items
        /\ F = [i \in DOMAIN F |-> F[i]] /\ G = [i \in DOMAIN G |-> G[i]]
    BY <1>1, <1>5, ListForms DEF IsList, Forms
  <2>2. \A i \in DOMAIN F : F[i] \in Value /\ Canonical(side, F[i], key) = F[i]
    <3>1. \A i \in DOMAIN v.items : F[i] = Canonical(side, v.items[i], key)
                                    /\ v.items[i] \in Value \cap Parts(v)
      BY <2>1, ListForms
    <3> HIDE DEF F
    <3> QED
      BY <2>1, <3>1, FormFacts DEF Stable
  <2>3. \A i \in DOMAIN u.items : G[i] = Canonical(side, u.items[i], key)
    BY <1>1, <2>1, ListForms
  <2> HIDE DEF F, G
  <2>4. CASE key # "tags"
    <3>1. u = List(F)
      BY <1>1, <2>1, <2>4 DEF Canonicalized
    <3>2. u.items = F
      BY <3>1 DEF List
    <3>3. G = F
      BY <2>1, <2>2, <2>3, <3>2
    <3> QED
      BY <2>1, <2>4, <3>1, <3>3 DEF Canonicalized
  <2>5. CASE key = "tags"
    <3> DEFINE r == [i \in DOMAIN F |-> TagRank(side, F[i])]
               R == Ranked(F, r)
               N == Cardinality(DOMAIN F)
               q == [n \in 1 .. N |-> TagRank(side, R[n])]
    <3>1. u = List(R)
      BY <1>1, <2>1, <2>5 DEF Canonicalized
    <3>2. DOMAIN F \in SUBSET Nat /\ IsFiniteSet(DOMAIN F)
      <4> DEFINE len == Len(v.items)
      <4>1. len \in Nat
        BY <2>1
      <4> HIDE DEF len
      <4>2. IsFiniteSet(1 .. len)
        BY <4>1, FS_Interval
      <4> QED
        BY <2>1, <4>2 DEF len
    <3>3. r \in [DOMAIN F -> Int] /\ \A i \in DOMAIN F : r[i] = TagRank(side, F[i])
      BY <2>2, TagRanks
    <3>4. R = [n \in 1 .. N |-> F[Nth(r, n)]]
      BY DEF Ranked
    <3> HIDE DEF r
    <3>5. N \in Nat /\ \A n \in 1 .. N : Nth(r, n) \in DOMAIN F
      BY <3>2, <3>3, NthFacts
    <3> HIDE DEF N, R
    <3>6. \A n \in 1 .. N : R[n] = F[Nth(r, n)] /\ q[n] = r[Nth(r, n)]
      BY <3>3, <3>4, <3>5
    <3>7. u.items = R
      BY <3>1 DEF List
    <3>8. G = R
      BY <2>1, <2>2, <2>3, <3>4, <3>5, <3>6, <3>7
    <3>9. q \in [1 .. N -> Int]
      BY <2>2, <3>5, <3>6, TagRanks
    <3>10. \A n, m \in 1 .. N : n < m => q[n] <= q[m]
      BY <3>2, <3>3, <3>5, <3>6, RankedIsSorted DEF N
    <3>11. Ranked(R, q) = R
      <4>1. DOMAIN R = 1 .. N /\ R = [n \in 1 .. N |-> R[n]]
        BY <3>4
      <4> HIDE DEF q
      <4> QED
        BY <3>5, <3>9, <3>10, <4>1, RankedSorted
    <3>12. q = [n \in DOMAIN R |-> TagRank(side, R[n])]
      BY <3>4
    <3> HIDE DEF q
    <3>13. Canonicalized(side, u, key, R) = List(Ranked(R, q))
      BY <2>1, <2>5, <3>12 DEF Canonicalized
    <3> QED
      BY <3>1, <3>8, <3>11, <3>13
  <2> QED
    BY <2>4, <2>5
<1>6. CASE IsMap(v)
  <2> DEFINE kept == {i \in DOMAIN v.fields : v.fields[i][2] # Null /\ ~IsEmpty(F[i])}
             r == [i \in kept |-> NameRank(side, v.fields[i][1])]
             named == [i \in DOMAIN v.fields |-> <<v.fields[i][1], F[i]>>]
             N == Cardinality(kept)
             R == Ranked(named, r)
             q == [n \in 1 .. N |-> NameRank(side, R[n][1])]
  <2>1. v.kind = "map" /\ u.kind = "map"
    BY <1>1, <1>6 DEF IsMap
  <2>2. u = Map(R)
    BY <1>1, <2>1 DEF Canonicalized
  <2>3. kept \in SUBSET Nat /\ IsFiniteSet(kept)
    <3>1. kept \in SUBSET (1 .. Len(v.fields)) /\ Len(v.fields) \in Nat
      BY <1>6, MapFields
    <3>2. IsFiniteSet(1 .. Len(v.fields))
      BY <3>1, FS_Interval
    <3> HIDE DEF kept
    <3>3. IsFiniteSet(kept)
      BY <3>1, <3>2, FS_Subset
    <3> QED
      BY <3>1, <3>3
  <2>4. \A i \in kept : /\ named[i] = <<v.fields[i][1], F[i]>>
                        /\ v.fields[i][1] \in Name
                        /\ F[i] # Null /\ ~IsEmpty(F[i])
                        /\ Canonical(side, F[i], v.fields[i][1]) = F[i]
    <3>1. \A i \in DOMAIN v.fields :
            /\ v.fields[i][1] \in Name /\ v.fields[i][1] \in Key
            /\ v.fields[i][2] \in Value \cap Parts(v)
            /\ F[i] = Canonical(side, v.fields[i][2], v.fields[i][1])
      BY <2>1, MapForms
    <3> HIDE DEF F
    <3>2. ASSUME NEW i \in DOMAIN v.fields, v.fields[i][2] # Null
          PROVE  F[i] # Null
      <4>1. F[i].kind = v.fields[i][2].kind
        BY <3>1, FormFacts
      <4>2. v.fields[i][2].kind # "null"
        BY <3>1, <3>2, ValueAssumption DEF IsText, IsList, IsMap
      <4> QED
        BY <4>1, <4>2 DEF Null
    <3> QED
      BY <3>1, <3>2 DEF Stable
  <2>5. r \in [kept -> Int] /\ \A i \in kept : r[i] = NameRank(side, v.fields[i][1])
    BY <2>4, NameRanks
  <2>6. R = [n \in 1 .. N |-> named[Nth(r, n)]]
    BY DEF Ranked
  <2>7. u.fields = R
    BY <2>2 DEF Map
  <2>8. /\ DOMAIN G = DOMAIN u.fields /\ G = [i \in DOMAIN G |-> G[i]]
        /\ \A i \in DOMAIN u.fields : G[i] = Canonical(side, u.fields[i][2], u.fields[i][1])
    BY <1>1, <2>1, MapForms DEF Forms
  <2> HIDE DEF kept, r, named, F, G
  <2>9. N \in Nat /\ \A n \in 1 .. N : Nth(r, n) \in kept
    BY <2>3, <2>5, NthFacts
  <2> HIDE DEF N, R
  <2>10. \A n \in 1 .. N :
           /\ R[n] = <<v.fields[Nth(r, n)][1], F[Nth(r, n)]>>
           /\ q[n] = r[Nth(r, n)]
    BY <2>4, <2>5, <2>6, <2>9
  <2>11. \A n \in 1 .. N : G[n] = R[n][2] /\ R[n][2] # Null /\ ~IsEmpty(G[n])
    BY <2>4, <2>6, <2>7, <2>8, <2>9, <2>10
  <2>12. q \in [1 .. N -> Int]
    BY <2>4, <2>9, <2>10, NameRanks
  <2>13. \A n, m \in 1 .. N : n < m => q[n] <= q[m]
    BY <2>3, <2>5, <2>9, <2>10, RankedIsSorted DEF N
  <2>14. DOMAIN R = 1 .. N /\ R = [n \in 1 .. N |-> R[n]]
    BY <2>6
  <2>15. q = [i \in 1 .. N |-> NameRank(side, R[i][1])]
    OBVIOUS
  <2> HIDE DEF q
  <2>16. Ranked(R, q) = R
    BY <2>9, <2>12, <2>13, <2>14, RankedSorted
  <2>17. /\ {i \in DOMAIN R : R[i][2] # Null /\ ~IsEmpty(G[i])} = 1 .. N
         /\ [i \in DOMAIN R |-> <<R[i][1], G[i]>>] = R
    BY <2>10, <2>11, <2>14
  <2>18. Canonicalized(side, u, key, G) =
           Map(Ranked([i \in DOMAIN R |-> <<R[i][1], G[i]>>],
                      [i \in {j \in DOMAIN R : R[j][2] # Null /\ ~IsEmpty(G[j])} |->
                         NameRank(side, R[i][1])]))
    BY <2>1, <2>7 DEF Canonicalized
  <2> QED
    BY <2>2, <2>15, <2>16, <2>17, <2>18
<1> QED
  BY <1>3, <1>4, <1>5, <1>6, ValueAssumption

(* On both sides, whatever the value: its canonical form is its own.       *)
THEOREM IdentityCanonicalIsStable ==
  ASSUME NEW side \in Side, NEW v \in Value, NEW key \in Name \cup {None}
  PROVE  Canonical(side, Canonical(side, v, key), key) = Canonical(side, v, key)
<1> DEFINE Moving == {w \in Value : \E k \in Key : ~Stable(side, Canonical(side, w, k), k)}
<1>1. SUFFICES ASSUME Moving # {} PROVE FALSE
  BY DEF Stable, Key
<1>2. PICK w \in Moving : \A x \in Parts(w) : x \notin Moving
  <2> HIDE DEF Moving
  <2>1. Moving \in SUBSET Value
    BY DEF Moving
  <2> QED
    BY <1>1, <2>1, SmallestValue
<1>3. PICK k \in Key : ~Stable(side, Canonical(side, w, k), k)
  OBVIOUS
<1>4. \A x \in Parts(w), l \in Key : Stable(side, Canonical(side, x, l), l)
  BY <1>2, PartsAreSmaller
<1> QED
  BY <1>3, <1>4, StableStep

-----------------------------------------------------------------------------
(* What a value says.                                                      *)

IsLeaf(l) == l = [path |-> l.path, value |-> l.value]
Leaf(p, x) == [path |-> p, value |-> x]

LEMMA PathsDiffer == \A a, b : <<a, b>> # <<>>
  OBVIOUS

LEMMA BehindLeaves ==
  ASSUME NEW s, NEW S, \A l \in S : IsLeaf(l)
  PROVE  /\ \A l \in Behind(s, S) : IsLeaf(l) /\ l.path = <<s, l.path[2]>>
         /\ \A t, p, x : Leaf(<<t, p>>, x) \in Behind(s, S) <=> t = s /\ Leaf(p, x) \in S
<1>1. \A l \in Behind(s, S) : IsLeaf(l) /\ l.path = <<s, l.path[2]>>
  BY DEF Behind, IsLeaf
<1>2. ASSUME NEW t, NEW p, NEW x, Leaf(<<t, p>>, x) \in Behind(s, S)
      PROVE  t = s /\ Leaf(p, x) \in S
  <2>1. PICK l \in S : Leaf(<<t, p>>, x) = [path |-> <<s, l.path>>, value |-> l.value]
    BY <1>2 DEF Behind
  <2>2. <<t, p>> = <<s, l.path>> /\ x = l.value
    BY <2>1 DEF Leaf
  <2> QED
    BY <2>2 DEF IsLeaf, Leaf
<1>3. ASSUME NEW p, NEW x, Leaf(p, x) \in S
      PROVE  Leaf(<<s, p>>, x) \in Behind(s, S)
  <2>1. [path |-> <<s, Leaf(p, x).path>>, value |-> Leaf(p, x).value] \in Behind(s, S)
    BY <1>3 DEF Behind
  <2> QED
    BY <2>1 DEF Leaf
<1> QED
  BY <1>1, <1>2, <1>3

LEMMA SameLeaves ==
  ASSUME NEW S, NEW T, \A l \in S : IsLeaf(l), \A l \in T : IsLeaf(l),
         \A p, x : Leaf(p, x) \in S <=> Leaf(p, x) \in T
  PROVE  S = T
<1>1. \A l \in S : l \in T
  BY DEF IsLeaf, Leaf
<1>2. \A l \in T : l \in S
  BY DEF IsLeaf, Leaf
<1> QED
  BY <1>1, <1>2

LEMMA EndLeaves == \A v : \A l \in End(v) : IsLeaf(l) /\ l.path = <<>> /\ l.value = v
  BY DEF End, IsLeaf

LEMMA StepsDiffer == \A k, n, l, m : Step(k, n) = Step(l, m) => k = l /\ n = m
  BY DEF Step

(* An item of a list says at least what kind of value it is.               *)
Item(side, v, key) ==
  IF Leaves(side, v, key) # {} THEN Leaves(side, v, key) ELSE End([kind |-> v.kind])

Tag(side, v, i) == Normal(side, v.items[i].text)
Times(side, v, i) == Cardinality({j \in DOMAIN v.items : Tag(side, v, j) = Tag(side, v, i)})

LEMMA LeavesSaid ==
  ASSUME NEW side \in Side, NEW v \in Value, NEW key \in Key
  PROVE  /\ v.kind = "map" =>
              Leaves(side, v, key) =
                UNION {Behind(Step(v.fields[i][1], 0),
                              Leaves(side, v.fields[i][2], v.fields[i][1])) :
                         i \in {j \in DOMAIN v.fields : v.fields[j][2] # Null}}
         /\ v.kind = "list" /\ key = "tags" /\ TextsOnly(v) =>
              Leaves(side, v, key) =
                UNION {Behind(Step(None, Times(side, v, i)), End(TextOf(Tag(side, v, i)))) :
                         i \in DOMAIN v.items}
         /\ v.kind = "list" /\ ~(key = "tags" /\ TextsOnly(v)) =>
              Leaves(side, v, key) =
                UNION {Behind(Step(None, i), Item(side, v.items[i], key)) : i \in DOMAIN v.items}
         /\ v.kind = "text" => Leaves(side, v, key) = End(TextOf(Normal(side, v.text)))
         /\ v.kind = "null" => Leaves(side, v, key) = End(v)
<1> DEFINE next == Sayings(side, v, key)
<1>1. Leaves(side, v, key) = Said(side, v, key, next)
  BY LeavesAssumption DEF Key
<1>2. ASSUME v.kind = "map"
      PROVE  \A i \in DOMAIN v.fields : next[i] = Leaves(side, v.fields[i][2], v.fields[i][1])
  <2>1. Children(v, key) = [j \in DOMAIN v.fields |-> <<v.fields[j][2], v.fields[j][1]>>]
    BY <1>2 DEF Children
  <2> QED
    BY <2>1 DEF Sayings
<1>3. ASSUME v.kind = "list"
      PROVE  \A i \in DOMAIN v.items : next[i] = Leaves(side, v.items[i], key)
  <2>1. Children(v, key) = [j \in DOMAIN v.items |-> <<v.items[j], key>>]
    BY <1>3 DEF Children
  <2> QED
    BY <2>1 DEF Sayings
<1> HIDE DEF next
<1>4. CASE v.kind = "map"
  BY <1>1, <1>2, <1>4 DEF Said
<1>5. CASE v.kind = "list" /\ key = "tags" /\ TextsOnly(v)
  BY <1>1, <1>5 DEF Said, Tag, Times
<1>6. CASE v.kind = "list" /\ ~(key = "tags" /\ TextsOnly(v))
  <2>1. \A i \in DOMAIN v.items :
          Item(side, v.items[i], key) =
            IF next[i] # {} THEN next[i] ELSE End([kind |-> v.items[i].kind])
    BY <1>3, <1>6 DEF Item
  <2> QED
    BY <1>1, <1>6, <2>1 DEF Said
<1>7. CASE v.kind \notin {"map", "list"}
  BY <1>1, <1>7 DEF Said
<1> QED
  BY <1>4, <1>5, <1>6, <1>7

(* The path of a leaf tells what kind of value it is in.                   *)
LEMMA LeafShape ==
  ASSUME NEW side \in Side, NEW v \in Value, NEW key \in Key, NEW l \in Leaves(side, v, key)
  PROVE  /\ IsLeaf(l)
         /\ v.kind \in {"text", "null"} => l.path = <<>> /\ l.value.kind = v.kind
         /\ v.kind = "list" => \E n, p : l.path = <<Step(None, n), p>>
         /\ v.kind = "map"  => \E k \in Name : \E p : l.path = <<Step(k, 0), p>>
<1>1. \A s, S : \A m \in Behind(s, S) : IsLeaf(m) /\ \E p : m.path = <<s, p>>
  BY DEF Behind, IsLeaf
<1>2. CASE v.kind = "map"
  <2>1. PICK i \in DOMAIN v.fields :
          l \in Behind(Step(v.fields[i][1], 0), Leaves(side, v.fields[i][2], v.fields[i][1]))
    BY <1>2, LeavesSaid
  <2>2. v.fields[i][1] \in Name
    BY <1>2, MapForms
  <2> QED
    BY <1>1, <1>2, <2>1, <2>2
<1>3. CASE v.kind = "list"
  <2>1. \E n, S : l \in Behind(Step(None, n), S)
    BY <1>3, LeavesSaid
  <2> QED
    BY <1>1, <1>3, <2>1
<1>4. CASE v.kind = "text"
  <2>1. Leaves(side, v, key) = End(TextOf(Normal(side, v.text)))
    BY <1>4, LeavesSaid
  <2>2. l.path = <<>> /\ IsLeaf(l) /\ l.value = TextOf(Normal(side, v.text))
    BY <2>1, EndLeaves
  <2> QED
    BY <1>4, <2>2 DEF TextOf
<1>5. CASE v.kind = "null"
  <2>1. Leaves(side, v, key) = End(v)
    BY <1>5, LeavesSaid
  <2>2. l.path = <<>> /\ IsLeaf(l) /\ l.value = v
    BY <2>1, EndLeaves
  <2> QED
    BY <1>5, <2>2
<1>6. v.kind \in {"text", "null", "list", "map"}
  BY ValueAssumption DEF IsText, IsList, IsMap, Null
<1> QED
  BY <1>2, <1>3, <1>4, <1>5, <1>6

LEMMA KindSaid ==
  ASSUME NEW side \in Side, NEW v \in Value, NEW w \in Value, NEW key \in Key,
         Leaves(side, v, key) = Leaves(side, w, key), Leaves(side, v, key) # {}
  PROVE  v.kind = w.kind
<1>1. PICK l : l \in Leaves(side, v, key) /\ l \in Leaves(side, w, key)
  OBVIOUS
<1>2. v.kind \in {"text", "null", "list", "map"} /\ w.kind \in {"text", "null", "list", "map"}
  BY ValueAssumption DEF IsText, IsList, IsMap, Null
<1>3. \A k \in Name : \A n, m : Step(k, n) # Step(None, m)
  BY StepsDiffer, NoneAssumption
<1>4. \A k \in Name : \A n, p, q : <<Step(k, 0), p>> # <<Step(None, n), q>>
  BY <1>3
<1>5. /\ v.kind \in {"text", "null"} => l.path = <<>> /\ l.value.kind = v.kind
      /\ v.kind = "list" => \E n, p : l.path = <<Step(None, n), p>>
      /\ v.kind = "map"  => \E k \in Name : \E p : l.path = <<Step(k, 0), p>>
  BY <1>1, LeafShape
<1>6. /\ w.kind \in {"text", "null"} => l.path = <<>> /\ l.value.kind = w.kind
      /\ w.kind = "list" => \E n, p : l.path = <<Step(None, n), p>>
      /\ w.kind = "map"  => \E k \in Name : \E p : l.path = <<Step(k, 0), p>>
  BY <1>1, LeafShape
<1> QED
  BY <1>2, <1>4, <1>5, <1>6, PathsDiffer

LEMMA MapSays ==
  ASSUME NEW side \in Side, NEW v \in Value, v.kind = "map", NEW key \in Key,
         NEW t, NEW p, NEW x
  PROVE  Leaf(<<t, p>>, x) \in Leaves(side, v, key) <=>
           \E i \in DOMAIN v.fields :
             /\ v.fields[i][2] # Null /\ t = Step(v.fields[i][1], 0)
             /\ Leaf(p, x) \in Leaves(side, v.fields[i][2], v.fields[i][1])
<1> DEFINE D == {j \in DOMAIN v.fields : v.fields[j][2] # Null}
           step == [i \in D |-> Step(v.fields[i][1], 0)]
           inside == [i \in D |-> Leaves(side, v.fields[i][2], v.fields[i][1])]
<1> DEFINE said == Leaves(side, v, key)
<1>0. \A i \in D : /\ step[i] = Step(v.fields[i][1], 0)
                 /\ inside[i] = Leaves(side, v.fields[i][2], v.fields[i][1])
  OBVIOUS
<1>1. \A i \in D : \A l \in inside[i] : IsLeaf(l)
  BY MapForms, LeafShape
<1> HIDE DEF step, inside
<1>2. said = UNION {Behind(step[i], inside[i]) : i \in D}
  BY <1>0, LeavesSaid
<1> HIDE DEF D, said
<1>3. Leaf(<<t, p>>, x) \in said <=>
        \E i \in D : t = step[i] /\ Leaf(p, x) \in inside[i]
  <2>1. ASSUME Leaf(<<t, p>>, x) \in said
        PROVE  \E i \in D : t = step[i] /\ Leaf(p, x) \in inside[i]
    <3>1. PICK i \in D : Leaf(<<t, p>>, x) \in Behind(step[i], inside[i])
      BY <1>2, <2>1
    <3> QED
      BY <1>1, <3>1, BehindLeaves
  <2>2. ASSUME NEW i \in D, t = step[i], Leaf(p, x) \in inside[i]
        PROVE  Leaf(<<t, p>>, x) \in said
    <3>1. Leaf(<<t, p>>, x) \in Behind(step[i], inside[i])
      BY <1>1, <2>2, BehindLeaves
    <3> QED
      BY <1>2, <3>1
  <2> QED
    BY <2>1, <2>2
<1>4. Leaf(<<t, p>>, x) \in said <=>
        \E i \in D : t = Step(v.fields[i][1], 0) /\ Leaf(p, x) \in Leaves(side, v.fields[i][2], v.fields[i][1])
  BY <1>0, <1>3
<1> QED
  BY <1>4 DEF D, said

LEMMA ListSays ==
  ASSUME NEW side \in Side, NEW v \in Value, v.kind = "list", NEW key \in Key,
         ~(key = "tags" /\ TextsOnly(v)), NEW t, NEW p, NEW x
  PROVE  Leaf(<<t, p>>, x) \in Leaves(side, v, key) <=>
           \E i \in DOMAIN v.items :
             t = Step(None, i) /\ Leaf(p, x) \in Item(side, v.items[i], key)
<1> DEFINE D == DOMAIN v.items
           step == [i \in D |-> Step(None, i)]
           inside == [i \in D |-> Item(side, v.items[i], key)]
<1> DEFINE said == Leaves(side, v, key)
<1>0. \A i \in D : /\ step[i] = Step(None, i)
                 /\ inside[i] = Item(side, v.items[i], key)
  OBVIOUS
<1>1. \A i \in D : \A l \in inside[i] : IsLeaf(l)
  BY ListForms, LeafShape, EndLeaves DEF Item
<1> HIDE DEF step, inside
<1>2. said = UNION {Behind(step[i], inside[i]) : i \in D}
  BY <1>0, LeavesSaid
<1> HIDE DEF D, said
<1>3. Leaf(<<t, p>>, x) \in said <=>
        \E i \in D : t = step[i] /\ Leaf(p, x) \in inside[i]
  <2>1. ASSUME Leaf(<<t, p>>, x) \in said
        PROVE  \E i \in D : t = step[i] /\ Leaf(p, x) \in inside[i]
    <3>1. PICK i \in D : Leaf(<<t, p>>, x) \in Behind(step[i], inside[i])
      BY <1>2, <2>1
    <3> QED
      BY <1>1, <3>1, BehindLeaves
  <2>2. ASSUME NEW i \in D, t = step[i], Leaf(p, x) \in inside[i]
        PROVE  Leaf(<<t, p>>, x) \in said
    <3>1. Leaf(<<t, p>>, x) \in Behind(step[i], inside[i])
      BY <1>1, <2>2, BehindLeaves
    <3> QED
      BY <1>2, <3>1
  <2> QED
    BY <2>1, <2>2
<1>4. Leaf(<<t, p>>, x) \in said <=>
        \E i \in D : t = Step(None, i) /\ Leaf(p, x) \in Item(side, v.items[i], key)
  BY <1>0, <1>3
<1> QED
  BY <1>4 DEF D, said

LEMMA TagsSay ==
  ASSUME NEW side \in Side, NEW v \in Value, v.kind = "list", TextsOnly(v),
         NEW t, NEW p, NEW x
  PROVE  Leaf(<<t, p>>, x) \in Leaves(side, v, "tags") <=>
           \E i \in DOMAIN v.items :
             t = Step(None, Times(side, v, i)) /\ p = <<>> /\ x = TextOf(Tag(side, v, i))
<1> DEFINE D == DOMAIN v.items
           step == [i \in D |-> Step(None, Times(side, v, i))]
           inside == [i \in D |-> End(TextOf(Tag(side, v, i)))]
<1>0. \A i \in D : /\ step[i] = Step(None, Times(side, v, i))
                 /\ inside[i] = End(TextOf(Tag(side, v, i)))
  OBVIOUS
<1>1. \A i \in D : \A l \in inside[i] : IsLeaf(l)
  BY EndLeaves
<1>2. "tags" \in Key
  BY DEF Key, Name, CodePointOrder
<1> HIDE DEF step, inside
<1>3. Leaves(side, v, "tags") = UNION {Behind(step[i], inside[i]) : i \in D}
  BY <1>0, <1>2, LeavesSaid
<1>4. \A i \in D : Leaf(p, x) \in inside[i] <=> p = <<>> /\ x = TextOf(Tag(side, v, i))
  BY <1>0 DEF End, Leaf
<1> HIDE DEF D
<1>6. Leaf(<<t, p>>, x) \in Leaves(side, v, "tags") <=>
        \E i \in D : t = step[i] /\ Leaf(p, x) \in inside[i]
  <2>1. ASSUME Leaf(<<t, p>>, x) \in Leaves(side, v, "tags")
        PROVE  \E i \in D : t = step[i] /\ Leaf(p, x) \in inside[i]
    <3>1. PICK i \in D : Leaf(<<t, p>>, x) \in Behind(step[i], inside[i])
      BY <1>3, <2>1
    <3> QED
      BY <1>1, <3>1, BehindLeaves
  <2>2. ASSUME NEW i \in D, t = step[i], Leaf(p, x) \in inside[i]
        PROVE  Leaf(<<t, p>>, x) \in Leaves(side, v, "tags")
    <3>1. Leaf(<<t, p>>, x) \in Behind(step[i], inside[i])
      BY <1>1, <2>2, BehindLeaves
    <3> QED
      BY <1>3, <3>1
  <2> QED
    BY <2>1, <2>2
<1> QED
  BY <1>0, <1>4, <1>6 DEF D

-----------------------------------------------------------------------------
(* What says nothing is what is empty.                                     *)

LEMMA EmptyIsEmpty ==
  /\ \A f : f = [x \in DOMAIN f |-> f[x]] => (f = <<>> <=> DOMAIN f = {})
  /\ \A f : IsEmpty(List(f)) <=> f = <<>>
  /\ \A f : IsEmpty(Map(f)) <=> f = <<>>
  /\ \A v : v.kind \notin {"list", "map"} => ~IsEmpty(v)
<1>1. DOMAIN <<>> = {}
  OBVIOUS
<1>2. ASSUME NEW f, f = [x \in DOMAIN f |-> f[x]], DOMAIN f = {}
      PROVE  f = <<>>
  BY <1>2
<1>3. \A f, g : List(f) # Map(g)
  <2>1. \A f, g : List(f).kind = "list" /\ Map(g).kind = "map"
    BY DEF List, Map
  <2> QED
    BY <2>1
<1>4. \A f, g : (List(f) = List(g) => f = g) /\ (Map(f) = Map(g) => f = g)
  <2>1. \A f : List(f).items = f /\ Map(f).fields = f
    BY DEF List, Map
  <2> QED
    BY <2>1
<1>5. \A v : v.kind \notin {"list", "map"} => ~IsEmpty(v)
  <2>1. List(<<>>).kind = "list" /\ Map(<<>>).kind = "map"
    BY DEF List, Map
  <2> QED
    BY <2>1 DEF IsEmpty
<1> QED
  BY <1>1, <1>2, <1>3, <1>4, <1>5 DEF IsEmpty

LEMMA EmptyList ==
  ASSUME NEW side \in Side, NEW v \in Value, v.kind = "list", NEW key \in Key
  PROVE  IsEmpty(Canonical(side, v, key)) <=> DOMAIN v.items = {}
<1> DEFINE F == Forms(side, v, key)
           len == Len(v.items)
<1>1. /\ Canonical(side, v, key) = Canonicalized(side, v, key, F)
      /\ DOMAIN F = DOMAIN v.items /\ DOMAIN v.items = 1 .. len /\ len \in Nat
      /\ F = [i \in DOMAIN F |-> F[i]]
  BY ListForms DEF Forms
<1> HIDE DEF F, len
<1>2. CASE key # "tags"
  <2>1. Canonical(side, v, key) = List(F)
    BY <1>1, <1>2 DEF Canonicalized
  <2> QED
    BY <1>1, <2>1, EmptyIsEmpty
<1>3. CASE key = "tags"
  <2> DEFINE r == [i \in DOMAIN F |-> TagRank(side, F[i])]
             R == Ranked(F, r)
  <2>1. Canonical(side, v, key) = List(R)
    BY <1>1, <1>3 DEF Canonicalized
  <2>2. Cardinality(1 .. len) = IF 1 > len THEN 0 ELSE len - 1 + 1
    BY <1>1, FS_Interval
  <2>3. DOMAIN r = 1 .. len
    BY <1>1
  <2> HIDE DEF r
  <2>4. Cardinality(DOMAIN r) = len
    BY <1>1, <2>2, <2>3
  <2>5. R = [n \in 1 .. len |-> F[Nth(r, n)]]
    BY <2>4 DEF Ranked
  <2> HIDE DEF R
  <2>6. DOMAIN R = DOMAIN v.items /\ R = [i \in DOMAIN R |-> R[i]]
    BY <1>1, <2>5
  <2> QED
    BY <2>1, <2>6, EmptyIsEmpty
<1> QED
  BY <1>2, <1>3

LEMMA EmptyMap ==
  ASSUME NEW side \in Side, NEW v \in Value, v.kind = "map", NEW key \in Key
  PROVE  IsEmpty(Canonical(side, v, key)) <=> Kept(side, v) = {}
<1> DEFINE D == KeptPlaces(side, v, key)
           r == KeptRank(side, v, key)
           s == NamedForms(side, v, key)
           N == Cardinality(D)
<1>1. /\ Canonical(side, v, key) = Map(Ranked(s, r))
      /\ IsFiniteSet(D) /\ r \in [D -> Int]
      /\ Kept(side, v) = Items(s, D)
  BY KeptFacts
<1> HIDE DEF r, s, D
<1>2. Ranked(s, r) = [n \in 1 .. N |-> s[Nth(r, n)]]
  BY <1>1 DEF Ranked
<1>3. N \in Nat /\ (N = 0 <=> D = {})
  BY <1>1, FS_CardinalityType, FS_EmptySet
<1> HIDE DEF N
<1>4. DOMAIN Ranked(s, r) = {} <=> N = 0
  BY <1>2, <1>3
<1>5. Ranked(s, r) = [n \in DOMAIN Ranked(s, r) |-> Ranked(s, r)[n]]
  BY <1>2
<1>6. IsEmpty(Canonical(side, v, key)) <=> DOMAIN Ranked(s, r) = {}
  BY <1>1, <1>5, EmptyIsEmpty
<1>7. Items(s, D) = {} <=> D = {}
  BY DEF Items
<1> QED
  BY <1>1, <1>3, <1>4, <1>6, <1>7

Silent(side, v, key) == IsEmpty(Canonical(side, v, key)) <=> Leaves(side, v, key) = {}

LEMMA SilentStep ==
  ASSUME NEW side \in Side, NEW v \in Value, NEW key \in Key,
         \A w \in Parts(v), k \in Key : Silent(side, w, k)
  PROVE  Silent(side, v, key)
<1>1. \A s, S : Behind(s, S) = {} <=> S = {}
  BY DEF Behind
<1>2. \A x : End(x) # {}
  BY DEF End
<1>3. CASE v.kind \in {"text", "null"}
  <2>1. Canonical(side, v, key).kind = v.kind
    BY FormFacts
  <2>2. Leaves(side, v, key) # {}
    BY <1>2, <1>3, LeavesSaid
  <2> QED
    BY <1>3, <2>1, <2>2, EmptyIsEmpty DEF Silent
<1>4. CASE v.kind = "list"
  <2>1. Leaves(side, v, key) = {} <=> DOMAIN v.items = {}
    <3>1. CASE key = "tags" /\ TextsOnly(v)
      <4>1. Leaves(side, v, key) =
              UNION {Behind(Step(None, Times(side, v, i)), End(TextOf(Tag(side, v, i)))) :
                       i \in DOMAIN v.items}
        BY <1>4, <3>1, LeavesSaid
      <4> QED
        BY <1>1, <1>2, <4>1
    <3>2. CASE ~(key = "tags" /\ TextsOnly(v))
      <4>1. Leaves(side, v, key) =
              UNION {Behind(Step(None, i), Item(side, v.items[i], key)) : i \in DOMAIN v.items}
        BY <1>4, <3>2, LeavesSaid
      <4>2. \A i : Item(side, v.items[i], key) # {}
        BY <1>2 DEF Item
      <4> QED
        BY <1>1, <4>1, <4>2
    <3> QED
      BY <3>1, <3>2
  <2> QED
    BY <1>4, <2>1, EmptyList DEF Silent
<1>5. CASE v.kind = "map"
  <2> DEFINE inside(i) == Leaves(side, v.fields[i][2], v.fields[i][1])
             form(i) == Canonical(side, v.fields[i][2], v.fields[i][1])
  <2>1. Leaves(side, v, key) = UNION {Behind(Step(v.fields[i][1], 0), inside(i)) :
                                        i \in {j \in DOMAIN v.fields : v.fields[j][2] # Null}}
    BY <1>5, LeavesSaid
  <2>2. \A i \in DOMAIN v.fields : IsEmpty(form(i)) <=> inside(i) = {}
    BY <1>5, MapForms DEF Silent
  <2>3. Kept(side, v) = {<<v.fields[i][1], form(i)>> :
                           i \in {j \in DOMAIN v.fields : v.fields[j][2] # Null /\ ~IsEmpty(form(j))}}
    BY DEF Kept
  <2> HIDE DEF inside, form
  <2>4. Leaves(side, v, key) = {} <=> \A i \in DOMAIN v.fields : v.fields[i][2] = Null \/ inside(i) = {}
    BY <1>1, <2>1
  <2>5. Kept(side, v) = {} <=> \A i \in DOMAIN v.fields : v.fields[i][2] = Null \/ IsEmpty(form(i))
    BY <2>3
  <2> QED
    BY <1>5, <2>2, <2>4, <2>5, EmptyMap DEF Silent
<1> QED
  BY <1>3, <1>4, <1>5, ValueAssumption DEF IsText, IsList, IsMap, Null

LEMMA EmptyIsSilent ==
  ASSUME NEW side \in Side, NEW v \in Value, NEW key \in Key
  PROVE  Silent(side, v, key)
<1> DEFINE Wrong == {w \in Value : \E k \in Key : ~Silent(side, w, k)}
<1>1. SUFFICES ASSUME Wrong # {} PROVE FALSE
  OBVIOUS
<1>2. PICK w \in Wrong : \A x \in Parts(w) : x \notin Wrong
  <2> HIDE DEF Wrong
  <2>1. Wrong \in SUBSET Value
    BY DEF Wrong
  <2> QED
    BY <1>1, <2>1, SmallestValue
<1>3. PICK k \in Key : ~Silent(side, w, k)
  OBVIOUS
<1>4. \A x \in Parts(w), l \in Key : Silent(side, x, l)
  BY <1>2, PartsAreSmaller
<1> QED
  BY <1>3, <1>4, SilentStep

-----------------------------------------------------------------------------
(* Values have the same canonical form exactly if they say the same.       *)

ClearFor(side, v, key) == Clear(side, v) /\ (key = "tags" => ClearTags(side, v))

Told(side, v, w, key) ==
  v.kind = w.kind /\ Leaves(side, v, key) = Leaves(side, w, key)
    <=> Canonical(side, v, key) = Canonical(side, w, key)

PartsTold(side, v) ==
  \A x \in Parts(v), y \in Value, k \in Key : ClearFor(side, x, k) => Told(side, x, y, k)

LEMMA ClearParts ==
  ASSUME NEW side \in Side, NEW v \in Value, NEW key \in Key, ClearFor(side, v, key)
  PROVE  /\ \A w \in Parts(v) : Clear(side, w)
         /\ v.kind = "map" =>
              \A i \in DOMAIN v.fields : ClearFor(side, v.fields[i][2], v.fields[i][1])
         /\ v.kind = "list" => \A i \in DOMAIN v.items : ClearFor(side, v.items[i], key)
<1>1. \A w \in Parts(v) : Clear(side, w)
  BY PartsAreSmaller DEF Clear, ClearFor
<1>2. ASSUME v.kind = "map", NEW i \in DOMAIN v.fields
      PROVE  ClearFor(side, v.fields[i][2], v.fields[i][1])
  <2>1. v \in Inside(v)
    BY InsideAssumption
  <2>2. v.fields[i][1] = "tags" => ClearTags(side, v.fields[i][2])
    BY <1>2, <2>1 DEF Clear, ClearFor
  <2>3. v.fields[i][2] \in Parts(v)
    BY <1>2, MapForms
  <2> QED
    BY <1>1, <2>2, <2>3 DEF ClearFor
<1>3. ASSUME v.kind = "list", NEW i \in DOMAIN v.items
      PROVE  ClearFor(side, v.items[i], key)
  <2>1. v.items[i] \in Parts(v)
    BY <1>3, ListForms
  <2>2. key = "tags" => v.items[i].kind = "text"
    BY <1>3 DEF ClearFor, ClearTags, TextsOnly
  <2> QED
    BY <1>1, <2>1, <2>2 DEF ClearFor, ClearTags
<1> QED
  BY <1>1, <1>2, <1>3

(* A field that says something is found in the other map.                  *)
LEMMA FieldSaid ==
  ASSUME NEW side \in Side, NEW key \in Key,
         NEW v \in Value, v.kind = "map", NEW w \in Value, w.kind = "map",
         Leaves(side, v, key) = Leaves(side, w, key),
         NEW i \in DOMAIN v.fields, v.fields[i][2] # Null,
         Leaves(side, v.fields[i][2], v.fields[i][1]) # {}
  PROVE  \E j \in DOMAIN w.fields :
           /\ w.fields[j][2] # Null /\ w.fields[j][1] = v.fields[i][1]
           /\ Leaves(side, w.fields[j][2], w.fields[j][1])
                = Leaves(side, v.fields[i][2], v.fields[i][1])
<1> DEFINE k == v.fields[i][1]
           S == Leaves(side, v.fields[i][2], v.fields[i][1])
           inside(j) == Leaves(side, w.fields[j][2], w.fields[j][1])
<1>1. /\ \A l \in S : IsLeaf(l)
      /\ \A j \in DOMAIN w.fields : \A l \in inside(j) : IsLeaf(l)
      /\ \A j \in DOMAIN v.fields : v.fields[j][1] = k => j = i
      /\ \A j, l \in DOMAIN w.fields : w.fields[j][1] = w.fields[l][1] => j = l
  BY MapForms, LeafShape DEF IsMap
<1>2. ASSUME NEW p, NEW x
      PROVE  Leaf(<<Step(k, 0), p>>, x) \in Leaves(side, v, key) <=> Leaf(p, x) \in S
  <2>1. Leaf(<<Step(k, 0), p>>, x) \in Leaves(side, v, key) <=>
          \E j \in DOMAIN v.fields :
            /\ v.fields[j][2] # Null /\ Step(k, 0) = Step(v.fields[j][1], 0)
            /\ Leaf(p, x) \in Leaves(side, v.fields[j][2], v.fields[j][1])
    BY MapSays
  <2> QED
    BY <1>1, <2>1, StepsDiffer
<1>3. ASSUME NEW p, NEW x
      PROVE  Leaf(<<Step(k, 0), p>>, x) \in Leaves(side, w, key) <=>
               \E j \in DOMAIN w.fields :
                 w.fields[j][2] # Null /\ w.fields[j][1] = k /\ Leaf(p, x) \in inside(j)
  <2>1. Leaf(<<Step(k, 0), p>>, x) \in Leaves(side, w, key) <=>
          \E j \in DOMAIN w.fields :
            /\ w.fields[j][2] # Null /\ Step(k, 0) = Step(w.fields[j][1], 0)
            /\ Leaf(p, x) \in Leaves(side, w.fields[j][2], w.fields[j][1])
    BY MapSays
  <2> QED
    BY <2>1, StepsDiffer
<1>4. PICK l \in S : IsLeaf(l)
  BY <1>1
<1>5. l = Leaf(l.path, l.value)
  BY <1>4 DEF IsLeaf, Leaf
<1> HIDE DEF S, inside, k
<1>6. PICK j \in DOMAIN w.fields : w.fields[j][2] # Null /\ w.fields[j][1] = k
  <2>1. Leaf(l.path, l.value) \in S
    BY <1>5
  <2>2. Leaf(<<Step(k, 0), l.path>>, l.value) \in Leaves(side, w, key)
    BY <1>2, <2>1
  <2> QED
    BY <1>3, <2>2
<1>7. ASSUME NEW p, NEW x
      PROVE  Leaf(p, x) \in S <=> Leaf(p, x) \in inside(j)
  BY <1>1, <1>2, <1>3, <1>6
<1>8. S = inside(j)
  BY <1>1, <1>7, SameLeaves
<1> QED
  BY <1>6, <1>8 DEF S, inside, k

LEMMA MapsTold ==
  ASSUME NEW side \in Side, NEW key \in Key,
         NEW v \in Value, v.kind = "map", NEW w \in Value, w.kind = "map",
         ClearFor(side, v, key), PartsTold(side, v)
  PROVE  Leaves(side, v, key) = Leaves(side, w, key)
           <=> Canonical(side, v, key) = Canonical(side, w, key)
<1> DEFINE Lv(i) == Leaves(side, v.fields[i][2], v.fields[i][1])
           Lw(i) == Leaves(side, w.fields[i][2], w.fields[i][1])
           Cv(i) == Canonical(side, v.fields[i][2], v.fields[i][1])
           Cw(i) == Canonical(side, w.fields[i][2], w.fields[i][1])
           V == {i \in DOMAIN v.fields : v.fields[i][2] # Null}
           W == {i \in DOMAIN w.fields : w.fields[i][2] # Null}
<1>1. /\ \A i \in V : IsEmpty(Cv(i)) <=> Lv(i) = {}
      /\ \A i \in W : IsEmpty(Cw(i)) <=> Lw(i) = {}
  <2>1. \A i \in V : v.fields[i][2] \in Value /\ v.fields[i][1] \in Key
    BY MapForms
  <2>2. \A i \in W : w.fields[i][2] \in Value /\ w.fields[i][1] \in Key
    BY MapForms
  <2> QED
    BY <2>1, <2>2, EmptyIsSilent DEF Silent
<1>2. ASSUME NEW i \in V, NEW j \in W, v.fields[i][1] = w.fields[j][1]
      PROVE  /\ Cv(i) = Cw(j) => Lv(i) = Lw(j)
             /\ Lv(i) = Lw(j) /\ Lv(i) # {} => Cv(i) = Cw(j)
  <2>1. /\ v.fields[i][2] \in Value \cap Parts(v) /\ v.fields[i][1] \in Key
        /\ w.fields[j][2] \in Value
    BY MapForms
  <2>2. ClearFor(side, v.fields[i][2], v.fields[i][1])
    BY ClearParts
  <2>3. Told(side, v.fields[i][2], w.fields[j][2], v.fields[i][1])
    BY <2>1, <2>2 DEF PartsTold
  <2>4. Lv(i) = Lw(j) /\ Lv(i) # {} => v.fields[i][2].kind = w.fields[j][2].kind
    BY <1>2, <2>1, KindSaid
  <2> QED
    BY <1>2, <2>3, <2>4 DEF Told
<1>3. /\ Kept(side, v) = {<<v.fields[i][1], Cv(i)>> : i \in {j \in V : ~IsEmpty(Cv(j))}}
      /\ Kept(side, w) = {<<w.fields[i][1], Cw(i)>> : i \in {j \in W : ~IsEmpty(Cw(j))}}
  BY DEF Kept
<1>4. /\ Leaves(side, v, key) = UNION {Behind(Step(v.fields[i][1], 0), Lv(i)) : i \in V}
      /\ Leaves(side, w, key) = UNION {Behind(Step(w.fields[i][1], 0), Lw(i)) : i \in W}
  BY LeavesSaid
<1>5. ASSUME Leaves(side, v, key) = Leaves(side, w, key)
      PROVE  /\ \A i \in V : Lv(i) # {} =>
                  \E j \in W : w.fields[j][1] = v.fields[i][1] /\ Lw(j) = Lv(i)
             /\ \A j \in W : Lw(j) # {} =>
                  \E i \in V : v.fields[i][1] = w.fields[j][1] /\ Lv(i) = Lw(j)
  <2>1. ASSUME NEW i \in V, Lv(i) # {}
        PROVE  \E j \in W : w.fields[j][1] = v.fields[i][1] /\ Lw(j) = Lv(i)
    BY <1>5, <2>1, FieldSaid
  <2>2. ASSUME NEW j \in W, Lw(j) # {}
        PROVE  \E i \in V : v.fields[i][1] = w.fields[j][1] /\ Lv(i) = Lw(j)
    BY <1>5, <2>2, FieldSaid
  <2> QED
    BY <2>1, <2>2
<1> HIDE DEF Lv, Lw, Cv, Cw, V, W
<1>6. ASSUME Leaves(side, v, key) = Leaves(side, w, key)
      PROVE  Kept(side, v) = Kept(side, w)
  <2>1. ASSUME NEW i \in V, ~IsEmpty(Cv(i))
        PROVE  \E j \in W : w.fields[j][1] = v.fields[i][1] /\ Cw(j) = Cv(i)
    <3>1. Lv(i) # {}
      BY <1>1, <2>1
    <3>2. PICK j \in W : w.fields[j][1] = v.fields[i][1] /\ Lw(j) = Lv(i)
      BY <1>5, <1>6, <3>1
    <3> QED
      BY <1>2, <3>1, <3>2
  <2>2. ASSUME NEW j \in W, ~IsEmpty(Cw(j))
        PROVE  \E i \in V : v.fields[i][1] = w.fields[j][1] /\ Cv(i) = Cw(j)
    <3>1. Lw(j) # {}
      BY <1>1, <2>2
    <3>2. PICK i \in V : v.fields[i][1] = w.fields[j][1] /\ Lv(i) = Lw(j)
      BY <1>5, <1>6, <3>1
    <3> QED
      BY <1>2, <3>1, <3>2
  <2>3. \A f \in Kept(side, v) : f \in Kept(side, w)
    BY <1>3, <2>1
  <2>4. \A f \in Kept(side, w) : f \in Kept(side, v)
    BY <1>3, <2>2
  <2> QED
    BY <2>3, <2>4
<1>7. ASSUME Kept(side, v) = Kept(side, w)
      PROVE  Leaves(side, v, key) = Leaves(side, w, key)
  <2>1. ASSUME NEW i \in V, Lv(i) # {}
        PROVE  \E j \in W : w.fields[j][1] = v.fields[i][1] /\ Lw(j) = Lv(i)
    <3>1. <<v.fields[i][1], Cv(i)>> \in Kept(side, w)
      BY <1>1, <1>3, <1>7, <2>1
    <3>2. PICK j \in W : w.fields[j][1] = v.fields[i][1] /\ Cw(j) = Cv(i)
      BY <1>3, <3>1
    <3> QED
      BY <1>2, <3>2
  <2>2. ASSUME NEW j \in W, Lw(j) # {}
        PROVE  \E i \in V : v.fields[i][1] = w.fields[j][1] /\ Lv(i) = Lw(j)
    <3>1. <<w.fields[j][1], Cw(j)>> \in Kept(side, v)
      BY <1>1, <1>3, <1>7, <2>2
    <3>2. PICK i \in V : v.fields[i][1] = w.fields[j][1] /\ Cv(i) = Cw(j)
      BY <1>3, <3>1
    <3> QED
      BY <1>2, <3>2
  <2>3. \A s, S : Behind(s, S) = {} <=> S = {}
    BY DEF Behind
  <2>4. \A l \in Leaves(side, v, key) : l \in Leaves(side, w, key)
    BY <1>4, <2>1, <2>3
  <2>5. \A l \in Leaves(side, w, key) : l \in Leaves(side, v, key)
    BY <1>4, <2>2, <2>3
  <2> QED
    BY <2>4, <2>5
<1>8. NamesApart(side, v)
  BY InsideAssumption DEF ClearFor, Clear
<1> QED
  BY <1>6, <1>7, <1>8, KeptForms

LEMMA ItemsTold ==
  ASSUME NEW side \in Side, NEW key \in Key, NEW v \in Value, NEW w \in Value
  PROVE  Item(side, v, key) = Item(side, w, key)
           <=> v.kind = w.kind /\ Leaves(side, v, key) = Leaves(side, w, key)
<1> DEFINE L == Leaves(side, v, key)
           M == Leaves(side, w, key)
<1>1. ASSUME NEW x \in Value, Leaves(side, x, key) = {}
      PROVE  x.kind \in {"list", "map"}
  <2>1. \A y : End(y) # {}
    BY DEF End
  <2> QED
    BY <1>1, <2>1, LeavesSaid, ValueAssumption DEF IsText, IsList, IsMap, Null
<1>2. ASSUME NEW y, NEW z, End(y) = End(z)
      PROVE  y = z
  <2>1. [path |-> <<>>, value |-> y] \in End(z)
    BY <1>2 DEF End
  <2>2. [path |-> <<>>, value |-> y].value = z
    BY <2>1, EndLeaves
  <2> QED
    BY <2>2
<1>3. \A k, l : [kind |-> k] = [kind |-> l] => k = l
  <2>1. \A k : [kind |-> k].kind = k
    OBVIOUS
  <2> QED
    BY <2>1
<1>4. ASSUME NEW x \in Value, NEW y \in Value, Leaves(side, x, key) # {},
             Leaves(side, x, key) = End([kind |-> y.kind])
      PROVE  y.kind \notin {"list", "map"}
  <2>1. PICK l : l \in Leaves(side, x, key)
    BY <1>4
  <2>2. l.path = <<>> /\ l.value.kind = y.kind
    BY <1>4, <2>1, EndLeaves
  <2>3. x.kind \in {"text", "null", "list", "map"}
    BY ValueAssumption DEF IsText, IsList, IsMap, Null
  <2>4. x.kind \in {"text", "null"}
    BY <2>1, <2>2, <2>3, LeafShape, PathsDiffer
  <2>5. l.value.kind = x.kind
    BY <2>1, <2>4, LeafShape
  <2> QED
    BY <2>2, <2>4, <2>5
<1> HIDE DEF L, M
<1>5. Item(side, v, key) = IF L # {} THEN L ELSE End([kind |-> v.kind])
  BY DEF Item, L
<1>6. Item(side, w, key) = IF M # {} THEN M ELSE End([kind |-> w.kind])
  BY DEF Item, M
<1>7. CASE L # {} /\ M # {}
  BY <1>5, <1>6, <1>7, KindSaid DEF L, M
<1>8. CASE L = {} /\ M = {}
  BY <1>2, <1>3, <1>5, <1>6, <1>8 DEF L, M
<1>9. CASE L # {} /\ M = {}
  <2>1. Item(side, v, key) # Item(side, w, key)
    BY <1>1, <1>4, <1>5, <1>6, <1>9 DEF L, M
  <2> QED
    BY <1>9, <2>1 DEF L, M
<1>10. CASE L = {} /\ M # {}
  <2>1. Item(side, v, key) # Item(side, w, key)
    BY <1>1, <1>4, <1>5, <1>6, <1>10 DEF L, M
  <2> QED
    BY <1>10, <2>1 DEF L, M
<1> QED
  BY <1>7, <1>8, <1>9, <1>10

(* Lists whose order counts.                                               *)
LEMMA ListsTold ==
  ASSUME NEW side \in Side, NEW key \in Key, key # "tags",
         NEW v \in Value, v.kind = "list", NEW w \in Value, w.kind = "list",
         ClearFor(side, v, key), PartsTold(side, v)
  PROVE  Leaves(side, v, key) = Leaves(side, w, key)
           <=> Canonical(side, v, key) = Canonical(side, w, key)
<1> DEFINE F == Forms(side, v, key)
           G == Forms(side, w, key)
           n == Len(v.items)
           m == Len(w.items)
           Iv(i) == Item(side, v.items[i], key)
           Iw(i) == Item(side, w.items[i], key)
<1>1. /\ n \in Nat /\ DOMAIN v.items = 1 .. n /\ DOMAIN F = 1 .. n
      /\ m \in Nat /\ DOMAIN w.items = 1 .. m /\ DOMAIN G = 1 .. m
      /\ F = [i \in DOMAIN F |-> F[i]] /\ G = [i \in DOMAIN G |-> G[i]]
  BY ListForms DEF Forms
<1>2. Canonical(side, v, key) = List(F) /\ Canonical(side, w, key) = List(G)
  <2>1. /\ Canonical(side, v, key) = Canonicalized(side, v, key, F)
        /\ Canonical(side, w, key) = Canonicalized(side, w, key, G)
    BY ListForms
  <2> HIDE DEF F, G
  <2> QED
    BY <2>1 DEF Canonicalized
<1>3. Canonical(side, v, key) = Canonical(side, w, key) <=> F = G
  <2>1. List(F).items = F /\ List(G).items = G
    BY DEF List
  <2> QED
    BY <1>2, <2>1
<1>4. ASSUME NEW i \in 1 .. n, i \in 1 .. m
      PROVE  Iv(i) = Iw(i) <=> F[i] = G[i]
  <2>1. /\ v.items[i] \in Value \cap Parts(v) /\ F[i] = Canonical(side, v.items[i], key)
        /\ w.items[i] \in Value /\ G[i] = Canonical(side, w.items[i], key)
    BY <1>1, <1>4, ListForms
  <2>2. ClearFor(side, v.items[i], key)
    BY <1>1, ClearParts
  <2>3. Told(side, v.items[i], w.items[i], key)
    BY <2>1, <2>2 DEF PartsTold
  <2>4. Iv(i) = Iw(i) <=> v.items[i].kind = w.items[i].kind
                          /\ Leaves(side, v.items[i], key) = Leaves(side, w.items[i], key)
    BY <2>1, ItemsTold
  <2> QED
    BY <2>1, <2>3, <2>4 DEF Told
<1>5. ASSUME NEW i \in Nat, NEW p, NEW x
      PROVE  /\ Leaf(<<Step(None, i), p>>, x) \in Leaves(side, v, key)
                  <=> i \in 1 .. n /\ Leaf(p, x) \in Iv(i)
             /\ Leaf(<<Step(None, i), p>>, x) \in Leaves(side, w, key)
                  <=> i \in 1 .. m /\ Leaf(p, x) \in Iw(i)
  <2>1. Leaf(<<Step(None, i), p>>, x) \in Leaves(side, v, key) <=>
          \E j \in DOMAIN v.items :
            Step(None, i) = Step(None, j) /\ Leaf(p, x) \in Item(side, v.items[j], key)
    BY ListSays
  <2>2. Leaf(<<Step(None, i), p>>, x) \in Leaves(side, w, key) <=>
          \E j \in DOMAIN w.items :
            Step(None, i) = Step(None, j) /\ Leaf(p, x) \in Item(side, w.items[j], key)
    BY ListSays
  <2> QED
    BY <1>1, <2>1, <2>2, StepsDiffer
<1>6. /\ \A i \in 1 .. n : Iv(i) # {} /\ \A l \in Iv(i) : IsLeaf(l)
      /\ \A i \in 1 .. m : Iw(i) # {} /\ \A l \in Iw(i) : IsLeaf(l)
  <2>1. \A x : End(x) # {}
    BY DEF End
  <2>2. /\ \A i \in 1 .. n : v.items[i] \in Value
        /\ \A i \in 1 .. m : w.items[i] \in Value
    BY <1>1, ListForms
  <2>3. \A x \in Value : Item(side, x, key) # {} /\ \A l \in Item(side, x, key) : IsLeaf(l)
    BY <2>1, LeafShape, EndLeaves DEF Item
  <2> QED
    BY <2>2, <2>3
<1>7. /\ Leaves(side, v, key) = UNION {Behind(Step(None, i), Iv(i)) : i \in 1 .. n}
      /\ Leaves(side, w, key) = UNION {Behind(Step(None, i), Iw(i)) : i \in 1 .. m}
  BY <1>1, LeavesSaid
<1> HIDE DEF F, G, n, m, Iv, Iw
<1>8. ASSUME F = G
      PROVE  Leaves(side, v, key) = Leaves(side, w, key)
  <2>1. n = m
    BY <1>1, <1>8
  <2>2. \A i \in 1 .. n : Iv(i) = Iw(i)
    BY <1>4, <1>8, <2>1
  <2> QED
    BY <1>7, <2>1, <2>2
<1>9. ASSUME Leaves(side, v, key) = Leaves(side, w, key)
      PROVE  F = G
  <2>1. ASSUME NEW i \in Nat PROVE i \in 1 .. n <=> i \in 1 .. m
    <3>1. \A S : S # {} /\ (\A l \in S : IsLeaf(l)) => \E p, x : Leaf(p, x) \in S
      <4>1. \A l : IsLeaf(l) => l = Leaf(l.path, l.value)
        BY DEF IsLeaf, Leaf
      <4> QED
        BY <4>1
    <3> QED
      BY <1>5, <1>6, <1>9, <3>1
  <2>2. n = m
    BY <1>1, <2>1
  <2>3. ASSUME NEW i \in 1 .. n PROVE Iv(i) = Iw(i)
    <3>1. i \in Nat /\ i \in 1 .. m
      BY <1>1, <2>2
    <3>2. \A p, x : Leaf(p, x) \in Iv(i) <=> Leaf(p, x) \in Iw(i)
      BY <1>5, <1>9, <3>1
    <3> QED
      BY <1>6, <3>1, <3>2, SameLeaves
  <2>4. \A i \in 1 .. n : F[i] = G[i]
    BY <1>4, <2>2, <2>3
  <2> QED
    BY <1>1, <2>2, <2>4
<1> QED
  BY <1>3, <1>8, <1>9

-----------------------------------------------------------------------------
(* Tags, of which it counts how often each occurs.                         *)

TagForms(side, v) == Forms(side, v, "tags")
RankOfTags(side, v) == [i \in DOMAIN TagForms(side, v) |-> TagRank(side, TagForms(side, v)[i])]

LEMMA TagFacts ==
  ASSUME NEW side \in Side, NEW v \in Value, v.kind = "list"
  PROVE  LET F == TagForms(side, v)
             r == RankOfTags(side, v)
             len == Len(v.items)
         IN  /\ len \in Nat /\ DOMAIN v.items = 1 .. len /\ DOMAIN F = 1 .. len
             /\ r \in [1 .. len -> Int]
             /\ \A i \in 1 .. len : r[i] = TagRank(side, F[i])
             /\ \A i \in 1 .. len : F[i].kind = v.items[i].kind
             /\ Canonical(side, v, "tags") = List(Ranked(F, r))
<1> DEFINE F == TagForms(side, v)
           r == RankOfTags(side, v)
           len == Len(v.items)
<1>0. "tags" \in Key
  BY DEF Key, Name, CodePointOrder
<1>1. /\ len \in Nat /\ DOMAIN v.items = 1 .. len /\ DOMAIN F = 1 .. len
      /\ Canonical(side, v, "tags") = Canonicalized(side, v, "tags", F)
      /\ \A i \in 1 .. len : v.items[i] \in Value /\ F[i] = Canonical(side, v.items[i], "tags")
  BY <1>0, ListForms DEF TagForms
<1>2. \A i \in 1 .. len : F[i] \in Value /\ F[i].kind = v.items[i].kind
  BY <1>0, <1>1, FormFacts
<1>3. Canonical(side, v, "tags") = List(Ranked(F, r))
  BY <1>1 DEF Canonicalized, RankOfTags
<1>4. r = [i \in 1 .. len |-> TagRank(side, F[i])]
  BY <1>1 DEF RankOfTags
<1>5. r \in [1 .. len -> Int]
  BY <1>2, <1>4, TagRanks
<1> QED
  BY <1>1, <1>2, <1>3, <1>4, <1>5

LEMMA TagTexts ==
  ASSUME NEW side \in Side, NEW v \in Value, v.kind = "list", TextsOnly(v)
  PROVE  \A i \in DOMAIN v.items :
           /\ TagForms(side, v)[i] = TextOf(Tag(side, v, i))
           /\ TagRank(side, TagForms(side, v)[i]) = TextRank(side, Tag(side, v, i))
           /\ Times(side, v, i) = Count(TagForms(side, v), TagForms(side, v)[i])
<1> DEFINE F == TagForms(side, v)
<1>0. "tags" \in Key
  BY DEF Key, Name, CodePointOrder
<1>1. \A i \in DOMAIN v.items : v.items[i] \in Value /\ F[i] = Canonical(side, v.items[i], "tags")
  BY <1>0, ListForms DEF TagForms
<1>2. DOMAIN F = DOMAIN v.items
  BY <1>0, ListForms DEF TagForms
<1> HIDE DEF F
<1>3. ASSUME NEW i \in DOMAIN v.items
      PROVE  F[i] = TextOf(Tag(side, v, i))
  <2>1. v.items[i].kind = "text"
    BY DEF TextsOnly
  <2>2. F[i] = Canonicalized(side, v.items[i], "tags", Forms(side, v.items[i], "tags"))
    BY <1>0, <1>1, CanonicalAssumption DEF Key
  <2> QED
    BY <2>1, <2>2 DEF Canonicalized, Tag
<1>4. \A t : TextOf(t).kind = "text" /\ TextOf(t).text = t
  BY DEF TextOf
<1>5. \A i \in DOMAIN v.items : TagRank(side, F[i]) = TextRank(side, Tag(side, v, i))
  BY <1>3, <1>4 DEF TagRank
<1>6. ASSUME NEW i \in DOMAIN v.items
      PROVE  Times(side, v, i) = Count(F, F[i])
  <2>1. \A j \in DOMAIN v.items : Tag(side, v, j) = Tag(side, v, i) <=> F[j] = F[i]
    BY <1>3, <1>4
  <2>2. {j \in DOMAIN v.items : Tag(side, v, j) = Tag(side, v, i)} = Class(F, F[i])
    BY <1>2, <2>1 DEF Class
  <2> QED
    BY <2>2 DEF Times, Count
<1> QED
  BY <1>3, <1>5, <1>6 DEF F

LEMMA TagLeaves ==
  ASSUME NEW side \in Side, NEW v \in Value, v.kind = "list", TextsOnly(v),
         NEW t, NEW p, NEW x
  PROVE  Leaf(<<t, p>>, x) \in Leaves(side, v, "tags") <=>
           /\ \E i \in DOMAIN v.items : TagForms(side, v)[i] = x
           /\ t = Step(None, Count(TagForms(side, v), x)) /\ p = <<>>
<1>1. Leaf(<<t, p>>, x) \in Leaves(side, v, "tags") <=>
        \E i \in DOMAIN v.items :
          t = Step(None, Times(side, v, i)) /\ p = <<>> /\ x = TextOf(Tag(side, v, i))
  BY TagsSay
<1> QED
  BY <1>1, TagTexts

(* Equal counts and equal sayings.                                         *)
LEMMA TagCounts ==
  ASSUME NEW side \in Side,
         NEW v \in Value, v.kind = "list", TextsOnly(v),
         NEW w \in Value, w.kind = "list", TextsOnly(w)
  PROVE  Leaves(side, v, "tags") = Leaves(side, w, "tags")
           <=> \A x : Count(TagForms(side, v), x) = Count(TagForms(side, w), x)
<1> DEFINE F == TagForms(side, v)
           G == TagForms(side, w)
           n == Len(v.items)
           m == Len(w.items)
           L == Leaves(side, v, "tags")
           M == Leaves(side, w, "tags")
<1>1. /\ n \in Nat /\ DOMAIN v.items = 1 .. n /\ DOMAIN F = 1 .. n
      /\ m \in Nat /\ DOMAIN w.items = 1 .. m /\ DOMAIN G = 1 .. m
  BY TagFacts
<1>2. ASSUME NEW t, NEW p, NEW x
      PROVE  /\ Leaf(<<t, p>>, x) \in L <=>
                  (\E i \in 1 .. n : F[i] = x) /\ t = Step(None, Count(F, x)) /\ p = <<>>
             /\ Leaf(<<t, p>>, x) \in M <=>
                  (\E i \in 1 .. m : G[i] = x) /\ t = Step(None, Count(G, x)) /\ p = <<>>
  BY <1>1, TagLeaves
<1>3. /\ \A l \in L : \E t, p, x : l = Leaf(<<t, p>>, x)
      /\ \A l \in M : \E t, p, x : l = Leaf(<<t, p>>, x)
  <2>1. "tags" \in Key
    BY DEF Key, Name, CodePointOrder
  <2>2. \A l \in L : IsLeaf(l) /\ \E t, p : l.path = <<t, p>>
    BY <2>1, LeafShape
  <2>3. \A l \in M : IsLeaf(l) /\ \E t, p : l.path = <<t, p>>
    BY <2>1, LeafShape
  <2> QED
    BY <2>2, <2>3 DEF IsLeaf, Leaf
<1> HIDE DEF F, G, n, m, L, M
<1>4. /\ \A x : (\E i \in 1 .. n : F[i] = x) <=> Count(F, x) # 0
      /\ \A x : (\E i \in 1 .. m : G[i] = x) <=> Count(G, x) # 0
  <2>1. \A x : /\ IsFiniteSet(Class(F, x)) /\ IsFiniteSet(Class(G, x))
               /\ Count(F, x) = Cardinality(Class(F, x)) /\ Count(G, x) = Cardinality(Class(G, x))
    BY <1>1, ClassFacts DEF Count
  <2>2. \A x : (Count(F, x) = 0 <=> Class(F, x) = {}) /\ (Count(G, x) = 0 <=> Class(G, x) = {})
    BY <2>1, FS_EmptySet
  <2> QED
    BY <1>1, <2>2 DEF Class
<1>5. ASSUME L = M, NEW x
      PROVE  Count(F, x) = Count(G, x)
  <2>1. CASE \E i \in 1 .. n : F[i] = x
    <3>1. Leaf(<<Step(None, Count(F, x)), <<>> >>, x) \in M
      BY <1>2, <1>5, <2>1
    <3> QED
      BY <1>2, <3>1, StepsDiffer
  <2>2. CASE \E i \in 1 .. m : G[i] = x
    <3>1. Leaf(<<Step(None, Count(G, x)), <<>> >>, x) \in L
      BY <1>2, <1>5, <2>2
    <3> QED
      BY <1>2, <3>1, StepsDiffer
  <2>3. CASE ~(\E i \in 1 .. n : F[i] = x) /\ ~(\E i \in 1 .. m : G[i] = x)
    BY <1>4, <2>3
  <2> QED
    BY <2>1, <2>2, <2>3
<1>6. ASSUME \A x : Count(F, x) = Count(G, x)
      PROVE  L = M
  <2>1. ASSUME NEW t, NEW p, NEW x
        PROVE  Leaf(<<t, p>>, x) \in L <=> Leaf(<<t, p>>, x) \in M
    BY <1>2, <1>4, <1>6
  <2>2. ASSUME NEW l \in L PROVE l \in M
    <3>1. PICK t, p, x : l = Leaf(<<t, p>>, x)
      BY <1>3
    <3> QED
      BY <2>1, <3>1
  <2>3. ASSUME NEW l \in M PROVE l \in L
    <3>1. PICK t, p, x : l = Leaf(<<t, p>>, x)
      BY <1>3
    <3> QED
      BY <2>1, <3>1
  <2> QED
    BY <2>2, <2>3
<1> QED
  BY <1>5, <1>6 DEF L, M, F, G

LEMMA TagsTold ==
  ASSUME NEW side \in Side,
         NEW v \in Value, v.kind = "list", ClearTags(side, v),
         NEW w \in Value, w.kind = "list"
  PROVE  Leaves(side, v, "tags") = Leaves(side, w, "tags")
           <=> Canonical(side, v, "tags") = Canonical(side, w, "tags")
<1> DEFINE F == TagForms(side, v)
           G == TagForms(side, w)
           r == RankOfTags(side, v)
           q == RankOfTags(side, w)
           n == Len(v.items)
           m == Len(w.items)
<1>1. /\ n \in Nat /\ DOMAIN v.items = 1 .. n /\ DOMAIN F = 1 .. n
      /\ r \in [1 .. n -> Int] /\ \A i \in 1 .. n : r[i] = TagRank(side, F[i])
      /\ \A i \in 1 .. n : F[i].kind = v.items[i].kind
      /\ Canonical(side, v, "tags") = List(Ranked(F, r))
  BY TagFacts
<1>2. /\ m \in Nat /\ DOMAIN w.items = 1 .. m /\ DOMAIN G = 1 .. m
      /\ q \in [1 .. m -> Int] /\ \A i \in 1 .. m : q[i] = TagRank(side, G[i])
      /\ \A i \in 1 .. m : G[i].kind = w.items[i].kind
      /\ Canonical(side, w, "tags") = List(Ranked(G, q))
  BY TagFacts
<1>3. Canonical(side, v, "tags") = Canonical(side, w, "tags") <=> Ranked(F, r) = Ranked(G, q)
  <2>1. \A f : List(f).items = f
    BY DEF List
  <2> QED
    BY <1>1, <1>2, <2>1
<1>4. TextsOnly(v)
  BY DEF ClearTags
<1>5. \A i, j \in 1 .. n : r[i] = r[j] => F[i] = F[j]
  BY <1>1, <1>4, TagTexts DEF ClearTags, Tag
<1>6. /\ 1 .. n \in SUBSET Nat /\ IsFiniteSet(1 .. n)
      /\ 1 .. m \in SUBSET Nat /\ IsFiniteSet(1 .. m)
  <2>1. \A k \in Nat : 1 .. k \in SUBSET Nat /\ IsFiniteSet(1 .. k)
    BY FS_Interval
  <2>2. n \in Nat /\ m \in Nat
    BY <1>1, <1>2
  <2> HIDE DEF n, m
  <2> QED
    BY <2>1, <2>2
<1>7. CASE TextsOnly(w)
  <2>1. Leaves(side, v, "tags") = Leaves(side, w, "tags") <=> \A x : Count(F, x) = Count(G, x)
    BY <1>4, <1>7, TagCounts
  <2> HIDE DEF F, G, r, q, n, m
  <2>2. ASSUME \A x : Count(F, x) = Count(G, x)
        PROVE  Ranked(F, r) = Ranked(G, q)
    <3>0. n \in Nat /\ DOMAIN F = 1 .. n /\ m \in Nat /\ DOMAIN G = 1 .. m
      BY <1>1, <1>2
    <3>1. PICK move \in Bijection(1 .. n, 1 .. m) :
            /\ \A i \in 1 .. n : G[move[i]] = F[i]
            /\ \A i, j \in 1 .. n : F[i] = F[j] => (i < j <=> move[i] < move[j])
      <4>1. SameCounts(F, G)
        BY <2>2 DEF SameCounts
      <4>2. Moves(F, G) # {}
        BY <3>0, <4>1, MoveExists
      <4> QED
        BY <3>0, <4>2 DEF Moves
    <3>2. \A i \in 1 .. n : move[i] \in 1 .. m
      BY DEF Bijection, Injection
    <3>3. \A i \in 1 .. n : q[move[i]] = r[i]
      BY <1>1, <1>2, <3>1, <3>2
    <3>4. \A i, j \in 1 .. n : r[i] = r[j] => (i < j <=> move[i] < move[j])
      BY <1>5, <3>1
    <3> DEFINE D == 1 .. n
               E == 1 .. m
    <3>5. /\ D \in SUBSET Nat /\ IsFiniteSet(D) /\ E \in SUBSET Nat
          /\ r \in [D -> Int] /\ q \in [E -> Int] /\ move \in Bijection(D, E)
          /\ \A i \in D : G[move[i]] = F[i] /\ q[move[i]] = r[i]
          /\ \A i, j \in D : r[i] = r[j] => (i < j <=> move[i] < move[j])
      BY <1>1, <1>2, <1>6, <3>1, <3>3, <3>4
    <3> HIDE DEF D, E
    <3> QED
      BY <3>5, RankedMoved
  <2>3. ASSUME Ranked(F, r) = Ranked(G, q), NEW x
        PROVE  Count(F, x) = Count(G, x)
    <3>1. Count(Ranked(F, r), x) = Count(F, x)
      BY <1>1, RankedCounts
    <3>2. Count(Ranked(G, q), x) = Count(G, x)
      BY <1>2, RankedCounts
    <3> QED
      BY <2>3, <3>1, <3>2
  <2> QED
    BY <1>3, <2>1, <2>2, <2>3
<1>8. CASE ~TextsOnly(w)
  <2>1. PICK j \in 1 .. m : w.items[j].kind # "text"
    BY <1>2, <1>8 DEF TextsOnly
  <2>2. Ranked(F, r) # Ranked(G, q)
    <3> SUFFICES ASSUME Ranked(F, r) = Ranked(G, q) PROVE FALSE
      OBVIOUS
    <3> HIDE DEF F, G, r, q, n, m
    <3>1. Items(F, 1 .. n) = Items(G, 1 .. m)
      <4>1. Items(Ranked(F, r), DOMAIN Ranked(F, r)) = Items(F, 1 .. n)
        BY <1>1, <1>6, RankedItems
      <4>2. Items(Ranked(G, q), DOMAIN Ranked(G, q)) = Items(G, 1 .. m)
        BY <1>2, <1>6, RankedItems
      <4> QED
        BY <4>1, <4>2
    <3>2. PICK i \in 1 .. n : F[i] = G[j]
      BY <3>1 DEF Items
    <3>3. F[i].kind = "text"
      BY <1>1, <1>4 DEF TextsOnly
    <3> QED
      BY <1>2, <2>1, <3>2, <3>3
  <2>3. Leaves(side, v, "tags") # Leaves(side, w, "tags")
    <3> SUFFICES ASSUME Leaves(side, v, "tags") = Leaves(side, w, "tags") PROVE FALSE
      OBVIOUS
    <3> DEFINE S == Item(side, w.items[j], "tags")
    <3>0. "tags" \in Key
      BY DEF Key, Name, CodePointOrder
    <3>1. w.items[j] \in Value
      BY <1>2, <3>0, ListForms
    <3>2. \A x : End(x) # {}
      BY DEF End
    <3>3. PICK l \in S : IsLeaf(l)
      BY <3>0, <3>1, <3>2, LeafShape, EndLeaves DEF Item
    <3>4. Leaf(l.path, l.value) \in S
      BY <3>3 DEF IsLeaf, Leaf
    <3>5. Leaf(<<Step(None, j), l.path>>, l.value) \in Leaves(side, v, "tags")
      BY <1>2, <1>8, <3>0, <3>4, ListSays
    <3>6. l.path = <<>> /\ l.value.kind = "text"
      <4>1. l.path = <<>> /\ \E i \in DOMAIN v.items : TagForms(side, v)[i] = l.value
        BY <1>4, <3>5, TagLeaves
      <4> QED
        BY <1>1, <1>4, <4>1 DEF TextsOnly
    <3>7. w.items[j].kind \in {"text", "null", "list", "map"}
      BY <3>1, ValueAssumption DEF IsText, IsList, IsMap, Null
    <3>8. CASE Leaves(side, w.items[j], "tags") # {}
      <4>1. l \in Leaves(side, w.items[j], "tags")
        BY <3>3, <3>8 DEF Item
      <4>2. w.items[j].kind \in {"text", "null"}
        <5>1. w.items[j].kind = "list" => \E k, p : l.path = <<k, p>>
          BY <3>0, <3>1, <4>1, LeafShape
        <5>2. w.items[j].kind = "map" => \E k, p : l.path = <<k, p>>
          BY <3>0, <3>1, <4>1, LeafShape
        <5> QED
          BY <3>6, <3>7, <5>1, <5>2, PathsDiffer
      <4>3. l.value.kind = w.items[j].kind
        BY <3>0, <3>1, <4>1, <4>2, LeafShape
      <4> QED
        BY <2>1, <3>6, <4>3
    <3>9. CASE Leaves(side, w.items[j], "tags") = {}
      <4>1. l.value = [kind |-> w.items[j].kind]
        BY <3>3, <3>9, EndLeaves DEF Item
      <4> QED
        BY <2>1, <3>6, <4>1
    <3> QED
      BY <3>8, <3>9
  <2> QED
    BY <1>3, <2>2, <2>3
<1> QED
  BY <1>7, <1>8

-----------------------------------------------------------------------------
LEMMA LeavesTold ==
  ASSUME NEW side \in Side, NEW key \in Key, NEW v \in Value, NEW w \in Value,
         v.kind = w.kind, v.kind \in {"text", "null"}
  PROVE  Leaves(side, v, key) = Leaves(side, w, key)
           <=> Canonical(side, v, key) = Canonical(side, w, key)
<1>1. ASSUME NEW y, NEW z, End(y) = End(z)
      PROVE  y = z
  <2>1. [path |-> <<>>, value |-> y] \in End(z)
    BY <1>1 DEF End
  <2>2. [path |-> <<>>, value |-> y].value = z
    BY <2>1, EndLeaves
  <2> QED
    BY <2>2
<1>2. /\ Canonical(side, v, key) = Canonicalized(side, v, key, Forms(side, v, key))
      /\ Canonical(side, w, key) = Canonicalized(side, w, key, Forms(side, w, key))
  BY CanonicalAssumption DEF Key
<1>3. CASE v.kind = "text"
  <2>1. ASSUME NEW x \in Value, x.kind = "text"
        PROVE  Leaves(side, x, key) = End(TextOf(Normal(side, x.text)))
    BY ONLY <2>1, side \in Side, key \in Key, LeavesSaid
  <2>2. /\ Canonical(side, v, key) = TextOf(Normal(side, v.text))
        /\ Canonical(side, w, key) = TextOf(Normal(side, w.text))
    BY <1>2, <1>3 DEF Canonicalized
  <2>3. Leaves(side, v, key) = End(TextOf(Normal(side, v.text)))
    BY <1>3, <2>1
  <2>4. Leaves(side, w, key) = End(TextOf(Normal(side, w.text)))
    BY <1>3, <2>1
  <2> QED
    BY <1>1, <2>2, <2>3, <2>4
<1>4. CASE v.kind = "null"
  <2>1. v = Null /\ w = Null
    BY <1>4, ValueAssumption DEF IsText, IsList, IsMap, Null
  <2> QED
    BY <2>1
<1> QED
  BY <1>3, <1>4

LEMMA ToldStep ==
  ASSUME NEW side \in Side, NEW key \in Key, NEW v \in Value, NEW w \in Value,
         ClearFor(side, v, key), PartsTold(side, v)
  PROVE  Told(side, v, w, key)
<1>1. Canonical(side, v, key).kind = v.kind /\ Canonical(side, w, key).kind = w.kind
  BY FormFacts
<1>2. CASE v.kind # w.kind
  BY <1>1, <1>2 DEF Told
<1>3. CASE v.kind = w.kind /\ v.kind \in {"text", "null"}
  BY <1>3, LeavesTold DEF Told
<1>4. CASE v.kind = "map" /\ w.kind = "map"
  BY <1>4, MapsTold DEF Told
<1>5. CASE v.kind = "list" /\ w.kind = "list" /\ key # "tags"
  BY <1>5, ListsTold DEF Told
<1>6. CASE v.kind = "list" /\ w.kind = "list" /\ key = "tags"
  <2>1. ClearTags(side, v)
    BY <1>6 DEF ClearFor
  <2> QED
    BY <1>6, <2>1, TagsTold DEF Told
<1> QED
  BY <1>2, <1>3, <1>4, <1>5, <1>6, ValueAssumption DEF IsText, IsList, IsMap, Null

(* The canonical form of a value is what it says: another value has the    *)
(* same form exactly if it is of the same kind and says the same, whatever *)
(* the order of its fields and tags, whatever is null or empty in it - if  *)
(* the side's order can tell its names apart, and its tags.                *)
(* canonicalize and canonicalize_value, for values of every size.          *)
THEOREM IdentitySaysTheSame ==
  ASSUME NEW side \in Side, NEW v \in Value, NEW w \in Value, NEW key \in Key,
         ClearFor(side, v, key)
  PROVE  Canonical(side, v, key) = Canonical(side, w, key)
           <=> v.kind = w.kind /\ Leaves(side, v, key) = Leaves(side, w, key)
<1> DEFINE Wrong == {x \in Value : \E k \in Key, y \in Value :
                       ClearFor(side, x, k) /\ ~Told(side, x, y, k)}
<1>1. Wrong = {}
  <2> SUFFICES ASSUME Wrong # {} PROVE FALSE
    OBVIOUS
  <2>1. PICK x \in Wrong : \A z \in Parts(x) : z \notin Wrong
    <3> HIDE DEF Wrong
    <3>1. Wrong \in SUBSET Value
      BY DEF Wrong
    <3> QED
      BY <3>1, SmallestValue
  <2>2. PICK k \in Key, y \in Value : ClearFor(side, x, k) /\ ~Told(side, x, y, k)
    OBVIOUS
  <2>3. PartsTold(side, x)
    BY <2>1, PartsAreSmaller DEF PartsTold
  <2> QED
    BY <2>2, <2>3, ToldStep
<1>2. Told(side, v, w, key)
  BY <1>1
<1> QED
  BY <1>2 DEF Told

-----------------------------------------------------------------------------
(* A memory is hashed under the form of the object as it was built.        *)

LEMMA HashedFacts ==
  ASSUME NEW side \in Side, NEW o \in Carried
  PROVE  /\ Hashed(side, o) \in Value /\ Hashed(side, o).kind = "map"
         /\ Form(side, o) = Canonical(side, Hashed(side, o), None)
<1>1. CASE side = "ts"
  <2>1. Hashed(side, o) = Reduced(o)
    BY <1>1 DEF Hashed
  <2> QED
    BY <1>1, <2>1, CarriedFacts DEF IsMap, Form, TsForm
<1>2. CASE side = "rust"
  <2>1. Hashed(side, o) = Reduced(Struct(o))
    BY <1>2 DEF Hashed
  <2> QED
    BY <1>2, <2>1, CarriedFacts DEF IsMap, Form, RustForm
<1> QED
  BY <1>1, <1>2 DEF Side

(* On both sides: a carried object has the hash under which it was built   *)
(* exactly if it says what it said then, where it was built without names  *)
(* or tags that collation cannot tell apart; and its canonical form is its *)
(* own.  canonicalize, canonicalize_value and the hashes of their results. *)
THEOREM IdentityCanonicalForm == Spec => []CanonicalForm
<1>1. Init => BuiltInv
  BY DEF Init, BuiltInv
<1>2. BuiltInv => IdentityIsMeaning
  <2> SUFFICES ASSUME BuiltInv, memory # None, Clear(maker, Hashed(maker, origin))
               PROVE  Form(maker, memory.object) = memory.hash
                        <=> Meaning(maker, memory.object) = Meaning(maker, origin)
    BY DEF IdentityIsMeaning
  <2>1. /\ maker \in Side /\ origin \in Carried /\ memory.object \in Carried
        /\ memory.hash = Form(maker, origin)
    BY DEF BuiltInv
  <2> DEFINE v == Hashed(maker, origin)
             w == Hashed(maker, memory.object)
  <2>2. /\ v \in Value /\ v.kind = "map" /\ Form(maker, origin) = Canonical(maker, v, None)
        /\ w \in Value /\ w.kind = "map"
        /\ Form(maker, memory.object) = Canonical(maker, w, None)
    BY <2>1, HashedFacts
  <2>3. None \in Key /\ ClearFor(maker, v, None)
    BY NoneAssumption DEF Key, ClearFor, Name, CodePointOrder
  <2>4. /\ Meaning(maker, origin) = Leaves(maker, v, None)
        /\ Meaning(maker, memory.object) = Leaves(maker, w, None)
    BY DEF Meaning
  <2> HIDE DEF v, w
  <2>5. Canonical(maker, v, None) = Canonical(maker, w, None)
          <=> v.kind = w.kind /\ Leaves(maker, v, None) = Leaves(maker, w, None)
    BY <2>1, <2>2, <2>3, IdentitySaysTheSame
  <2> QED
    BY <2>1, <2>2, <2>4, <2>5
<1>3. BuiltInv => FormIsStable
  <2> SUFFICES ASSUME BuiltInv, memory # None, NEW side \in Side
               PROVE  Canonical(side, Form(side, memory.object), None)
                        = Form(side, memory.object)
    BY DEF FormIsStable
  <2>1. memory.object \in Carried
    BY DEF BuiltInv
  <2>2. /\ Hashed(side, memory.object) \in Value
        /\ Form(side, memory.object) = Canonical(side, Hashed(side, memory.object), None)
    BY <2>1, HashedFacts
  <2> QED
    BY <2>2, IdentityCanonicalIsStable
<1> QED
  BY <1>1, <1>2, <1>3, BuiltInvStep, PTL DEF Spec, CanonicalForm

=============================================================================
