----------------------------- MODULE SetupProof -----------------------------
(***************************************************************************)
(* Theorems about the edits of PATH and of start-up files, for every text  *)
(* and list, and about install, uninstall and raijin-setup, for every      *)
(* package and payload, however the commands fail and interleave with the  *)
(* cleanup helper.                                                         *)
(***************************************************************************)
EXTENDS Setup, FiniteSetTheorems, TLAPS

-----------------------------------------------------------------------------
(* Places of a sequence, in their order. *)

(* The number of places up to i, and the n-th place. *)
UpTo(P, i) == {j \in P : j <= i}
Place(P, n) == CHOOSE i \in P : Cardinality(UpTo(P, i)) = n

(* Finite sets of places, and the initial parts of them.                   *)
LEMMA PlacesFinite ==
  ASSUME NEW N \in Nat, NEW P \in SUBSET (1 .. N)
  PROVE  /\ IsFiniteSet(P) /\ Cardinality(P) \in Nat
         /\ \A i : IsFiniteSet(UpTo(P, i)) /\ Cardinality(UpTo(P, i)) \in 0 .. Cardinality(P)
<1>1. IsFiniteSet(1 .. N)
  BY FS_Interval, 1 \in Int, N \in Int
<1>2. IsFiniteSet(P)
  BY <1>1, FS_Subset
<1>3. Cardinality(P) \in Nat
  BY <1>2, FS_CardinalityType
<1>4. ASSUME NEW i PROVE IsFiniteSet(UpTo(P, i)) /\ Cardinality(UpTo(P, i)) \in 0 .. Cardinality(P)
  <2>1. UpTo(P, i) \in SUBSET P
    BY DEF UpTo
  <2>2. IsFiniteSet(UpTo(P, i)) /\ Cardinality(UpTo(P, i)) <= Cardinality(P)
    BY <1>2, <2>1, FS_Subset
  <2>3. Cardinality(UpTo(P, i)) \in Nat
    BY <2>2, FS_CardinalityType
  <2> QED BY <1>3, <2>2, <2>3
<1> QED BY <1>2, <1>3, <1>4

(* Of two places the later has more places up to it.                       *)
LEMMA UpToGrows ==
  ASSUME NEW N \in Nat, NEW P \in SUBSET (1 .. N), NEW h \in P, NEW i \in P, h < i
  PROVE  Cardinality(UpTo(P, h)) < Cardinality(UpTo(P, i))
<1>1. h \in Nat /\ i \in Nat
  OBVIOUS
<1>2. \A j \in P : j \in Nat
  OBVIOUS
<1>3. \A j \in UpTo(P, h) : j \in UpTo(P, i)
  BY <1>1, <1>2, h < i DEF UpTo
<1>4. i \in UpTo(P, i) /\ i \notin UpTo(P, h)
  BY <1>1, h < i DEF UpTo
<1>5. UpTo(P, h) \in SUBSET UpTo(P, i) /\ UpTo(P, h) # UpTo(P, i)
  BY <1>3, <1>4
<1>6. IsFiniteSet(UpTo(P, i))
  BY PlacesFinite
<1>7. /\ Cardinality(UpTo(P, h)) <= Cardinality(UpTo(P, i))
      /\ Cardinality(UpTo(P, h)) # Cardinality(UpTo(P, i))
  BY <1>5, <1>6, FS_Subset
<1>8. Cardinality(UpTo(P, h)) \in Nat /\ Cardinality(UpTo(P, i)) \in Nat
  <2>1. \A k : Cardinality(UpTo(P, k)) \in 0 .. Cardinality(P) /\ Cardinality(P) \in Nat
    BY PlacesFinite
  <2> QED BY <2>1
<1> QED BY <1>7, <1>8

(* Each number up to that of the places is that of one place.              *)
LEMMA Positions ==
  ASSUME NEW N \in Nat, NEW P \in SUBSET (1 .. N)
  PROVE  /\ \A n \in 1 .. Cardinality(P) :
              Place(P, n) \in P /\ Cardinality(UpTo(P, Place(P, n))) = n
         /\ \A i \in P : /\ Cardinality(UpTo(P, i)) \in 1 .. Cardinality(P)
                         /\ Place(P, Cardinality(UpTo(P, i))) = i
<1> DEFINE c == Cardinality(P)
           f == [i \in P |-> Cardinality(UpTo(P, i))]
<1>1. IsFiniteSet(P) /\ c \in Nat
  BY PlacesFinite
<1>2. \A i \in P : Cardinality(UpTo(P, i)) \in 1 .. c
  <2> TAKE i \in P
  <2>1. i \in UpTo(P, i)
    BY DEF UpTo
  <2>2. Cardinality(UpTo(P, i)) # 0
    BY <2>1, PlacesFinite, FS_EmptySet
  <2> QED BY <2>2, PlacesFinite
<1>3. \A h, i \in P : Cardinality(UpTo(P, h)) = Cardinality(UpTo(P, i)) => h = i
  <2> TAKE h, i \in P
  <2>1. h < i \/ h = i \/ i < h
    OBVIOUS
  <2>2. Cardinality(UpTo(P, h)) \in Nat /\ Cardinality(UpTo(P, i)) \in Nat
    BY <1>1, <1>2
  <2>3. h < i => Cardinality(UpTo(P, h)) < Cardinality(UpTo(P, i))
    BY UpToGrows
  <2>4. i < h => Cardinality(UpTo(P, i)) < Cardinality(UpTo(P, h))
    BY UpToGrows
  <2> QED BY <2>1, <2>2, <2>3, <2>4
<1>4. f \in Injection(P, 1 .. c)
  BY <1>2, <1>3 DEF Injection, IsInjective
<1>5. f \in Surjection(P, 1 .. c)
  <2>1. IsFiniteSet(1 .. c) /\ Cardinality(1 .. c) = c
    BY <1>1, FS_Interval
  <2> HIDE DEF f
  <2> QED BY <1>1, <1>4, <2>1, FS_Injection
<1>6. \A n \in 1 .. c : \E i \in P : Cardinality(UpTo(P, i)) = n
  BY <1>5 DEF Surjection
<1>7. \A n \in 1 .. c : Place(P, n) \in P /\ Cardinality(UpTo(P, Place(P, n))) = n
  BY <1>6 DEF Place
<1> QED BY <1>2, <1>3, <1>7

(* The n-th place comes before the next ones.                              *)
LEMMA PlacesIncrease ==
  ASSUME NEW N \in Nat, NEW P \in SUBSET (1 .. N),
         NEW m \in 1 .. Cardinality(P), NEW n \in 1 .. Cardinality(P)
  PROVE  m < n <=> Place(P, m) < Place(P, n)
<1>1. /\ Place(P, m) \in P /\ Cardinality(UpTo(P, Place(P, m))) = m
      /\ Place(P, n) \in P /\ Cardinality(UpTo(P, Place(P, n))) = n
  BY Positions
<1>2. m \in Nat /\ n \in Nat /\ Place(P, m) \in Nat /\ Place(P, n) \in Nat
  <2>1. Cardinality(P) \in Nat
    BY PlacesFinite
  <2>2. m \in Nat /\ n \in Nat
    BY <2>1
  <2>3. \A i \in P : i \in Nat
    OBVIOUS
  <2> QED BY <1>1, <2>2, <2>3
<1>3. Place(P, m) < Place(P, n) => m < n
  BY <1>1, UpToGrows
<1>4. Place(P, n) < Place(P, m) => n < m
  BY <1>1, UpToGrows
<1>5. Place(P, m) = Place(P, n) => m = n
  BY <1>1
<1>6. Place(P, m) < Place(P, n) \/ Place(P, m) = Place(P, n) \/ Place(P, n) < Place(P, m)
  BY <1>2
<1>7. ~(m < n /\ m = n) /\ ~(m < n /\ n < m)
  BY <1>2
<1>8. Place(P, m) < Place(P, n) => Place(P, m) # Place(P, n) /\ ~(Place(P, n) < Place(P, m))
  BY <1>2
<1> QED BY <1>3, <1>4, <1>5, <1>6, <1>7, <1>8

(* A numbering of a set without repetition counts it.                      *)
LEMMA NumberingCounts ==
  ASSUME NEW m \in Nat, NEW T, NEW g \in [1 .. m -> T],
         \A a, b \in 1 .. m : g[a] = g[b] => a = b,
         \A t \in T : \E a \in 1 .. m : g[a] = t
  PROVE  Cardinality(T) = m
<1>1. g \in Bijection(1 .. m, T)
  BY DEF Bijection, Injection, Surjection, IsInjective
<1>2. ExistsBijection(1 .. m, T)
  BY <1>1 DEF ExistsBijection
<1> QED BY <1>2, FS_CountingElements

(* An increasing numbering of all places is that of Place.                 *)
LEMMA PlacesUnique ==
  ASSUME NEW N \in Nat, NEW P \in SUBSET (1 .. N), NEW n \in Nat, NEW e \in [1 .. n -> P],
         \A a, b \in 1 .. n : a < b => e[a] < e[b],
         \A i \in P : \E a \in 1 .. n : e[a] = i
  PROVE  Cardinality(P) = n /\ \A a \in 1 .. n : Place(P, a) = e[a]
<1>1. \A i \in P : i \in Nat
  OBVIOUS
<1>2. \A a \in 1 .. n : e[a] \in P /\ e[a] \in Nat
  BY <1>1
<1>3. \A a, b \in 1 .. n : (a <= b <=> e[a] <= e[b]) /\ (e[a] = e[b] => a = b)
  <2> TAKE a, b \in 1 .. n
  <2>1. a < b \/ a = b \/ b < a
    OBVIOUS
  <2> QED BY <1>2, <2>1
<1>4. Cardinality(P) = n
  <2>1. \A a, b \in 1 .. n : e[a] = e[b] => a = b
    BY <1>3
  <2> QED BY <2>1, NumberingCounts
<1>5. ASSUME NEW a \in 1 .. n PROVE Place(P, a) = e[a]
  <2> DEFINE g == [b \in 1 .. a |-> e[b]]
  <2>1. \A b \in 1 .. a : b \in 1 .. n /\ g[b] = e[b] /\ e[b] \in UpTo(P, e[a])
    BY <1>2, <1>3 DEF UpTo
  <2>2. g \in [1 .. a -> UpTo(P, e[a])]
    BY <2>1
  <2>3. \A b, c \in 1 .. a : g[b] = g[c] => b = c
    BY <1>3, <2>1
  <2>4. ASSUME NEW t \in UpTo(P, e[a]) PROVE \E b \in 1 .. a : g[b] = t
    <3>1. PICK b \in 1 .. n : e[b] = t
      BY DEF UpTo
    <3>2. e[b] <= e[a]
      BY <3>1 DEF UpTo
    <3>3. b \in 1 .. a
      BY <1>3, <3>2
    <3> QED BY <3>1, <3>3
  <2>5. Cardinality(UpTo(P, e[a])) = a
    <3> HIDE DEF g
    <3> QED BY <2>2, <2>3, <2>4, NumberingCounts, a \in Nat
  <2> QED BY <1>2, <2>5, Positions
<1> QED BY <1>4, <1>5

(* AtPlaces numbers the places in their order.                             *)
LEMMA AtPlacesIs ==
  ASSUME NEW s, NEW P
  PROVE  AtPlaces(s, P) = [n \in 1 .. Cardinality(P) |-> s[Place(P, n)]]
BY DEF AtPlaces, Place, UpTo

LEMMA AtPlacesSeq ==
  ASSUME NEW S, NEW s \in Seq(S), NEW P \in SUBSET (1 .. Len(s))
  PROVE  /\ AtPlaces(s, P) \in Seq(S)
         /\ Len(AtPlaces(s, P)) = Cardinality(P)
         /\ Cardinality(P) \in Nat
         /\ \A n \in 1 .. Cardinality(P) : Place(P, n) \in P /\ AtPlaces(s, P)[n] = s[Place(P, n)]
<1>1. Cardinality(P) \in Nat
  BY PlacesFinite, Len(s) \in Nat
<1>2. \A n \in 1 .. Cardinality(P) : Place(P, n) \in P
  BY Positions, Len(s) \in Nat
<1>3. \A i \in P : s[i] \in S
  OBVIOUS
<1>4. AtPlaces(s, P) = [n \in 1 .. Cardinality(P) |-> s[Place(P, n)]]
  BY AtPlacesIs
<1>5. AtPlaces(s, P) \in [1 .. Cardinality(P) -> S]
  BY <1>2, <1>3, <1>4
<1> QED BY <1>1, <1>2, <1>4, <1>5

(* The elements at the places are those of the sequence.                   *)
LEMMA AtPlacesRange ==
  ASSUME NEW S, NEW s \in Seq(S), NEW P \in SUBSET (1 .. Len(s))
  PROVE  /\ \A i \in P : \E n \in 1 .. Cardinality(P) :
                             Place(P, n) = i /\ AtPlaces(s, P)[n] = s[i]
         /\ ToSet(AtPlaces(s, P)) = {s[i] : i \in P}
<1>1. \A i \in P : \E n \in 1 .. Cardinality(P) : Place(P, n) = i /\ AtPlaces(s, P)[n] = s[i]
  <2> TAKE i \in P
  <2>1. /\ Cardinality(UpTo(P, i)) \in 1 .. Cardinality(P)
        /\ Place(P, Cardinality(UpTo(P, i))) = i
    BY Positions, Len(s) \in Nat
  <2>2. \A n \in 1 .. Cardinality(P) : AtPlaces(s, P)[n] = s[Place(P, n)]
    BY AtPlacesSeq
  <2> QED BY <2>1, <2>2
<1>2. DOMAIN AtPlaces(s, P) = 1 .. Cardinality(P)
  BY AtPlacesIs
<1>3. ASSUME NEW n \in 1 .. Cardinality(P)
      PROVE  Place(P, n) \in P /\ AtPlaces(s, P)[n] = s[Place(P, n)]
  BY AtPlacesSeq
<1>4. ToSet(AtPlaces(s, P)) \subseteq {s[i] : i \in P}
  BY <1>2, <1>3 DEF ToSet
<1>5. {s[i] : i \in P} \subseteq ToSet(AtPlaces(s, P))
  BY <1>1, <1>2 DEF ToSet
<1> QED BY <1>1, <1>4, <1>5

(* Only the elements at the places matter.                                 *)
LEMMA AtPlacesAgree ==
  ASSUME NEW N \in Nat, NEW P \in SUBSET (1 .. N), NEW s, NEW t, \A i \in P : s[i] = t[i]
  PROVE  AtPlaces(s, P) = AtPlaces(t, P)
<1>1. \A n \in 1 .. Cardinality(P) : Place(P, n) \in P
  BY Positions
<1> QED BY <1>1, AtPlacesIs

(* All places.                                                             *)
LEMMA AtPlacesAll ==
  ASSUME NEW S, NEW s \in Seq(S)
  PROVE  AtPlaces(s, 1 .. Len(s)) = s
<1> DEFINE P == 1 .. Len(s)
           e == [a \in 1 .. Len(s) |-> a]
<1>1. Len(s) \in Nat /\ P \in SUBSET (1 .. Len(s)) /\ e \in [1 .. Len(s) -> P]
  OBVIOUS
<1>2. (\A a, b \in 1 .. Len(s) : a < b => e[a] < e[b]) /\ \A i \in P : \E a \in 1 .. Len(s) : e[a] = i
  OBVIOUS
<1>3. Cardinality(P) = Len(s) /\ \A a \in 1 .. Len(s) : Place(P, a) = e[a]
  <2> HIDE DEF P, e
  <2> QED BY <1>1, <1>2, PlacesUnique
<1> QED BY <1>3, AtPlacesIs

(* Places of what lies at places.                                          *)
LEMMA AtPlacesOfPlaces ==
  ASSUME NEW S, NEW s \in Seq(S), NEW P \in SUBSET (1 .. Len(s)),
         NEW Q \in SUBSET (1 .. Cardinality(P))
  PROVE  AtPlaces(AtPlaces(s, P), Q) = AtPlaces(s, {Place(P, n) : n \in Q})
<1> DEFINE c == Cardinality(P)
           R == {Place(P, n) : n \in Q}
           q == Cardinality(Q)
           e == [a \in 1 .. q |-> Place(P, Place(Q, a))]
<1>1. c \in Nat /\ Len(s) \in Nat /\ \A n \in 1 .. c : Place(P, n) \in P
  BY AtPlacesSeq
<1>2. q \in Nat /\ \A a \in 1 .. q : Place(Q, a) \in Q
  BY <1>1, PlacesFinite, Positions
<1>3. R \in SUBSET (1 .. Len(s)) /\ e \in [1 .. q -> R]
  BY <1>1, <1>2
<1>4. \A a, b \in 1 .. q : a < b => e[a] < e[b]
  <2> TAKE a, b \in 1 .. q
  <2>1. a < b => Place(Q, a) < Place(Q, b)
    BY <1>1, PlacesIncrease
  <2>2. Place(Q, a) \in 1 .. c /\ Place(Q, b) \in 1 .. c
    BY <1>2
  <2>3. Place(Q, a) < Place(Q, b) => Place(P, Place(Q, a)) < Place(P, Place(Q, b))
    BY <1>1, <2>2, PlacesIncrease
  <2> QED BY <2>1, <2>3
<1>5. \A i \in R : \E a \in 1 .. q : e[a] = i
  <2> TAKE i \in R
  <2>1. PICK n \in Q : i = Place(P, n)
    OBVIOUS
  <2>2. Cardinality(UpTo(Q, n)) \in 1 .. q /\ Place(Q, Cardinality(UpTo(Q, n))) = n
    BY <1>1, Positions
  <2> QED BY <2>1, <2>2
<1>6. Cardinality(R) = q /\ \A a \in 1 .. q : Place(R, a) = e[a]
  <2> HIDE DEF R, e, q
  <2> QED BY <1>1, <1>2, <1>3, <1>4, <1>5, PlacesUnique
<1>7. AtPlaces(AtPlaces(s, P), Q) = [a \in 1 .. q |-> AtPlaces(s, P)[Place(Q, a)]]
  BY AtPlacesIs
<1>8. \A a \in 1 .. q : AtPlaces(s, P)[Place(Q, a)] = s[e[a]]
  BY <1>2, AtPlacesSeq
<1>9. AtPlaces(s, R) = [a \in 1 .. q |-> s[Place(R, a)]]
  BY <1>6, AtPlacesIs
<1>10. AtPlaces(AtPlaces(s, P), Q) = AtPlaces(s, R)
  <2>1. \A a \in 1 .. q : AtPlaces(s, P)[Place(Q, a)] = s[Place(R, a)]
    BY <1>6, <1>8
  <2> HIDE DEF R, e, q
  <2> QED BY <1>7, <1>9, <2>1
<1> QED BY <1>10

(* One more element.                                                       *)
LEMMA AtPlacesAppend ==
  ASSUME NEW S, NEW s \in Seq(S), NEW x \in S, NEW P \in SUBSET (1 .. Len(s))
  PROVE  AtPlaces(Append(s, x), P \cup {Len(s) + 1}) = Append(AtPlaces(s, P), x)
<1> DEFINE c == Cardinality(P)
           R == P \cup {Len(s) + 1}
           e == [a \in 1 .. c + 1 |-> IF a <= c THEN Place(P, a) ELSE Len(s) + 1]
<1>1. c \in Nat /\ Len(s) \in Nat /\ \A n \in 1 .. c : Place(P, n) \in P
  BY AtPlacesSeq
<1>2. \A i \in P : i \in 1 .. Len(s)
  OBVIOUS
<1>3. \A a \in 1 .. c + 1 : /\ a <= c => e[a] = Place(P, a) /\ e[a] \in P /\ a \in 1 .. c
                            /\ ~(a <= c) => e[a] = Len(s) + 1 /\ a = c + 1
  BY <1>1
<1>4. R \in SUBSET (1 .. Len(s) + 1)
  <2>1. Len(s) + 1 \in 1 .. Len(s) + 1 /\ \A i \in 1 .. Len(s) : i \in 1 .. Len(s) + 1
    BY <1>1
  <2> QED BY <1>2, <2>1
<1>5. e \in [1 .. c + 1 -> R]
  BY <1>3
<1>6. \A a, b \in 1 .. c + 1 : a < b => e[a] < e[b]
  <2> TAKE a, b \in 1 .. c + 1
  <2>1. CASE a < b /\ b <= c
    <3>1. a \in 1 .. c /\ b \in 1 .. c
      BY <1>1, <2>1
    <3>2. Place(P, a) < Place(P, b)
      BY <2>1, <3>1, <1>1, PlacesIncrease
    <3> QED BY <3>1, <3>2, <1>1
  <2>2. CASE a < b /\ ~(b <= c)
    <3>1. a <= c
      BY <1>1, <2>2
    <3>2. e[a] \in P /\ e[b] = Len(s) + 1
      BY <1>3, <2>2, <3>1
    <3> HIDE DEF e
    <3>3. e[a] \in 1 .. Len(s)
      BY <1>2, <3>2
    <3> QED BY <1>1, <3>2, <3>3
  <2> QED BY <2>1, <2>2
<1>7. \A i \in R : \E a \in 1 .. c + 1 : e[a] = i
  <2> TAKE i \in R
  <2>1. CASE i \in P
    <3>1. \E n \in 1 .. Cardinality(P) : Place(P, n) = i /\ AtPlaces(s, P)[n] = s[i]
      BY <2>1, AtPlacesRange
    <3>2. PICK n \in 1 .. c : Place(P, n) = i
      BY <3>1
    <3> QED BY <1>1, <3>2
  <2>2. CASE i = Len(s) + 1
    <3>1. c + 1 \in 1 .. c + 1 /\ e[c + 1] = Len(s) + 1
      BY <1>1
    <3> QED BY <2>2, <3>1
  <2> QED BY <2>1, <2>2
<1>8. Cardinality(R) = c + 1 /\ \A a \in 1 .. c + 1 : Place(R, a) = e[a]
  <2>1. Len(s) + 1 \in Nat /\ c + 1 \in Nat
    BY <1>1
  <2> HIDE DEF R, e, c
  <2> QED BY <2>1, <1>4, <1>5, <1>6, <1>7, PlacesUnique
<1>9. /\ AtPlaces(s, P) \in Seq(S) /\ Len(AtPlaces(s, P)) = c
      /\ \A n \in 1 .. c : AtPlaces(s, P)[n] = s[Place(P, n)]
  BY AtPlacesSeq
<1>10. \A a \in 1 .. c + 1 : Append(s, x)[e[a]] = Append(AtPlaces(s, P), x)[a]
  <2> TAKE a \in 1 .. c + 1
  <2>1. CASE a <= c
    <3>1. e[a] \in 1 .. Len(s) /\ a \in 1 .. c /\ e[a] = Place(P, a)
      BY <1>2, <1>3, <2>1
    <3>2. Append(s, x)[e[a]] = s[e[a]]
      <4> HIDE DEF e
      <4> QED BY <3>1
    <3>3. Append(AtPlaces(s, P), x)[a] = AtPlaces(s, P)[a]
      BY <1>9, <3>1
    <3> QED BY <1>9, <3>1, <3>2, <3>3
  <2>2. CASE ~(a <= c)
    <3>1. e[a] = Len(s) + 1 /\ a = Len(AtPlaces(s, P)) + 1
      BY <1>3, <1>9, <2>2
    <3> HIDE DEF e
    <3> QED BY <1>9, <3>1
  <2> QED BY <2>1, <2>2
<1>11. AtPlaces(Append(s, x), R) = [a \in 1 .. c + 1 |-> Append(s, x)[e[a]]]
  BY <1>8, AtPlacesIs
<1>12. Append(AtPlaces(s, P), x) \in Seq(S) /\ Len(Append(AtPlaces(s, P), x)) = c + 1
  BY <1>9
<1>13. AtPlaces(Append(s, x), R) = Append(AtPlaces(s, P), x)
  <2> DEFINE u == AtPlaces(Append(s, x), R)
             v == Append(AtPlaces(s, P), x)
  <2>1. v = [a \in 1 .. Len(v) |-> v[a]]
    <3>1. v \in Seq(S)
      BY <1>12
    <3> HIDE DEF v
    <3> QED BY <3>1
  <2> HIDE DEF R, e, c, u, v
  <2>2. u = [a \in 1 .. c + 1 |-> v[a]]
    BY <1>10, <1>11 DEF u, v
  <2> QED BY <1>12, <2>1, <2>2 DEF u, v
<1> QED BY <1>13

-----------------------------------------------------------------------------
(* Start-up files. *)

(* While no marker follows another, every marker skips the next line.      *)
LEMMA MarkersSkip ==
  ASSUME NEW S, NEW file \in Seq(S),
         \A i \in 1 .. Len(file) : file[i] = raijinMarker => i < Len(file) /\ file[i + 1] # raijinMarker
  PROVE  SkipsNext(file) = [i \in 0 .. Len(file) |-> i > 0 /\ file[i] = raijinMarker]
<1> DEFINE E(f) == [i \in 0 .. Len(file) |-> i > 0 /\ file[i] = raijinMarker /\ ~f[i - 1]]
           g == [i \in 0 .. Len(file) |-> i > 0 /\ file[i] = raijinMarker]
<1>1. \A i \in 0 .. Len(file) : i > 0 /\ file[i] = raijinMarker => ~(i - 1 > 0 /\ file[i - 1] = raijinMarker)
  <2> TAKE i \in 0 .. Len(file)
  <2>1. ASSUME i > 0, file[i] = raijinMarker, i - 1 > 0, file[i - 1] = raijinMarker PROVE FALSE
    <3>1. i - 1 \in 1 .. Len(file) /\ (i - 1) + 1 = i
      BY <2>1
    <3>2. file[(i - 1) + 1] # raijinMarker
      BY <2>1, <3>1
    <3> QED BY <2>1, <3>1, <3>2
  <2> QED BY <2>1
<1>2. g = E(g)
  BY <1>1
<1>3. ASSUME NEW f, f = E(f) PROVE f = g
  <2>1. \A i \in 0 .. Len(file) : f[i] = (i > 0 /\ file[i] = raijinMarker /\ ~f[i - 1])
    BY <1>3
  <2>2. \A i \in 0 .. Len(file) : i > 0 => i - 1 \in 0 .. Len(file)
    OBVIOUS
  <2>3. \A i \in 0 .. Len(file) : f[i] = (i > 0 /\ file[i] = raijinMarker)
    BY <1>1, <2>1, <2>2
  <2> QED BY <1>3, <2>3
<1>4. SkipsNext(file) = CHOOSE f : f = E(f)
  BY DEF SkipsNext
<1>5. SkipsNext(file) = g
  <2> HIDE DEF g, E
  <2> QED BY <1>2, <1>3, <1>4
<1> QED BY <1>5

(* The lines writeRcRemoveDir keeps of an untouched file: neither markers  *)
(* nor their PATH lines, but all others.                                   *)
Kept(file) == {i \in DOMAIN file : file[i] # raijinMarker /\ file[i] # buildRcLine}

LEMMA KeptIsSkipped ==
  ASSUME NEW S, NEW file \in Seq(S), Intact(file)
  PROVE  {i \in DOMAIN file : ~SkipsNext(file)[i] /\ ~SkipsNext(file)[i - 1]} = Kept(file)
<1>1. raijinMarker # buildRcLine
  BY DEF raijinMarker, buildRcLine
<1>2. DOMAIN file = 1 .. Len(file) /\ Len(file) \in Nat
  OBVIOUS
<1>3. \A i \in 1 .. Len(file) : file[i] = raijinMarker => i < Len(file) /\ file[i + 1] = buildRcLine
  BY <1>2 DEF Intact
<1>4. \A i \in 1 .. Len(file) : file[i] = buildRcLine => i > 1 /\ file[i - 1] = raijinMarker
  BY <1>2 DEF Intact
<1>5. SkipsNext(file) = [i \in 0 .. Len(file) |-> i > 0 /\ file[i] = raijinMarker]
  BY <1>1, <1>3, MarkersSkip
<1>6. ASSUME NEW i \in 1 .. Len(file)
      PROVE  ~SkipsNext(file)[i] /\ ~SkipsNext(file)[i - 1] <=> file[i] # raijinMarker /\ file[i] # buildRcLine
  <2>1. SkipsNext(file)[i] <=> file[i] = raijinMarker
    BY <1>5
  <2>2. SkipsNext(file)[i - 1] <=> i > 1 /\ file[i - 1] = raijinMarker
    <3>1. i - 1 \in 0 .. Len(file) /\ (i - 1 > 0 <=> i > 1)
      OBVIOUS
    <3>2. SkipsNext(file)[i - 1] = (i - 1 > 0 /\ file[i - 1] = raijinMarker)
      BY <1>5, <3>1
    <3> QED BY <3>1, <3>2
  <2>3. i > 1 /\ file[i - 1] = raijinMarker => file[i] = buildRcLine
    <3>1. i > 1 => i - 1 \in 1 .. Len(file) /\ (i - 1) + 1 = i
      OBVIOUS
    <3> QED BY <1>3, <3>1
  <2> QED BY <1>4, <2>1, <2>2, <2>3
<1> QED BY <1>2, <1>6 DEF Kept

(* The places of the user's lines, and those of PATH lines.                *)
OfUser(file) == {i \in DOMAIN file : file[i] \notin {Blank, raijinMarker, buildRcLine, Commented}}
OfPath(file) == {i \in DOMAIN file : file[i] = buildRcLine}

(* What TrimBlanks cuts off are blank lines.                               *)
LEMMA TrimBlanksIs ==
  ASSUME NEW S, NEW file \in Seq(S)
  PROVE  \E m \in 0 .. Len(file) : /\ TrimBlanks(file) = SubSeq(file, 1, m)
                                 /\ \A i \in 1 .. Len(file) : file[i] # Blank => i <= m
<1> DEFINE text == {i \in DOMAIN file : file[i] # Blank}
           last == CHOOSE i \in text : \A j \in text : j <= i
<1>1. Len(file) \in Nat /\ DOMAIN file = 1 .. Len(file)
  OBVIOUS
<1>2. CASE text = {}
  <2>1. TrimBlanks(file) = SubSeq(file, 1, 0)
    BY <1>2 DEF TrimBlanks
  <2> QED BY <1>1, <1>2, <2>1
<1>3. CASE text # {}
  <2>1. \E i \in text : \A j \in text : j <= i
    <3>1. text \in SUBSET (1 .. Len(file))
      BY <1>1
    <3> HIDE DEF text
    <3> DEFINE c == Cardinality(text)
    <3>2. c \in Nat /\ c # 0
      BY <1>1, <1>3, <3>1, PlacesFinite, FS_EmptySet
    <3>3. \A j \in text : Cardinality(UpTo(text, j)) \in 1 .. c /\ Place(text, Cardinality(UpTo(text, j))) = j
      BY <1>1, <3>1, Positions
    <3>4. c \in 1 .. c /\ Place(text, c) \in text
      <4>1. c \in 1 .. c
        BY <3>2
      <4> QED BY <1>1, <3>1, <4>1, Positions
    <3>5. ASSUME NEW j \in text PROVE j <= Place(text, c)
      <4> DEFINE n == Cardinality(UpTo(text, j))
      <4>1. n \in 1 .. c /\ Place(text, n) = j
        BY <3>3
      <4>2. j \in Nat /\ Place(text, c) \in Nat
        <5>1. \A i \in text : i \in Nat
          BY <1>1, <3>1
        <5> QED BY <3>4, <5>1
      <4> HIDE DEF n, c
      <4>3. CASE n = c
        BY <4>1, <4>2, <4>3
      <4>4. CASE n # c
        <5>1. n < c
          BY <3>2, <4>1, <4>4
        <5>2. Place(text, n) < Place(text, c)
          BY <1>1, <3>1, <3>4, <4>1, <5>1, PlacesIncrease DEF c
        <5> QED BY <4>1, <4>2, <5>2
      <4> QED BY <4>3, <4>4
    <3> QED BY <3>4, <3>5
  <2>2. last \in text /\ \A j \in text : j <= last
    BY <2>1
  <2>3. TrimBlanks(file) = SubSeq(file, 1, last)
    BY <1>3 DEF TrimBlanks
  <2> HIDE DEF last
  <2>4. last \in 0 .. Len(file) /\ \A i \in 1 .. Len(file) : file[i] # Blank => i <= last
    BY <1>1, <2>2
  <2> QED BY <2>3, <2>4
<1> QED BY <1>2, <1>3

(* Trimming keeps the user's lines.                                        *)
LEMMA TrimKeepsUserLines ==
  ASSUME NEW S, NEW file \in Seq(S)
  PROVE  /\ UserLines(TrimBlanks(file)) = UserLines(file)
         /\ TrimBlanks(file) \in Seq(S)
         /\ ToSet(TrimBlanks(file)) \subseteq ToSet(file)
<1>1. PICK m \in 0 .. Len(file) : /\ TrimBlanks(file) = SubSeq(file, 1, m)
                                /\ \A i \in 1 .. Len(file) : file[i] # Blank => i <= m
  BY TrimBlanksIs
<1> DEFINE t == SubSeq(file, 1, m)
<1>2. t \in Seq(S) /\ Len(t) = m /\ (\A i \in 1 .. m : t[i] = file[i] /\ i \in 1 .. Len(file))
  OBVIOUS
<1>3. DOMAIN file = 1 .. Len(file) /\ DOMAIN t = 1 .. m /\ m \in Nat
  BY <1>2
<1> HIDE DEF t
<1>4. OfUser(t) = OfUser(file)
  BY <1>1, <1>2, <1>3 DEF OfUser
<1>5. OfUser(t) \in SUBSET (1 .. m) /\ \A i \in OfUser(t) : t[i] = file[i]
  BY <1>2, <1>3 DEF OfUser
<1>6. AtPlaces(t, OfUser(t)) = AtPlaces(file, OfUser(t))
  BY <1>3, <1>5, AtPlacesAgree
<1>7. UserLines(t) = AtPlaces(t, OfUser(t)) /\ UserLines(file) = AtPlaces(file, OfUser(file))
  BY DEF UserLines, OfUser
<1>8. ToSet(t) \subseteq ToSet(file)
  BY <1>2, <1>3 DEF ToSet
<1> QED BY <1>1, <1>2, <1>4, <1>6, <1>7, <1>8 DEF t

(* The elements of a concatenation.                                        *)
LEMMA ConcatElements ==
  ASSUME NEW S, NEW s \in Seq(S), NEW t \in Seq(S)
  PROVE  /\ Len(s \o t) = Len(s) + Len(t)
         /\ \A i \in 1 .. Len(s) : (s \o t)[i] = s[i]
         /\ \A i \in 1 .. Len(t) : (s \o t)[i + Len(s)] = t[i]
OBVIOUS

(* Of an untouched file, the edit of an uninstall leaves no line of        *)
(* raijin's and all of the user's, in their order.                         *)
LEMMA RemoveRcDir ==
  ASSUME NEW S, NEW file \in Seq(S), Intact(file)
  PROVE  /\ writeRcRemoveDir(file) \in Seq(S)
         /\ ToSet(writeRcRemoveDir(file)) \cap {raijinMarker, buildRcLine} = {}
         /\ UserLines(writeRcRemoveDir(file)) = UserLines(file)
<1>1. DOMAIN file = 1 .. Len(file) /\ Len(file) \in Nat
  OBVIOUS
<1>2. CASE ~Contains(file, raijinMarker)
  <2>1. writeRcRemoveDir(file) = file
    BY <1>2 DEF writeRcRemoveDir
  <2>2. \A i \in DOMAIN file : file[i] # raijinMarker
    BY <1>1, <1>2 DEF Contains
  <2>3. \A i \in DOMAIN file : file[i] # buildRcLine
    <3>1. \A i \in DOMAIN file : file[i] = buildRcLine => i - 1 \in DOMAIN file /\ file[i - 1] = raijinMarker
      BY <1>1 DEF Intact
    <3> QED BY <2>2, <3>1
  <2> QED BY <2>1, <2>2, <2>3 DEF ToSet
<1>3. CASE Contains(file, raijinMarker)
  <2> DEFINE K == Kept(file)
             kept == AtPlaces(file, K)
             Q == OfUser(kept)
  <2>1. writeRcRemoveDir(file) = TrimBlanks(kept)
    BY <1>3, KeptIsSkipped DEF writeRcRemoveDir
  <2>2. K \in SUBSET (1 .. Len(file))
    BY <1>1 DEF Kept
  <2>3. kept \in Seq(S) /\ ToSet(kept) = {file[i] : i \in K} /\ Len(kept) = Cardinality(K)
    BY <2>2, AtPlacesSeq, AtPlacesRange
  <2>4. ToSet(kept) \cap {raijinMarker, buildRcLine} = {}
    BY <2>3 DEF Kept
  <2>5. /\ UserLines(TrimBlanks(kept)) = UserLines(kept)
        /\ TrimBlanks(kept) \in Seq(S)
        /\ ToSet(TrimBlanks(kept)) \subseteq ToSet(kept)
    BY <2>3, TrimKeepsUserLines
  <2>6. UserLines(kept) = AtPlaces(kept, Q) /\ UserLines(file) = AtPlaces(file, OfUser(file))
    BY DEF UserLines, OfUser
  <2>7. Q \in SUBSET (1 .. Cardinality(K))
    BY <2>3 DEF OfUser
  <2>8. AtPlaces(kept, Q) = AtPlaces(file, {Place(K, n) : n \in Q})
    BY <2>2, <2>7, AtPlacesOfPlaces
  <2>9. {Place(K, n) : n \in Q} = OfUser(file)
    <3>1. \A n \in 1 .. Cardinality(K) : Place(K, n) \in K /\ kept[n] = file[Place(K, n)]
      BY <2>2, AtPlacesSeq
    <3>2. \A i \in K : \E n \in 1 .. Cardinality(K) : Place(K, n) = i /\ kept[n] = file[i]
      BY <2>2, AtPlacesRange
    <3>3. OfUser(file) \subseteq K
      BY DEF OfUser, Kept
    <3>4. DOMAIN kept = 1 .. Cardinality(K)
      BY <2>3
    <3> HIDE DEF K, kept
    <3>5. \A n \in Q : Place(K, n) \in OfUser(file)
      BY <3>1, <3>4 DEF OfUser, Kept, K
    <3>6. ASSUME NEW i \in OfUser(file) PROVE \E n \in Q : Place(K, n) = i
      <4>1. PICK n \in 1 .. Cardinality(K) : Place(K, n) = i /\ kept[n] = file[i]
        BY <3>2, <3>3
      <4>2. n \in Q
        BY <3>4, <4>1 DEF OfUser
      <4> QED BY <4>1, <4>2
    <3> HIDE DEF Q
    <3> QED BY <3>5, <3>6
  <2> QED BY <2>1, <2>4, <2>5, <2>6, <2>8, <2>9
<1> QED BY <1>2, <1>3

(* The edit of an install keeps the user's lines, and of an untouched file *)
(* with at most one PATH line it makes one with exactly one.               *)
LEMMA AddRcDir ==
  ASSUME NEW S, NEW file \in Seq(S), {Blank, raijinMarker, buildRcLine} \subseteq S
  PROVE  /\ writeRcAddDir(file) \in Seq(S)
         /\ UserLines(writeRcAddDir(file)) = UserLines(file)
         /\ AtMostOnePath(file) => AtMostOnePath(writeRcAddDir(file))
         /\ Intact(file) /\ AtMostOnePath(file) => PathLines(writeRcAddDir(file)) = <<buildRcLine>>
<1> DEFINE t == writeRcAddDir(file)
           N == Len(file)
           block == <<Blank, raijinMarker, buildRcLine>>
<1>0. /\ block \in Seq(S) /\ Len(block) = 3
      /\ block[1] = Blank /\ block[2] = raijinMarker /\ block[3] = buildRcLine
  <2>1. Blank \in S /\ raijinMarker \in S /\ buildRcLine \in S
    OBVIOUS
  <2> QED BY <2>1
<1> HIDE DEF block
<1>1. DOMAIN file = 1 .. N /\ N \in Nat
  OBVIOUS
<1>2. UserLines(t) = AtPlaces(t, OfUser(t)) /\ UserLines(file) = AtPlaces(file, OfUser(file))
  BY DEF UserLines, OfUser
<1>3. t \in Seq(S)
  <2>1. file \o block \in Seq(S)
    BY <1>0
  <2> QED BY <2>1 DEF writeRcAddDir, block
<1>4. ASSUME NEW p \in 1 .. Len(t), OfPath(t) = {p} PROVE PathLines(t) = <<buildRcLine>>
  <2>1. OfPath(t) \in SUBSET (1 .. Len(t))
    BY <1>4
  <2>2. AtPlaces(t, OfPath(t)) \in Seq(S) /\ Len(AtPlaces(t, OfPath(t))) = 1
    <3>1. Cardinality(OfPath(t)) = 1
      BY <1>4, FS_Singleton
    <3> QED BY <1>3, <2>1, <3>1, AtPlacesSeq
  <2>3. AtPlaces(t, OfPath(t))[1] = buildRcLine
    <3>1. ToSet(AtPlaces(t, OfPath(t))) = {t[i] : i \in OfPath(t)}
      BY <1>3, <2>1, AtPlacesRange
    <3>2. AtPlaces(t, OfPath(t))[1] \in ToSet(AtPlaces(t, OfPath(t)))
      BY <2>2 DEF ToSet
    <3> QED BY <3>1, <3>2 DEF OfPath
  <2>4. PathLines(t) = AtPlaces(t, OfPath(t))
    BY DEF PathLines, OfPath
  <2> QED BY <2>2, <2>3, <2>4
<1>5. CASE hasRaijinLine(file)
  <2>1. t = file
    BY <1>5 DEF writeRcAddDir
  <2>2. ASSUME Intact(file), AtMostOnePath(file) PROVE PathLines(t) = <<buildRcLine>>
    <3>1. PICK p \in DOMAIN file : file[p] = buildRcLine
      BY <1>5, <2>2 DEF hasRaijinLine, Intact
    <3>2. OfPath(file) = {p}
      BY <2>2, <3>1 DEF AtMostOnePath, OfPath
    <3> QED BY <1>1, <1>4, <2>1, <3>2
  <2> QED BY <2>1, <2>2
<1>6. CASE ~hasRaijinLine(file)
  <2>1. t = file \o block
    BY <1>6 DEF writeRcAddDir, block
  <2>2. /\ Len(t) = N + 3
        /\ \A i \in 1 .. N : t[i] = file[i]
        /\ t[N + 1] = Blank /\ t[N + 2] = raijinMarker /\ t[N + 3] = buildRcLine
    <3> HIDE DEF t
    <3>0. Len(file \o block) = N + 3 /\ \A i \in 1 .. N : (file \o block)[i] = file[i]
      <4>1. Len(file \o block) = Len(file) + Len(block)
        BY <1>0, ConcatElements
      <4>2. \A i \in 1 .. Len(file) : (file \o block)[i] = file[i]
        BY <1>0, ConcatElements
      <4> QED BY <1>0, <4>1, <4>2
    <3>1. Len(t) = N + 3 /\ \A i \in 1 .. N : t[i] = file[i]
      BY <2>1, <3>0
    <3>2. \A i \in 1 .. 3 : t[i + N] = block[i]
      <4>1. block \in Seq(S)
        BY <1>0
      <4>2. \A i \in 1 .. Len(block) : (file \o block)[i + Len(file)] = block[i]
        <5> HIDE DEF block
        <5> QED BY <4>1, ConcatElements
      <4> QED BY <1>0, <2>1, <4>2
    <3>3. 1 + N = N + 1 /\ 2 + N = N + 2 /\ 3 + N = N + 3
      BY <1>1
    <3>4. t[1 + N] = block[1] /\ t[2 + N] = block[2] /\ t[3 + N] = block[3]
      BY <3>2
    <3> QED BY <1>0, <3>1, <3>3, <3>4
  <2>3. \A i \in 1 .. Len(t) : i \in 1 .. N \/ i = N + 1 \/ i = N + 2 \/ i = N + 3
    BY <1>1, <2>2
  <2>4. DOMAIN t = 1 .. Len(t) /\ (\A i \in 1 .. N : i \in 1 .. Len(t)) /\ N + 3 \in 1 .. Len(t)
    BY <1>1, <1>3, <2>2
  <2> HIDE DEF t
  <2>5. OfUser(t) = OfUser(file)
    BY <1>1, <2>2, <2>3, <2>4 DEF OfUser
  <2>6. AtPlaces(t, OfUser(file)) = AtPlaces(file, OfUser(file))
    <3>1. OfUser(file) \in SUBSET (1 .. N) /\ \A i \in OfUser(file) : t[i] = file[i]
      BY <1>1, <2>2 DEF OfUser
    <3> QED BY <1>1, <3>1, AtPlacesAgree
  <2>7. OfPath(t) = {N + 3}
    BY <1>1, <1>6, <2>2, <2>3, <2>4 DEF OfPath, hasRaijinLine, Blank, raijinMarker, buildRcLine
  <2>8. AtMostOnePath(t)
    BY <2>7 DEF OfPath, AtMostOnePath
  <2> QED BY <1>2, <1>3, <1>4, <2>4, <2>5, <2>6, <2>7, <2>8 DEF t
<1> QED BY <1>3, <1>5, <1>6

(* No edit makes a second PATH line.                                       *)
LEMMA PartKeepsOne ==
  ASSUME NEW S, NEW file \in Seq(S), AtMostOnePath(file), NEW P \in SUBSET (1 .. Len(file))
  PROVE  AtPlaces(file, P) \in Seq(S) /\ AtMostOnePath(AtPlaces(file, P))
<1> DEFINE t == AtPlaces(file, P)
<1>1. Len(file) \in Nat /\ DOMAIN file = 1 .. Len(file)
  OBVIOUS
<1>2. /\ t \in Seq(S) /\ Len(t) = Cardinality(P)
      /\ \A n \in 1 .. Cardinality(P) : Place(P, n) \in P /\ t[n] = file[Place(P, n)]
  BY AtPlacesSeq
<1>3. \A m, n \in 1 .. Cardinality(P) : Place(P, m) = Place(P, n) => m = n
  <2> TAKE m, n \in 1 .. Cardinality(P)
  <2>1. Cardinality(UpTo(P, Place(P, m))) = m /\ Cardinality(UpTo(P, Place(P, n))) = n
    BY <1>1, Positions
  <2> QED BY <2>1
<1> HIDE DEF t
<1>4. DOMAIN t = 1 .. Cardinality(P)
  BY <1>2
<1>5. AtMostOnePath(t)
  BY <1>1, <1>2, <1>3, <1>4 DEF AtMostOnePath
<1> QED BY <1>2, <1>5 DEF t

LEMMA PrefixKeepsOne ==
  ASSUME NEW S, NEW file \in Seq(S), AtMostOnePath(file), NEW m \in 0 .. Len(file)
  PROVE  SubSeq(file, 1, m) \in Seq(S) /\ AtMostOnePath(SubSeq(file, 1, m))
<1> DEFINE t == SubSeq(file, 1, m)
<1>1. t \in Seq(S) /\ Len(t) = m /\ (\A i \in 1 .. m : t[i] = file[i] /\ i \in DOMAIN file)
  OBVIOUS
<1> HIDE DEF t
<1>2. DOMAIN t = 1 .. m
  BY <1>1
<1>3. AtMostOnePath(t)
  BY <1>1, <1>2 DEF AtMostOnePath
<1> QED BY <1>1, <1>3 DEF t

LEMMA RemoveKeepsOne ==
  ASSUME NEW S, NEW file \in Seq(S), AtMostOnePath(file)
  PROVE  writeRcRemoveDir(file) \in Seq(S) /\ AtMostOnePath(writeRcRemoveDir(file))
<1> DEFINE K == {i \in DOMAIN file : ~SkipsNext(file)[i] /\ ~SkipsNext(file)[i - 1]}
           t == AtPlaces(file, K)
<1>1. writeRcRemoveDir(file) = file \/ writeRcRemoveDir(file) = TrimBlanks(t)
  BY DEF writeRcRemoveDir
<1>2. K \in SUBSET (1 .. Len(file))
  OBVIOUS
<1>3. t \in Seq(S) /\ AtMostOnePath(t)
  BY <1>2, PartKeepsOne
<1> HIDE DEF t
<1>4. PICK m \in 0 .. Len(t) : TrimBlanks(t) = SubSeq(t, 1, m)
  BY <1>3, TrimBlanksIs
<1> QED BY <1>1, <1>3, <1>4, PrefixKeepsOne

LEMMA InsertKeepsOne ==
  ASSUME NEW S, NEW file \in Seq(S), NEW i \in 1 .. Len(file) + 1, NEW new \in S
  PROVE  /\ InsertAt(file, i, new) \in Seq(S)
         /\ AtMostOnePath(file) /\ new # buildRcLine => AtMostOnePath(InsertAt(file, i, new))
<1> DEFINE t == InsertAt(file, i, new)
           head == SubSeq(file, 1, i - 1)
           tail == SubSeq(file, i, Len(file))
           old == [j \in 1 .. Len(file) + 1 |-> IF j < i THEN j ELSE j - 1]
<1>1. Len(file) \in Nat /\ i \in Nat /\ DOMAIN file = 1 .. Len(file)
  OBVIOUS
<1>2. head \in Seq(S) /\ Len(head) = i - 1 /\ \A j \in 1 .. i - 1 : head[j] = file[j]
  OBVIOUS
<1>3. /\ tail \in Seq(S) /\ Len(tail) = Len(file) + 1 - i
      /\ \A j \in 1 .. Len(file) + 1 - i : tail[j] = file[i + j - 1]
  OBVIOUS
<1>4. t = (head \o <<new>>) \o tail
  BY DEF InsertAt
<1> HIDE DEF head, tail
<1>5. /\ head \o <<new>> \in Seq(S) /\ Len(head \o <<new>>) = i
      /\ (\A j \in 1 .. i - 1 : (head \o <<new>>)[j] = file[j]) /\ (head \o <<new>>)[i] = new
  BY <1>1, <1>2
<1> DEFINE front == head \o <<new>>
<1> HIDE DEF front
<1>6. /\ t \in Seq(S) /\ Len(t) = Len(file) + 1
      /\ \A j \in 1 .. i : t[j] = front[j]
      /\ \A j \in 1 .. Len(file) + 1 - i : t[j + i] = tail[j]
  <2>1. front \in Seq(S) /\ tail \in Seq(S) /\ t = front \o tail
    BY <1>3, <1>4, <1>5 DEF front
  <2>2. Len(front) = i
    BY <1>5 DEF front
  <2> HIDE DEF t
  <2>3. /\ Len(front \o tail) = Len(front) + Len(tail)
        /\ \A j \in 1 .. Len(front) : (front \o tail)[j] = front[j]
        /\ \A j \in 1 .. Len(tail) : (front \o tail)[j + Len(front)] = tail[j]
    BY <2>1, ConcatElements
  <2>4. front \o tail \in Seq(S)
    BY <2>1
  <2> QED BY <1>1, <1>3, <2>1, <2>2, <2>3, <2>4
<1> HIDE DEF t
<1>7. \A j \in 1 .. Len(file) + 1 : j # i => t[j] = file[old[j]] /\ old[j] \in 1 .. Len(file)
  <2> TAKE j \in 1 .. Len(file) + 1
  <2>1. CASE j < i
    BY <1>1, <1>5, <1>6, <2>1 DEF front
  <2>2. CASE j > i
    <3>1. j - i \in 1 .. Len(file) + 1 - i /\ (j - i) + i = j /\ i + (j - i) - 1 = j - 1
      BY <1>1, <2>2
    <3>2. t[j] = tail[j - i]
      BY <1>6, <3>1
    <3>3. tail[j - i] = file[j - 1]
      BY <1>3, <3>1
    <3>4. old[j] = j - 1 /\ j - 1 \in 1 .. Len(file)
      BY <1>1, <2>2
    <3> QED BY <3>2, <3>3, <3>4
  <2> QED BY <1>1, <2>1, <2>2
<1>8. t[i] = new
  BY <1>1, <1>5, <1>6 DEF front
<1>9. \A j, k \in 1 .. Len(file) + 1 : j # i /\ k # i /\ old[j] = old[k] => j = k
  BY <1>1
<1> HIDE DEF old
<1>10. DOMAIN t = 1 .. Len(file) + 1
  BY <1>6
<1>11. AtMostOnePath(file) /\ new # buildRcLine => AtMostOnePath(t)
  BY <1>1, <1>7, <1>8, <1>9, <1>10 DEF AtMostOnePath
<1> QED BY <1>6, <1>11 DEF t

LEMMA DeleteKeepsOne ==
  ASSUME NEW S, NEW file \in Seq(S), NEW i \in DOMAIN file
  PROVE  /\ RemoveAt(file, i) \in Seq(S)
         /\ AtMostOnePath(file) => AtMostOnePath(RemoveAt(file, i))
<1> DEFINE t == RemoveAt(file, i)
           head == SubSeq(file, 1, i - 1)
           tail == SubSeq(file, i + 1, Len(file))
           old == [j \in 1 .. Len(file) - 1 |-> IF j < i THEN j ELSE j + 1]
<1>1. Len(file) \in Nat /\ i \in Nat /\ DOMAIN file = 1 .. Len(file) /\ i \in 1 .. Len(file)
  OBVIOUS
<1>2. head \in Seq(S) /\ Len(head) = i - 1 /\ \A j \in 1 .. i - 1 : head[j] = file[j]
  OBVIOUS
<1>3. /\ tail \in Seq(S) /\ Len(tail) = Len(file) - i
      /\ \A j \in 1 .. Len(file) - i : tail[j] = file[i + j]
  OBVIOUS
<1>4. t = head \o tail
  BY DEF RemoveAt
<1> HIDE DEF head, tail
<1>5. /\ t \in Seq(S) /\ Len(t) = Len(file) - 1
      /\ \A j \in 1 .. i - 1 : t[j] = head[j]
      /\ \A j \in 1 .. Len(file) - i : t[j + (i - 1)] = tail[j]
  <2> HIDE DEF t
  <2>0. head \in Seq(S) /\ tail \in Seq(S)
    BY <1>2, <1>3
  <2>1. /\ Len(t) = Len(head) + Len(tail)
        /\ \A j \in 1 .. Len(head) : t[j] = head[j]
        /\ \A j \in 1 .. Len(tail) : t[j + Len(head)] = tail[j]
    BY <2>0, <1>4, ConcatElements
  <2>2. t \in Seq(S)
    BY <2>0, <1>4
  <2> QED BY <1>1, <1>2, <1>3, <2>1, <2>2
<1> HIDE DEF t
<1>6. \A j \in 1 .. Len(file) - 1 : t[j] = file[old[j]] /\ old[j] \in 1 .. Len(file)
  <2> TAKE j \in 1 .. Len(file) - 1
  <2>1. CASE j < i
    BY <1>1, <1>2, <1>5, <2>1
  <2>2. CASE ~(j < i)
    <3>1. /\ j - (i - 1) \in 1 .. Len(file) - i /\ (j - (i - 1)) + (i - 1) = j
          /\ i + (j - (i - 1)) = j + 1
      BY <1>1, <2>2
    <3>2. t[j] = tail[j - (i - 1)]
      BY <1>5, <3>1
    <3>3. tail[j - (i - 1)] = file[j + 1]
      BY <1>3, <3>1
    <3>4. old[j] = j + 1 /\ j + 1 \in 1 .. Len(file)
      BY <1>1, <2>2
    <3> QED BY <3>2, <3>3, <3>4
  <2> QED BY <2>1, <2>2
<1>7. \A j, k \in 1 .. Len(file) - 1 : old[j] = old[k] => j = k
  BY <1>1
<1> HIDE DEF old
<1>8. DOMAIN t = 1 .. Len(file) - 1
  BY <1>1, <1>5
<1>9. AtMostOnePath(file) => AtMostOnePath(t)
  BY <1>1, <1>6, <1>7, <1>8 DEF AtMostOnePath
<1> QED BY <1>5, <1>9 DEF t

LEMMA CommentKeepsOne ==
  ASSUME NEW S, NEW file \in Seq(S), AtMostOnePath(file), Commented \in S, NEW i \in DOMAIN file
  PROVE  [file EXCEPT ![i] = Commented] \in Seq(S) /\ AtMostOnePath([file EXCEPT ![i] = Commented])
<1>1. [file EXCEPT ![i] = Commented] \in Seq(S)
  OBVIOUS
<1>2. AtMostOnePath([file EXCEPT ![i] = Commented])
  BY DEF AtMostOnePath, Commented, buildRcLine
<1> QED BY <1>1, <1>2

-----------------------------------------------------------------------------
(* PATH on Windows. *)

(* The places of the entries listItems keeps.                              *)
Listed(value) ==
  {i \in DOMAIN value :
     value[i] # Blank /\ \A j \in 1 .. i - 1 : normalizeDir(value[j]) # normalizeDir(value[i])}

(* A list without blank or repeated entries.                               *)
Clean(value) ==
  \A i \in DOMAIN value :
    value[i] # Blank /\ \A j \in DOMAIN value : normalizeDir(value[j]) = normalizeDir(value[i]) => i = j

(* The places of the entries that are not bin.                             *)
NotBin(value) == {i \in DOMAIN value : normalizeDir(value[i]) # Bin}

LEMMA ListItemsIs ==
  ASSUME NEW value
  PROVE  listItems(value) = AtPlaces(value, Listed(value))
BY DEF listItems, Listed

(* A clean list is its own items.                                          *)
LEMMA CleanItems ==
  ASSUME NEW S, NEW value \in Seq(S), Clean(value)
  PROVE  listItems(value) = value
<1>1. DOMAIN value = 1 .. Len(value) /\ Len(value) \in Nat
  OBVIOUS
<1>2. Listed(value) = 1 .. Len(value)
  BY <1>1 DEF Clean, Listed
<1> QED BY <1>2, ListItemsIs, AtPlacesAll

(* What is taken from a clean list is clean.                               *)
LEMMA CleanPart ==
  ASSUME NEW S, NEW value \in Seq(S), Clean(value), NEW P \in SUBSET (DOMAIN value)
  PROVE  AtPlaces(value, P) \in Seq(S) /\ Clean(AtPlaces(value, P))
<1> DEFINE c == Cardinality(P)
           t == AtPlaces(value, P)
<1>1. P \in SUBSET (1 .. Len(value)) /\ DOMAIN value = 1 .. Len(value) /\ Len(value) \in Nat
  OBVIOUS
<1>2. /\ t \in Seq(S) /\ Len(t) = c /\ c \in Nat
      /\ \A n \in 1 .. c : Place(P, n) \in P /\ t[n] = value[Place(P, n)]
  BY <1>1, AtPlacesSeq
<1>3. \A m, n \in 1 .. c : Place(P, m) = Place(P, n) => m = n
  <2> TAKE m, n \in 1 .. c
  <2>1. Cardinality(UpTo(P, Place(P, m))) = m /\ Cardinality(UpTo(P, Place(P, n))) = n
    BY <1>1, Positions
  <2> QED BY <2>1
<1> HIDE DEF t, c
<1>4. DOMAIN t = 1 .. c
  BY <1>2
<1> QED BY <1>1, <1>2, <1>3, <1>4 DEF Clean, t

(* The items are clean, and every entry is among them in some spelling.    *)
LEMMA ItemsClean ==
  ASSUME NEW S, NEW value \in Seq(S)
  PROVE  /\ listItems(value) \in Seq(S) /\ Clean(listItems(value))
         /\ ListContainsDir(listItems(value)) <=> ListContainsDir(value)
<1> DEFINE P == Listed(value)
           c == Cardinality(P)
           t == listItems(value)
<1>1. P \in SUBSET (1 .. Len(value)) /\ DOMAIN value = 1 .. Len(value) /\ Len(value) \in Nat
  BY DEF Listed
<1>2. /\ t \in Seq(S) /\ Len(t) = c /\ c \in Nat
      /\ \A n \in 1 .. c : Place(P, n) \in P /\ t[n] = value[Place(P, n)]
  BY <1>1, AtPlacesSeq, ListItemsIs
<1>3. \A i, j \in P : normalizeDir(value[i]) = normalizeDir(value[j]) => i = j
  <2> TAKE i, j \in P
  <2>1. i < j => i \in 1 .. j - 1
    BY <1>1
  <2>2. j < i => j \in 1 .. i - 1
    BY <1>1
  <2>3. i < j \/ i = j \/ j < i
    BY <1>1
  <2> QED BY <2>1, <2>2, <2>3 DEF Listed
<1>4. \A m, n \in 1 .. c : Place(P, m) = Place(P, n) => m = n
  <2> TAKE m, n \in 1 .. c
  <2>1. Cardinality(UpTo(P, Place(P, m))) = m /\ Cardinality(UpTo(P, Place(P, n))) = n
    BY <1>1, Positions
  <2> QED BY <2>1
<1>5. \A i \in P : \E n \in 1 .. c : Place(P, n) = i /\ t[n] = value[i]
  BY <1>1, AtPlacesRange, ListItemsIs
<1>6. \A i \in P : value[i] # Blank
  BY DEF Listed
<1> HIDE DEF t, c
<1>7. DOMAIN t = 1 .. c
  BY <1>2
<1>8. Clean(t)
  BY <1>2, <1>3, <1>4, <1>6, <1>7 DEF Clean
<1>9. ASSUME ListContainsDir(t) PROVE ListContainsDir(value)
  BY <1>1, <1>2, <1>7, <1>9 DEF ListContainsDir
<1>10. ASSUME ListContainsDir(value) PROVE ListContainsDir(t)
  <2> DEFINE T == {i \in 1 .. Len(value) : normalizeDir(value[i]) = Bin}
  <2>1. T # {} /\ T \in SUBSET (1 .. Len(value))
    BY <1>1, <1>10 DEF ListContainsDir
  <2>2. 1 \in 1 .. Cardinality(T)
    <3>1. IsFiniteSet(T) /\ Cardinality(T) \in Nat /\ Cardinality(T) # 0
      BY <1>1, <2>1, PlacesFinite, FS_EmptySet
    <3> HIDE DEF T
    <3> QED BY <3>1
  <2> DEFINE i == Place(T, 1)
  <2>3. i \in T /\ Cardinality(UpTo(T, i)) = 1
    BY <1>1, <2>1, <2>2, Positions
  <2>4. ASSUME NEW j \in 1 .. i - 1, normalizeDir(value[j]) = Bin PROVE FALSE
    <3>1. j \in T /\ j < i
      BY <1>1, <2>3, <2>4
    <3>2. Cardinality(UpTo(T, j)) \in 1 .. Cardinality(T)
      BY <1>1, <2>1, <3>1, Positions
    <3>3. Cardinality(UpTo(T, j)) < Cardinality(UpTo(T, i))
      <4> HIDE DEF T, i
      <4> QED BY <1>1, <2>1, <2>3, <3>1, UpToGrows
    <3> QED BY <2>3, <3>2, <3>3
  <2>5. i \in P
    <3>1. value[i] # Blank
      BY <2>3 DEF normalizeDir, Bin, Blank
    <3> QED BY <1>1, <2>3, <2>4, <3>1 DEF Listed
  <2> QED BY <1>5, <1>7, <2>3, <2>5 DEF ListContainsDir
<1> QED BY <1>2, <1>8, <1>9, <1>10 DEF t

(* The parts of a clean list.                                              *)
LEMMA CleanParts ==
  ASSUME NEW S, NEW value \in Seq(S), Clean(value)
  PROVE  /\ BinItems(value) = AtPlaces(value, DOMAIN value \ NotBin(value))
         /\ OtherItems(value) = AtPlaces(value, NotBin(value))
         /\ Len(BinItems(value)) = IF ListContainsDir(value) THEN 1 ELSE 0
<1> DEFINE B == {i \in DOMAIN value : normalizeDir(value[i]) = Bin}
<1>1. BinItems(value) = AtPlaces(value, B) /\ B = DOMAIN value \ NotBin(value)
  BY DEF BinItems, NotBin
<1>2. OtherItems(value) = AtPlaces(value, NotBin(value))
  BY CleanItems DEF OtherItems, NotBin
<1>3. B \in SUBSET (1 .. Len(value))
  OBVIOUS
<1>4. Len(AtPlaces(value, B)) = Cardinality(B)
  BY <1>3, AtPlacesSeq
<1>5. CASE ListContainsDir(value)
  <2>1. PICK i \in DOMAIN value : normalizeDir(value[i]) = Bin
    BY <1>5 DEF ListContainsDir
  <2>2. B = {i}
    BY <2>1 DEF Clean
  <2>3. Cardinality(B) = 1
    BY <2>2, FS_Singleton
  <2> QED BY <1>1, <1>2, <1>4, <1>5, <2>3
<1>6. CASE ~ListContainsDir(value)
  <2>1. B = {}
    BY <1>6 DEF ListContainsDir
  <2>2. Cardinality(B) = 0
    BY <2>1, FS_EmptySet
  <2> QED BY <1>1, <1>2, <1>4, <1>6, <2>2
<1> QED BY <1>5, <1>6

(* ListRemoveDir takes every spelling of bin out and keeps the others.     *)
LEMMA RemoveListDir ==
  ASSUME NEW S, NEW value \in Seq(S)
  PROVE  /\ ListRemoveDir(value) \in Seq(S)
         /\ Len(BinItems(ListRemoveDir(value))) = 0
         /\ OtherItems(ListRemoveDir(value)) = OtherItems(value)
<1> DEFINE items == listItems(value)
           P == NotBin(items)
           t == AtPlaces(items, P)
<1>1. items \in Seq(S) /\ Clean(items)
  BY ItemsClean
<1>2. ListRemoveDir(value) = t /\ OtherItems(value) = t
  BY DEF ListRemoveDir, OtherItems, NotBin
<1>3. P \in SUBSET (DOMAIN items) /\ P \in SUBSET (1 .. Len(items))
  BY <1>1 DEF NotBin
<1>4. t \in Seq(S) /\ Clean(t)
  BY <1>1, <1>3, CleanPart
<1>5. ToSet(t) = {items[i] : i \in P}
  BY <1>1, <1>3, AtPlacesRange
<1>6. \A i \in DOMAIN t : normalizeDir(t[i]) # Bin
  <2>1. \A i \in DOMAIN t : t[i] \in ToSet(t)
    BY DEF ToSet
  <2> QED BY <1>5, <2>1 DEF NotBin
<1> HIDE DEF t
<1>7. ~ListContainsDir(t) /\ NotBin(t) = 1 .. Len(t)
  BY <1>4, <1>6 DEF ListContainsDir, NotBin
<1>8. OtherItems(t) = t
  BY <1>4, <1>7, CleanParts, AtPlacesAll
<1> QED BY <1>2, <1>4, <1>7, <1>8, CleanParts

(* ListAppendDir makes bin one entry of PATH and keeps the others.         *)
LEMMA AppendListDir ==
  ASSUME NEW S, NEW value \in Seq(S), Bin \in S
  PROVE  /\ ListAppendDir(value) \in Seq(S)
         /\ Len(BinItems(ListAppendDir(value))) = 1
         /\ OtherItems(ListAppendDir(value)) = OtherItems(value)
<1> DEFINE items == listItems(value)
           t == ListAppendDir(value)
<1>1. items \in Seq(S) /\ Clean(items) /\ (ListContainsDir(items) <=> ListContainsDir(value))
  BY ItemsClean
<1>2. listItems(items) = items
  BY <1>1, CleanItems
<1>3. OtherItems(items) = OtherItems(value)
  BY <1>2 DEF OtherItems
<1>4. CASE ListContainsDir(value)
  <2>1. t = items
    BY <1>4 DEF ListAppendDir
  <2> QED BY <1>1, <1>3, <1>4, <2>1, CleanParts
<1>5. CASE ~ListContainsDir(value)
  <2> DEFINE n == Len(items)
             u == Append(items, Bin)
  <2>1. t = u
    BY <1>5 DEF ListAppendDir
  <2>2. u \in Seq(S) /\ Len(u) = n + 1 /\ (\A i \in 1 .. n : u[i] = items[i]) /\ u[n + 1] = Bin
    BY <1>1
  <2>3. n \in Nat /\ DOMAIN items = 1 .. n /\ DOMAIN u = 1 .. n + 1
    BY <1>1, <2>2
  <2>4. \A i \in 1 .. n + 1 : i \in 1 .. n \/ i = n + 1
    BY <2>3
  <2>5. normalizeDir(Bin) = Bin /\ Bin # Blank
    BY DEF normalizeDir, Bin, Blank
  <2>6. \A i \in 1 .. n : normalizeDir(items[i]) # Bin
    BY <1>1, <1>5, <2>3 DEF ListContainsDir
  <2> HIDE DEF u, n, items
  <2>7. Clean(u)
    BY <1>1, <2>2, <2>3, <2>4, <2>5, <2>6 DEF Clean
  <2>8. ListContainsDir(u)
    <3>1. n + 1 \in DOMAIN u
      BY <2>3
    <3> QED BY <2>2, <2>5, <3>1 DEF ListContainsDir
  <2>9. NotBin(u) = 1 .. n /\ NotBin(items) = 1 .. n
    BY <2>2, <2>3, <2>4, <2>5, <2>6 DEF NotBin
  <2>10. AtPlaces(u, 1 .. n) = AtPlaces(items, 1 .. n)
    BY <2>2, <2>3, AtPlacesAgree
  <2> QED BY <1>1, <1>3, <2>1, <2>2, <2>7, <2>8, <2>9, <2>10, CleanParts
<1> QED BY <1>4, <1>5

-----------------------------------------------------------------------------
(* The steps, without what the screens do.                                 *)

InstallStep ==
  \/ InstallCommands \/ UninstallCommands
  \/ \E path \in {addToPath, addToPath'} : performInstall(path)
  \/ CommandStep \/ HelperRound \/ EditPath
  \/ Unpacked \/ InspectPath \/ AddPath
  \/ UNCHANGED installVars

LEMMA NextIsInstallStep == [Next]_vars => InstallStep
<1> SUFFICES ASSUME [Next]_vars PROVE InstallStep
  OBVIOUS
<1>1. CASE Commands
  BY <1>1 DEF Commands, InstallStep
<1>2. CASE World
  BY <1>2 DEF World, InstallStep
<1>3. CASE SetupKeys
  <2>1. CASE runInteractive
    BY <2>1 DEF runInteractive, InstallStep
  <2>2. CASE runSilent
    BY <2>2 DEF runSilent, InstallStep
  <2>3. CASE WelcomeKey
    BY <2>3 DEF WelcomeKey, InstallStep
  <2>4. CASE CloseKey
    BY <2>4 DEF CloseKey, InstallStep
  <2>5. CASE SetupKilled
    BY <2>5 DEF SetupKilled, CommandStep, InstallStep
  <2> QED BY <1>3, <2>1, <2>2, <2>3, <2>4, <2>5 DEF SetupKeys
<1>4. CASE SetupWork
  BY <1>4 DEF SetupWork, installFinishedMsg, InstallStep
<1>5. CASE UNCHANGED vars
  BY <1>5 DEF vars, InstallStep
<1> QED BY <1>1, <1>2, <1>3, <1>4, <1>5 DEF Next

-----------------------------------------------------------------------------
(* PATH. *)

RcLines == STRING \cup {Blank, raijinMarker, buildRcLine, Commented, UserLine}
PathEntries == STRING \cup {Bin, "BIN"}

PathInv ==
  /\ os \in {"unix", "windows"} /\ shell \in Shells /\ edits \in Nat
  /\ rc \in [Shells -> Seq(RcLines)] /\ \A s \in Shells : AtMostOnePath(rc[s])
  /\ list \in Seq(PathEntries)

(* Sequences of fewer elements are sequences of more.                      *)
LEMMA SeqWider ==
  ASSUME NEW S, NEW T, S \subseteq T, NEW s \in Seq(S)
  PROVE  s \in Seq(T)
OBVIOUS

LEMMA PathInit == Init => PathInv
<1> SUFFICES ASSUME Init PROVE PathInv
  OBVIOUS
<1>1. InstallInit /\ shell \in Shells /\ edits \in Nat
  BY InstallAssumption DEF Init, InstallInit
<1>2. <<>> \in Seq(RcLines) /\ <<>> \in Seq(PathEntries) /\ AtMostOnePath(<<>>)
  BY DEF AtMostOnePath
<1>3. \A text \in FirstRcs : text \in Seq(RcLines) /\ AtMostOnePath(text)
  BY PathAssumption, SeqWider DEF RcLines
<1>4. \A text \in FirstLists : text \in Seq(PathEntries)
  BY PathAssumption, SeqWider DEF PathEntries
<1>5. CASE os = "unix" /\ list = <<>> /\ \E text \in FirstRcs : rc = [s \in Shells |-> text]
  BY <1>1, <1>2, <1>3, <1>5 DEF PathInv
<1>6. CASE os = "windows" /\ rc = [s \in Shells |-> <<>>] /\ list \in FirstLists
  BY <1>1, <1>2, <1>4, <1>6 DEF PathInv
<1> QED BY <1>1, <1>5, <1>6 DEF InstallInit

(* What one edit of PATH does.                                             *)
LEMMA PathEdited ==
  ASSUME PathInv, UpdateUserPathDir, UNCHANGED <<os, shell, edits>>
  PROVE  /\ PathInv'
         /\ IF os = "unix"
            THEN Intact(rc[shell]) =>
                   IF Adds THEN PathLines(rc'[shell]) = <<buildRcLine>>
                   ELSE ToSet(rc'[shell]) \cap {raijinMarker, buildRcLine} = {}
            ELSE Len(BinItems(list')) = (IF Adds THEN 1 ELSE 0)
         /\ \A s \in Shells : s # shell => rc'[s] = rc[s]
         /\ Intact(rc[shell]) => UserLines(rc'[shell]) = UserLines(rc[shell])
         /\ OtherItems(list') = OtherItems(list)
<1>1. /\ shell \in Shells /\ rc \in [Shells -> Seq(RcLines)] /\ rc[shell] \in Seq(RcLines)
      /\ AtMostOnePath(rc[shell]) /\ list \in Seq(PathEntries)
  BY DEF PathInv
<1>2. CASE os = "unix"
  <2> DEFINE text == IF Adds THEN writeRcAddDir(rc[shell]) ELSE writeRcRemoveDir(rc[shell])
  <2>1. rc' = [rc EXCEPT ![shell] = text] /\ UNCHANGED list
    BY <1>2 DEF UpdateUserPathDir
  <2>2. {Blank, raijinMarker, buildRcLine} \subseteq RcLines
    BY DEF RcLines
  <2>3. text \in Seq(RcLines) /\ AtMostOnePath(text)
    BY <1>1, <2>2, AddRcDir, RemoveKeepsOne
  <2>4. Intact(rc[shell]) =>
          /\ IF Adds THEN PathLines(text) = <<buildRcLine>>
             ELSE ToSet(text) \cap {raijinMarker, buildRcLine} = {}
          /\ UserLines(text) = UserLines(rc[shell])
    BY <1>1, <2>2, AddRcDir, RemoveRcDir
  <2> HIDE DEF text
  <2>5. rc'[shell] = text /\ \A s \in Shells : s # shell => rc'[s] = rc[s]
    BY <1>1, <2>1
  <2>6. PathInv'
    BY <1>1, <2>1, <2>3, <2>5 DEF PathInv
  <2> QED BY <1>2, <2>1, <2>4, <2>5, <2>6
<1>3. CASE os # "unix"
  <2>1. list' = (IF Adds THEN ListAppendDir(list) ELSE ListRemoveDir(list)) /\ UNCHANGED rc
    BY <1>3 DEF UpdateUserPathDir
  <2>2. Bin \in PathEntries
    BY DEF PathEntries
  <2>3. /\ list' \in Seq(PathEntries)
        /\ Len(BinItems(list')) = (IF Adds THEN 1 ELSE 0)
        /\ OtherItems(list') = OtherItems(list)
    BY <1>1, <2>1, <2>2, AppendListDir, RemoveListDir
  <2>4. PathInv'
    BY <2>1, <2>3 DEF PathInv
  <2> QED BY <1>3, <2>1, <2>3, <2>4
<1> QED BY <1>2, <1>3

(* What the user does to PATH.                                             *)
LEMMA EditedByHand == PathInv /\ EditPath => PathInv'
<1> SUFFICES ASSUME PathInv, EditPath PROVE PathInv'
  OBVIOUS
<1>1. /\ shell \in Shells /\ rc \in [Shells -> Seq(RcLines)] /\ rc[shell] \in Seq(RcLines)
      /\ AtMostOnePath(rc[shell]) /\ list \in Seq(PathEntries)
  BY DEF PathInv
<1>2. edits' \in Nat /\ os' = os
  BY DEF EditPath, PathInv
<1>3. ASSUME NEW text \in LineEdits(rc[shell], UserLine)
      PROVE  text \in Seq(RcLines) /\ AtMostOnePath(text)
  <2>1. UserLine \in RcLines /\ UserLine # buildRcLine
    BY PathAssumption DEF RcLines
  <2>2. \/ \E i \in 1 .. Len(rc[shell]) + 1 : text = InsertAt(rc[shell], i, UserLine)
        \/ \E i \in DOMAIN rc[shell] : text = RemoveAt(rc[shell], i)
    BY DEF LineEdits
  <2> QED BY <1>1, <2>1, <2>2, InsertKeepsOne, DeleteKeepsOne
<1>4. ASSUME NEW i \in DOMAIN rc[shell]
      PROVE  /\ [rc[shell] EXCEPT ![i] = Commented] \in Seq(RcLines)
             /\ AtMostOnePath([rc[shell] EXCEPT ![i] = Commented])
  <2>1. Commented \in RcLines
    BY DEF RcLines
  <2> QED BY <1>1, <2>1, CommentKeepsOne
<1>5. ASSUME NEW text \in Seq(RcLines), AtMostOnePath(text), rc' = [rc EXCEPT ![shell] = text],
             UNCHANGED <<shell, list>>
      PROVE  PathInv'
  <2>1. \A s \in Shells : AtMostOnePath(rc'[s])
    BY <1>1, <1>5 DEF PathInv
  <2> QED BY <1>1, <1>2, <1>5, <2>1 DEF PathInv
<1>6. CASE shell' \in Shells \ {shell} /\ UNCHANGED <<rc, list>>
  BY <1>2, <1>6 DEF PathInv
<1>7. ASSUME list' \in LineEdits(list, "BIN"), UNCHANGED <<rc, shell>> PROVE PathInv'
  <2>1. "BIN" \in PathEntries
    BY DEF PathEntries
  <2>2. \/ \E i \in 1 .. Len(list) + 1 : list' = InsertAt(list, i, "BIN")
        \/ \E i \in DOMAIN list : list' = RemoveAt(list, i)
    BY <1>7 DEF LineEdits
  <2>3. list' \in Seq(PathEntries)
    BY <1>1, <2>1, <2>2, InsertKeepsOne, DeleteKeepsOne
  <2> QED BY <1>2, <1>7, <2>3 DEF PathInv
<1> QED BY <1>3, <1>4, <1>5, <1>6, <1>7 DEF EditPath

(* A command killed in the edit leaves the first lines of what it wrote.   *)
LEMMA EditCutOff == PathInv /\ UpdatePathBreaks => PathInv'
<1> SUFFICES ASSUME PathInv, UpdatePathBreaks PROVE PathInv'
  OBVIOUS
<1>1. /\ shell \in Shells /\ rc \in [Shells -> Seq(RcLines)] /\ rc[shell] \in Seq(RcLines)
      /\ AtMostOnePath(rc[shell])
  BY DEF PathInv
<1> DEFINE text == writeRcRemoveDir(rc[shell])
<1>2. text \in Seq(RcLines) /\ AtMostOnePath(text)
  BY <1>1, RemoveKeepsOne
<1>3. PICK n \in 0 .. Len(text) - 1 : rc' = [rc EXCEPT ![shell] = SubSeq(text, 1, n)]
  BY DEF UpdatePathBreaks
<1> HIDE DEF text
<1>4. n \in 0 .. Len(text)
  BY <1>2, <1>3
<1>5. SubSeq(text, 1, n) \in Seq(RcLines) /\ AtMostOnePath(SubSeq(text, 1, n))
  BY <1>2, <1>4, PrefixKeepsOne
<1>6. rc' \in [Shells -> Seq(RcLines)] /\ \A s \in Shells : AtMostOnePath(rc'[s])
  BY <1>1, <1>3, <1>5 DEF PathInv
<1>7. UNCHANGED <<os, shell, edits, list>>
  BY DEF UpdatePathBreaks, machine
<1> QED BY <1>6, <1>7 DEF PathInv

LEMMA PathInvStep == PathInv /\ [Next]_vars => PathInv'
<1> SUFFICES ASSUME PathInv, [Next]_vars PROVE PathInv'
  OBVIOUS
<1>1. InstallStep
  BY NextIsInstallStep
<1>2. ASSUME UNCHANGED <<os, shell, edits, rc, list>> PROVE PathInv'
  BY <1>2 DEF PathInv
<1>3. CASE InstallCommands \/ UninstallCommands
  BY <1>2, <1>3 DEF InstallCommands, UninstallCommands, InstallBegin, UninstallBegin, machine
<1>4. ASSUME NEW path, performInstall(path) PROVE PathInv'
  BY <1>2, <1>4 DEF performInstall, machine
<1>5. CASE CommandStep
  <2>1. CASE UpdatePath
    BY <2>1, PathEdited DEF UpdatePath, machine
  <2>2. CASE UpdatePathBreaks
    BY <2>2, EditCutOff
  <2>3. CASE CopyNext \/ CopyBreaks \/ CopyEnds \/ CommandBreaks
    BY <1>2, <2>3 DEF CopyNext, CopyBreaks, CopyEnds, CommandBreaks, machine
  <2>4. CASE RemoveNext \/ PurgePrograms \/ PurgeBreaks
    BY <1>2, <2>4 DEF RemoveNext, PurgePrograms, PurgeBreaks, machine
  <2>5. CASE RemoveEmptyDirs \/ ScheduleCleanup \/ Exit
    BY <1>2, <2>5 DEF RemoveEmptyDirs, ScheduleCleanup, Exit, machine
  <2> QED BY <1>5, <2>1, <2>2, <2>3, <2>4, <2>5 DEF CommandStep
<1>6. CASE HelperRound
  BY <1>2, <1>6 DEF HelperRound, machine
<1>7. CASE EditPath
  BY <1>7, EditedByHand
<1>8. CASE Unpacked \/ InspectPath
  BY <1>2, <1>8 DEF Unpacked, InspectPath
<1>9. CASE AddPath
  BY <1>9, PathEdited DEF AddPath
<1>10. CASE UNCHANGED installVars
  BY <1>2, <1>10 DEF installVars
<1> QED BY <1>1, <1>3, <1>4, <1>5, <1>6, <1>7, <1>8, <1>9, <1>10 DEF InstallStep

(* Only the edits of a command are steps of which the properties speak.    *)
LEMMA PathStepEdits ==
  ASSUME PathInv, [Next]_vars, PathStep
  PROVE  UpdateUserPathDir /\ UNCHANGED <<os, shell, edits>>
<1>1. InstallStep
  BY NextIsInstallStep
<1>2. cmd.at = "path" /\ cmd'.at # "path" /\ cmd'.at # "failed" /\ edits' = edits
  BY DEF PathStep
<1>3. CASE InstallCommands \/ UninstallCommands
  BY <1>2, <1>3 DEF InstallCommands, UninstallCommands, InstallBegin, UninstallBegin, Begin, Resting
<1>4. ASSUME NEW path, performInstall(path) PROVE FALSE
  BY <1>2, <1>4 DEF performInstall, Begin, Resting
<1>5. CASE CommandStep
  <2>1. CASE UpdatePath
    BY <2>1 DEF UpdatePath, machine
  <2>2. CASE UpdatePathBreaks \/ CommandBreaks \/ CopyBreaks \/ PurgeBreaks
    BY <1>2, <2>2 DEF UpdatePathBreaks, CommandBreaks, CopyBreaks, PurgeBreaks, Failed, NoCommand
  <2>3. CASE CopyNext \/ CopyEnds \/ RemoveNext \/ PurgePrograms
    BY <1>2, <2>3 DEF CopyNext, CopyEnds, RemoveNext, PurgePrograms
  <2>4. CASE RemoveEmptyDirs \/ ScheduleCleanup \/ Exit
    BY <1>2, <2>4 DEF RemoveEmptyDirs, ScheduleCleanup, Exit
  <2> QED BY <1>5, <2>1, <2>2, <2>3, <2>4 DEF CommandStep
<1>6. CASE HelperRound
  <2>1. cmd' = [cmd EXCEPT !.clean = FALSE]
    BY <1>6 DEF HelperRound
  <2> QED BY <1>2, <2>1
<1>7. CASE EditPath
  BY <1>2, <1>7 DEF EditPath, PathInv
<1>8. CASE Unpacked \/ InspectPath
  BY <1>2, <1>8 DEF Unpacked, InspectPath, Running
<1>9. CASE AddPath
  BY <1>9 DEF AddPath
<1>10. CASE UNCHANGED installVars
  BY <1>2, <1>10 DEF installVars
<1> QED BY <1>1, <1>3, <1>4, <1>5, <1>6, <1>7, <1>8, <1>9, <1>10 DEF InstallStep

(* pathing: for start-up files and PATHs of any length, an install leaves  *)
(* exactly one line or entry for bin, and an uninstall none.               *)
THEOREM PathIsAsAsked == Spec => PathAsAsked
<1>1. PathInv /\ [Next]_vars =>
        [PathStep =>
           IF os = "unix"
           THEN Intact(rc[shell]) =>
                  IF Adds THEN PathLines(rc'[shell]) = <<buildRcLine>>
                  ELSE ToSet(rc'[shell]) \cap {raijinMarker, buildRcLine} = {}
           ELSE Len(BinItems(list')) = (IF Adds THEN 1 ELSE 0)
        ]_<<cmd, rc, list, edits>>
  BY PathStepEdits, PathEdited
<1> QED BY <1>1, PathInit, PathInvStep, PTL DEF Spec, PathAsAsked

(* The same edits keep the user's lines and the other entries.             *)
THEOREM PathKeepsOthers == Spec => OthersKept
<1>1. PathInv /\ [Next]_vars =>
        [PathStep =>
           /\ \A s \in Shells : s # shell => rc'[s] = rc[s]
           /\ Intact(rc[shell]) => UserLines(rc'[shell]) = UserLines(rc[shell])
           /\ OtherItems(list') = OtherItems(list)
        ]_<<cmd, rc, list, edits>>
  BY PathStepEdits, PathEdited
<1> QED BY <1>1, PathInit, PathInvStep, PTL DEF Spec, OthersKept

-----------------------------------------------------------------------------
(* Files. *)

CopyItems == [file : Files, version : Versions]

CommandRecords ==
  [kind : {"none", "install", "setup", "uninstall"},
   at : {"idle", "copy", "remove", "purge", "dirs", "inspect", "path", "schedule", "exit",
         "done", "failed"},
   todo : Seq(CopyItems) \cup Seq(Bins), version : Versions \cup {"none"},
   programs : SUBSET ToSet(Programs),
   sdk : BOOLEAN, path : BOOLEAN, purge : BOOLEAN, self : BOOLEAN, clean : BOOLEAN]

(* The phases of a command, and what it has left to do in each.            *)
CommandInv ==
  /\ cmd \in CommandRecords
  /\ cmd.at \in {"copy", "inspect"} => cmd.kind \in {"install", "setup"}
  /\ cmd.at = "copy" => cmd.todo \in Seq(CopyItems)
  /\ cmd.at \in {"remove", "purge", "dirs", "schedule", "exit"} => cmd.kind = "uninstall"
  /\ cmd.kind = "uninstall" => cmd.todo \in Seq(Bins)
  /\ cmd.at = "remove" => cmd.todo # <<>>

DiskInv ==
  /\ tree \in [Files -> Versions \cup {"torn", "none"}]
  /\ dirs \subseteq {"root", "bin", "programs", "sdk"}
  /\ \A f \in Files : tree[f] # "none" => DirOf(f) \in dirs
  /\ dirs # {} => "root" \in dirs

HelperInv == helper \in [files : SUBSET Bins, rounds : 0 .. MaxTries]

CounterInv == commands \in 0 .. MaxCommands /\ edits \in 0 .. MaxEdits

WindowInv ==
  /\ screen \in {"none", "welcome", "installing", "silent", "done", "error", "canceled", "closed"}
  /\ selected \in {0, 1} /\ addToPath \in BOOLEAN
  /\ result \in {"none", "skipped", "uninspected", "already", "added", "unchanged"}

TypeInv == DiskInv /\ HelperInv /\ CounterInv /\ WindowInv /\ CommandInv

(* The files of a command's version when it has ended.                     *)
Owed ==
  (IF cmd.self THEN {} ELSE Bins) \cup cmd.programs
    \cup (IF cmd.sdk THEN ToSet(SdkFiles) ELSE {})
    \cup (IF cmd.kind = "setup" THEN {"readme"} ELSE {})

(* Each of them is there in that version or still to be copied in it.      *)
CopyInv ==
  (cmd.kind \in {"install", "setup"} /\ cmd.clean /\ cmd.at # "failed") =>
    /\ \A f \in Owed : tree[f] = cmd.version \/ \E i \in ToSet(cmd.todo) : i.file = f
    /\ \A i \in ToSet(cmd.todo) : i.file \in Owed => i.version = cmd.version
    /\ cmd.at # "copy" => cmd.todo = <<>>

(* What raijin-setup is about.                                             *)
PayloadInv ==
  (cmd.kind = "setup" /\ cmd.at # "failed") =>
    /\ cmd.version = PayloadVersion /\ cmd.programs = PayloadPrograms
    /\ cmd.sdk /\ ~cmd.self

(* Which screen goes with which phase of the unpacking.                    *)
ScreenInv ==
  /\ screen \in {"none", "welcome", "canceled"} => cmd.kind # "setup"
  /\ (cmd.kind = "setup" /\ ~Resting) => screen \in {"installing", "silent"}
  /\ screen \in {"installing", "silent"} => cmd.kind = "setup"
  /\ screen = "done" => cmd.kind = "setup" /\ cmd.at = "done"
  /\ screen = "error" => Resting

(* What is found out of PATH, and when.                                    *)
ResultInv ==
  /\ screen \in {"none", "welcome"} => result = "none"
  /\ (cmd.kind = "setup" /\ cmd.at \in {"copy", "inspect", "path"}) => result = "none"
  /\ (cmd.kind = "setup" /\ cmd.at \in {"inspect", "path"}) => addToPath
  /\ (screen \in {"installing", "silent", "done"} /\ cmd.at = "done") =>
       /\ addToPath <=> result # "skipped"
       /\ cmd.clean /\ result \in {"already", "added"} => ListContainsDir(list)

SetupInv == TypeInv /\ CopyInv /\ PayloadInv /\ ScreenInv /\ ResultInv

-----------------------------------------------------------------------------
(* What is to be copied. *)

LEMMA CopiesAre ==
  ASSUME NEW names \in Seq(Files), NEW source,
         \A f \in ToSet(names) : source[f] \in Versions \cup {"none"}
  PROVE  /\ Copies(names, source) \in Seq(CopyItems)
         /\ \A i \in ToSet(Copies(names, source)) :
              i.file \in ToSet(names) /\ i.version = source[i.file] /\ i.version # "none"
         /\ \A f \in ToSet(names) :
              source[f] # "none" => \E i \in ToSet(Copies(names, source)) : i.file = f
<1> DEFINE P == {i \in DOMAIN names : source[names[i]] # "none"}
           found == AtPlaces(names, P)
           copies == Copies(names, source)
<1>1. P \in SUBSET (1 .. Len(names))
  OBVIOUS
<1>2. found \in Seq(Files) /\ ToSet(found) = {names[i] : i \in P}
  BY <1>1, AtPlacesSeq, AtPlacesRange
<1>3. \A f \in ToSet(found) : f \in ToSet(names) /\ source[f] # "none" /\ f \in Files
  <2>1. \A i \in P : names[i] \in ToSet(names) /\ source[names[i]] # "none" /\ names[i] \in Files
    BY DEF ToSet
  <2> HIDE DEF P, found
  <2> QED BY <1>2, <2>1
<1>4. \A f \in ToSet(names) : source[f] # "none" => f \in ToSet(found)
  BY <1>2 DEF ToSet
<1>5. copies = [i \in DOMAIN found |-> [file |-> found[i], version |-> source[found[i]]]]
  BY DEF Copies
<1> HIDE DEF found, copies, P
<1>6. DOMAIN found = 1 .. Len(found) /\ Len(found) \in Nat
  BY <1>2
<1>7. \A i \in DOMAIN found : found[i] \in ToSet(found)
  BY DEF ToSet
<1>8. \A i \in 1 .. Len(found) :
        /\ copies[i] \in CopyItems
        /\ copies[i].file = found[i] /\ copies[i].version = source[found[i]]
  BY <1>3, <1>5, <1>6, <1>7 DEF CopyItems
<1>9. copies \in Seq(CopyItems) /\ DOMAIN copies = 1 .. Len(found)
  BY <1>5, <1>6, <1>8
<1>10. \A i \in ToSet(copies) : i.file \in ToSet(found) /\ i.version = source[i.file]
  <2>1. \A i \in ToSet(copies) : \E k \in 1 .. Len(found) : i = copies[k]
    BY <1>9 DEF ToSet
  <2> QED BY <1>6, <1>7, <1>8, <2>1
<1>11. \A f \in ToSet(found) : \E i \in ToSet(copies) : i.file = f
  <2>1. \A f \in ToSet(found) : \E k \in 1 .. Len(found) : f = found[k]
    BY <1>6 DEF ToSet
  <2>2. \A k \in 1 .. Len(found) : copies[k] \in ToSet(copies)
    BY <1>9 DEF ToSet
  <2> QED BY <1>8, <2>1, <2>2
<1> QED BY <1>3, <1>4, <1>9, <1>10, <1>11 DEF copies

LEMMA ConcatSet ==
  ASSUME NEW S, NEW s \in Seq(S), NEW t \in Seq(S)
  PROVE  s \o t \in Seq(S) /\ ToSet(s \o t) = ToSet(s) \cup ToSet(t)
<1>1. s \o t \in Seq(S) /\ Len(s \o t) = Len(s) + Len(t) /\ Len(s) \in Nat /\ Len(t) \in Nat
  OBVIOUS
<1>2. DOMAIN s = 1 .. Len(s) /\ DOMAIN t = 1 .. Len(t) /\ DOMAIN (s \o t) = 1 .. Len(s) + Len(t)
  BY <1>1
<1>3. \A i \in 1 .. Len(s) : (s \o t)[i] = s[i] /\ i \in 1 .. Len(s) + Len(t)
  BY <1>1, ConcatElements
<1>4. \A i \in 1 .. Len(t) : (s \o t)[i + Len(s)] = t[i] /\ i + Len(s) \in 1 .. Len(s) + Len(t)
  BY <1>1, ConcatElements
<1>5. \A i \in 1 .. Len(s) + Len(t) :
        i \in 1 .. Len(s) \/ (i - Len(s) \in 1 .. Len(t) /\ (i - Len(s)) + Len(s) = i)
  BY <1>1
<1>6. \A i \in 1 .. Len(s) + Len(t) : (s \o t)[i] \in ToSet(s) \cup ToSet(t)
  BY <1>2, <1>3, <1>4, <1>5 DEF ToSet
<1>7. \A x \in ToSet(s) \cup ToSet(t) : \E i \in 1 .. Len(s) + Len(t) : (s \o t)[i] = x
  BY <1>2, <1>3, <1>4 DEF ToSet
<1>8. ToSet(s \o t) = {(s \o t)[i] : i \in 1 .. Len(s) + Len(t)}
  BY <1>2 DEF ToSet
<1> QED BY <1>1, <1>6, <1>7, <1>8

(* The first element and the others.                                       *)
LEMMA HeadTailSet ==
  ASSUME NEW S, NEW s \in Seq(S), s # <<>>
  PROVE  /\ Head(s) \in S /\ Tail(s) \in Seq(S) /\ Len(Tail(s)) = Len(s) - 1
         /\ ToSet(s) = {Head(s)} \cup ToSet(Tail(s))
<1>1. Len(s) \in Nat /\ Len(s) # 0 /\ DOMAIN s = 1 .. Len(s)
  OBVIOUS
<1>2. /\ Head(s) \in S /\ Head(s) = s[1] /\ Tail(s) \in Seq(S) /\ Len(Tail(s)) = Len(s) - 1
      /\ \A i \in 1 .. Len(s) - 1 : Tail(s)[i] = s[i + 1]
  OBVIOUS
<1>3. DOMAIN Tail(s) = 1 .. Len(s) - 1
  BY <1>1, <1>2
<1>4. \A i \in 1 .. Len(s) : i = 1 \/ (i - 1 \in 1 .. Len(s) - 1 /\ (i - 1) + 1 = i)
  BY <1>1
<1>5. \A i \in 1 .. Len(s) : s[i] \in {Head(s)} \cup ToSet(Tail(s))
  <2>1. \A i \in 1 .. Len(s) - 1 : Tail(s)[i] \in ToSet(Tail(s))
    BY <1>3 DEF ToSet
  <2>2. \A i \in 1 .. Len(s) : i = 1 \/ s[i] = Tail(s)[i - 1]
    BY <1>2, <1>4
  <2> QED BY <1>2, <1>4, <2>1, <2>2
<1>6. \A i \in 1 .. Len(s) - 1 : i + 1 \in 1 .. Len(s) /\ 1 \in 1 .. Len(s)
  BY <1>1
<1>7. \A x \in {Head(s)} \cup ToSet(Tail(s)) : \E i \in 1 .. Len(s) : s[i] = x
  <2>1. 1 \in 1 .. Len(s)
    BY <1>1
  <2> QED BY <1>2, <1>3, <1>6, <2>1 DEF ToSet
<1> QED BY <1>1, <1>2, <1>5, <1>7 DEF ToSet

(* What an install has to copy is among its copies, and in its version.    *)
Covers(plan, p, self, noPrograms) ==
  /\ \A i \in ToSet(plan) :
       /\ i.file \in Bins => i.version = p.version
       /\ ~noPrograms /\ i.file \in p.programs => i.version = p.version
       /\ p.sdk /\ i.file \in ToSet(SdkFiles) => i.version = p.version
  /\ ~self => \A f \in Bins : \E i \in ToSet(plan) : i.file = f
  /\ ~noPrograms => \A f \in p.programs : \E i \in ToSet(plan) : i.file = f
  /\ p.sdk => \A f \in ToSet(SdkFiles) : \E i \in ToSet(plan) : i.file = f

LEMMA PlanCovers ==
  ASSUME NEW p \in Packages, NEW inRepo \in BOOLEAN, NEW self \in BOOLEAN, NEW noPrograms \in BOOLEAN,
         NEW plan, plan = InstallPlan(p, inRepo, self, noPrograms)
  PROVE  plan \in Seq(CopyItems) /\ Covers(plan, p, self, noPrograms)
<1> DEFINE own == [f \in Bins |-> IF self THEN "none" ELSE p.version]
           program == [f \in ToSet(Programs) |->
                         IF noPrograms THEN "none" ELSE findBuiltinHex(p, inRepo, f)]
           sdk == [f \in ToSet(SdkFiles) |-> locateInstallableSDKSource(p, inRepo)]
           u == Copies(<<"exe", "lib">>, own)
           v == Copies(Programs, program)
           w == Copies(SdkFiles, sdk)
<1>1. /\ p.version \in Versions /\ p.version # "none" /\ "repo" \in Versions
      /\ p.programs \subseteq ToSet(Programs) /\ p.sdk \in BOOLEAN
  BY InstallAssumption
<1>2. plan = u \o v \o w
  BY DEF InstallPlan
<1>3. <<"exe", "lib">> \in Seq(Files) /\ ToSet(<<"exe", "lib">>) = Bins
  BY DEF Bins, Files, ToSet
<1>4. Programs \in Seq(Files) /\ SdkFiles \in Seq(Files)
  BY InstallAssumption DEF Files, ToSet
<1>5. /\ u \in Seq(CopyItems)
      /\ \A i \in ToSet(u) : i.file \in Bins /\ i.version = own[i.file] /\ i.version # "none"
      /\ \A f \in Bins : own[f] # "none" => \E i \in ToSet(u) : i.file = f
  <2>1. \A f \in Bins : own[f] \in Versions \cup {"none"}
    BY <1>1
  <2> DEFINE names == <<"exe", "lib">>
  <2> HIDE DEF own, names
  <2>2. names \in Seq(Files) /\ ToSet(names) = Bins
    BY <1>3 DEF names
  <2>3. /\ Copies(names, own) \in Seq(CopyItems)
        /\ \A i \in ToSet(Copies(names, own)) :
             i.file \in Bins /\ i.version = own[i.file] /\ i.version # "none"
        /\ \A f \in Bins : own[f] # "none" => \E i \in ToSet(Copies(names, own)) : i.file = f
    BY <2>1, <2>2, CopiesAre
  <2> QED BY <2>3 DEF names
<1>6. /\ v \in Seq(CopyItems)
      /\ \A i \in ToSet(v) : i.file \in ToSet(Programs) /\ i.version = program[i.file] /\ i.version # "none"
      /\ \A f \in ToSet(Programs) : program[f] # "none" => \E i \in ToSet(v) : i.file = f
  <2>1. \A f \in ToSet(Programs) : program[f] \in Versions \cup {"none"}
    BY <1>1 DEF findBuiltinHex
  <2> HIDE DEF program
  <2> QED BY <1>4, <2>1, CopiesAre
<1>7. /\ w \in Seq(CopyItems)
      /\ \A i \in ToSet(w) : i.file \in ToSet(SdkFiles) /\ i.version = sdk[i.file]
      /\ \A f \in ToSet(SdkFiles) : sdk[f] # "none" => \E i \in ToSet(w) : i.file = f
  <2>1. \A f \in ToSet(SdkFiles) : sdk[f] \in Versions \cup {"none"}
    BY <1>1 DEF locateInstallableSDKSource
  <2> HIDE DEF sdk
  <2> QED BY <1>4, <2>1, CopiesAre
<1> HIDE DEF u, v, w
<1>8. u \o v \o w \in Seq(CopyItems) /\ ToSet(u \o v \o w) = ToSet(u) \cup ToSet(v) \cup ToSet(w)
  <2>1. u \o v \in Seq(CopyItems) /\ ToSet(u \o v) = ToSet(u) \cup ToSet(v)
    BY <1>5, <1>6, ConcatSet
  <2> DEFINE uv == u \o v
  <2> HIDE DEF uv
  <2>2. uv \in Seq(CopyItems) /\ ToSet(uv) = ToSet(u) \cup ToSet(v)
    BY <2>1 DEF uv
  <2>3. uv \o w \in Seq(CopyItems) /\ ToSet(uv \o w) = ToSet(uv) \cup ToSet(w)
    BY <1>7, <2>2, ConcatSet
  <2> QED BY <2>2, <2>3 DEF uv
<1>9. /\ \A f \in Bins : own[f] = IF self THEN "none" ELSE p.version
      /\ \A f \in p.programs : program[f] = IF noPrograms THEN "none" ELSE p.version
      /\ p.sdk => \A f \in ToSet(SdkFiles) : sdk[f] = p.version
  BY <1>1 DEF findBuiltinHex, locateInstallableSDKSource
<1>10. /\ \A f \in Bins : f \notin ToSet(Programs) /\ f \notin ToSet(SdkFiles)
       /\ \A f \in ToSet(Programs) : f \notin ToSet(SdkFiles)
  BY FilesAssumption
<1> HIDE DEF own, program, sdk
<1>11. plan \in Seq(CopyItems) /\ ToSet(plan) = ToSet(u) \cup ToSet(v) \cup ToSet(w)
  BY <1>2, <1>8
<1>12. \A i \in ToSet(plan) :
         /\ i.file \in Bins => i.version = p.version
         /\ ~noPrograms /\ i.file \in p.programs => i.version = p.version
         /\ p.sdk /\ i.file \in ToSet(SdkFiles) => i.version = p.version
  <2>1. ASSUME NEW i \in ToSet(u) PROVE i.file \in Bins /\ i.version = p.version
    BY <1>5, <1>9
  <2>2. ASSUME NEW i \in ToSet(v)
        PROVE  i.file \in ToSet(Programs) /\ (i.file \in p.programs => i.version = p.version)
    BY <1>6, <1>9
  <2>3. ASSUME NEW i \in ToSet(w)
        PROVE  i.file \in ToSet(SdkFiles) /\ (p.sdk => i.version = p.version)
    BY <1>7, <1>9
  <2> QED BY <1>1, <1>10, <1>11, <2>1, <2>2, <2>3
<1>13. ~self => \A f \in Bins : \E i \in ToSet(plan) : i.file = f
  BY <1>1, <1>5, <1>9, <1>11
<1>14. ~noPrograms => \A f \in p.programs : \E i \in ToSet(plan) : i.file = f
  BY <1>1, <1>6, <1>9, <1>11
<1>15. p.sdk => \A f \in ToSet(SdkFiles) : \E i \in ToSet(plan) : i.file = f
  BY <1>1, <1>7, <1>9, <1>11
<1> QED BY <1>11, <1>12, <1>13, <1>14, <1>15 DEF Covers

(* The files of the payload, all in its version.                           *)
LEMMA PayloadCovers ==
  /\ Payload \in Seq(CopyItems)
  /\ \A i \in ToSet(Payload) :
       /\ i.version = PayloadVersion
       /\ i.file \in Bins \cup {"readme"} \cup PayloadPrograms \cup ToSet(SdkFiles)
  /\ \A f \in Bins \cup {"readme"} \cup PayloadPrograms \cup ToSet(SdkFiles) :
       \E i \in ToSet(Payload) : i.file = f
<1> DEFINE owed == Bins \cup {"readme"} \cup PayloadPrograms \cup ToSet(SdkFiles)
           packed == [f \in Files |->
                        IF f \in ToSet(SdkFiles) \cup PayloadPrograms \cup Bins \cup {"readme"}
                        THEN PayloadVersion ELSE "none"]
           own == <<"exe", "lib", "readme">>
           names == own \o Programs \o SdkFiles
<1>1. Payload = Copies(names, packed)
  BY DEF Payload
<1>2. own \in Seq(Files) /\ ToSet(own) = Bins \cup {"readme"}
  BY DEF Bins, Files, ToSet
<1>3. Programs \in Seq(Files) /\ SdkFiles \in Seq(Files)
  BY InstallAssumption DEF Files, ToSet
<1> HIDE DEF own
<1>4. own \o Programs \in Seq(Files) /\ ToSet(own \o Programs) = ToSet(own) \cup ToSet(Programs)
  BY <1>2, <1>3, ConcatSet
<1>5. names \in Seq(Files) /\ ToSet(names) = Files
  <2> DEFINE first == own \o Programs
  <2> HIDE DEF first
  <2>1. first \in Seq(Files) /\ ToSet(first) = ToSet(own) \cup ToSet(Programs)
    BY <1>4 DEF first
  <2>2. first \o SdkFiles \in Seq(Files) /\ ToSet(first \o SdkFiles) = ToSet(first) \cup ToSet(SdkFiles)
    BY <1>3, <2>1, ConcatSet
  <2> QED BY <1>2, <2>1, <2>2 DEF first, Files
<1>6. /\ PayloadVersion \in Versions /\ PayloadVersion # "none"
      /\ owed \subseteq Files
  BY InstallAssumption, SetupAssumption DEF Files
<1>7. \A f \in Files : packed[f] = IF f \in owed THEN PayloadVersion ELSE "none"
  OBVIOUS
<1> HIDE DEF names, packed, owed
<1>8. /\ Copies(names, packed) \in Seq(CopyItems)
      /\ \A i \in ToSet(Copies(names, packed)) :
           i.file \in Files /\ i.version = packed[i.file] /\ i.version # "none"
      /\ \A f \in Files :
           packed[f] # "none" => \E i \in ToSet(Copies(names, packed)) : i.file = f
  <2>1. \A f \in ToSet(names) : packed[f] \in Versions \cup {"none"}
    BY <1>5, <1>6, <1>7
  <2> QED BY <1>5, <2>1, CopiesAre
<1>9. \A i \in ToSet(Payload) : i.version = PayloadVersion /\ i.file \in owed
  BY <1>1, <1>7, <1>8
<1>10. \A f \in owed : \E i \in ToSet(Payload) : i.file = f
  BY <1>1, <1>6, <1>7, <1>8
<1> QED BY <1>1, <1>8, <1>9, <1>10 DEF owed

-----------------------------------------------------------------------------
(* Types. *)

LEMMA TypeImplied == TypeInv => SetupTypeOK
BY DEF TypeInv, DiskInv, HelperInv, CounterInv, WindowInv, CommandInv, CommandRecords,
       SetupTypeOK, InstallTypeOK, Exists

LEMMA TypeInit == Init => TypeInv
<1> SUFFICES ASSUME Init PROVE TypeInv
  OBVIOUS
<1>1. DiskInv
  <2>1. PICK v \in FirstTrees :
          tree = Installed(v) /\ dirs = IF v = "none" THEN {} ELSE {"root", "bin", "programs", "sdk"}
    BY DEF Init, InstallInit
  <2>2. v \in Versions \cup {"none"}
    BY InstallAssumption
  <2>3. \A f \in Files : DirOf(f) \in {"root", "bin", "programs", "sdk"}
    BY DEF DirOf
  <2> QED BY <2>1, <2>2, <2>3 DEF DiskInv, Installed
<1>2. HelperInv
  BY InstallAssumption DEF Init, InstallInit, HelperInv, HelperOff
<1>3. CounterInv
  BY InstallAssumption DEF Init, InstallInit, CounterInv
<1>4. WindowInv
  BY Zenon DEF Init, WindowInv
<1>5. CommandInv
  <2>1. cmd = NoCommand
    BY DEF Init, InstallInit
  <2> QED BY <2>1 DEF CommandInv, CommandRecords, NoCommand
<1> QED BY <1>1, <1>2, <1>3, <1>4, <1>5 DEF TypeInv

(* A file is in the directory of its own, and a directory goes only with   *)
(* its last file.                                                          *)
LEMMA EmptyDirsOnly ==
  ASSUME DiskInv, NEW files \in [Files -> Versions \cup {"torn", "none"}],
         \A f \in Files : files[f] # "none" => tree[f] # "none"
  PROVE  /\ WithoutEmpty(files) \subseteq dirs
         /\ \A f \in Files : files[f] # "none" => DirOf(f) \in WithoutEmpty(files)
         /\ WithoutEmpty(files) # {} => "root" \in WithoutEmpty(files)
<1> DEFINE ds == removeDirIfEmpty(files, dirs, "bin")
<1>1. /\ ds \subseteq dirs /\ ("root" \in dirs => "root" \in ds)
      /\ \A f \in Files : files[f] # "none" => DirOf(f) \in ds
  BY DEF DiskInv, removeDirIfEmpty
<1>2. ds # {} => "root" \in ds
  BY <1>1 DEF DiskInv
<1>3. WithoutEmpty(files) = removeDirIfEmpty(files, ds, "root")
  BY DEF WithoutEmpty
<1> HIDE DEF ds
<1> QED BY <1>1, <1>2, <1>3 DEF removeDirIfEmpty

LEMMA WithoutIs ==
  ASSUME DiskInv, NEW files
  PROVE  /\ Without(files) \in [Files -> Versions \cup {"torn", "none"}]
         /\ \A f \in Files : Without(files)[f] = IF f \in files THEN "none" ELSE tree[f]
BY DEF Without, DiskInv

LEMMA DiskStep == TypeInv /\ InstallStep => DiskInv'
<1> SUFFICES ASSUME TypeInv, InstallStep PROVE DiskInv'
  OBVIOUS
<1>1. DiskInv /\ HelperInv /\ CommandInv
  BY DEF TypeInv
<1>2. ASSUME UNCHANGED disk PROVE DiskInv'
  BY <1>1, <1>2 DEF DiskInv, disk
<1>3. \A f : DirOf(f) \in {"root", "bin", "programs", "sdk"}
  BY DEF DirOf
<1>4. ASSUME MkdirAll, UNCHANGED tree PROVE DiskInv'
  BY <1>1, <1>3, <1>4 DEF MkdirAll, DiskInv
<1>5. ASSUME NEW f \in Files, NEW v \in Versions \cup {"torn"}, tree' = [tree EXCEPT ![f] = v],
             dirs' = dirs \cup {"root", DirOf(f)}
      PROVE  DiskInv'
  BY <1>1, <1>3, <1>5 DEF DiskInv
<1>6. ASSUME cmd.at = "copy", cmd.todo # <<>>
      PROVE  Head(cmd.todo).file \in Files /\ Head(cmd.todo).version \in Versions
  <2>1. cmd.todo \in Seq(CopyItems)
    BY <1>1, <1>6 DEF CommandInv
  <2>2. Head(cmd.todo) \in CopyItems
    BY <1>6, <2>1, HeadTailSet
  <2> QED BY <2>2 DEF CopyItems
<1>7. CASE InstallCommands
  BY <1>4, <1>7 DEF InstallCommands, InstallBegin
<1>8. CASE UninstallCommands
  BY <1>2, <1>8 DEF UninstallCommands, UninstallBegin
<1>9. ASSUME NEW path, performInstall(path) PROVE DiskInv'
  BY <1>4, <1>9 DEF performInstall
<1>10. CASE CommandStep
  <2>1. CASE CopyNext
    BY <1>5, <1>6, <2>1 DEF CopyNext
  <2>2. CASE CopyBreaks
    BY <1>5, <1>6, <2>2 DEF CopyBreaks
  <2>3. CASE CopyEnds \/ UpdatePath \/ UpdatePathBreaks \/ CommandBreaks \/ ScheduleCleanup \/ Exit
    BY <1>2, <2>3
       DEF CopyEnds, UpdatePath, UpdatePathBreaks, CommandBreaks, ScheduleCleanup, Exit, disk
  <2>4. CASE RemoveNext
    BY <1>1, <2>4 DEF RemoveNext, DiskInv
  <2>5. CASE PurgePrograms
    <3>1. CASE cmd.purge
      <4>1. tree' = Without(ToSet(Programs)) /\ dirs' = dirs \ {"programs"}
        BY <2>5, <3>1 DEF PurgePrograms
      <4>2. \A f \in Files : DirOf(f) = "programs" => f \in ToSet(Programs)
        BY DEF DirOf
      <4> QED BY <1>1, <4>1, <4>2, WithoutIs DEF DiskInv
    <3>2. CASE ~cmd.purge
      BY <1>2, <2>5, <3>2 DEF PurgePrograms
    <3> QED BY <3>1, <3>2
  <2>6. CASE PurgeBreaks
    BY <1>1, <2>6, WithoutIs DEF PurgeBreaks, DiskInv
  <2>7. CASE RemoveEmptyDirs
    <3>1. tree \in [Files -> Versions \cup {"torn", "none"}]
      BY <1>1 DEF DiskInv
    <3>2. tree' = tree /\ dirs' = WithoutEmpty(tree)
      BY <2>7 DEF RemoveEmptyDirs
    <3> QED BY <1>1, <3>1, <3>2, EmptyDirsOnly DEF DiskInv
  <2> QED BY <1>10, <2>1, <2>2, <2>3, <2>4, <2>5, <2>6, <2>7 DEF CommandStep
<1>11. CASE HelperRound
  <2>1. PICK gone : /\ tree' = Without(gone)
                    /\ dirs' = dirs \/ dirs' = WithoutEmpty(Without(gone))
    BY <1>11 DEF HelperRound
  <2>2. /\ Without(gone) \in [Files -> Versions \cup {"torn", "none"}]
        /\ \A f \in Files : Without(gone)[f] # "none" => tree[f] # "none"
    BY <1>1, WithoutIs
  <2>3. CASE dirs' = dirs
    BY <1>1, <2>1, <2>2, <2>3 DEF DiskInv
  <2>4. CASE dirs' = WithoutEmpty(Without(gone))
    BY <1>1, <2>1, <2>2, <2>4, EmptyDirsOnly DEF DiskInv
  <2> QED BY <2>1, <2>3, <2>4
<1>12. CASE EditPath
  BY <1>2, <1>12 DEF EditPath
<1>13. CASE Unpacked \/ InspectPath \/ AddPath
  BY <1>2, <1>13 DEF Unpacked, InspectPath, AddPath
<1>14. CASE UNCHANGED installVars
  BY <1>2, <1>14 DEF installVars, disk
<1> QED BY <1>7, <1>8, <1>9, <1>10, <1>11, <1>12, <1>13, <1>14 DEF InstallStep

LEMMA HelperStep == TypeInv /\ InstallStep => HelperInv'
<1> SUFFICES ASSUME TypeInv, InstallStep PROVE HelperInv'
  OBVIOUS
<1>1. HelperInv /\ CommandInv
  BY DEF TypeInv
<1>2. ASSUME UNCHANGED helper PROVE HelperInv'
  BY <1>1, <1>2 DEF HelperInv
<1>3. CASE InstallCommands \/ UninstallCommands
  BY <1>2, <1>3 DEF InstallCommands, UninstallCommands, InstallBegin, UninstallBegin
<1>4. ASSUME NEW path, performInstall(path) PROVE HelperInv'
  BY <1>2, <1>4 DEF performInstall
<1>5. CASE CommandStep
  <2>1. CASE CopyNext \/ CopyBreaks \/ CopyEnds \/ UpdatePath \/ UpdatePathBreaks
    BY <1>2, <2>1 DEF CopyNext, CopyBreaks, CopyEnds, UpdatePath, UpdatePathBreaks
  <2>2. CASE CommandBreaks \/ RemoveNext \/ PurgePrograms \/ PurgeBreaks
    BY <1>2, <2>2 DEF CommandBreaks, RemoveNext, PurgePrograms, PurgeBreaks
  <2>3. CASE RemoveEmptyDirs \/ Exit
    BY <1>2, <2>3 DEF RemoveEmptyDirs, Exit
  <2>4. CASE ScheduleCleanup
    <3>1. cmd.todo \in Seq(Bins)
      BY <1>1, <2>4 DEF ScheduleCleanup, CommandInv
    <3>2. ToSet(cmd.todo) \subseteq Bins
      BY <3>1 DEF ToSet
    <3>3. MaxTries \in 0 .. MaxTries
      BY InstallAssumption
    <3>4. CASE helper' = [files |-> ToSet(cmd.todo) \cup helper.files, rounds |-> MaxTries]
      <4>1. helper.files \subseteq Bins
        BY <1>1 DEF HelperInv
      <4> QED BY <3>2, <3>3, <3>4, <4>1 DEF HelperInv
    <3> QED BY <1>2, <2>4, <3>4 DEF ScheduleCleanup
  <2> QED BY <1>5, <2>1, <2>2, <2>3, <2>4 DEF CommandStep
<1>6. CASE HelperRound
  <2>1. helper.rounds > 0 /\ (helper' = HelperOff \/ helper' = [helper EXCEPT !.rounds = @ - 1])
    BY <1>6 DEF HelperRound
  <2> QED BY <1>1, <2>1, InstallAssumption DEF HelperInv, HelperOff
<1>7. CASE EditPath \/ Unpacked \/ InspectPath \/ AddPath
  BY <1>2, <1>7 DEF EditPath, Unpacked, InspectPath, AddPath
<1>8. CASE UNCHANGED installVars
  BY <1>2, <1>8 DEF installVars
<1> QED BY <1>3, <1>4, <1>5, <1>6, <1>7, <1>8 DEF InstallStep

LEMMA CounterStep == TypeInv /\ InstallStep => CounterInv'
<1> SUFFICES ASSUME TypeInv, InstallStep PROVE CounterInv'
  OBVIOUS
<1>1. CounterInv
  BY DEF TypeInv
<1>2. ASSUME UNCHANGED <<commands, edits>> PROVE CounterInv'
  BY <1>1, <1>2 DEF CounterInv
<1>3. ASSUME NEW c, Begin(c), UNCHANGED edits PROVE CounterInv'
  BY <1>1, <1>3, InstallAssumption DEF Begin, CounterInv
<1>4. CASE InstallCommands \/ UninstallCommands
  BY <1>3, <1>4 DEF InstallCommands, UninstallCommands, InstallBegin, UninstallBegin, machine
<1>5. ASSUME NEW path, performInstall(path) PROVE CounterInv'
  BY <1>3, <1>5 DEF performInstall, machine
<1>6. CASE CommandStep
  <2>1. CASE CopyNext \/ CopyBreaks \/ CopyEnds \/ UpdatePath \/ UpdatePathBreaks
    BY <1>2, <2>1 DEF CopyNext, CopyBreaks, CopyEnds, UpdatePath, UpdatePathBreaks, machine
  <2>2. CASE CommandBreaks \/ RemoveNext \/ PurgePrograms \/ PurgeBreaks
    BY <1>2, <2>2 DEF CommandBreaks, RemoveNext, PurgePrograms, PurgeBreaks, machine
  <2>3. CASE RemoveEmptyDirs \/ ScheduleCleanup \/ Exit
    BY <1>2, <2>3 DEF RemoveEmptyDirs, ScheduleCleanup, Exit, machine
  <2> QED BY <1>6, <2>1, <2>2, <2>3 DEF CommandStep
<1>7. CASE HelperRound
  BY <1>2, <1>7 DEF HelperRound, machine
<1>8. CASE EditPath
  BY <1>1, <1>8, InstallAssumption DEF EditPath, CounterInv
<1>9. CASE Unpacked \/ InspectPath \/ AddPath
  BY <1>2, <1>9 DEF Unpacked, InspectPath, AddPath
<1>10. CASE UNCHANGED installVars
  BY <1>2, <1>10 DEF installVars
<1> QED BY <1>4, <1>5, <1>6, <1>7, <1>8, <1>9, <1>10 DEF InstallStep

LEMMA WindowStep == TypeInv /\ [Next]_vars => WindowInv'
<1> SUFFICES ASSUME TypeInv, [Next]_vars PROVE WindowInv'
  OBVIOUS
<1>1. WindowInv
  BY DEF TypeInv
<1>2. ASSUME UNCHANGED setupVars PROVE WindowInv'
  BY <1>1, <1>2, Zenon DEF WindowInv, setupVars
<1>3. ASSUME UNCHANGED <<screen, selected, addToPath>>,
             result' \in {result, "skipped", "uninspected", "already", "added", "unchanged"}
      PROVE  WindowInv'
  BY <1>1, <1>3, Zenon DEF WindowInv
<1>4. ASSUME UNCHANGED result, selected' \in {selected, 0, 1}, addToPath' \in {addToPath, TRUE, FALSE},
             screen' \in {screen, "welcome", "silent", "installing", "canceled", "done", "error"}
      PROVE  WindowInv'
  BY <1>1, <1>4, Zenon DEF WindowInv
<1>5. Closed => WindowInv'
  BY Zenon DEF Closed, WindowInv
<1>6. CASE Commands \/ World
  BY <1>2, <1>6 DEF Commands, World
<1>7. CASE SetupKeys
  <2>1. CASE runInteractive
    BY <1>4, <2>1, Zenon DEF runInteractive
  <2>2. CASE runSilent
    BY <1>4, <2>2, Zenon DEF runSilent
  <2>3. CASE WelcomeKey
    BY <1>4, <2>3, Zenon DEF WelcomeKey
  <2>4. CASE CloseKey
    BY <1>5, <2>4 DEF CloseKey
  <2>5. CASE SetupKilled
    BY <1>5, <2>5 DEF SetupKilled
  <2> QED BY <1>7, <2>1, <2>2, <2>3, <2>4, <2>5 DEF SetupKeys
<1>8. CASE SetupWork
  <2>1. CASE cmd.kind = "setup" /\ CommandStep /\ UNCHANGED setupVars
    BY <1>2, <2>1
  <2>2. CASE Unpacked
    BY <1>3, <2>2, Zenon DEF Unpacked
  <2>3. CASE InspectPath
    BY <1>3, <2>3, Zenon DEF InspectPath
  <2>4. CASE AddPath
    BY <1>3, <2>4, Zenon DEF AddPath
  <2>5. CASE installFinishedMsg
    BY <1>4, <2>5, Zenon DEF installFinishedMsg
  <2> QED BY <1>8, <2>1, <2>2, <2>3, <2>4, <2>5 DEF SetupWork
<1>9. CASE UNCHANGED vars
  BY <1>2, <1>9 DEF vars
<1> QED BY <1>6, <1>7, <1>8, <1>9 DEF Next

LEMMA CommandRecordStep == TypeInv /\ [Next]_vars => CommandInv'
<1> SUFFICES ASSUME TypeInv, [Next]_vars PROVE CommandInv'
  OBVIOUS
<1>1. CommandInv /\ cmd \in CommandRecords /\ HelperInv
  BY DEF TypeInv, CommandInv
<1>2. InstallStep
  BY NextIsInstallStep
<1>3. ASSUME UNCHANGED cmd PROVE CommandInv'
  BY <1>1, <1>3 DEF CommandInv
<1>4. ASSUME cmd' = Failed PROVE CommandInv'
  <2>1. cmd' = [kind |-> cmd.kind, at |-> "failed", todo |-> <<>>, version |-> "none",
                programs |-> {}, sdk |-> FALSE, path |-> FALSE, purge |-> FALSE,
                self |-> FALSE, clean |-> FALSE]
    BY <1>4 DEF Failed, NoCommand
  <2>2. <<>> \in Seq(Bins) /\ {} \subseteq ToSet(Programs) /\ FALSE \in BOOLEAN
    OBVIOUS
  <2>3. cmd.kind \in {"none", "install", "setup", "uninstall"}
    BY <1>1 DEF CommandRecords
  <2>4. cmd' \in CommandRecords
    BY <2>1, <2>2, <2>3 DEF CommandRecords
  <2> QED BY <2>1, <2>2, <2>4 DEF CommandInv
<1>5. ASSUME cmd' = [cmd EXCEPT !.clean = FALSE] PROVE CommandInv'
  BY <1>1, <1>5 DEF CommandInv, CommandRecords
<1>6. CASE InstallCommands
  <2>1. PICK p \in Packages, inRepo \in BOOLEAN, self \in BOOLEAN, noPrograms \in BOOLEAN,
             path \in BOOLEAN : InstallBegin(p, inRepo, self, noPrograms, path)
    BY <1>6 DEF InstallCommands
  <2> DEFINE plan == InstallPlan(p, inRepo, self, noPrograms)
  <2> HIDE DEF plan
  <2>2. plan \in Seq(CopyItems)
    BY PlanCovers DEF plan
  <2>3. p.version \in Versions /\ p.sdk \in BOOLEAN /\ p.programs \subseteq ToSet(Programs)
    BY InstallAssumption
  <2> DEFINE progs == IF noPrograms THEN {} ELSE p.programs
             clean == helper.rounds = 0
  <2>4. progs \subseteq ToSet(Programs) /\ clean \in BOOLEAN
    BY <2>3
  <2>5. cmd' = [[NoCommand EXCEPT !.kind = "install", !.at = "copy", !.self = self,
                  !.todo = plan, !.version = p.version, !.programs = progs, !.sdk = p.sdk,
                  !.path = path] EXCEPT !.clean = clean]
    BY <2>1 DEF InstallBegin, Begin, plan
  <2> HIDE DEF progs, clean
  <2>6. cmd' = [kind |-> "install", at |-> "copy", todo |-> plan, version |-> p.version,
                programs |-> progs, sdk |-> p.sdk, path |-> path, purge |-> FALSE,
                self |-> self, clean |-> clean]
    BY <2>5 DEF NoCommand
  <2>7. cmd' \in CommandRecords
    BY <2>2, <2>3, <2>4, <2>6 DEF CommandRecords
  <2> QED BY <2>2, <2>6, <2>7 DEF CommandInv
<1>7. CASE UninstallCommands
  <2>1. PICK self \in BOOLEAN, keepPath \in BOOLEAN, purge \in BOOLEAN :
          UninstallBegin(self, keepPath, purge)
    BY <1>7 DEF UninstallCommands
  <2> DEFINE queued == {i \in 1 .. 2 : needsScheduledCleanup(self) => Exists(<<"exe", "lib">>[i])}
             both == <<"exe", "lib">>
             todo == AtPlaces(both, queued)
             at == IF needsScheduledCleanup(self) THEN "purge" ELSE "remove"
             clean == helper.rounds = 0
             path == ~keepPath
  <2>2. both \in Seq(Bins) /\ Len(both) = 2 /\ DOMAIN both = 1 .. 2
    BY DEF Bins
  <2>3. queued \in SUBSET (1 .. Len(both))
    BY <2>2
  <2>4. cmd' = [[NoCommand EXCEPT !.kind = "uninstall", !.self = self, !.path = path,
                  !.purge = purge, !.at = at, !.todo = todo] EXCEPT !.clean = clean]
    BY <2>1 DEF UninstallBegin, Begin
  <2>5. at = "remove" => queued = DOMAIN both
    BY <2>2
  <2> HIDE DEF both, queued
  <2>6. todo \in Seq(Bins)
    BY <2>2, <2>3, AtPlacesSeq
  <2>7. at = "remove" => todo # <<>>
    <3>1. SUFFICES ASSUME at = "remove" PROVE todo # <<>>
      OBVIOUS
    <3>2. todo = both
      BY <2>2, <2>5, <3>1, AtPlacesAll
    <3> QED BY <2>2, <3>2
  <2>8. at \in {"remove", "purge"} /\ clean \in BOOLEAN /\ path \in BOOLEAN
    OBVIOUS
  <2> HIDE DEF todo, at, clean, path
  <2>9. cmd' = [kind |-> "uninstall", at |-> at, todo |-> todo, version |-> "none",
                programs |-> {}, sdk |-> FALSE, path |-> path, purge |-> purge,
                self |-> self, clean |-> clean]
    BY <2>4 DEF NoCommand
  <2>10. cmd' \in CommandRecords
    BY <2>6, <2>8, <2>9 DEF CommandRecords
  <2> QED BY <2>6, <2>7, <2>8, <2>9, <2>10 DEF CommandInv
<1>8. ASSUME NEW path \in BOOLEAN, performInstall(path) PROVE CommandInv'
  <2> DEFINE clean == helper.rounds = 0
  <2>1. clean \in BOOLEAN /\ Payload \in Seq(CopyItems)
    BY PayloadCovers
  <2>2. PayloadVersion \in Versions /\ PayloadPrograms \subseteq ToSet(Programs)
    BY SetupAssumption
  <2>3. cmd' = [[NoCommand EXCEPT !.kind = "setup", !.at = "copy", !.todo = Payload,
                  !.version = PayloadVersion, !.programs = PayloadPrograms, !.sdk = TRUE,
                  !.path = path] EXCEPT !.clean = clean]
    BY <1>8 DEF performInstall, Begin
  <2> HIDE DEF clean
  <2>4. cmd' = [kind |-> "setup", at |-> "copy", todo |-> Payload, version |-> PayloadVersion,
                programs |-> PayloadPrograms, sdk |-> TRUE, path |-> path, purge |-> FALSE,
                self |-> FALSE, clean |-> clean]
    BY <2>3 DEF NoCommand
  <2>5. cmd' \in CommandRecords
    BY <2>1, <2>2, <2>4 DEF CommandRecords
  <2> QED BY <2>1, <2>4, <2>5 DEF CommandInv
<1>9. CASE CommandStep
  <2>1. CASE CopyNext
    <3>1. cmd.todo \in Seq(CopyItems) /\ cmd.todo # <<>> /\ cmd' = [cmd EXCEPT !.todo = Tail(cmd.todo)]
      BY <1>1, <2>1 DEF CopyNext, CommandInv
    <3>2. Tail(cmd.todo) \in Seq(CopyItems)
      BY <3>1, HeadTailSet
    <3>3. cmd.at = "copy"
      BY <2>1 DEF CopyNext
    <3> QED BY <1>1, <3>1, <3>2, <3>3 DEF CommandInv, CommandRecords
  <2>2. CASE CopyBreaks \/ UpdatePathBreaks \/ CommandBreaks \/ PurgeBreaks
    BY <1>4, <2>2 DEF CopyBreaks, UpdatePathBreaks, CommandBreaks, PurgeBreaks
  <2>3. CASE CopyEnds
    <3>1. cmd' = [cmd EXCEPT !.at = IF cmd.path THEN "path" ELSE "done"]
      BY <2>3 DEF CopyEnds
    <3> QED BY <1>1, <2>3, <3>1 DEF CopyEnds, CommandInv, CommandRecords
  <2>4. CASE UpdatePath
    BY <1>1, <2>4 DEF UpdatePath, CommandInv, CommandRecords
  <2>5. CASE RemoveNext
    <3>1. /\ cmd.at = "remove" /\ cmd.todo \in Seq(Bins) /\ cmd.todo # <<>>
          /\ cmd' = [cmd EXCEPT !.todo = Tail(cmd.todo),
                                !.at = IF Len(cmd.todo) = 1 THEN "purge" ELSE cmd.at]
      BY <1>1, <2>5 DEF RemoveNext, CommandInv
    <3>2. Tail(cmd.todo) \in Seq(Bins) /\ (Len(cmd.todo) # 1 => Tail(cmd.todo) # <<>>)
      <4>1. Tail(cmd.todo) \in Seq(Bins) /\ Len(Tail(cmd.todo)) = Len(cmd.todo) - 1
        BY <3>1, HeadTailSet
      <4>2. Len(cmd.todo) \in Nat /\ Len(<<>>) = 0
        BY <3>1
      <4>3. Len(cmd.todo) # 1 => Len(Tail(cmd.todo)) # 0
        BY <4>1, <4>2
      <4> QED BY <4>1, <4>2, <4>3
    <3> QED BY <1>1, <3>1, <3>2 DEF CommandInv, CommandRecords
  <2>6. CASE PurgePrograms
    BY <1>1, <2>6 DEF PurgePrograms, CommandInv, CommandRecords
  <2>7. CASE RemoveEmptyDirs
    BY <1>1, <2>7 DEF RemoveEmptyDirs, CommandInv, CommandRecords
  <2>8. CASE ScheduleCleanup \/ Exit
    BY <1>1, <2>8 DEF ScheduleCleanup, Exit, CommandInv, CommandRecords
  <2> QED BY <1>9, <2>1, <2>2, <2>3, <2>4, <2>5, <2>6, <2>7, <2>8 DEF CommandStep
<1>10. CASE HelperRound
  BY <1>5, <1>10 DEF HelperRound
<1>11. CASE EditPath
  BY <1>5, <1>11 DEF EditPath
<1>12. CASE Unpacked
  BY <1>1, <1>12 DEF Unpacked, Running, CommandInv, CommandRecords
<1>13. CASE InspectPath
  BY <1>1, <1>13 DEF InspectPath, Running, CommandInv, CommandRecords
<1>14. CASE AddPath
  BY <1>1, <1>14 DEF AddPath, Running, CommandInv, CommandRecords
<1>15. CASE UNCHANGED installVars
  BY <1>3, <1>15 DEF installVars
<1>16. addToPath \in BOOLEAN /\ addToPath' \in BOOLEAN
  BY WindowStep DEF TypeInv, WindowInv
<1>17. CASE \E path \in {addToPath, addToPath'} : performInstall(path)
  BY <1>8, <1>16, <1>17
<1> QED BY <1>2, <1>6, <1>7, <1>9, <1>10, <1>11, <1>12, <1>13, <1>14, <1>15, <1>17 DEF InstallStep

LEMMA TypeInvStep == TypeInv /\ [Next]_vars => TypeInv'
BY NextIsInstallStep, DiskStep, HelperStep, CounterStep, WindowStep, CommandRecordStep DEF TypeInv

(* Whatever fails, and whatever a helper deletes meanwhile, every file is  *)
(* in a directory that exists.                                             *)
THEOREM SetupIsTyped == Spec => []SetupTypeOK
BY TypeInit, TypeInvStep, TypeImplied, PTL DEF Spec

-----------------------------------------------------------------------------
(* Copies. *)

LEMMA CopyInvStep == TypeInv /\ CopyInv /\ [Next]_vars => CopyInv'
<1> SUFFICES ASSUME TypeInv, CopyInv, [Next]_vars PROVE CopyInv'
  OBVIOUS
<1>1. CommandInv /\ cmd \in CommandRecords /\ DiskInv
  BY DEF TypeInv, CommandInv
<1>2. InstallStep
  BY NextIsInstallStep
<1>3. ASSUME UNCHANGED <<tree, cmd>> PROVE CopyInv'
  BY <1>3 DEF CopyInv, Owed
<1>4. ASSUME cmd'.kind \notin {"install", "setup"} \/ ~cmd'.clean \/ cmd'.at = "failed"
      PROVE  CopyInv'
  BY <1>4 DEF CopyInv
<1>5. ASSUME NEW at, UNCHANGED tree, cmd' = [cmd EXCEPT !.at = at], at # "copy", cmd.at # "failed",
             cmd.at = "copy" => cmd.todo = <<>>
      PROVE  CopyInv'
  <2>1. /\ cmd'.kind = cmd.kind /\ cmd'.clean = cmd.clean /\ cmd'.todo = cmd.todo /\ cmd'.self = cmd.self
        /\ cmd'.programs = cmd.programs /\ cmd'.sdk = cmd.sdk /\ cmd'.version = cmd.version
    BY <1>1, <1>5 DEF CommandRecords
  <2> QED BY <1>5, <2>1 DEF CopyInv, Owed
<1>6. CASE InstallCommands
  <2>1. PICK p \in Packages, inRepo \in BOOLEAN, self \in BOOLEAN, noPrograms \in BOOLEAN,
             path \in BOOLEAN : InstallBegin(p, inRepo, self, noPrograms, path)
    BY <1>6 DEF InstallCommands
  <2> DEFINE plan == InstallPlan(p, inRepo, self, noPrograms)
             progs == IF noPrograms THEN {} ELSE p.programs
  <2>2. /\ cmd'.kind = "install" /\ cmd'.self = self /\ cmd'.todo = plan /\ cmd'.at = "copy"
        /\ cmd'.version = p.version /\ cmd'.programs = progs /\ cmd'.sdk = p.sdk
    BY <2>1 DEF InstallBegin, Begin, NoCommand
  <2> HIDE DEF plan
  <2>3. Covers(plan, p, self, noPrograms)
    <3>1. plan = InstallPlan(p, inRepo, self, noPrograms)
      BY DEF plan
    <3> QED BY <3>1, PlanCovers
  <2>4. Owed' = (IF self THEN {} ELSE Bins) \cup progs \cup (IF p.sdk THEN ToSet(SdkFiles) ELSE {})
    BY <2>2 DEF Owed
  <2>5. \A f \in Owed' : \E i \in ToSet(plan) : i.file = f
    BY <2>3, <2>4 DEF Covers
  <2>6. \A i \in ToSet(plan) : i.file \in Owed' => i.version = p.version
    BY <2>3, <2>4 DEF Covers
  <2> QED BY <2>2, <2>5, <2>6 DEF CopyInv
<1>7. CASE UninstallCommands
  <2>1. cmd'.kind = "uninstall"
    BY <1>7 DEF UninstallCommands, UninstallBegin, Begin, NoCommand
  <2> QED BY <1>4, <2>1
<1>8. ASSUME NEW path, performInstall(path) PROVE CopyInv'
  <2>1. /\ cmd'.kind = "setup" /\ cmd'.self = FALSE /\ cmd'.todo = Payload /\ cmd'.at = "copy"
        /\ cmd'.version = PayloadVersion /\ cmd'.programs = PayloadPrograms /\ cmd'.sdk = TRUE
    BY <1>8 DEF performInstall, Begin, NoCommand
  <2>2. Owed' = Bins \cup PayloadPrograms \cup ToSet(SdkFiles) \cup {"readme"}
    BY <2>1 DEF Owed
  <2> QED BY <2>1, <2>2, PayloadCovers DEF CopyInv
<1>9. CASE CommandStep
  <2>1. CASE CopyNext
    <3> DEFINE h == Head(cmd.todo)
    <3>1. /\ cmd.todo \in Seq(CopyItems) /\ cmd.todo # <<>> /\ cmd.at = "copy"
          /\ cmd' = [cmd EXCEPT !.todo = Tail(cmd.todo)]
          /\ tree' = [tree EXCEPT ![h.file] = h.version]
      BY <1>1, <2>1 DEF CopyNext, CommandInv
    <3>2. h \in CopyItems /\ ToSet(cmd.todo) = {h} \cup ToSet(Tail(cmd.todo))
      BY <3>1, HeadTailSet
    <3> HIDE DEF h
    <3>3. h.file \in Files
      BY <3>2 DEF CopyItems
    <3>4. /\ tree'[h.file] = h.version
          /\ \A f : f # h.file => tree'[f] = tree[f]
      BY <1>1, <3>1, <3>3 DEF DiskInv
    <3>5. /\ cmd'.kind = cmd.kind /\ cmd'.clean = cmd.clean /\ cmd'.at = cmd.at /\ cmd'.self = cmd.self
          /\ cmd'.programs = cmd.programs /\ cmd'.sdk = cmd.sdk /\ cmd'.version = cmd.version
          /\ cmd'.todo = Tail(cmd.todo)
      BY <1>1, <3>1 DEF CommandRecords
    <3>6. Owed' = Owed
      BY <3>5 DEF Owed
    <3>7. SUFFICES ASSUME cmd.kind \in {"install", "setup"}, cmd.clean
          PROVE  /\ \A f \in Owed :
                      tree'[f] = cmd.version \/ \E i \in ToSet(Tail(cmd.todo)) : i.file = f
                 /\ \A i \in ToSet(Tail(cmd.todo)) : i.file \in Owed => i.version = cmd.version
      BY <3>1, <3>5, <3>6 DEF CopyInv
    <3>8. /\ \A f \in Owed : tree[f] = cmd.version \/ \E i \in ToSet(cmd.todo) : i.file = f
          /\ \A i \in ToSet(cmd.todo) : i.file \in Owed => i.version = cmd.version
      BY <3>1, <3>7 DEF CopyInv
    <3>9. ASSUME NEW f \in Owed
          PROVE  tree'[f] = cmd.version \/ \E i \in ToSet(Tail(cmd.todo)) : i.file = f
      <4>1. CASE f = h.file
        BY <3>2, <3>4, <3>8, <4>1
      <4>2. CASE f # h.file
        BY <3>2, <3>4, <3>8, <4>2
      <4> QED BY <4>1, <4>2
    <3> QED BY <3>2, <3>8, <3>9
  <2>2. CASE CopyBreaks \/ UpdatePathBreaks \/ CommandBreaks \/ PurgeBreaks
    <3>1. cmd' = Failed
      BY <2>2 DEF CopyBreaks, UpdatePathBreaks, CommandBreaks, PurgeBreaks
    <3> QED BY <1>4, <3>1 DEF Failed, NoCommand
  <2>3. CASE CopyEnds
    <3> DEFINE at == IF cmd.path THEN "path" ELSE "done"
    <3>1. UNCHANGED tree /\ cmd' = [cmd EXCEPT !.at = at] /\ cmd.at = "copy" /\ cmd.todo = <<>>
      BY <2>3 DEF CopyEnds, disk
    <3> QED BY <1>5, <3>1
  <2>4. CASE UpdatePath
    <3> DEFINE at == IF cmd.kind = "uninstall" THEN "schedule" ELSE "done"
    <3>1. UNCHANGED tree /\ cmd' = [cmd EXCEPT !.at = at] /\ cmd.at = "path"
      BY <2>4 DEF UpdatePath, disk
    <3> QED BY <1>5, <3>1
  <2>5. CASE RemoveNext \/ PurgePrograms \/ RemoveEmptyDirs \/ ScheduleCleanup \/ Exit
    <3>1. cmd.kind = "uninstall"
      BY <1>1, <2>5
         DEF RemoveNext, PurgePrograms, RemoveEmptyDirs, ScheduleCleanup, Exit, CommandInv
    <3>2. cmd'.kind = cmd.kind
      BY <1>1, <2>5
         DEF RemoveNext, PurgePrograms, RemoveEmptyDirs, ScheduleCleanup, Exit, CommandRecords
    <3> QED BY <1>4, <3>1, <3>2
  <2> QED BY <1>9, <2>1, <2>2, <2>3, <2>4, <2>5 DEF CommandStep
<1>10. CASE HelperRound \/ EditPath
  <2>1. cmd' = [cmd EXCEPT !.clean = FALSE]
    BY <1>10 DEF HelperRound, EditPath
  <2>2. cmd'.clean = FALSE
    BY <1>1, <2>1 DEF CommandRecords
  <2> QED BY <1>4, <2>2
<1>11. CASE Unpacked
  <2> DEFINE at == IF addToPath THEN "inspect" ELSE "done"
  <2>1. UNCHANGED tree /\ cmd.at = "copy" /\ cmd.todo = <<>> /\ cmd' = [cmd EXCEPT !.at = at]
    BY <1>11 DEF Unpacked, Running, disk
  <2>2. at # "copy"
    OBVIOUS
  <2> HIDE DEF at
  <2> QED BY <1>5, <2>1, <2>2
<1>12. CASE InspectPath
  <2>1. /\ UNCHANGED tree /\ cmd.at = "inspect"
        /\ cmd' = [cmd EXCEPT !.at = "done"] \/ cmd' = [cmd EXCEPT !.at = "path"]
    BY <1>12 DEF InspectPath, Running, disk
  <2> QED BY <1>5, <2>1
<1>13. CASE AddPath
  <2>1. UNCHANGED tree /\ cmd.at = "path" /\ cmd' = [cmd EXCEPT !.at = "done"]
    BY <1>13 DEF AddPath, Running, disk
  <2> QED BY <1>5, <2>1
<1>14. CASE UNCHANGED installVars
  BY <1>3, <1>14 DEF installVars
<1> QED BY <1>2, <1>6, <1>7, <1>8, <1>9, <1>10, <1>11, <1>12, <1>13, <1>14 DEF InstallStep

LEMMA CopyInit == Init => CopyInv
BY DEF Init, InstallInit, NoCommand, CopyInv

(* With nothing left to copy, every file is there.                         *)
LEMMA CopiesDone ==
  ASSUME CopyInv, cmd.kind \in {"install", "setup"}, cmd.at = "done", cmd.clean
  PROVE  \A f \in Owed : tree[f] = cmd.version
<1>1. cmd.todo = <<>> /\ \A f \in Owed : tree[f] = cmd.version \/ \E i \in ToSet(cmd.todo) : i.file = f
  BY DEF CopyInv
<1>2. ToSet(<<>>) = {}
  BY DEF ToSet
<1> QED BY <1>1, <1>2

(* install.go: an install that nobody disturbed leaves every file of its   *)
(* own in its version, whatever an earlier command left half done.         *)
THEOREM InstallsConverge == Spec => []InstallConverges
<1>1. CopyInv => InstallConverges
  BY CopiesDone DEF InstallConverges, Owed, Bins
<1> QED BY <1>1, TypeInit, TypeInvStep, CopyInit, CopyInvStep, PTL DEF Spec

-----------------------------------------------------------------------------
(* The screens of raijin-setup. *)

LEMMA ScreenInit == Init => PayloadInv /\ ScreenInv /\ ResultInv
BY DEF Init, InstallInit, NoCommand, PayloadInv, ScreenInv, ResultInv, Resting

(* What the steps of a command leave alone.                                *)
LEMMA CommandSteps ==
  ASSUME CommandInv, CommandStep
  PROVE  /\ cmd'.kind = cmd.kind /\ ~Resting
         /\ \/ cmd' = Failed
            \/ /\ cmd'.version = cmd.version /\ cmd'.programs = cmd.programs
               /\ cmd'.sdk = cmd.sdk /\ cmd'.self = cmd.self
               /\ cmd.kind = "setup" => cmd'.at = cmd.at
<1>1. cmd \in CommandRecords
  BY DEF CommandInv
<1>2. CASE CopyBreaks \/ UpdatePathBreaks \/ CommandBreaks \/ PurgeBreaks
  BY <1>2 DEF CopyBreaks, UpdatePathBreaks, CommandBreaks, PurgeBreaks, Failed, NoCommand, Resting
<1>3. CASE CopyNext \/ CopyEnds \/ UpdatePath
  BY <1>1, <1>3 DEF CopyNext, CopyEnds, UpdatePath, CommandRecords, Resting
<1>4. CASE RemoveNext \/ PurgePrograms \/ RemoveEmptyDirs \/ ScheduleCleanup \/ Exit
  <2>1. cmd.kind = "uninstall"
    BY <1>4 DEF RemoveNext, PurgePrograms, RemoveEmptyDirs, ScheduleCleanup, Exit, CommandInv
  <2> QED BY <1>1, <1>4, <2>1
     DEF RemoveNext, PurgePrograms, RemoveEmptyDirs, ScheduleCleanup, Exit, CommandRecords, Resting
<1> QED BY <1>2, <1>3, <1>4 DEF CommandStep

LEMMA FailedIs == Failed.kind = cmd.kind /\ Failed.at = "failed"
BY DEF Failed, NoCommand

(* The world outside changes nothing of a command but that it is no longer *)
(* undisturbed.                                                            *)
LEMMA WorldSteps ==
  ASSUME CommandInv, HelperRound \/ EditPath
  PROVE  /\ cmd'.kind = cmd.kind /\ cmd'.at = cmd.at /\ ~cmd'.clean
         /\ cmd'.version = cmd.version /\ cmd'.programs = cmd.programs
         /\ cmd'.sdk = cmd.sdk /\ cmd'.self = cmd.self
BY DEF HelperRound, EditPath, CommandInv, CommandRecords

LEMMA SetupBegins ==
  ASSUME NEW path, performInstall(path)
  PROVE  /\ Resting /\ cmd'.kind = "setup" /\ cmd'.at = "copy" /\ cmd'.version = PayloadVersion
         /\ cmd'.programs = PayloadPrograms /\ cmd'.sdk = TRUE /\ cmd'.self = FALSE
BY DEF performInstall, Begin, NoCommand

LEMMA OthersBegin ==
  ASSUME InstallCommands \/ UninstallCommands
  PROVE  Resting /\ cmd'.kind \in {"install", "uninstall"}
<1>1. CASE InstallCommands
  <2>1. PICK p, inRepo, self, noPrograms, path : InstallBegin(p, inRepo, self, noPrograms, path)
    BY <1>1, Zenon DEF InstallCommands
  <2> QED BY <2>1 DEF InstallBegin, Begin, NoCommand
<1>2. CASE UninstallCommands
  <2>1. PICK self, keepPath, purge : UninstallBegin(self, keepPath, purge)
    BY <1>2, Zenon DEF UninstallCommands
  <2> QED BY <2>1 DEF UninstallBegin, Begin, NoCommand
<1> QED BY <1>1, <1>2

(* The steps that only raijin-setup takes.                                 *)
LEMMA SetupSteps ==
  ASSUME CommandInv, Unpacked \/ InspectPath \/ AddPath
  PROVE  /\ cmd.kind = "setup" /\ cmd'.kind = "setup" /\ ~Resting
         /\ cmd'.version = cmd.version /\ cmd'.programs = cmd.programs
         /\ cmd'.sdk = cmd.sdk /\ cmd'.self = cmd.self /\ cmd'.clean = cmd.clean
BY DEF Unpacked, InspectPath, AddPath, Running, Resting, CommandInv, CommandRecords

LEMMA PayloadStep == TypeInv /\ PayloadInv /\ [Next]_vars => PayloadInv'
<1> SUFFICES ASSUME TypeInv, PayloadInv, [Next]_vars PROVE PayloadInv'
  OBVIOUS
<1>1. CommandInv /\ InstallStep
  BY NextIsInstallStep DEF TypeInv
<1>2. CASE InstallCommands \/ UninstallCommands
  BY <1>2, OthersBegin DEF PayloadInv
<1>3. ASSUME NEW path, performInstall(path) PROVE PayloadInv'
  BY <1>3, SetupBegins DEF PayloadInv
<1>4. CASE CommandStep
  BY <1>1, <1>4, CommandSteps, FailedIs DEF PayloadInv, Resting
<1>5. CASE HelperRound \/ EditPath
  BY <1>1, <1>5, WorldSteps DEF PayloadInv
<1>6. CASE Unpacked \/ InspectPath \/ AddPath
  BY <1>1, <1>6, SetupSteps DEF PayloadInv, Resting
<1>7. CASE UNCHANGED installVars
  BY <1>7 DEF installVars, PayloadInv
<1> QED BY <1>1, <1>2, <1>3, <1>4, <1>5, <1>6, <1>7 DEF InstallStep

LEMMA ScreenStep == TypeInv /\ ScreenInv /\ [Next]_vars => ScreenInv'
<1> SUFFICES ASSUME TypeInv, ScreenInv, [Next]_vars PROVE ScreenInv'
  OBVIOUS
<1>1. CommandInv /\ WindowInv
  BY DEF TypeInv
<1>2. CASE Commands
  <2>1. screen \in {"none", "closed"} /\ screen' = screen
    BY <1>2 DEF Commands, setupVars
  <2>2. CASE InstallCommands \/ UninstallCommands
    BY <2>1, <2>2, OthersBegin DEF ScreenInv
  <2>3. CASE CommandStep
    BY <1>1, <2>1, <2>3, CommandSteps DEF ScreenInv
  <2> QED BY <1>2, <2>2, <2>3 DEF Commands
<1>3. CASE World
  <2>1. screen' = screen /\ cmd'.kind = cmd.kind /\ cmd'.at = cmd.at
    BY <1>1, <1>3, WorldSteps DEF World, setupVars
  <2> QED BY <2>1 DEF ScreenInv, Resting
<1>4. CASE SetupKeys
  <2>1. CASE runInteractive
    <3>1. cmd' = cmd /\ screen = "none" /\ screen' = "welcome"
      BY <2>1 DEF runInteractive, installVars
    <3> QED BY <3>1 DEF ScreenInv, Resting
  <2>2. CASE runSilent
    <3>1. cmd'.kind = "setup" /\ cmd'.at = "copy" /\ screen' = "silent"
      BY <2>2, SetupBegins DEF runSilent
    <3> QED BY <3>1 DEF ScreenInv, Resting
  <2>3. CASE WelcomeKey
    <3>1. CASE performInstall(addToPath) /\ screen' = "installing"
      <4>1. cmd'.kind = "setup" /\ cmd'.at = "copy" /\ screen' = "installing"
        BY <3>1, SetupBegins
      <4> QED BY <4>1 DEF ScreenInv, Resting
    <3>2. CASE UNCHANGED installVars /\ screen' \in {"welcome", "canceled"}
      <4>1. cmd' = cmd /\ screen = "welcome"
        BY <2>3, <3>2 DEF WelcomeKey, installVars
      <4> QED BY <3>2, <4>1 DEF ScreenInv, Resting
    <3> QED BY <2>3, <3>1, <3>2 DEF WelcomeKey
  <2>4. CASE CloseKey
    <3>1. cmd' = cmd /\ screen \in {"done", "error", "canceled"} /\ screen' = "closed"
      BY <2>4 DEF CloseKey, Closed, installVars
    <3> QED BY <3>1 DEF ScreenInv, Resting
  <2>5. CASE SetupKilled
    <3>1. screen' = "closed" /\ (cmd' = Failed \/ (cmd' = cmd /\ (cmd.kind # "setup" \/ Resting)))
      BY <2>5 DEF SetupKilled, Closed, CommandBreaks, installVars
    <3> QED BY <3>1, FailedIs DEF ScreenInv, Resting
  <2> QED BY <1>4, <2>1, <2>2, <2>3, <2>4, <2>5 DEF SetupKeys
<1>5. CASE SetupWork
  <2>1. CASE cmd.kind = "setup" /\ CommandStep /\ UNCHANGED setupVars
    <3>1. screen' = screen /\ cmd'.kind = "setup" /\ cmd.kind = "setup" /\ ~Resting
      BY <1>1, <2>1, CommandSteps DEF setupVars
    <3> QED BY <3>1 DEF ScreenInv, Resting
  <2>2. CASE Unpacked \/ InspectPath \/ AddPath
    <3>1. screen' = screen /\ cmd'.kind = "setup" /\ cmd.kind = "setup" /\ ~Resting
      BY <1>1, <2>2, SetupSteps DEF Unpacked, InspectPath, AddPath
    <3> QED BY <3>1 DEF ScreenInv, Resting
  <2>3. CASE installFinishedMsg
    <3>1. /\ cmd' = cmd /\ cmd.kind = "setup"
          /\ (cmd.at = "done" /\ screen' = "done") \/ (cmd.at = "failed" /\ screen' = "error")
      BY <2>3 DEF installFinishedMsg, installVars
    <3> QED BY <3>1 DEF ScreenInv, Resting
  <2> QED BY <1>5, <2>1, <2>2, <2>3 DEF SetupWork
<1>6. CASE UNCHANGED vars
  BY <1>6 DEF vars, installVars, setupVars, ScreenInv, Resting
<1> QED BY <1>2, <1>3, <1>4, <1>5, <1>6 DEF Next

(* A PATH with an entry for bin contains it.                               *)
LEMMA BinItemsShow ==
  ASSUME NEW S, NEW value \in Seq(S), Len(BinItems(value)) = 1
  PROVE  ListContainsDir(value)
<1> DEFINE P == {i \in DOMAIN value : normalizeDir(value[i]) = Bin}
<1>1. SUFFICES ASSUME P = {} PROVE FALSE
  BY DEF ListContainsDir
<1>2. BinItems(value) = AtPlaces(value, {})
  BY <1>1 DEF BinItems
<1>3. ToSet(AtPlaces(value, {})) = {} /\ AtPlaces(value, {}) \in Seq(S)
  BY AtPlacesRange, AtPlacesSeq
<1>4. 1 \in DOMAIN BinItems(value)
  BY <1>2, <1>3
<1> QED BY <1>2, <1>3, <1>4 DEF ToSet

(* What a setup says of PATH was so when it looked, and nobody has changed *)
(* PATH since.                                                             *)
LEMMA ResultStep == TypeInv /\ PathInv /\ ScreenInv /\ ResultInv /\ [Next]_vars => ResultInv'
<1> SUFFICES ASSUME TypeInv, PathInv, ScreenInv, ResultInv, [Next]_vars PROVE ResultInv'
  OBVIOUS
<1>1. CommandInv /\ cmd \in CommandRecords /\ WindowInv
  BY DEF TypeInv, CommandInv
<1>2. CASE Commands
  <2>1. screen \in {"none", "closed"} /\ UNCHANGED <<screen, result, addToPath>>
    BY <1>2 DEF Commands, setupVars
  <2>2. cmd'.kind = "setup" => cmd'.at \notin {"copy", "inspect", "path"}
    <3>1. CASE InstallCommands \/ UninstallCommands
      BY <3>1, OthersBegin
    <3>2. CASE CommandStep
      BY <1>1, <2>1, <3>2, CommandSteps DEF ScreenInv
    <3> QED BY <1>2, <3>1, <3>2 DEF Commands
  <2> QED BY <2>1, <2>2 DEF ResultInv
<1>3. CASE World
  <2>1. /\ UNCHANGED <<screen, result, addToPath>>
        /\ cmd'.kind = cmd.kind /\ cmd'.at = cmd.at /\ ~cmd'.clean
    BY <1>1, <1>3, WorldSteps DEF World, setupVars
  <2> QED BY <2>1 DEF ResultInv
<1>4. CASE SetupKeys
  <2>1. CASE runInteractive
    <3>1. cmd' = cmd /\ screen = "none" /\ screen' = "welcome" /\ result' = result
      BY <2>1 DEF runInteractive, installVars
    <3> QED BY <3>1 DEF ResultInv, ScreenInv
  <2>2. CASE runSilent
    <3>1. cmd'.kind = "setup" /\ cmd'.at = "copy" /\ screen = "none" /\ screen' = "silent" /\ result' = result
      BY <2>2, SetupBegins DEF runSilent
    <3> QED BY <3>1 DEF ResultInv
  <2>3. CASE WelcomeKey
    <3>1. CASE performInstall(addToPath) /\ screen' = "installing"
      <4>1. cmd'.kind = "setup" /\ cmd'.at = "copy" /\ screen' = "installing"
        BY <3>1, SetupBegins
      <4>2. screen = "welcome" /\ result' = result
        BY <2>3 DEF WelcomeKey
      <4> QED BY <4>1, <4>2 DEF ResultInv
    <3>2. CASE UNCHANGED installVars /\ screen' \in {"welcome", "canceled"}
      <4>1. cmd' = cmd /\ screen = "welcome" /\ result' = result
        BY <2>3, <3>2 DEF WelcomeKey, installVars
      <4> QED BY <3>2, <4>1 DEF ResultInv, ScreenInv
    <3> QED BY <2>3, <3>1, <3>2 DEF WelcomeKey
  <2>4. CASE CloseKey
    <3>1. cmd' = cmd /\ screen \in {"done", "error", "canceled"} /\ screen' = "closed"
      BY <2>4 DEF CloseKey, Closed, installVars
    <3> QED BY <3>1 DEF ResultInv, ScreenInv, Resting
  <2>5. CASE SetupKilled
    <3>1. screen' = "closed" /\ (cmd' = Failed \/ (cmd' = cmd /\ (cmd.kind # "setup" \/ Resting)))
      BY <2>5 DEF SetupKilled, Closed, CommandBreaks, installVars
    <3> QED BY <3>1, FailedIs DEF ResultInv, Resting
  <2> QED BY <1>4, <2>1, <2>2, <2>3, <2>4, <2>5 DEF SetupKeys
<1>5. CASE SetupWork
  <2>1. CASE cmd.kind = "setup" /\ CommandStep /\ UNCHANGED setupVars
    <3>1. UNCHANGED <<screen, result, addToPath>> /\ ~Resting /\ cmd.kind = "setup"
      BY <1>1, <2>1, CommandSteps DEF setupVars
    <3>2. cmd' = Failed \/ (cmd'.kind = "setup" /\ cmd'.at = cmd.at)
      BY <1>1, <2>1, CommandSteps
    <3>3. screen \notin {"none", "welcome"}
      BY <3>1 DEF ScreenInv
    <3> QED BY <3>1, <3>2, <3>3, FailedIs DEF ResultInv, Resting
  <2>2. CASE Unpacked
    <3>1. cmd.kind = "setup" /\ ~Resting /\ cmd.at = "copy" /\ UNCHANGED <<screen, addToPath>>
      BY <2>2 DEF Unpacked, Running, Resting
    <3>2. result = "none" /\ screen \notin {"none", "welcome"}
      BY <3>1 DEF ScreenInv, ResultInv
    <3>3. \/ addToPath /\ cmd'.at = "inspect" /\ result' = "none"
          \/ ~addToPath /\ cmd'.at = "done" /\ result' = "skipped"
      BY <1>1, <2>2, <3>2 DEF Unpacked, CommandRecords
    <3> QED BY <3>1, <3>2, <3>3 DEF ResultInv
  <2>3. CASE InspectPath
    <3>1. cmd.kind = "setup" /\ ~Resting /\ cmd.at = "inspect" /\ UNCHANGED <<screen, addToPath, list>>
      BY <2>3 DEF InspectPath, Running, Resting
    <3>2. result = "none" /\ addToPath /\ screen \notin {"none", "welcome"}
      BY <3>1 DEF ScreenInv, ResultInv
    <3>3. \/ cmd'.at = "done" /\ result' = "uninspected"
          \/ cmd'.at = "done" /\ result' = "already" /\ ListContainsDir(list)
          \/ cmd'.at = "path" /\ result' = result
      BY <1>1, <2>3 DEF InspectPath, CommandRecords
    <3>4. ListContainsDir(list) => ListContainsDir(list')
      BY <3>1
    <3> QED BY <3>1, <3>2, <3>3, <3>4 DEF ResultInv
  <2>4. CASE AddPath
    <3>1. cmd.kind = "setup" /\ ~Resting /\ cmd.at = "path" /\ UNCHANGED <<screen, addToPath, os, shell, edits>>
      BY <2>4 DEF AddPath, Running, Resting
    <3>2. result = "none" /\ addToPath /\ screen \notin {"none", "welcome"}
      BY <3>1 DEF ScreenInv, ResultInv
    <3>3. cmd'.at = "done" /\ result' = IF list' = list THEN "unchanged" ELSE "added"
      BY <1>1, <2>4 DEF AddPath, CommandRecords
    <3>4. list' # list => ListContainsDir(list')
      <4>1. SUFFICES ASSUME list' # list PROVE ListContainsDir(list')
        OBVIOUS
      <4>2. UpdateUserPathDir /\ os # "unix"
        BY <2>4, <4>1 DEF AddPath, UpdateUserPathDir
      <4>3. PathInv' /\ Len(BinItems(list')) = 1
        BY <3>1, <4>2, PathEdited DEF Adds
      <4>4. list' \in Seq(PathEntries)
        BY <4>3 DEF PathInv
      <4> QED BY <4>3, <4>4, BinItemsShow
    <3> QED BY <3>1, <3>2, <3>3, <3>4 DEF ResultInv
  <2>5. CASE installFinishedMsg
    <3>1. /\ UNCHANGED <<cmd, list, result, addToPath>> /\ screen \in {"installing", "silent"}
          /\ (cmd.at = "done" /\ screen' = "done") \/ (cmd.at = "failed" /\ screen' = "error")
      BY <2>5 DEF installFinishedMsg, installVars
    <3> QED BY <3>1 DEF ResultInv
  <2> QED BY <1>5, <2>1, <2>2, <2>3, <2>4, <2>5 DEF SetupWork
<1>6. CASE UNCHANGED vars
  BY <1>6 DEF vars, installVars, setupVars, ResultInv
<1> QED BY <1>2, <1>3, <1>4, <1>5, <1>6 DEF Next

(* The done screen of raijin-setup is right, and so are the one that says  *)
(* that nothing was changed and the one behind which files are unpacked.   *)
THEOREM SetupIsTruthful == Spec => []SetupTellsTruth
<1> DEFINE IInv == SetupInv /\ PathInv
<1>1. Init => IInv
  BY TypeInit, CopyInit, ScreenInit, PathInit DEF SetupInv
<1>2. IInv /\ [Next]_vars => IInv'
  BY TypeInvStep, CopyInvStep, PayloadStep, ScreenStep, ResultStep, PathInvStep DEF SetupInv
<1>3. IInv => SetupTellsTruth
  <2> SUFFICES ASSUME IInv PROVE SetupTellsTruth
    OBVIOUS
  <2>1. CopyInv /\ PayloadInv /\ ScreenInv /\ ResultInv
    BY DEF SetupInv
  <2>2. ASSUME screen = "done", cmd.kind = "setup", cmd.clean
        PROVE  \A i \in DOMAIN Payload : tree[Payload[i].file] = PayloadVersion
    <3>1. cmd.at = "done"
      BY <2>1, <2>2 DEF ScreenInv
    <3>2. /\ cmd.version = PayloadVersion /\ cmd.programs = PayloadPrograms /\ cmd.sdk /\ ~cmd.self
      BY <2>1, <2>2, <3>1 DEF PayloadInv
    <3>3. Owed = Bins \cup PayloadPrograms \cup ToSet(SdkFiles) \cup {"readme"}
      BY <2>2, <3>2 DEF Owed
    <3>4. \A f \in Owed : tree[f] = PayloadVersion
      BY <2>1, <2>2, <3>1, <3>2, CopiesDone
    <3>5. \A i \in DOMAIN Payload : Payload[i] \in ToSet(Payload)
      BY DEF ToSet
    <3> QED BY <3>3, <3>4, <3>5, PayloadCovers
  <2>3. (screen = "done" /\ cmd.kind = "setup" /\ cmd.clean) =>
          /\ result \in {"already", "added"} => ListContainsDir(list)
          /\ addToPath <=> result # "skipped"
    BY <2>1 DEF ScreenInv, ResultInv
  <2> QED BY <2>1, <2>2, <2>3 DEF SetupTellsTruth, ScreenInv
<1> QED BY <1>1, <1>2, <1>3, PTL DEF Spec
=============================================================================
