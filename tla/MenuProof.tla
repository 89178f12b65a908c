------------------------------ MODULE MenuProof ------------------------------
(***************************************************************************)
(* Theorems about the catalog, add and remove, and the menu, for every     *)
(* library, every number of processes and whatever is changed by hand.     *)
(***************************************************************************)
EXTENDS Menu, FiniteSetTheorems, TLAPS

-----------------------------------------------------------------------------
(* Orders. *)

Below(S, R, x) == {y \in S : <<y, x>> \in R}

StrictOrder(S, R) ==
  /\ \A x \in S : <<x, x>> \notin R
  /\ \A x, y, z \in S : <<x, y>> \in R /\ <<y, z>> \in R => <<x, z>> \in R

(* What is below an element is more than what is below a lesser one.       *)
LEMMA BelowGrows ==
  ASSUME NEW S, NEW R, StrictOrder(S, R), NEW x \in S, NEW y \in S, <<x, y>> \in R
  PROVE  Below(S, R, x) \subseteq Below(S, R, y) /\ Below(S, R, x) # Below(S, R, y)
<1>1. x \in Below(S, R, y) /\ x \notin Below(S, R, x)
  BY DEF StrictOrder, Below
<1>2. \A z \in S : <<z, x>> \in R => <<z, y>> \in R
  BY DEF StrictOrder
<1> QED BY <1>1, <1>2 DEF Below

(* A finite set that is not empty has a least element.                     *)
LEMMA LeastOf ==
  ASSUME NEW S, IsFiniteSet(S), NEW R, StrictOrder(S, R), NEW T \in SUBSET S, T # {}
  PROVE  \E x \in T : \A y \in T : <<y, x>> \notin R
<1> DEFINE U == {Below(S, R, x) : x \in T}
<1>1. \A x : Below(S, R, x) \in SUBSET S /\ IsFiniteSet(Below(S, R, x))
  <2>1. \A x : Below(S, R, x) \in SUBSET S
    BY DEF Below
  <2> QED BY <2>1, FS_Subset
<1>2. U \subseteq FiniteSubsetsOf(S) /\ U # {}
  BY <1>1 DEF FiniteSubsetsOf
<1>3. PICK u \in U : \A v \in U : <<v, u>> \notin StrictSubsetOrdering(S)
  <2> HIDE DEF U
  <2> QED BY <1>2, WFMin, FS_StrictSubsetOrderingWellFounded
<1>4. PICK x \in T : u = Below(S, R, x)
  OBVIOUS
<1>5. ASSUME NEW y \in T, <<y, x>> \in R PROVE FALSE
  <2>1. Below(S, R, y) \subseteq u /\ Below(S, R, y) # u
    BY <1>4, <1>5, BelowGrows
  <2>2. Below(S, R, y) \in U /\ Below(S, R, y) \in SUBSET S /\ u \in SUBSET S
    BY <1>1, <1>4
  <2> QED BY <1>3, <2>1, <2>2 DEF StrictSubsetOrdering
<1> QED BY <1>5

(* A set of numbers has a least one, and Min is that.                      *)
LEMMA MinIs ==
  ASSUME NEW I \in SUBSET Nat, I # {}
  PROVE  Min(I) \in I /\ \A i \in I : Min(I) <= i
<1>1. PICK n \in I : TRUE
  OBVIOUS
<1> DEFINE S == 0 .. n
           R == {p \in S \X S : p[1] < p[2]}
           T == I \cap S
<1>2. n \in Nat /\ IsFiniteSet(S)
  BY FS_Interval, 0 \in Int
<1>3. StrictOrder(S, R)
  BY <1>2 DEF StrictOrder
<1>4. T \in SUBSET S /\ T # {}
  BY <1>1, <1>2
<1>5. PICK x \in T : \A y \in T : <<y, x>> \notin R
  <2> HIDE DEF S, R, T
  <2> QED BY <1>2, <1>3, <1>4, LeastOf
<1>6. \A y \in T : x <= y
  <2> TAKE y \in T
  <2>1. x \in Nat /\ y \in Nat /\ <<y, x>> \in S \X S
    BY <1>2
  <2>2. ~(<<y, x>>[1] < <<y, x>>[2])
    BY <1>5, <2>1
  <2> QED BY <2>1, <2>2
<1>7. x \in I /\ \A y \in I : x <= y
  BY <1>2, <1>6
<1> QED BY <1>7 DEF Min

(* A finite set of numbers has a greatest one, and Max is that.            *)
LEMMA MaxIs ==
  ASSUME NEW N \in Nat, NEW I \in SUBSET (1 .. N), I # {}
  PROVE  Max(I) \in I /\ \A i \in I : i <= Max(I)
<1> DEFINE S == 1 .. N
           R == {p \in S \X S : p[2] < p[1]}
<1>1. IsFiniteSet(S)
  BY FS_Interval, 1 \in Int
<1>2. StrictOrder(S, R)
  BY DEF StrictOrder
<1>3. PICK x \in I : \A y \in I : <<y, x>> \notin R
  <2> HIDE DEF S, R
  <2>1. I \in SUBSET S
    BY DEF S
  <2> QED BY <1>1, <1>2, <2>1, LeastOf
<1>4. \A y \in I : x >= y
  <2> TAKE y \in I
  <2>1. x \in Nat /\ y \in Nat /\ <<y, x>> \in S \X S
    OBVIOUS
  <2>2. ~(<<y, x>>[2] < <<y, x>>[1])
    BY <1>3, <2>1
  <2> QED BY <2>1, <2>2
<1>5. Max(I) \in I /\ \A y \in I : Max(I) >= y
  BY <1>4 DEF Max
<1> QED BY <1>5

(* suggest and catalog: what is sorted is all there, once, and nothing     *)
(* else.                                                                   *)
LEMMA RankedIs ==
  ASSUME NEW S, IsFiniteSet(S), NEW R, StrictOrder(S, R),
         \A x, y \in S : x # y => <<x, y>> \in R \/ <<y, x>> \in R
  PROVE  Ranked(S, R) \in Seq(S) /\ Range(Ranked(S, R)) = S /\ IsInjective(Ranked(S, R))
<1> DEFINE n == Cardinality(S)
           rank(x) == Cardinality(Below(S, R, x))
           f == [x \in S |-> rank(x) + 1]
<1>1. n \in Nat
  BY FS_CardinalityType
<1>2. \A x : Below(S, R, x) \in SUBSET S /\ IsFiniteSet(Below(S, R, x))
  <2>1. \A x : Below(S, R, x) \in SUBSET S
    BY DEF Below
  <2> QED BY <2>1, FS_Subset
<1>3. \A x : rank(x) \in Nat
  BY <1>2, FS_CardinalityType
<1>4. \A x \in S : rank(x) < n
  <2> TAKE x \in S
  <2>1. x \notin Below(S, R, x)
    BY DEF StrictOrder, Below
  <2>2. Below(S, R, x) # S
    BY <2>1
  <2>3. rank(x) <= n /\ rank(x) # n
    BY <1>2, <2>2, FS_Subset
  <2> QED BY <1>1, <1>3, <2>3
<1>5. ASSUME NEW x \in S, NEW y \in S, <<x, y>> \in R PROVE rank(x) < rank(y)
  <2>1. Below(S, R, x) \subseteq Below(S, R, y) /\ Below(S, R, x) # Below(S, R, y)
    BY <1>5, BelowGrows
  <2>2. rank(x) <= rank(y) /\ rank(x) # rank(y)
    BY <1>2, <2>1, FS_Subset
  <2> QED BY <1>3, <2>2
<1>6. \A x, y \in S : rank(x) = rank(y) => x = y
  <2> TAKE x, y \in S
  <2>1. rank(x) \in Nat /\ rank(y) \in Nat
    BY <1>3
  <2>2. <<x, y>> \in R => rank(x) < rank(y)
    BY <1>5
  <2>3. <<y, x>> \in R => rank(y) < rank(x)
    BY <1>5
  <2> HIDE DEF rank
  <2> QED BY <2>1, <2>2, <2>3
<1>7. f \in Surjection(S, 1 .. n)
  <2>1. \A x \in S : rank(x) + 1 \in 1 .. n
    <3> HIDE DEF rank, n
    <3> QED BY <1>1, <1>3, <1>4
  <2>2. \A x, y \in S : rank(x) + 1 = rank(y) + 1 => x = y
    <3> HIDE DEF rank, n
    <3> QED BY <1>3, <1>6
  <2>3. f \in Injection(S, 1 .. n)
    <3> HIDE DEF rank, n
    <3> QED BY <2>1, <2>2 DEF Injection, IsInjective
  <2>4. IsFiniteSet(1 .. n) /\ Cardinality(1 .. n) = n
    <3> HIDE DEF n
    <3> QED BY <1>1, FS_Interval, 1 \in Int
  <2>5. Cardinality(S) = Cardinality(1 .. n)
    BY <2>4
  <2> HIDE DEF f
  <2> QED BY <2>3, <2>4, <2>5, FS_Injection
<1>8. \A i \in 1 .. n : \E x \in S : rank(x) = i - 1
  <2> TAKE i \in 1 .. n
  <2>1. PICK x \in S : f[x] = i
    <3> HIDE DEF f
    <3> QED BY <1>7 DEF Surjection
  <2>2. rank(x) + 1 = i
    BY <2>1
  <2>3. rank(x) = i - 1
    <3> HIDE DEF rank
    <3> QED BY <1>3, <2>2
  <2> QED BY <2>3
<1> DEFINE r == [i \in 1 .. n |-> CHOOSE x \in S : rank(x) = i - 1]
<1>9. Ranked(S, R) = r
  BY DEF Ranked, Below
<1>10. \A i \in 1 .. n : r[i] \in S /\ rank(r[i]) = i - 1
  <2> HIDE DEF rank, n
  <2> QED BY <1>8
<1>11. r \in [1 .. n -> S]
  BY <1>10
<1>12. \A x \in S : \E i \in 1 .. n : r[i] = x
  <2> TAKE x \in S
  <2>1. rank(x) + 1 \in 1 .. n /\ rank(x) = (rank(x) + 1) - 1
    <3> HIDE DEF rank, n
    <3> QED BY <1>1, <1>3, <1>4
  <2> HIDE DEF r, rank, n
  <2> QED BY <1>6, <1>10, <2>1
<1>13. r \in Seq(S)
  <2> HIDE DEF r, n
  <2> QED BY <1>1, <1>11
<1>14. DOMAIN r = 1 .. n
  OBVIOUS
<1>15. Range(r) = S
  <2> HIDE DEF r, n
  <2> QED BY <1>11, <1>12, <1>14 DEF Range
<1>16. IsInjective(r)
  <2>1. \A i, j \in 1 .. n : i - 1 = j - 1 => i = j
    BY <1>1
  <2> HIDE DEF r, rank, n
  <2> QED BY <2>1, <1>10, <1>14 DEF IsInjective
<1> QED BY <1>9, <1>13, <1>15, <1>16

-----------------------------------------------------------------------------
(* Words. *)

Words == Seq(Nat)

LEMMA SameFunction ==
  ASSUME NEW D, NEW S, NEW f \in [D -> S], NEW g \in [D -> S], \A i \in D : f[i] = g[i]
  PROVE  f = g
OBVIOUS

LEMMA SameWord ==
  ASSUME NEW v \in Words, NEW w \in Words, Len(v) = Len(w), \A i \in 1 .. Len(v) : v[i] = w[i]
  PROVE  v = w
<1>1. v \in [1 .. Len(v) -> Nat] /\ w \in [1 .. Len(v) -> Nat]
  BY DEF Words
<1> QED BY <1>1, SameFunction

LEMMA LowerType == ASSUME NEW w \in Words PROVE lower(w) \in Words /\ Len(lower(w)) = Len(w)
<1>1. \A i \in 1 .. Len(w) : w[i] \in Nat
  BY DEF Words
<1>2. \A c \in Nat : LowerByte(c) \in Nat
  BY DEF LowerByte
<1>3. Len(w) \in Nat
  BY DEF Words
<1>4. lower(w) \in [1 .. Len(w) -> Nat]
  BY <1>1, <1>2 DEF lower
<1>5. lower(w) \in Seq(Nat)
  BY <1>3, <1>4
<1>6. Len(lower(w)) = Len(w)
  BY <1>3, <1>4, <1>5
<1> QED BY <1>5, <1>6 DEF Words

(* The comparison of words, without prefixes: they agree up to place k, and *)
(* there v ends or has the lesser letter.                                   *)
LessAt(v, w, k) ==
  /\ k \in 1 .. Len(w) /\ k <= Len(v) + 1
  /\ \A j \in 1 .. k - 1 : v[j] = w[j]
  /\ k <= Len(v) => v[k] < w[k]

LEMMA WordLessIs ==
  ASSUME NEW v \in Words, NEW w \in Words
  PROVE  WordLess(v, w) <=> \E k \in 1 .. Len(w) : LessAt(v, w, k)
<1>1. Len(v) \in Nat /\ Len(w) \in Nat
  BY DEF Words
<1>2. IsPrefix(v, w) <=> Len(v) <= Len(w) /\ \A i \in 1 .. Len(v) : v[i] = w[i]
  BY DEF Words, IsPrefix
<1>3. ASSUME Len(v) = Len(w), \A i \in 1 .. Len(v) : v[i] = w[i] PROVE v = w
  BY <1>3, SameWord
<1>4. IsStrictPrefix(v, w) => LessAt(v, w, Len(v) + 1)
  <2> SUFFICES ASSUME IsStrictPrefix(v, w) PROVE LessAt(v, w, Len(v) + 1)
    OBVIOUS
  <2>1. Len(v) < Len(w) /\ \A i \in 1 .. Len(v) : v[i] = w[i]
    BY <1>1, <1>2, <1>3 DEF IsStrictPrefix
  <2> QED BY <1>1, <2>1 DEF LessAt
<1>5. LessAt(v, w, Len(v) + 1) => IsStrictPrefix(v, w)
  BY <1>1, <1>2 DEF LessAt, IsStrictPrefix
<1>6. \A k \in 1 .. Len(v) :
        LessAt(v, w, k) <=> k <= Len(w) /\ v[k] < w[k] /\ \A j \in 1 .. k - 1 : v[j] = w[j]
  BY <1>1 DEF LessAt
<1>7. \A k : LessAt(v, w, k) => k \in 1 .. Len(v) \/ k = Len(v) + 1
  BY <1>1 DEF LessAt
<1>8. \A k : LessAt(v, w, k) => k \in 1 .. Len(w)
  BY DEF LessAt
<1> QED BY <1>4, <1>5, <1>6, <1>7, <1>8 DEF WordLess

(* Words are ordered strictly, and any two different ones are ordered.     *)
LEMMA WordOrder ==
  /\ \A v \in Words : ~WordLess(v, v)
  /\ \A u, v, w \in Words : WordLess(u, v) /\ WordLess(v, w) => WordLess(u, w)
  /\ \A v, w \in Words : v # w => WordLess(v, w) \/ WordLess(w, v)
<1>1. \A v \in Words : Len(v) \in Nat /\ \A i \in 1 .. Len(v) : v[i] \in Nat
  BY DEF Words
<1>2. ASSUME NEW v \in Words PROVE ~WordLess(v, v)
  <2>1. \A k \in 1 .. Len(v) : ~LessAt(v, v, k)
    BY <1>1 DEF LessAt
  <2> QED BY <2>1, WordLessIs
<1>3. ASSUME NEW u \in Words, NEW v \in Words, NEW w \in Words, WordLess(u, v), WordLess(v, w)
      PROVE  WordLess(u, w)
  <2>1. PICK j \in 1 .. Len(v) : LessAt(u, v, j)
    BY <1>3, WordLessIs
  <2>2. PICK k \in 1 .. Len(w) : LessAt(v, w, k)
    BY <1>3, WordLessIs
  <2>3. Len(u) \in Nat /\ Len(v) \in Nat /\ Len(w) \in Nat /\ j \in Nat /\ k \in Nat
    BY <1>1
  <2>4. CASE j < k
    <3>1. \A i \in 1 .. j - 1 : u[i] = v[i] /\ v[i] = w[i]
      BY <2>1, <2>2, <2>3, <2>4 DEF LessAt
    <3>2. v[j] = w[j] /\ j \in 1 .. Len(w)
      BY <2>1, <2>2, <2>3, <2>4 DEF LessAt
    <3>3. LessAt(u, w, j)
      BY <2>1, <3>1, <3>2 DEF LessAt
    <3> QED BY <3>2, <3>3, WordLessIs
  <2>5. CASE k < j
    <3>1. \A i \in 1 .. k - 1 : u[i] = v[i] /\ v[i] = w[i]
      BY <2>1, <2>2, <2>3, <2>5 DEF LessAt
    <3>2. u[k] = v[k] /\ k <= Len(v) /\ k <= Len(u)
      BY <2>1, <2>2, <2>3, <2>5 DEF LessAt
    <3>3. LessAt(u, w, k)
      BY <2>2, <2>3, <3>1, <3>2 DEF LessAt
    <3> QED BY <3>3, WordLessIs
  <2>6. CASE j = k
    <3>1. \A i \in 1 .. k - 1 : u[i] = v[i] /\ v[i] = w[i]
      BY <2>1, <2>2, <2>3, <2>6 DEF LessAt
    <3>2. v[k] < w[k] /\ k <= Len(u) + 1 /\ (k <= Len(u) => u[k] < v[k])
      BY <2>1, <2>2, <2>3, <2>6 DEF LessAt
    <3>3. v[k] \in Nat /\ w[k] \in Nat /\ (k <= Len(u) => u[k] \in Nat)
      BY <1>1, <2>1, <2>2, <2>3, <2>6
    <3>4. LessAt(u, w, k)
      BY <2>3, <3>1, <3>2, <3>3 DEF LessAt
    <3> QED BY <3>4, WordLessIs
  <2> QED BY <2>3, <2>4, <2>5, <2>6
<1>4. ASSUME NEW v \in Words, NEW w \in Words, v # w PROVE WordLess(v, w) \/ WordLess(w, v)
  <2> DEFINE D == {i \in 1 .. Len(v) : i <= Len(w) /\ v[i] # w[i]}
  <2>0. Len(v) \in Nat /\ Len(w) \in Nat
    BY <1>1
  <2>1. CASE D = {}
    <3>1. Len(v) # Len(w)
      <4>1. Len(v) = Len(w) => \A i \in 1 .. Len(v) : v[i] = w[i]
        BY <2>0, <2>1
      <4> QED BY <1>4, <4>1, SameWord
    <3>2. Len(v) < Len(w) => LessAt(v, w, Len(v) + 1) /\ Len(v) + 1 \in 1 .. Len(w)
      BY <2>0, <2>1 DEF LessAt
    <3>3. Len(w) < Len(v) => LessAt(w, v, Len(w) + 1) /\ Len(w) + 1 \in 1 .. Len(v)
      BY <2>0, <2>1 DEF LessAt
    <3> QED BY <2>0, <3>1, <3>2, <3>3, WordLessIs
  <2>2. CASE D # {}
    <3>1. D \in SUBSET Nat
      BY <2>0
    <3>2. PICK k \in D : \A i \in D : k <= i
      <4> HIDE DEF D
      <4> QED BY <2>2, <3>1, MinIs
    <3>3. k \in 1 .. Len(v) /\ k \in 1 .. Len(w) /\ v[k] # w[k] /\ k \in Nat
      BY <2>0
    <3>4. \A i \in 1 .. k - 1 : v[i] = w[i]
      <4> TAKE i \in 1 .. k - 1
      <4>1. i \in 1 .. Len(v) /\ i <= Len(w) /\ ~(k <= i)
        BY <2>0, <3>3
      <4> QED BY <3>2, <4>1
    <3>5. v[k] \in Nat /\ w[k] \in Nat
      BY <1>1, <3>3
    <3>6. v[k] < w[k] \/ w[k] < v[k]
      BY <3>3, <3>5
    <3>7. k <= Len(v) + 1 /\ k <= Len(w) + 1
      BY <2>0, <3>3
    <3> HIDE DEF D
    <3>8. v[k] < w[k] => LessAt(v, w, k)
      BY <3>3, <3>4, <3>7 DEF LessAt
    <3>9. w[k] < v[k] => LessAt(w, v, k)
      BY <3>3, <3>4, <3>7 DEF LessAt
    <3> QED BY <3>3, <3>6, <3>8, <3>9, WordLessIs
  <2> QED BY <2>1, <2>2
<1> QED BY <1>2, <1>3, <1>4

-----------------------------------------------------------------------------
(* Edit distance. *)

(* Induction, in the form of a set of numbers.                             *)
LEMMA Induct ==
  ASSUME NEW G \in SUBSET Nat, 0 \in G, \A n \in Nat : n \in G => n + 1 \in G
  PROVE  G = Nat
<1> SUFFICES ASSUME G # Nat PROVE FALSE
  OBVIOUS
<1> DEFINE B == Nat \ G
           m == Min(B)
<1>1. B # {} /\ B \subseteq Nat
  OBVIOUS
<1>2. m \in B /\ \A i \in B : m <= i
  BY <1>1, MinIs
<1> HIDE DEF m
<1>3. m # 0 /\ m \in Nat
  BY <1>2
<1>4. m - 1 \in Nat /\ m - 1 \notin B
  BY <1>2, <1>3
<1>5. (m - 1) + 1 \in G
  BY <1>4
<1> QED BY <1>2, <1>3, <1>5

(* What is defined step by step from a beginning exists.                   *)
Follows(f, b, N, step) == f[0] = b /\ \A n \in 1 .. N : f[n] = step[n][f[n - 1]]

LEMMA Recursion ==
  \A S, b, N, step : b \in S /\ N \in Nat /\ step \in [1 .. N -> [S -> S]] =>
    \E f \in [0 .. N -> S] : Follows(f, b, N, step)
<1> SUFFICES ASSUME NEW S, NEW b \in S, NEW N \in Nat, NEW step \in [1 .. N -> [S -> S]]
             PROVE  \E f \in [0 .. N -> S] : f[0] = b /\ \A n \in 1 .. N : f[n] = step[n][f[n - 1]]
  BY DEF Follows
<1> DEFINE Upto(n) == \E f \in [0 .. n -> S] :
                        f[0] = b /\ \A k \in 1 .. n : f[k] = step[k][f[k - 1]]
           G == {n \in Nat : n <= N => Upto(n)}
<1>1. 0 \in G
  <2> DEFINE f == [k \in 0 .. 0 |-> b]
  <2>1. f \in [0 .. 0 -> S] /\ f[0] = b /\ \A k \in 1 .. 0 : FALSE
    OBVIOUS
  <2> QED BY <2>1
<1>2. ASSUME NEW n \in Nat, n \in G PROVE n + 1 \in G
  <2> SUFFICES ASSUME n + 1 <= N PROVE Upto(n + 1)
    OBVIOUS
  <2>1. PICK f \in [0 .. n -> S] : f[0] = b /\ \A k \in 1 .. n : f[k] = step[k][f[k - 1]]
    BY <1>2
  <2> DEFINE v == step[n + 1][f[n]]
             g == [k \in 0 .. n + 1 |-> IF k = n + 1 THEN v ELSE f[k]]
  <2>2. n + 1 \in 1 .. N /\ f[n] \in S
    BY <2>1
  <2>3. v \in S
    BY <2>2
  <2>4. g \in [0 .. n + 1 -> S] /\ g[n + 1] = v /\ \A k \in 0 .. n : g[k] = f[k]
    <3> HIDE DEF v
    <3> QED BY <2>1, <2>3
  <2>5. \A k \in 1 .. n + 1 : g[k] = step[k][g[k - 1]]
    <3> HIDE DEF g
    <3>1. ASSUME NEW k \in 1 .. n + 1 PROVE g[k] = step[k][g[k - 1]]
      <4>1. CASE k = n + 1
        <5>1. g[n] = f[n] /\ k - 1 = n
          BY <2>4, <4>1
        <5> QED BY <5>1, <4>1, <2>4
      <4>2. CASE k # n + 1
        <5>1. k \in 1 .. n /\ k - 1 \in 0 .. n /\ k \in 0 .. n
          BY <4>2
        <5> QED BY <5>1, <2>4, <2>1
      <4> QED BY <4>1, <4>2
    <3> QED BY <3>1
  <2>6. g[0] = b
    BY <2>4, <2>1
  <2> HIDE DEF g
  <2> QED BY <2>4, <2>5, <2>6
<1>3. G = Nat
  <2> HIDE DEF G
  <2>1. G \subseteq Nat
    BY DEF G
  <2> QED BY <1>1, <1>2, <2>1, Induct
<1> QED BY <1>3

RowLength(b) == 0 .. Len(b)
Cost(c, d) == IF c = d THEN 0 ELSE 1
Cell(left, above, slant, cost) == Min({left + 1, above + 1, slant + cost})

LEMMA CellIs ==
  ASSUME NEW l \in Nat, NEW a \in Nat, NEW s \in Nat, NEW c \in {0, 1}
  PROVE  /\ Cell(l, a, s, c) \in Nat /\ Cell(l, a, s, c) \in {l + 1, a + 1, s + c}
         /\ Cell(l, a, s, c) <= l + 1 /\ Cell(l, a, s, c) <= a + 1 /\ Cell(l, a, s, c) <= s + c
<1> DEFINE I == {l + 1, a + 1, s + c}
<1>1. I \in SUBSET Nat /\ I # {}
  OBVIOUS
<1>2. Min(I) \in I /\ \A i \in I : Min(I) <= i
  BY <1>1, MinIs
<1>3. Min(I) \in Nat
  BY <1>1, <1>2
<1>4. Cell(l, a, s, c) = Min(I)
  BY DEF Cell
<1> HIDE DEF I
<1>5. l + 1 \in I /\ a + 1 \in I /\ s + c \in I
  BY DEF I
<1> QED BY <1>2, <1>3, <1>4, <1>5 DEF I

LEMMA NextRowIs ==
  ASSUME NEW b \in Words, NEW upper \in [RowLength(b) -> Nat], NEW i \in Nat, NEW c
  PROVE  LET under == NextRow(upper, i, c, b)
         IN /\ under \in [RowLength(b) -> Nat] /\ under[0] = i
            /\ \A j \in 1 .. Len(b) :
                 under[j] = Cell(under[j - 1], upper[j], upper[j - 1], Cost(c, b[j]))
<1> DEFINE N == Len(b)
           step == [j \in 1 .. N |-> [x \in Nat |-> Cell(x, upper[j], upper[j - 1], Cost(c, b[j]))]]
           Is(g) == g = [j \in 0 .. N |->
                           IF j = 0 THEN i
                           ELSE Min({g[j - 1] + 1, upper[j] + 1,
                                     upper[j - 1] + (IF c = b[j] THEN 0 ELSE 1)})]
           under == CHOOSE g : Is(g)
<1>1. N \in Nat
  BY DEF Words
<1>2. \A j \in 1 .. N : upper[j] \in Nat /\ upper[j - 1] \in Nat /\ Cost(c, b[j]) \in {0, 1}
  BY <1>1 DEF RowLength, Cost
<1>3. step \in [1 .. N -> [Nat -> Nat]]
  BY <1>2, CellIs
<1> HIDE DEF N
<1>4. PICK f \in [0 .. N -> Nat] : f[0] = i /\ \A n \in 1 .. N : f[n] = step[n][f[n - 1]]
  <2> HIDE DEF step, Is, under
  <2>1. \E f \in [0 .. N -> Nat] : Follows(f, i, N, step)
    BY <1>1, <1>3, Recursion
  <2> QED BY <2>1 DEF Follows
<1>5. \A j \in 1 .. N : f[j] = Cell(f[j - 1], upper[j], upper[j - 1], Cost(c, b[j]))
  <2>1. \A j \in 1 .. N : f[j - 1] \in Nat
    BY <1>1, <1>4
  <2> QED BY <1>4, <2>1
<1> HIDE DEF step
<1>6. Is(f)
  <2>1. \A j \in 1 .. N : f[j] = Min({f[j - 1] + 1, upper[j] + 1,
                                       upper[j - 1] + (IF c = b[j] THEN 0 ELSE 1)})
    BY <1>5, Zenon DEF Cell, Cost
  <2>2. \A j \in 0 .. N : j = 0 \/ j \in 1 .. N
    BY <1>1
  <2>3. f = [j \in 0 .. N |-> f[j]]
    OBVIOUS
  <2>4. \A j \in 0 .. N : f[j] = IF j = 0 THEN i ELSE Min({f[j - 1] + 1, upper[j] + 1,
                                       upper[j - 1] + (IF c = b[j] THEN 0 ELSE 1)})
    BY <2>1, <2>2, <1>4, Zenon
  <2> QED BY <2>3, <2>4, Zenon
<1>7. Is(under)
  <2> HIDE DEF Is
  <2> QED BY <1>6
<1>8. NextRow(upper, i, c, b) = under
  BY DEF NextRow, N
<1> HIDE DEF under
<1>9. /\ under[0] = i
      /\ \A j \in 1 .. N :
           under[j] = Cell(under[j - 1], upper[j], upper[j - 1], Cost(c, b[j]))
  <2>1. \A j \in 0 .. N : under[j] = IF j = 0 THEN i ELSE Min({under[j - 1] + 1, upper[j] + 1,
                                       upper[j - 1] + (IF c = b[j] THEN 0 ELSE 1)})
    BY <1>7, Zenon
  <2>2. 0 \in 0 .. N /\ \A j \in 1 .. N : j # 0 /\ j \in 0 .. N
    BY <1>1
  <2>3. \A j \in 1 .. N : under[j] = Min({under[j - 1] + 1, upper[j] + 1,
                                       upper[j - 1] + (IF c = b[j] THEN 0 ELSE 1)})
    BY <2>1, <2>2, Zenon
  <2>4. under[0] = i
    BY <2>1, <2>2, Zenon
  <2> QED BY <2>3, <2>4, Zenon DEF Cell, Cost
<1> HIDE DEF Is
<1> DEFINE G == {j \in Nat : j <= N => under[j] = f[j]}
<1>10. 0 \in G
  BY <1>4, <1>9
<1>11. ASSUME NEW j \in Nat, j \in G PROVE j + 1 \in G
  <2>1. CASE j + 1 <= N
    <3>1. under[j] = f[j] /\ j + 1 \in 1 .. N /\ (j + 1) - 1 = j
      BY <1>1, <2>1, <1>11
    <3> QED BY <3>1, <1>5, <1>9
  <2> QED BY <2>1
<1>12. G = Nat
  <2> HIDE DEF G
  <2>1. G \subseteq Nat
    BY DEF G
  <2> QED BY <1>10, <1>11, <2>1, Induct
<1>13. \A j \in 0 .. N : under[j] \in Nat
  BY <1>12, <1>4, <1>1
<1>14. under = [j \in 0 .. N |-> under[j]]
  BY <1>7 DEF Is
<1>15. under \in [0 .. N -> Nat]
  BY <1>13, <1>14
<1> QED BY <1>8, <1>9, <1>15 DEF N, RowLength

(* The table of v and b, cell by cell.                                     *)
IsTable(T, v, b) ==
  /\ T \in [0 .. Len(v) -> [0 .. Len(b) -> Nat]]
  /\ \A j \in 0 .. Len(b) : T[0][j] = j
  /\ \A i \in 0 .. Len(v) : T[i][0] = i
  /\ \A i \in 1 .. Len(v), j \in 1 .. Len(b) :
       T[i][j] = Cell(T[i][j - 1], T[i - 1][j], T[i - 1][j - 1], Cost(v[i], b[j]))

LEMMA TableIs ==
  ASSUME NEW v \in Words, NEW b \in Words
  PROVE  IsTable(Table(v, b), v, b)
<1> DEFINE M == Len(v)
           Rows == [RowLength(b) -> Nat]
           first == [j \in 0 .. Len(b) |-> j]
           step == [i \in 1 .. M |-> [r \in Rows |-> NextRow(r, i, v[i], b)]]
           Is(g) == g = [i \in 0 .. M |-> IF i = 0 THEN first ELSE NextRow(g[i - 1], i, v[i], b)]
           T == CHOOSE g : Is(g)
<1>1. M \in Nat /\ Len(b) \in Nat
  BY DEF Words
<1>2. first \in Rows
  BY <1>1 DEF RowLength
<1>3. ASSUME NEW r \in Rows, NEW i \in 1 .. M
      PROVE  /\ NextRow(r, i, v[i], b) \in Rows /\ NextRow(r, i, v[i], b)[0] = i
             /\ \A j \in 1 .. Len(b) : NextRow(r, i, v[i], b)[j] =
                  Cell(NextRow(r, i, v[i], b)[j - 1], r[j], r[j - 1], Cost(v[i], b[j]))
  <2>1. i \in Nat
    BY <1>1
  <2> QED BY <2>1, NextRowIs
<1>4. Table(v, b) = T
  BY DEF Table
<1> HIDE DEF M, Rows, T, first
<1>5. step \in [1 .. M -> [Rows -> Rows]]
  BY <1>3
<1>6. PICK f \in [0 .. M -> Rows] : f[0] = first /\ \A i \in 1 .. M : f[i] = step[i][f[i - 1]]
  <2> HIDE DEF step, Is
  <2>1. \E f \in [0 .. M -> Rows] : Follows(f, first, M, step)
    BY <1>1, <1>2, <1>5, Recursion
  <2> QED BY <2>1 DEF Follows
<1>7. \A i \in 1 .. M : f[i] = NextRow(f[i - 1], i, v[i], b)
  <2>1. \A i \in 1 .. M : f[i - 1] \in Rows
    BY <1>1, <1>6
  <2> QED BY <1>6, <2>1
<1> HIDE DEF step
<1>8. Is(f)
  <2>1. \A i \in 0 .. M : i = 0 \/ i \in 1 .. M
    BY <1>1
  <2>2. f = [i \in 0 .. M |-> f[i]]
    OBVIOUS
  <2>3. \A i \in 0 .. M : f[i] = IF i = 0 THEN first ELSE NextRow(f[i - 1], i, v[i], b)
    BY <2>1, <1>6, <1>7, Zenon
  <2> QED BY <2>2, <2>3, Zenon
<1>9. Is(T)
  <2> HIDE DEF Is
  <2> QED BY <1>8 DEF T
<1>10. T[0] = first /\ \A i \in 1 .. M : T[i] = NextRow(T[i - 1], i, v[i], b)
  <2>1. 0 \in 0 .. M /\ \A i \in 1 .. M : i # 0 /\ i \in 0 .. M
    BY <1>1
  <2>2. \A i \in 0 .. M : T[i] = IF i = 0 THEN first ELSE NextRow(T[i - 1], i, v[i], b)
    BY <1>9, Zenon
  <2> QED BY <2>1, <2>2, Zenon
<1>11. T = [i \in 0 .. M |-> T[i]]
  BY <1>9
<1> HIDE DEF Is
<1> DEFINE G == {i \in Nat : i <= M => T[i] \in Rows}
<1>12. 0 \in G
  BY <1>10, <1>2
<1>13. ASSUME NEW i \in Nat, i \in G PROVE i + 1 \in G
  <2>1. CASE i + 1 <= M
    <3>1. T[i] \in Rows /\ i + 1 \in 1 .. M /\ (i + 1) - 1 = i
      BY <1>1, <2>1, <1>13
    <3>2. T[i + 1] = NextRow(T[i], i + 1, v[i + 1], b)
      BY <3>1, <1>10
    <3> QED BY <3>1, <3>2, <1>3
  <2> QED BY <2>1
<1>14. G = Nat
  <2> HIDE DEF G
  <2>1. G \subseteq Nat
    BY DEF G
  <2> QED BY <1>12, <1>13, <2>1, Induct
<1>15. \A i \in 0 .. M : T[i] \in Rows
  BY <1>14, <1>1
<1> HIDE DEF G
<1>16. T \in [0 .. M -> Rows]
  BY <1>11, <1>15
<1>17. \A j \in 0 .. Len(b) : T[0][j] = j
  BY <1>10 DEF first
<1>18. \A i \in 1 .. M : T[i - 1] \in Rows
  BY <1>15, <1>1
<1>19. \A i \in 0 .. M : T[i][0] = i
  <2>1. T[0][0] = 0
    BY <1>17, <1>1
  <2>2. \A i \in 1 .. M : T[i][0] = i
    BY <1>10, <1>18, <1>3
  <2> QED BY <2>1, <2>2, <1>1
<1>20. \A i \in 1 .. M, j \in 1 .. Len(b) :
         T[i][j] = Cell(T[i][j - 1], T[i - 1][j], T[i - 1][j - 1], Cost(v[i], b[j]))
  BY <1>10, <1>18, <1>3
<1> QED BY <1>4, <1>16, <1>17, <1>19, <1>20 DEF M, Rows, RowLength, IsTable

(* How the cells of a table lie to one another, the borders included.      *)
CellOK(T, v, b, i, j) ==
  /\ T[i][j] \in Nat
  /\ j > 0 => T[i][j - 1] \in Nat /\ T[i][j] <= T[i][j - 1] + 1
  /\ i > 0 => T[i - 1][j] \in Nat /\ T[i][j] <= T[i - 1][j] + 1
  /\ i > 0 /\ j > 0 => /\ T[i - 1][j - 1] \in Nat
                       /\ T[i][j] <= T[i - 1][j - 1] + Cost(v[i], b[j])
  /\ \/ i = 0 /\ j = 0 /\ T[i][j] = 0
     \/ j > 0 /\ T[i][j] = T[i][j - 1] + 1
     \/ i > 0 /\ T[i][j] = T[i - 1][j] + 1
     \/ i > 0 /\ j > 0 /\ T[i][j] = T[i - 1][j - 1] + Cost(v[i], b[j])

LEMMA CellsAre ==
  ASSUME NEW v \in Words, NEW b \in Words, NEW T, IsTable(T, v, b),
         NEW i \in 0 .. Len(v), NEW j \in 0 .. Len(b)
  PROVE  CellOK(T, v, b, i, j)
<1> USE DEF CellOK
<1>1. Len(v) \in Nat /\ Len(b) \in Nat
  BY DEF Words
<1>2. \A m \in 0 .. Len(v), n \in 0 .. Len(b) : T[m][n] \in Nat
  BY DEF IsTable
<1>3. CASE i > 0 /\ j > 0
  <2>1. i \in 1 .. Len(v) /\ j \in 1 .. Len(b) /\ i - 1 \in 0 .. Len(v) /\ j - 1 \in 0 .. Len(b)
    BY <1>1, <1>3
  <2>2. /\ T[i][j - 1] \in Nat /\ T[i - 1][j] \in Nat /\ T[i - 1][j - 1] \in Nat
        /\ Cost(v[i], b[j]) \in {0, 1}
    BY <1>2, <2>1 DEF Cost
  <2>3. T[i][j] = Cell(T[i][j - 1], T[i - 1][j], T[i - 1][j - 1], Cost(v[i], b[j]))
    BY <2>1 DEF IsTable
  <2> DEFINE l == T[i][j - 1]
             a == T[i - 1][j]
             s == T[i - 1][j - 1]
             c == Cost(v[i], b[j])
  <2> HIDE DEF l, a, s, c
  <2>4. /\ Cell(l, a, s, c) \in Nat /\ Cell(l, a, s, c) \in {l + 1, a + 1, s + c}
        /\ Cell(l, a, s, c) <= l + 1 /\ Cell(l, a, s, c) <= a + 1 /\ Cell(l, a, s, c) <= s + c
    BY <2>2, CellIs DEF l, a, s, c
  <2> QED BY <1>3, <2>2, <2>3, <2>4 DEF l, a, s, c
<1>4. CASE i = 0
  <2>1. T[0][j] = j /\ (j > 0 => j - 1 \in 0 .. Len(b) /\ T[0][j - 1] = j - 1)
    BY <1>1 DEF IsTable
  <2> QED BY <1>4, <2>1
<1>5. CASE j = 0 /\ i > 0
  <2>1. T[i][0] = i /\ i - 1 \in 0 .. Len(v) /\ T[i - 1][0] = i - 1
    BY <1>1, <1>5 DEF IsTable
  <2> QED BY <1>5, <2>1
<1> QED BY <1>1, <1>3, <1>4, <1>5

-----------------------------------------------------------------------------
(* Edits. *)

Grown(X, A) == X \cup UNION {OneEdit(x, A) : x \in X}

EditOf(y, w, A) ==
  \/ \E i \in 1 .. Len(w) : y = RemoveAt(w, i)
  \/ \E c \in A : \E i \in 1 .. Len(w) + 1 : y = InsertAt(w, i, c)
  \/ \E c \in A : \E i \in 1 .. Len(w) : y = ReplaceAt(w, i, c)

LEMMA EditIs ==
  ASSUME NEW w, NEW A, NEW y
  PROVE  y \in OneEdit(w, A) <=> EditOf(y, w, A)
<1> DEFINE Inserted(c) == {InsertAt(w, i, c) : i \in 1 .. Len(w) + 1}
           Replaced(c) == {ReplaceAt(w, i, c) : i \in 1 .. Len(w)}
<1>1. y \in {RemoveAt(w, i) : i \in 1 .. Len(w)} <=> \E i \in 1 .. Len(w) : y = RemoveAt(w, i)
  BY Zenon
<1>2. \A c : y \in Inserted(c) <=> \E i \in 1 .. Len(w) + 1 : y = InsertAt(w, i, c)
  BY Zenon
<1>3. \A c : y \in Replaced(c) <=> \E i \in 1 .. Len(w) : y = ReplaceAt(w, i, c)
  BY Zenon
<1>4. OneEdit(w, A) = {RemoveAt(w, i) : i \in 1 .. Len(w)} \cup (UNION {Inserted(c) : c \in A})
                      \cup (UNION {Replaced(c) : c \in A})
  BY Zenon DEF OneEdit
<1> HIDE DEF Inserted, Replaced
<1>5. y \in UNION {Inserted(c) : c \in A} <=> \E c \in A : y \in Inserted(c)
  OBVIOUS
<1>6. y \in UNION {Replaced(c) : c \in A} <=> \E c \in A : y \in Replaced(c)
  OBVIOUS
<1> QED BY <1>1, <1>2, <1>3, <1>4, <1>5, <1>6, Zenon DEF EditOf

LEMMA EditType ==
  ASSUME NEW w \in Words, NEW A \in SUBSET Nat
  PROVE  OneEdit(w, A) \subseteq Words
<1>1. Len(w) \in Nat
  BY DEF Words
<1>2. \A i \in 1 .. Len(w) + 1 :
        /\ SubSeq(w, 1, i - 1) \in Words /\ SubSeq(w, i, Len(w)) \in Words
        /\ SubSeq(w, i + 1, Len(w)) \in Words
  BY <1>1 DEF Words
<1>3. \A x, y \in Words : x \o y \in Words
  BY DEF Words
<1>4. \A c \in A : <<c>> \in Words
  BY DEF Words
<1>5. \A i \in 1 .. Len(w), c \in A : ReplaceAt(w, i, c) \in Words
  BY DEF Words, ReplaceAt
<1>6. \A i \in 1 .. Len(w) : RemoveAt(w, i) \in Words
  BY <1>1, <1>2, <1>3 DEF RemoveAt
<1>7. \A i \in 1 .. Len(w) + 1, c \in A : InsertAt(w, i, c) \in Words
  BY <1>2, <1>3, <1>4 DEF InsertAt
<1>8. ASSUME NEW y \in OneEdit(w, A) PROVE y \in Words
  <2>1. CASE \E i \in 1 .. Len(w) : y = RemoveAt(w, i)
    BY <2>1, <1>6
  <2>2. CASE \E c \in A : \E i \in 1 .. Len(w) + 1 : y = InsertAt(w, i, c)
    BY <2>2, <1>7
  <2>3. CASE \E c \in A : \E i \in 1 .. Len(w) : y = ReplaceAt(w, i, c)
    BY <2>3, <1>5
  <2>4. EditOf(y, w, A)
    BY EditIs
  <2> QED BY <2>1, <2>2, <2>3, <2>4 DEF EditOf
<1> QED BY <1>8

LEMMA GrownType ==
  ASSUME NEW A \in SUBSET Nat, NEW X \in SUBSET Words
  PROVE  Grown(X, A) \in SUBSET Words
BY EditType DEF Grown

(* Words within n edits of w, counted up to k.                             *)
IsBall(g, w, k, A) == g = [n \in 0 .. k |-> IF n = 0 THEN {w} ELSE Grown(g[n - 1], A)]

LEMMA BallExists ==
  ASSUME NEW w \in Words, NEW k \in Nat, NEW A \in SUBSET Nat
  PROVE  \E g \in [0 .. k -> SUBSET Words] : IsBall(g, w, k, A)
<1> DEFINE S == SUBSET Words
           step == [n \in 1 .. k |-> [X \in S |-> Grown(X, A)]]
<1>1. step \in [1 .. k -> [S -> S]]
  BY GrownType
<1>2. {w} \in S
  OBVIOUS
<1> HIDE DEF S
<1>3. PICK f \in [0 .. k -> S] : f[0] = {w} /\ \A n \in 1 .. k : f[n] = step[n][f[n - 1]]
  <2> HIDE DEF step
  <2>1. \E f \in [0 .. k -> S] : Follows(f, {w}, k, step)
    BY <1>1, <1>2, Recursion
  <2> QED BY <2>1 DEF Follows
<1>4. \A n \in 1 .. k : f[n] = Grown(f[n - 1], A)
  <2>1. \A n \in 1 .. k : f[n - 1] \in S
    BY <1>3
  <2> QED BY <1>3, <2>1
<1> HIDE DEF step
<1>5. \A n \in 0 .. k : n = 0 \/ n \in 1 .. k
  OBVIOUS
<1>6. f = [n \in 0 .. k |-> f[n]]
  OBVIOUS
<1>7. \A n \in 0 .. k : f[n] = IF n = 0 THEN {w} ELSE Grown(f[n - 1], A)
  BY <1>3, <1>4, <1>5, Zenon
<1>8. IsBall(f, w, k, A)
  BY <1>6, <1>7, Zenon DEF IsBall
<1> QED BY <1>3, <1>8 DEF S

GrowsFrom(g, w, k, A) == g[0] = {w} /\ \A n \in 1 .. k : g[n] = Grown(g[n - 1], A)

LEMMA BallStep ==
  ASSUME NEW w, NEW k \in Nat, NEW A, NEW g, IsBall(g, w, k, A)
  PROVE  GrowsFrom(g, w, k, A)
<1>1. \A n \in 0 .. k : g[n] = IF n = 0 THEN {w} ELSE Grown(g[n - 1], A)
  BY Zenon DEF IsBall
<1>2. 0 \in 0 .. k /\ \A n \in 1 .. k : n # 0 /\ n \in 0 .. k
  OBVIOUS
<1> QED BY <1>1, <1>2, Zenon DEF GrowsFrom

LEMMA BallIsOne ==
  ASSUME NEW w, NEW k \in Nat, NEW m \in Nat, NEW A, NEW g, IsBall(g, w, k, A),
         NEW h, IsBall(h, w, m, A), NEW n \in Nat, n <= k, n <= m
  PROVE  g[n] = h[n]
<1> DEFINE G == {i \in Nat : i <= k /\ i <= m => g[i] = h[i]}
<1>0. /\ g[0] = {w} /\ \A i \in 1 .. k : g[i] = Grown(g[i - 1], A)
      /\ h[0] = {w} /\ \A i \in 1 .. m : h[i] = Grown(h[i - 1], A)
  <2>1. GrowsFrom(g, w, k, A) /\ GrowsFrom(h, w, m, A)
    BY BallStep
  <2> QED BY <2>1 DEF GrowsFrom
<1>1. 0 \in G
  BY <1>0
<1>2. ASSUME NEW i \in Nat, i \in G PROVE i + 1 \in G
  <2>1. CASE i + 1 <= k /\ i + 1 <= m
    <3>1. g[i] = h[i] /\ i + 1 \in 1 .. k /\ i + 1 \in 1 .. m /\ (i + 1) - 1 = i
      BY <2>1, <1>2
    <3>2. g[i + 1] = Grown(g[i], A) /\ h[i + 1] = Grown(h[i], A)
      BY <3>1, <1>0
    <3> QED BY <3>1, <3>2
  <2> QED BY <2>1
<1>3. G = Nat
  <2> HIDE DEF G
  <2>1. G \subseteq Nat
    BY DEF G
  <2> QED BY <1>1, <1>2, <2>1, Induct
<1> QED BY <1>3

LEMMA WithinIs ==
  ASSUME NEW w \in Words, NEW k \in Nat, NEW A \in SUBSET Nat
  PROVE  /\ Within(w, k, A) \in SUBSET Words
         /\ Within(w, 0, A) = {w}
         /\ Within(w, k + 1, A) = Grown(Within(w, k, A), A)
<1> DEFINE Ball(m) == CHOOSE g : IsBall(g, w, m, A)
<1>1. \A m \in Nat : Within(w, m, A) = Ball(m)[m]
  BY Zenon DEF Within, IsBall, Grown
<1>2. \A m \in Nat : IsBall(Ball(m), w, m, A)
  BY BallExists
<1>3. PICK f \in [0 .. k -> SUBSET Words] : IsBall(f, w, k, A)
  BY BallExists
<1> HIDE DEF Ball
<1>4. Ball(k)[k] = f[k]
  BY <1>2, <1>3, BallIsOne
<1>5. Ball(k + 1)[k] = Ball(k)[k]
  <2>1. k + 1 \in Nat /\ k <= k + 1
    OBVIOUS
  <2> QED BY <2>1, <1>2, BallIsOne
<1>6. Ball(k + 1)[k + 1] = Grown(Ball(k + 1)[k], A)
  <2>1. k + 1 \in Nat /\ k + 1 \in 1 .. k + 1 /\ (k + 1) - 1 = k
    OBVIOUS
  <2>2. GrowsFrom(Ball(k + 1), w, k + 1, A)
    BY <2>1, <1>2, BallStep
  <2> QED BY <2>1, <2>2 DEF GrowsFrom
<1>7. Ball(0)[0] = {w}
  <2>1. GrowsFrom(Ball(0), w, 0, A)
    BY <1>2, BallStep
  <2> QED BY <2>1 DEF GrowsFrom
<1> QED BY <1>1, <1>3, <1>4, <1>5, <1>6, <1>7

LEMMA JoinedIs ==
  ASSUME NEW v \in Words, NEW w \in Words
  PROVE  /\ v \o w \in Words /\ Len(v \o w) = Len(v) + Len(w)
         /\ \A k \in 1 .. Len(v) : (v \o w)[k] = v[k]
         /\ \A k \in 1 .. Len(w) : (v \o w)[Len(v) + k] = w[k]
BY DEF Words

LEMMA PartIs ==
  ASSUME NEW w \in Words, NEW m \in 1 .. Len(w) + 1, NEW n \in m - 1 .. Len(w)
  PROVE  /\ SubSeq(w, m, n) \in Words /\ Len(SubSeq(w, m, n)) = n - m + 1
         /\ \A k \in 1 .. n - m + 1 : SubSeq(w, m, n)[k] = w[m + k - 1]
<1>1. w \in Seq(Nat) /\ Len(w) \in Nat
  BY DEF Words
<1>2. m \in Nat /\ n \in Nat /\ 1 <= m /\ m <= n + 1 /\ n <= Len(w)
  BY <1>1
<1>3. \A k \in 1 .. n - m + 1 : m + k - 1 \in 1 .. Len(w) /\ w[m + k - 1] \in Nat
  BY <1>1, <1>2
<1>4. SubSeq(w, m, n) = [k \in 1 .. n - m + 1 |-> w[m + k - 1]]
  BY <1>1, <1>2
<1>5. SubSeq(w, m, n) \in [1 .. n - m + 1 -> Nat]
  BY <1>3, <1>4
<1>6. n - m + 1 \in Nat
  BY <1>2
<1>7. SubSeq(w, m, n) \in Seq(Nat) /\ Len(SubSeq(w, m, n)) = n - m + 1
  <2>1. \A f, l : l \in Nat /\ f \in [1 .. l -> Nat] => f \in Seq(Nat) /\ Len(f) = l
    OBVIOUS
  <2> QED BY <1>5, <1>6, <2>1
<1> QED BY <1>4, <1>7 DEF Words

LEMMA LetterIs == ASSUME NEW c \in Nat PROVE <<c>> \in Words /\ Len(<<c>>) = 1 /\ <<c>>[1] = c
BY DEF Words

LEMMA AppendedIs ==
  ASSUME NEW w \in Words, NEW c \in Nat
  PROVE  /\ w \o <<c>> \in Words /\ Len(w \o <<c>>) = Len(w) + 1 /\ (w \o <<c>>)[Len(w) + 1] = c
         /\ \A k \in 1 .. Len(w) : (w \o <<c>>)[k] = w[k]
<1>1. Len(w) \in Nat
  BY DEF Words
<1> QED BY <1>1, LetterIs, JoinedIs

LEMMA RemovedIs ==
  ASSUME NEW w \in Words, NEW i \in 1 .. Len(w)
  PROVE  LET y == RemoveAt(w, i)
         IN /\ y \in Words /\ Len(y) = Len(w) - 1
            /\ \A j \in 1 .. i - 1 : y[j] = w[j]
            /\ \A j \in i .. Len(w) - 1 : y[j] = w[j + 1]
<1> DEFINE a == SubSeq(w, 1, i - 1)
           b == SubSeq(w, i + 1, Len(w))
<1>0. Len(w) \in Nat
  BY DEF Words
<1>1. a \in Words /\ Len(a) = i - 1 /\ \A k \in 1 .. i - 1 : a[k] = w[k]
  <2>1. 1 \in 1 .. Len(w) + 1 /\ i - 1 \in 1 - 1 .. Len(w)
    BY <1>0
  <2> HIDE DEF a
  <2>2. /\ a \in Words /\ Len(a) = (i - 1) - 1 + 1
        /\ \A k \in 1 .. (i - 1) - 1 + 1 : a[k] = w[1 + k - 1]
    BY <2>1, PartIs DEF a
  <2> QED BY <2>2, <1>0
<1>2. b \in Words /\ Len(b) = Len(w) - i /\ \A k \in 1 .. Len(w) - i : b[k] = w[i + k]
  <2>1. i + 1 \in 1 .. Len(w) + 1 /\ Len(w) \in (i + 1) - 1 .. Len(w)
    BY <1>0
  <2> HIDE DEF b
  <2>2. /\ b \in Words /\ Len(b) = Len(w) - (i + 1) + 1
        /\ \A k \in 1 .. Len(w) - (i + 1) + 1 : b[k] = w[(i + 1) + k - 1]
    BY <2>1, PartIs DEF b
  <2> QED BY <2>2, <1>0
<1>3. RemoveAt(w, i) = a \o b
  BY DEF RemoveAt
<1> HIDE DEF a, b
<1>4. a \o b \in Words /\ Len(a \o b) = Len(w) - 1
  <2>1. a \o b \in Words /\ Len(a \o b) = Len(a) + Len(b)
    BY <1>1, <1>2, JoinedIs
  <2> QED BY <2>1, <1>0, <1>1, <1>2
<1>5. \A j \in 1 .. i - 1 : (a \o b)[j] = w[j]
  BY <1>0, <1>1, <1>2, JoinedIs
<1>6. ASSUME NEW j \in i .. Len(w) - 1 PROVE (a \o b)[j] = w[j + 1]
  <2>1. j - (i - 1) \in 1 .. Len(b) /\ Len(a) + (j - (i - 1)) = j /\ i + (j - (i - 1)) = j + 1
    BY <1>0, <1>1, <1>2
  <2>2. (a \o b)[Len(a) + (j - (i - 1))] = b[j - (i - 1)]
    BY <2>1, <1>1, <1>2, JoinedIs
  <2> QED BY <2>1, <2>2, <1>2
<1> QED BY <1>3, <1>4, <1>5, <1>6

LEMMA InsertedIs ==
  ASSUME NEW w \in Words, NEW i \in 1 .. Len(w) + 1, NEW c \in Nat
  PROVE  LET y == InsertAt(w, i, c)
         IN /\ y \in Words /\ Len(y) = Len(w) + 1 /\ y[i] = c
            /\ \A j \in 1 .. i - 1 : y[j] = w[j]
            /\ \A j \in i .. Len(w) : y[j + 1] = w[j]
<1> DEFINE a == SubSeq(w, 1, i - 1)
           b == SubSeq(w, i, Len(w))
<1>0. Len(w) \in Nat
  BY DEF Words
<1>1. a \in Words /\ Len(a) = i - 1 /\ \A k \in 1 .. i - 1 : a[k] = w[k]
  <2>1. 1 \in 1 .. Len(w) + 1 /\ i - 1 \in 1 - 1 .. Len(w)
    BY <1>0
  <2> HIDE DEF a
  <2>2. /\ a \in Words /\ Len(a) = (i - 1) - 1 + 1
        /\ \A k \in 1 .. (i - 1) - 1 + 1 : a[k] = w[1 + k - 1]
    BY <2>1, PartIs DEF a
  <2> QED BY <2>2, <1>0
<1>2. b \in Words /\ Len(b) = Len(w) - i + 1 /\ \A k \in 1 .. Len(w) - i + 1 : b[k] = w[i + k - 1]
  <2>1. i \in 1 .. Len(w) + 1 /\ Len(w) \in i - 1 .. Len(w)
    BY <1>0
  <2> QED BY <2>1, PartIs
<1>3. InsertAt(w, i, c) = a \o <<c>> \o b
  BY DEF InsertAt
<1> HIDE DEF a, b
<1> DEFINE ac == a \o <<c>>
<1>4. ac \in Words /\ Len(ac) = i /\ ac[i] = c /\ \A k \in 1 .. i - 1 : ac[k] = w[k]
  <2>1. /\ ac \in Words /\ Len(ac) = Len(a) + 1 /\ ac[Len(a) + 1] = c
        /\ \A k \in 1 .. Len(a) : ac[k] = a[k]
    BY <1>1, AppendedIs
  <2> HIDE DEF ac
  <2> QED BY <2>1, <1>1, <1>0
<1> HIDE DEF ac
<1>5. /\ ac \o b \in Words /\ Len(ac \o b) = Len(ac) + Len(b)
      /\ \A k \in 1 .. Len(ac) : (ac \o b)[k] = ac[k]
      /\ \A k \in 1 .. Len(b) : (ac \o b)[Len(ac) + k] = b[k]
  BY <1>4, <1>2, JoinedIs
<1>6. Len(ac \o b) = Len(w) + 1 /\ (ac \o b)[i] = c /\ \A j \in 1 .. i - 1 : (ac \o b)[j] = w[j]
  BY <1>0, <1>2, <1>4, <1>5
<1>7. ASSUME NEW j \in i .. Len(w) PROVE (ac \o b)[j + 1] = w[j]
  <2>1. j - i + 1 \in 1 .. Len(b) /\ Len(ac) + (j - i + 1) = j + 1 /\ i + (j - i + 1) - 1 = j
    BY <1>0, <1>2, <1>4
  <2>2. (ac \o b)[Len(ac) + (j - i + 1)] = b[j - i + 1]
    BY <2>1, <1>5
  <2> QED BY <2>1, <2>2, <1>2
<1> QED BY <1>3, <1>5, <1>6, <1>7 DEF ac

LEMMA ReplacedIs ==
  ASSUME NEW w \in Words, NEW i \in 1 .. Len(w), NEW c \in Nat
  PROVE  LET y == ReplaceAt(w, i, c)
         IN /\ y \in Words /\ Len(y) = Len(w) /\ y[i] = c
            /\ \A j \in 1 .. Len(w) : j # i => y[j] = w[j]
BY DEF ReplaceAt, Words

(* Edits at the end of a word.                                             *)
LEMMA EndEdits ==
  ASSUME NEW w \in Words, NEW A \in SUBSET Nat, NEW c \in Nat
  PROVE  /\ w \in OneEdit(w \o <<c>>, A)
         /\ c \in A => w \o <<c>> \in OneEdit(w, A)
         /\ c \in A => \A d \in Nat : w \o <<c>> \in OneEdit(w \o <<d>>, A)
<1>0. Len(w) \in Nat
  BY DEF Words
<1> DEFINE n == Len(w) + 1
           Longer(d) == w \o <<d>>
<1>1. \A d \in Nat : /\ Longer(d) \in Words /\ Len(Longer(d)) = n /\ Longer(d)[n] = d
                     /\ \A k \in 1 .. Len(w) : Longer(d)[k] = w[k]
  BY AppendedIs
<1> HIDE DEF Longer
<1>2. n \in Nat /\ n \in 1 .. n /\ n - 1 = Len(w) /\ \A k \in 1 .. n : k = n \/ k \in 1 .. Len(w)
  BY <1>0
<1>3. RemoveAt(Longer(c), n) = w
  <2> DEFINE y == RemoveAt(Longer(c), n)
  <2>1. y \in Words /\ Len(y) = n - 1 /\ \A j \in 1 .. n - 1 : y[j] = Longer(c)[j]
    <3>1. Longer(c) \in Words /\ n \in 1 .. Len(Longer(c)) /\ Len(Longer(c)) = n
      BY <1>1, <1>2
    <3> HIDE DEF n
    <3>2. y \in Words /\ Len(y) = Len(Longer(c)) - 1 /\ \A j \in 1 .. n - 1 : y[j] = Longer(c)[j]
      BY <3>1, RemovedIs
    <3> QED BY <3>1, <3>2
  <2> HIDE DEF y, n
  <2>2. Len(y) = Len(w) /\ \A j \in 1 .. Len(y) : y[j] = w[j]
    BY <2>1, <1>1, <1>2
  <2> QED BY <2>1, <2>2, SameWord DEF y
<1>4. InsertAt(w, n, c) = Longer(c)
  <2> DEFINE y == InsertAt(w, n, c)
  <2>1. y \in Words /\ Len(y) = n /\ y[n] = c /\ \A j \in 1 .. n - 1 : y[j] = w[j]
    BY <1>2, InsertedIs
  <2> HIDE DEF y, n
  <2>2. Len(y) = Len(Longer(c)) /\ \A j \in 1 .. Len(y) : y[j] = Longer(c)[j]
    BY <2>1, <1>1, <1>2
  <2> QED BY <2>1, <2>2, <1>1, SameWord DEF y
<1>5. ASSUME NEW d \in Nat PROVE ReplaceAt(Longer(d), n, c) = Longer(c)
  <2> DEFINE y == ReplaceAt(Longer(d), n, c)
  <2>1. y \in Words /\ Len(y) = n /\ y[n] = c /\ \A j \in 1 .. n : j # n => y[j] = Longer(d)[j]
    BY <1>1, <1>2, ReplacedIs
  <2> HIDE DEF y, n
  <2>2. Len(y) = Len(Longer(c)) /\ \A j \in 1 .. Len(y) : y[j] = Longer(c)[j]
    <3>1. \A j \in 1 .. Len(w) : j \in 1 .. n /\ j # n
      BY <1>0, <1>2
    <3> QED BY <3>1, <2>1, <1>1, <1>2
  <2> QED BY <2>1, <2>2, <1>1, SameWord DEF y
<1>6. w \in OneEdit(Longer(c), A)
  <2>1. EditOf(w, Longer(c), A)
    BY <1>1, <1>2, <1>3 DEF EditOf
  <2> QED BY <2>1, EditIs
<1>7. c \in A => Longer(c) \in OneEdit(w, A)
  <2>1. c \in A => EditOf(Longer(c), w, A)
    BY <1>2, <1>4 DEF EditOf
  <2> QED BY <2>1, EditIs
<1>8. ASSUME c \in A, NEW d \in Nat PROVE Longer(c) \in OneEdit(Longer(d), A)
  <2>1. EditOf(Longer(c), Longer(d), A)
    BY <1>8, <1>1, <1>2, <1>5 DEF EditOf
  <2> QED BY <2>1, EditIs
<1> QED BY <1>6, <1>7, <1>8 DEF Longer

(* An edit leaves a letter behind it alone.                                *)
LEMMA EditExtends ==
  ASSUME NEW w \in Words, NEW A \in SUBSET Nat, NEW c \in Nat, NEW y \in OneEdit(w, A)
  PROVE  y \o <<c>> \in OneEdit(w \o <<c>>, A)
<1> DEFINE z == w \o <<c>>
           yc == y \o <<c>>
           n == Len(w)
<1>0. n \in Nat
  BY DEF Words
<1>1. y \in Words
  BY EditType
<1>2. z \in Words /\ Len(z) = n + 1 /\ z[n + 1] = c /\ \A k \in 1 .. n : z[k] = w[k]
  BY AppendedIs
<1>3. /\ Len(y) \in Nat /\ yc \in Words /\ Len(yc) = Len(y) + 1 /\ yc[Len(y) + 1] = c
      /\ \A k \in 1 .. Len(y) : yc[k] = y[k]
  <2>1. Len(y) \in Nat
    BY <1>1 DEF Words
  <2> QED BY <2>1, <1>1, AppendedIs
<1> HIDE DEF z, yc
<1>4. CASE \E i \in 1 .. n : y = RemoveAt(w, i)
  <2>1. PICK i \in 1 .. n : y = RemoveAt(w, i)
    BY <1>4
  <2> DEFINE x == RemoveAt(z, i)
  <2>2. Len(y) = n - 1 /\ (\A j \in 1 .. i - 1 : y[j] = w[j]) /\ \A j \in i .. n - 1 : y[j] = w[j + 1]
    BY <2>1, RemovedIs
  <2>3. i \in 1 .. Len(z)
    BY <1>0, <1>2
  <2>4. /\ x \in Words /\ Len(x) = n /\ (\A j \in 1 .. i - 1 : x[j] = z[j])
        /\ \A j \in i .. n : x[j] = z[j + 1]
    <3>1. /\ x \in Words /\ Len(x) = Len(z) - 1 /\ (\A j \in 1 .. i - 1 : x[j] = z[j])
          /\ \A j \in i .. Len(z) - 1 : x[j] = z[j + 1]
      BY <2>3, <1>2, RemovedIs
    <3> HIDE DEF x, n
    <3> QED BY <3>1, <1>0, <1>2
  <2> HIDE DEF x, n
  <2>5. ASSUME NEW j \in 1 .. Len(x) PROVE x[j] = yc[j]
    <3>1. CASE j < i
      BY <3>1, <2>2, <2>4, <1>0, <1>2, <1>3
    <3>2. CASE j >= i /\ j < n
      BY <3>2, <2>2, <2>4, <1>0, <1>2, <1>3
    <3>3. CASE j = n
      BY <3>3, <2>2, <2>4, <1>0, <1>2, <1>3
    <3> QED BY <3>1, <3>2, <3>3, <2>4, <1>0
  <2>6. x = yc
    BY <2>2, <2>4, <2>5, <1>0, <1>3, SameWord
  <2>7. EditOf(yc, z, A)
    BY <2>3, <2>6 DEF EditOf, x
  <2> QED BY <2>7, EditIs DEF yc, z
<1>5. CASE \E d \in A : \E i \in 1 .. n + 1 : y = InsertAt(w, i, d)
  <2>1. PICK d \in A, i \in 1 .. n + 1 : y = InsertAt(w, i, d)
    BY <1>5
  <2> DEFINE x == InsertAt(z, i, d)
  <2>2. /\ Len(y) = n + 1 /\ y[i] = d
        /\ (\A j \in 1 .. i - 1 : y[j] = w[j]) /\ \A j \in i .. n : y[j + 1] = w[j]
    BY <2>1, InsertedIs
  <2>3. i \in 1 .. Len(z) + 1
    BY <1>0, <1>2
  <2>4. /\ x \in Words /\ Len(x) = n + 2 /\ x[i] = d /\ (\A j \in 1 .. i - 1 : x[j] = z[j])
        /\ \A j \in i .. n + 1 : x[j + 1] = z[j]
    <3>1. /\ x \in Words /\ Len(x) = Len(z) + 1 /\ x[i] = d /\ (\A j \in 1 .. i - 1 : x[j] = z[j])
          /\ \A j \in i .. Len(z) : x[j + 1] = z[j]
      BY <2>3, <1>2, InsertedIs
    <3> HIDE DEF x, n
    <3>2. Len(z) = n + 1 /\ n \in Nat
      BY <1>0, <1>2
    <3> HIDE DEF z
    <3> QED BY <3>1, <3>2
  <2> HIDE DEF x, n
  <2>5. ASSUME NEW j \in 1 .. Len(x) PROVE x[j] = yc[j]
    <3>1. CASE j < i
      BY <3>1, <2>2, <2>4, <1>0, <1>2, <1>3
    <3>2. CASE j = i
      BY <3>2, <2>2, <2>4, <1>0, <1>2, <1>3
    <3>3. CASE j > i /\ j < n + 2
      <4>1. /\ j - 1 \in i .. n /\ j - 1 \in i .. n + 1 /\ (j - 1) + 1 = j /\ j - 1 \in 1 .. n
            /\ j \in 1 .. Len(y)
        BY <3>3, <2>2, <1>0
      <4> QED BY <4>1, <2>2, <2>4, <1>2, <1>3
    <3>4. CASE j = n + 2
      <4>1. n + 1 \in i .. n + 1 /\ (n + 1) + 1 = j /\ Len(y) + 1 = j
        BY <3>4, <2>2, <1>0
      <4> QED BY <4>1, <2>4, <1>2, <1>3
    <3> QED BY <3>1, <3>2, <3>3, <3>4, <2>4, <1>0
  <2>6. x = yc
    BY <2>2, <2>4, <2>5, <1>0, <1>3, SameWord
  <2>7. EditOf(yc, z, A)
    BY <2>3, <2>6 DEF EditOf, x
  <2> QED BY <2>7, EditIs DEF yc, z
<1>6. CASE \E d \in A : \E i \in 1 .. n : y = ReplaceAt(w, i, d)
  <2>1. PICK d \in A, i \in 1 .. n : y = ReplaceAt(w, i, d)
    BY <1>6
  <2> DEFINE x == ReplaceAt(z, i, d)
  <2>2. Len(y) = n /\ y[i] = d /\ \A j \in 1 .. n : j # i => y[j] = w[j]
    BY <2>1, ReplacedIs
  <2>3. i \in 1 .. Len(z)
    BY <1>0, <1>2
  <2>4. x \in Words /\ Len(x) = Len(z) /\ x[i] = d /\ \A j \in 1 .. Len(z) : j # i => x[j] = z[j]
    BY <2>3, <1>2, ReplacedIs
  <2> HIDE DEF x, n
  <2>5. ASSUME NEW j \in 1 .. Len(x) PROVE x[j] = yc[j]
    <3>1. CASE j = n + 1
      BY <3>1, <2>2, <2>4, <1>0, <1>2, <1>3
    <3>2. CASE j \in 1 .. n
      BY <3>2, <2>2, <2>4, <1>0, <1>2, <1>3
    <3> QED BY <3>1, <3>2, <2>4, <1>0, <1>2
  <2>6. x = yc
    BY <2>2, <2>4, <2>5, <1>0, <1>2, <1>3, SameWord
  <2>7. EditOf(yc, z, A)
    BY <2>3, <2>6 DEF EditOf, x
  <2> QED BY <2>7, EditIs DEF yc, z
<1>7. EditOf(y, w, A)
  BY EditIs
<1> QED BY <1>4, <1>5, <1>6, <1>7 DEF EditOf, n

LEMMA WithinSteps ==
  ASSUME NEW w \in Words, NEW k \in Nat, NEW A \in SUBSET Nat, NEW x \in Within(w, k, A)
  PROVE  /\ x \in Words /\ x \in Within(w, k + 1, A)
         /\ \A y \in OneEdit(x, A) : y \in Within(w, k + 1, A)
BY WithinIs DEF Grown

LEMMA WithinExtends ==
  ASSUME NEW w \in Words, NEW k \in Nat, NEW A \in SUBSET Nat, NEW c \in Nat, NEW x \in Within(w, k, A)
  PROVE  x \o <<c>> \in Within(w \o <<c>>, k, A)
<1> DEFINE z == w \o <<c>>
           G == {n \in Nat : \A u \in Within(w, n, A) : u \o <<c>> \in Within(z, n, A)}
<1>0. z \in Words
  BY AppendedIs
<1> HIDE DEF z
<1>1. 0 \in G
  <2>1. Within(w, 0, A) = {w} /\ Within(z, 0, A) = {z}
    BY <1>0, WithinIs
  <2> QED BY <2>1 DEF z
<1>2. ASSUME NEW n \in Nat, n \in G PROVE n + 1 \in G
  <2>1. ASSUME NEW u \in Within(w, n + 1, A) PROVE u \o <<c>> \in Within(z, n + 1, A)
    <3>1. Within(w, n + 1, A) = Grown(Within(w, n, A), A) /\ Within(w, n, A) \subseteq Words
      BY WithinIs
    <3>2. CASE u \in Within(w, n, A)
      <4>1. u \o <<c>> \in Within(z, n, A)
        BY <3>2, <1>2
      <4> QED BY <4>1, <1>0, WithinSteps
    <3>3. CASE \E t \in Within(w, n, A) : u \in OneEdit(t, A)
      <4>1. PICK t \in Within(w, n, A) : u \in OneEdit(t, A)
        BY <3>3
      <4>2. t \in Words /\ t \o <<c>> \in Within(z, n, A)
        BY <4>1, <3>1, <1>2
      <4>3. u \o <<c>> \in OneEdit(t \o <<c>>, A)
        BY <4>1, <4>2, EditExtends
      <4> QED BY <4>2, <4>3, <1>0, WithinSteps
    <3> QED BY <3>1, <3>2, <3>3 DEF Grown
  <2> QED BY <2>1
<1>3. G = Nat
  <2> HIDE DEF G
  <2>1. G \subseteq Nat
    BY DEF G
  <2> QED BY <1>1, <1>2, <2>1, Induct
<1> QED BY <1>3 DEF z

(* The beginnings of a word.                                               *)
Start(w, i) == SubSeq(w, 1, i)

LEMMA StartIs ==
  ASSUME NEW w \in Words
  PROVE  /\ Len(w) \in Nat /\ Start(w, Len(w)) = w /\ Start(w, 0) = <<>>
         /\ \A i \in 0 .. Len(w) : Start(w, i) \in Words
         /\ \A i \in 1 .. Len(w) : w[i] \in Nat /\ Start(w, i) = Start(w, i - 1) \o <<w[i]>>
<1>0. Len(w) \in Nat /\ \A i \in 1 .. Len(w) : w[i] \in Nat
  BY DEF Words
<1>1. ASSUME NEW i \in 0 .. Len(w)
      PROVE  Start(w, i) \in Words /\ Len(Start(w, i)) = i /\ \A k \in 1 .. i : Start(w, i)[k] = w[k]
  <2>1. 1 \in 1 .. Len(w) + 1 /\ i \in 1 - 1 .. Len(w)
    BY <1>0
  <2>2. /\ Start(w, i) \in Words /\ Len(Start(w, i)) = i - 1 + 1
        /\ \A k \in 1 .. i - 1 + 1 : Start(w, i)[k] = w[1 + k - 1]
    BY <2>1, PartIs DEF Start
  <2> QED BY <2>2
<1>2. Start(w, Len(w)) = w
  <2>1. Len(w) \in 0 .. Len(w)
    BY <1>0
  <2> QED BY <2>1, <1>1, SameWord
<1>3. Start(w, 0) = <<>>
  <2>1. <<>> \in Words /\ Len(<<>>) = 0 /\ 0 \in 0 .. Len(w)
    BY <1>0 DEF Words
  <2>2. Start(w, 0) \in Words /\ Len(Start(w, 0)) = 0
    BY <2>1, <1>1
  <2> QED BY <2>1, <2>2, SameWord
<1>4. ASSUME NEW i \in 1 .. Len(w) PROVE Start(w, i) = Start(w, i - 1) \o <<w[i]>>
  <2> DEFINE s == Start(w, i)
             t == Start(w, i - 1)
             u == t \o <<w[i]>>
  <2>1. s \in Words /\ Len(s) = i /\ \A k \in 1 .. i : s[k] = w[k]
    BY <1>0, <1>1
  <2>2. t \in Words /\ Len(t) = i - 1 /\ \A k \in 1 .. i - 1 : t[k] = w[k]
    BY <1>0, <1>1
  <2>3. u \in Words /\ Len(u) = Len(t) + 1 /\ u[Len(t) + 1] = w[i] /\ \A k \in 1 .. Len(t) : u[k] = t[k]
    BY <2>2, <1>0, AppendedIs
  <2> HIDE DEF s, t, u
  <2>4. Len(u) = i /\ \A k \in 1 .. i : s[k] = u[k]
    BY <2>1, <2>2, <2>3, <1>0
  <2> QED BY <2>1, <2>3, <2>4, SameWord DEF s, t, u
<1> QED BY <1>0, <1>1, <1>2, <1>3, <1>4

(* Whatever a cell counts can be done in so many edits.                    *)
LEMMA TableReaches ==
  ASSUME NEW v \in Words, NEW b \in Words, NEW A \in SUBSET Nat, \A j \in 1 .. Len(b) : b[j] \in A,
         NEW T, IsTable(T, v, b)
  PROVE  \A i \in 0 .. Len(v), j \in 0 .. Len(b), k \in Nat :
           T[i][j] <= k => Start(b, j) \in Within(Start(v, i), k, A)
<1> DEFINE Reached(i, j) == \A k \in Nat : T[i][j] <= k => Start(b, j) \in Within(Start(v, i), k, A)
           G == {n \in Nat : \A i \in 0 .. Len(v), j \in 0 .. Len(b) : i + j <= n => Reached(i, j)}
<1>0. /\ Len(v) \in Nat /\ Len(b) \in Nat
      /\ \A i \in 0 .. Len(v) : Start(v, i) \in Words
      /\ \A j \in 0 .. Len(b) : Start(b, j) \in Words
      /\ \A i \in 1 .. Len(v) : v[i] \in Nat /\ Start(v, i) = Start(v, i - 1) \o <<v[i]>>
      /\ \A j \in 1 .. Len(b) : b[j] \in Nat /\ Start(b, j) = Start(b, j - 1) \o <<b[j]>>
      /\ Start(v, 0) = <<>> /\ Start(b, 0) = <<>>
  BY StartIs
(* A way of no edits may be counted with any number of them.               *)
<1>1. ASSUME NEW x \in Words, NEW k \in Nat PROVE x \in Within(x, k, A)
  <2> DEFINE H == {n \in Nat : x \in Within(x, n, A)}
  <2>1. 0 \in H
    BY WithinIs
  <2>2. ASSUME NEW n \in Nat, n \in H PROVE n + 1 \in H
    BY <2>2, WithinSteps
  <2>3. H = Nat
    <3> HIDE DEF H
    <3>1. H \subseteq Nat
      BY DEF H
    <3> QED BY <2>1, <2>2, <3>1, Induct
  <2> QED BY <2>3
<1>2. 0 \in G
  <2>1. ASSUME NEW i \in 0 .. Len(v), NEW j \in 0 .. Len(b), i + j <= 0, NEW k \in Nat
        PROVE  Start(b, j) \in Within(Start(v, i), k, A)
    <3>1. i = 0 /\ j = 0 /\ <<>> \in Words
      BY <2>1, <1>0
    <3> QED BY <3>1, <1>0, <1>1
  <2> QED BY <2>1
<1>3. ASSUME NEW n \in Nat, n \in G PROVE n + 1 \in G
  <2>0. Len(v) \in Nat /\ Len(b) \in Nat
    BY <1>0
  <2>2. \A q, k \in Nat : q + 1 <= k => k - 1 \in Nat /\ q <= k - 1 /\ (k - 1) + 1 = k
    OBVIOUS
  <2>1. ASSUME NEW i \in 0 .. Len(v), NEW j \in 0 .. Len(b), i + j <= n + 1, NEW k \in Nat, T[i][j] <= k
        PROVE  Start(b, j) \in Within(Start(v, i), k, A)
    <3>1. T[i][j] \in Nat
      BY CellsAre DEF CellOK
    <3>2. \A m \in 0 .. Len(v), l \in 0 .. Len(b) : m + l <= n => Reached(m, l)
      BY <1>3
    <3>3. CASE i = 0 /\ j = 0
      BY <3>3, <1>0, <1>1
    <3>4. CASE j > 0 /\ T[i][j] = T[i][j - 1] + 1
      <4>1. /\ j \in 1 .. Len(b) /\ j - 1 \in 0 .. Len(b) /\ i + (j - 1) <= n
            /\ T[i][j - 1] \in Nat /\ k - 1 \in Nat
            /\ T[i][j - 1] <= k - 1 /\ (k - 1) + 1 = k
        <5>1. T[i][j - 1] \in Nat
          BY <3>4, CellsAre DEF CellOK
        <5>2. j \in 1 .. Len(b) /\ j - 1 \in 0 .. Len(b) /\ i + (j - 1) <= n
          BY <2>0, <2>1, <3>4
        <5>3. T[i][j - 1] + 1 <= k
          BY <2>1, <3>4
        <5> QED BY <5>1, <5>2, <5>3, <2>2
      <4>2. Start(b, j - 1) \in Within(Start(v, i), k - 1, A)
        BY <4>1, <3>2
      <4>3. Start(b, j) \in OneEdit(Start(b, j - 1), A)
        <5>1. /\ Start(b, j - 1) \in Words /\ b[j] \in Nat /\ b[j] \in A
              /\ Start(b, j) = Start(b, j - 1) \o <<b[j]>>
          BY <4>1, <1>0
        <5> QED BY <5>1, EndEdits
      <4>4. Start(v, i) \in Words
        BY <1>0
      <4>5. Start(b, j) \in Within(Start(v, i), (k - 1) + 1, A)
        BY <4>1, <4>2, <4>3, <4>4, WithinSteps
      <4> QED BY <4>1, <4>5
    <3>5. CASE i > 0 /\ T[i][j] = T[i - 1][j] + 1
      <4>1. /\ i \in 1 .. Len(v) /\ i - 1 \in 0 .. Len(v) /\ (i - 1) + j <= n
            /\ T[i - 1][j] \in Nat /\ k - 1 \in Nat
            /\ T[i - 1][j] <= k - 1 /\ (k - 1) + 1 = k
        <5>1. T[i - 1][j] \in Nat
          BY <3>5, CellsAre DEF CellOK
        <5>2. i \in 1 .. Len(v) /\ i - 1 \in 0 .. Len(v) /\ (i - 1) + j <= n
          BY <2>0, <2>1, <3>5
        <5>3. T[i - 1][j] + 1 <= k
          BY <2>1, <3>5
        <5> QED BY <5>1, <5>2, <5>3, <2>2
      <4>2. Start(b, j) \in Within(Start(v, i - 1), k - 1, A)
        BY <4>1, <3>2
      <4>3. /\ v[i] \in Nat /\ Start(v, i - 1) \in Words /\ Start(v, i) = Start(v, i - 1) \o <<v[i]>>
            /\ Start(b, j) \in Words
        BY <4>1, <1>0
      <4>4. Start(b, j) \o <<v[i]>> \in Within(Start(v, i), k - 1, A)
        BY <4>1, <4>2, <4>3, WithinExtends
      <4>5. Start(b, j) \in OneEdit(Start(b, j) \o <<v[i]>>, A)
        BY <4>3, EndEdits
      <4>6. Start(v, i) \in Words
        BY <1>0
      <4>7. Start(b, j) \in Within(Start(v, i), (k - 1) + 1, A)
        BY <4>1, <4>4, <4>5, <4>6, WithinSteps
      <4> QED BY <4>1, <4>7
    <3>6. CASE i > 0 /\ j > 0 /\ T[i][j] = T[i - 1][j - 1] + Cost(v[i], b[j])
      <4>1. i \in 1 .. Len(v) /\ i - 1 \in 0 .. Len(v) /\ j \in 1 .. Len(b) /\ j - 1 \in 0 .. Len(b)
            /\ (i - 1) + (j - 1) <= n /\ T[i - 1][j - 1] \in Nat
        <5>1. T[i - 1][j - 1] \in Nat
          BY <3>6, CellsAre DEF CellOK
        <5> QED BY <5>1, <3>6, <2>0, <2>1
      <4> DEFINE x == Start(b, j - 1)
                 y == Start(v, i - 1)
      <4>2. x \in Words /\ y \in Words /\ v[i] \in Nat /\ b[j] \in Nat /\ b[j] \in A
            /\ Start(v, i) = y \o <<v[i]>> /\ Start(b, j) = x \o <<b[j]>> /\ Start(v, i) \in Words
        BY <4>1, <1>0
      <4>3. \A m \in Nat : T[i - 1][j - 1] <= m => x \in Within(y, m, A)
        BY <4>1, <3>2
      <4> HIDE DEF x, y
      <4>4. \A m \in Nat : T[i - 1][j - 1] <= m => x \o <<v[i]>> \in Within(Start(v, i), m, A)
        BY <4>2, <4>3, WithinExtends
      <4>5. CASE v[i] = b[j]
        <5>1. T[i][j] = T[i - 1][j - 1] + 0
          BY <4>5, <3>6 DEF Cost
        <5>2. T[i - 1][j - 1] <= k
          BY <5>1, <4>1, <2>1
        <5> QED BY <5>2, <4>2, <4>4, <4>5
      <4>6. CASE v[i] # b[j]
        <5>1. k - 1 \in Nat /\ T[i - 1][j - 1] <= k - 1 /\ (k - 1) + 1 = k
          <6>1. T[i - 1][j - 1] + 1 <= k
            BY <4>6, <3>6, <2>1 DEF Cost
          <6> QED BY <6>1, <4>1, <2>2
        <5>2. x \o <<v[i]>> \in Within(Start(v, i), k - 1, A)
          BY <5>1, <4>4
        <5>3. x \o <<b[j]>> \in OneEdit(x \o <<v[i]>>, A)
          BY <4>2, EndEdits
        <5> QED BY <5>1, <5>2, <5>3, <4>2, WithinSteps
      <4> QED BY <4>5, <4>6
    <3> QED BY <3>3, <3>4, <3>5, <3>6, CellsAre DEF CellOK
  <2> QED BY <2>1
<1>4. G = Nat
  <2> HIDE DEF G
  <2>1. G \subseteq Nat
    BY DEF G
  <2> QED BY <1>2, <1>3, <2>1, Induct
<1>5. ASSUME NEW i \in 0 .. Len(v), NEW j \in 0 .. Len(b) PROVE Reached(i, j)
  <2>1. i + j \in Nat /\ i + j <= i + j
    BY <1>0
  <2>2. i + j \in G
    <3> HIDE DEF G
    <3> QED BY <2>1, <1>4
  <2> HIDE DEF Reached
  <2> QED BY <2>1, <2>2
<1> QED BY <1>5

(* One edit at a place p: the words agree up to there and, d letters of the *)
(* one and e of the other further on, behind it.                           *)
Spliced(x, y, p, d, e) ==
  /\ p \in 0 .. Len(x) /\ d \in {0, 1} /\ e \in {0, 1} /\ d + e >= 1
  /\ p + d <= Len(x) /\ Len(y) = Len(x) - d + e
  /\ \A j \in 1 .. p : y[j] = x[j]
  /\ \A t \in 1 .. Len(x) - p - d : y[p + e + t] = x[p + d + t]

LEMMA EditSplices ==
  ASSUME NEW x \in Words, NEW A \in SUBSET Nat, NEW y \in OneEdit(x, A)
  PROVE  \E p, d, e : Spliced(x, y, p, d, e)
<1>0. Len(x) \in Nat
  BY DEF Words
<1>1. CASE \E i \in 1 .. Len(x) : y = RemoveAt(x, i)
  <2>1. PICK i \in 1 .. Len(x) : y = RemoveAt(x, i)
    BY <1>1
  <2>2. /\ Len(y) = Len(x) - 1 /\ (\A j \in 1 .. i - 1 : y[j] = x[j])
        /\ \A j \in i .. Len(x) - 1 : y[j] = x[j + 1]
    BY <2>1, RemovedIs
  <2>3. ASSUME NEW t \in 1 .. Len(x) - (i - 1) - 1 PROVE y[(i - 1) + 0 + t] = x[(i - 1) + 1 + t]
    <3>1. (i - 1) + 0 + t \in i .. Len(x) - 1 /\ ((i - 1) + 0 + t) + 1 = (i - 1) + 1 + t
      BY <1>0
    <3> QED BY <3>1, <2>2
  <2>4. Spliced(x, y, i - 1, 1, 0)
    BY <1>0, <2>2, <2>3 DEF Spliced
  <2> QED BY <2>4
<1>2. CASE \E c \in A : \E i \in 1 .. Len(x) + 1 : y = InsertAt(x, i, c)
  <2>1. PICK c \in A, i \in 1 .. Len(x) + 1 : y = InsertAt(x, i, c)
    BY <1>2
  <2>2. /\ Len(y) = Len(x) + 1 /\ (\A j \in 1 .. i - 1 : y[j] = x[j])
        /\ \A j \in i .. Len(x) : y[j + 1] = x[j]
    BY <2>1, InsertedIs
  <2>3. ASSUME NEW t \in 1 .. Len(x) - (i - 1) - 0 PROVE y[(i - 1) + 1 + t] = x[(i - 1) + 0 + t]
    <3>1. (i - 1) + 0 + t \in i .. Len(x) /\ ((i - 1) + 0 + t) + 1 = (i - 1) + 1 + t
      BY <1>0
    <3> QED BY <3>1, <2>2
  <2>4. Spliced(x, y, i - 1, 0, 1)
    BY <1>0, <2>2, <2>3 DEF Spliced
  <2> QED BY <2>4
<1>3. CASE \E c \in A : \E i \in 1 .. Len(x) : y = ReplaceAt(x, i, c)
  <2>1. PICK c \in A, i \in 1 .. Len(x) : y = ReplaceAt(x, i, c)
    BY <1>3
  <2>2. Len(y) = Len(x) /\ \A j \in 1 .. Len(x) : j # i => y[j] = x[j]
    BY <2>1, ReplacedIs
  <2>3. ASSUME NEW t \in 1 .. Len(x) - (i - 1) - 1 PROVE y[(i - 1) + 1 + t] = x[(i - 1) + 1 + t]
    <3>1. (i - 1) + 1 + t \in 1 .. Len(x) /\ (i - 1) + 1 + t # i
      BY <1>0
    <3> QED BY <3>1, <2>2
  <2>4. Spliced(x, y, i - 1, 1, 1)
    BY <1>0, <2>2, <2>3 DEF Spliced
  <2> QED BY <2>4
<1>4. EditOf(y, x, A)
  BY EditIs
<1> QED BY <1>1, <1>2, <1>3, <1>4 DEF EditOf

(* Going back by a letter costs one edit at most.                          *)
LEMMA BackByOne ==
  ASSUME NEW v \in Words, NEW x \in Words, NEW S, IsTable(S, v, x), NEW j \in 1 .. Len(x)
  PROVE  \A i \in 0 .. Len(v) : S[i][j - 1] <= S[i][j] + 1
<1> DEFINE G == {i \in Nat : i <= Len(v) => S[i][j - 1] <= S[i][j] + 1}
<1>0. Len(v) \in Nat /\ Len(x) \in Nat /\ j \in 0 .. Len(x) /\ j - 1 \in 0 .. Len(x)
  BY DEF Words
<1>1. 0 \in G
  <2>1. 0 \in 0 .. Len(v)
    BY <1>0
  <2>2. CellOK(S, v, x, 0, j)
    BY <2>1, <1>0, CellsAre
  <2> QED BY <2>2, <1>0 DEF CellOK
<1>2. ASSUME NEW i \in Nat, i \in G PROVE i + 1 \in G
  <2> DEFINE m == i + 1
  <2>0. m - 1 = i /\ m > 0 /\ m \in Nat
    OBVIOUS
  <2> HIDE DEF m
  <2>1. CASE m <= Len(v)
    <3>1. m \in 0 .. Len(v) /\ m - 1 \in 0 .. Len(v)
      BY <2>0, <2>1, <1>0
    <3>2. S[m - 1][j - 1] <= S[m - 1][j] + 1
      BY <1>2, <2>0, <3>1
    <3>3. CellOK(S, v, x, m, j) /\ CellOK(S, v, x, m, j - 1) /\ CellOK(S, v, x, m - 1, j)
      BY <3>1, <1>0, CellsAre
    <3>4. Cost(v[m], x[j]) \in {0, 1}
      BY DEF Cost
    <3>5. S[m][j - 1] <= S[m - 1][j - 1] + 1 /\ S[m - 1][j - 1] \in Nat /\ S[m][j - 1] \in Nat
      BY <3>3, <2>0 DEF CellOK
    <3>6. S[m - 1][j] \in Nat /\ S[m][j] \in Nat
      BY <3>3 DEF CellOK
    <3>7. \/ S[m][j] = S[m][j - 1] + 1
          \/ S[m][j] = S[m - 1][j] + 1
          \/ S[m][j] = S[m - 1][j - 1] + Cost(v[m], x[j])
      BY <3>3, <2>0 DEF CellOK
    <3>8. S[m][j - 1] <= S[m][j] + 1
      <4> DEFINE left == S[m][j - 1]
                 slant == S[m - 1][j - 1]
                 above == S[m - 1][j]
                 cell == S[m][j]
                 cost == Cost(v[m], x[j])
      <4>1. /\ left \in Nat /\ slant \in Nat /\ above \in Nat /\ cell \in Nat /\ cost \in {0, 1}
            /\ slant <= above + 1 /\ left <= slant + 1
            /\ cell = left + 1 \/ cell = above + 1 \/ cell = slant + cost
        BY <3>2, <3>4, <3>5, <3>6, <3>7
      <4> HIDE DEF left, slant, above, cell, cost
      <4>2. left <= cell + 1
        BY <4>1
      <4> QED BY <4>2 DEF left, cell
    <3> QED BY <3>8 DEF m
  <2> QED BY <2>1 DEF m
<1>3. G = Nat
  <2> HIDE DEF G
  <2>1. G \subseteq Nat
    BY DEF G
  <2> QED BY <1>1, <1>2, <2>1, Induct
<1> QED BY <1>3, <1>0

(* Two tables for the same word down the side: their columns agree as far  *)
(* as the words along the top do.                                          *)
LEMMA SameColumns ==
  ASSUME NEW v \in Words, NEW x \in Words, NEW y \in Words, NEW S, IsTable(S, v, x),
         NEW T, IsTable(T, v, y), NEW p \in 0 .. Len(x), p <= Len(y), \A j \in 1 .. p : y[j] = x[j]
  PROVE  \A i \in 0 .. Len(v), j \in 0 .. p : T[i][j] = S[i][j]
<1> DEFINE G == {n \in Nat : \A i \in 0 .. Len(v), j \in 0 .. p : i + j <= n => T[i][j] = S[i][j]}
<1>0. Len(v) \in Nat /\ Len(x) \in Nat /\ Len(y) \in Nat
  BY DEF Words
<1>1. /\ \A j \in 0 .. p : T[0][j] = j /\ S[0][j] = j
      /\ \A i \in 0 .. Len(v) : T[i][0] = 0 + i /\ S[i][0] = 0 + i
  BY <1>0 DEF IsTable
<1>2. \A i \in 1 .. Len(v), j \in 1 .. p :
        /\ T[i][j] = Cell(T[i][j - 1], T[i - 1][j], T[i - 1][j - 1], Cost(v[i], x[j]))
        /\ S[i][j] = Cell(S[i][j - 1], S[i - 1][j], S[i - 1][j - 1], Cost(v[i], x[j]))
  BY <1>0 DEF IsTable
<1>3. 0 \in G
  BY <1>0, <1>1
<1>4. ASSUME NEW n \in Nat, n \in G PROVE n + 1 \in G
  <2>1. ASSUME NEW i \in 0 .. Len(v), NEW j \in 0 .. p, i + j <= n + 1 PROVE T[i][j] = S[i][j]
    <3>1. CASE i = 0 \/ j = 0
      BY <3>1, <1>1
    <3>2. CASE i > 0 /\ j > 0
      <4>1. /\ i \in 1 .. Len(v) /\ j \in 1 .. p /\ i - 1 \in 0 .. Len(v) /\ j - 1 \in 0 .. p
            /\ i + (j - 1) <= n /\ (i - 1) + j <= n /\ (i - 1) + (j - 1) <= n
        BY <3>2, <2>1, <1>0
      <4>2. T[i][j - 1] = S[i][j - 1] /\ T[i - 1][j] = S[i - 1][j] /\ T[i - 1][j - 1] = S[i - 1][j - 1]
        BY <4>1, <1>4
      <4> QED BY <4>1, <4>2, <1>2
    <3> QED BY <3>1, <3>2, <1>0
  <2> QED BY <2>1
<1>5. G = Nat
  <2> HIDE DEF G
  <2>1. G \subseteq Nat
    BY DEF G
  <2> QED BY <1>3, <1>4, <2>1, Induct
<1>6. ASSUME NEW i \in 0 .. Len(v), NEW j \in 0 .. p PROVE T[i][j] = S[i][j]
  <2>1. i + j \in Nat /\ i + j <= i + j
    BY <1>0
  <2>2. i + j \in G
    <3> HIDE DEF G
    <3> QED BY <2>1, <1>5
  <2> QED BY <2>1, <2>2
<1> QED BY <1>6

(* The column of a letter that was exchanged.                              *)
LEMMA ChangedColumn ==
  ASSUME NEW v \in Words, NEW x \in Words, NEW y \in Words, NEW S, IsTable(S, v, x),
         NEW T, IsTable(T, v, y), NEW j \in 1 .. Len(x), j <= Len(y)
  PROVE  (\A i \in 0 .. Len(v) : T[i][j - 1] = S[i][j - 1]) =>
            \A i \in 0 .. Len(v) : T[i][j] <= S[i][j] + 1
<1>a. SUFFICES ASSUME \A i \in 0 .. Len(v) : T[i][j - 1] = S[i][j - 1]
               PROVE  \A i \in 0 .. Len(v) : T[i][j] <= S[i][j] + 1
  OBVIOUS
<1> DEFINE G == {i \in Nat : i <= Len(v) => T[i][j] <= S[i][j] + 1}
<1>0. /\ Len(v) \in Nat /\ Len(x) \in Nat /\ Len(y) \in Nat /\ j \in 0 .. Len(x) /\ j - 1 \in 0 .. Len(x)
      /\ j \in 0 .. Len(y) /\ j - 1 \in 0 .. Len(y) /\ j > 0
  BY DEF Words
<1>1. 0 \in G
  <2>1. 0 \in 0 .. Len(v)
    BY <1>0
  <2>2. T[0][j] = j /\ S[0][j] = j
    BY <1>0 DEF IsTable
  <2> QED BY <2>2, <1>0
<1>2. ASSUME NEW i \in Nat, i \in G PROVE i + 1 \in G
  <2> DEFINE m == i + 1
  <2>0. m - 1 = i /\ m > 0 /\ m \in Nat
    OBVIOUS
  <2> HIDE DEF m
  <2>1. CASE m <= Len(v)
    <3>1. m \in 0 .. Len(v) /\ m - 1 \in 0 .. Len(v)
      BY <2>0, <2>1, <1>0
    <3>2. T[m - 1][j] <= S[m - 1][j] + 1 /\ T[m - 1][j - 1] = S[m - 1][j - 1] /\ T[m][j - 1] = S[m][j - 1]
      BY <1>a, <1>2, <2>0, <3>1
    <3>3. CellOK(S, v, x, m, j) /\ CellOK(T, v, y, m, j)
      BY <3>1, <1>0, CellsAre
    <3>4. Cost(v[m], x[j]) \in {0, 1} /\ Cost(v[m], y[j]) \in {0, 1}
      BY DEF Cost
    <3>5. /\ T[m][j] \in Nat /\ T[m - 1][j] \in Nat /\ T[m][j - 1] \in Nat /\ T[m - 1][j - 1] \in Nat
          /\ T[m][j] <= T[m][j - 1] + 1 /\ T[m][j] <= T[m - 1][j] + 1
          /\ T[m][j] <= T[m - 1][j - 1] + Cost(v[m], y[j])
      BY <3>3, <2>0, <1>0 DEF CellOK
    <3>6. S[m][j] \in Nat /\ S[m - 1][j] \in Nat
      BY <3>3, <2>0 DEF CellOK
    <3>7. \/ S[m][j] = S[m][j - 1] + 1
          \/ S[m][j] = S[m - 1][j] + 1
          \/ S[m][j] = S[m - 1][j - 1] + Cost(v[m], x[j])
      BY <3>3, <2>0, <1>0 DEF CellOK
    <3>8. T[m][j] <= S[m][j] + 1
      <4> DEFINE t == T[m][j]
                 tl == T[m][j - 1]
                 ta == T[m - 1][j]
                 ts == T[m - 1][j - 1]
                 s == S[m][j]
                 sl == S[m][j - 1]
                 sa == S[m - 1][j]
                 ss == S[m - 1][j - 1]
                 c == Cost(v[m], x[j])
                 d == Cost(v[m], y[j])
      <4>1. /\ t \in Nat /\ tl \in Nat /\ ta \in Nat /\ ts \in Nat /\ d \in {0, 1}
            /\ t <= tl + 1 /\ t <= ta + 1 /\ t <= ts + d
        BY <3>4, <3>5
      <4>2. /\ s \in Nat /\ sl \in Nat /\ sa \in Nat /\ ss \in Nat /\ c \in {0, 1}
            /\ s = sl + 1 \/ s = sa + 1 \/ s = ss + c
        BY <3>2, <3>4, <3>5, <3>6, <3>7
      <4>3. tl = sl /\ ta <= sa + 1 /\ ts = ss
        BY <3>2, <3>4
      <4> HIDE DEF t, tl, ta, ts, s, sl, sa, ss, c, d
      <4>4. t <= s + 1
        BY <4>1, <4>2, <4>3
      <4> QED BY <4>4 DEF t, s
    <3> QED BY <3>8 DEF m
  <2> QED BY <2>1 DEF m
<1>3. G = Nat
  <2> HIDE DEF G
  <2>1. G \subseteq Nat
    BY DEF G
  <2> QED BY <1>1, <1>2, <2>1, Induct
<1> QED BY <1>3, <1>0

(* A column behind the edit, from the one before it.                       *)
LEMMA NextColumn ==
  ASSUME NEW v \in Words, NEW x \in Words, NEW y \in Words, NEW S, IsTable(S, v, x),
         NEW T, IsTable(T, v, y), NEW j \in 1 .. Len(x), NEW l \in 1 .. Len(y), y[l] = x[j]
  PROVE  (\A i \in 0 .. Len(v) : T[i][l - 1] <= S[i][j - 1] + 1) =>
            \A i \in 0 .. Len(v) : T[i][l] <= S[i][j] + 1
<1>a. SUFFICES ASSUME \A i \in 0 .. Len(v) : T[i][l - 1] <= S[i][j - 1] + 1
               PROVE  \A i \in 0 .. Len(v) : T[i][l] <= S[i][j] + 1
  OBVIOUS
<1> DEFINE G == {i \in Nat : i <= Len(v) => T[i][l] <= S[i][j] + 1}
<1>0. /\ Len(v) \in Nat /\ Len(x) \in Nat /\ Len(y) \in Nat /\ j \in 0 .. Len(x) /\ j - 1 \in 0 .. Len(x)
      /\ l \in 0 .. Len(y) /\ l - 1 \in 0 .. Len(y) /\ j > 0 /\ l > 0
  BY DEF Words
<1>1. 0 \in G
  <2>1. 0 \in 0 .. Len(v)
    BY <1>0
  <2>2. T[0][l] = l /\ S[0][j] = j /\ T[0][l - 1] = l - 1 /\ S[0][j - 1] = j - 1
    BY <1>0 DEF IsTable
  <2> QED BY <1>a, <2>1, <2>2, <1>0
<1>2. ASSUME NEW i \in Nat, i \in G PROVE i + 1 \in G
  <2> DEFINE m == i + 1
  <2>0. m - 1 = i /\ m > 0 /\ m \in Nat
    OBVIOUS
  <2> HIDE DEF m
  <2>1. CASE m <= Len(v)
    <3>1. m \in 0 .. Len(v) /\ m - 1 \in 0 .. Len(v)
      BY <2>0, <2>1, <1>0
    <3>2. /\ T[m - 1][l] <= S[m - 1][j] + 1 /\ T[m - 1][l - 1] <= S[m - 1][j - 1] + 1
          /\ T[m][l - 1] <= S[m][j - 1] + 1
      BY <1>a, <1>2, <2>0, <3>1
    <3>3. CellOK(S, v, x, m, j) /\ CellOK(T, v, y, m, l)
      BY <3>1, <1>0, CellsAre
    <3>4. Cost(v[m], x[j]) \in {0, 1} /\ Cost(v[m], y[l]) = Cost(v[m], x[j])
      BY DEF Cost
    <3>5. /\ T[m][l] \in Nat /\ T[m - 1][l] \in Nat /\ T[m][l - 1] \in Nat /\ T[m - 1][l - 1] \in Nat
          /\ T[m][l] <= T[m][l - 1] + 1 /\ T[m][l] <= T[m - 1][l] + 1
          /\ T[m][l] <= T[m - 1][l - 1] + Cost(v[m], y[l])
      BY <3>3, <2>0, <1>0 DEF CellOK
    <3>6. S[m][j] \in Nat /\ S[m - 1][j] \in Nat /\ S[m][j - 1] \in Nat /\ S[m - 1][j - 1] \in Nat
      BY <3>3, <2>0, <1>0 DEF CellOK
    <3>7. \/ S[m][j] = S[m][j - 1] + 1
          \/ S[m][j] = S[m - 1][j] + 1
          \/ S[m][j] = S[m - 1][j - 1] + Cost(v[m], x[j])
      BY <3>3, <2>0, <1>0 DEF CellOK
    <3>8. T[m][l] <= S[m][j] + 1
      <4> DEFINE t == T[m][l]
                 tl == T[m][l - 1]
                 ta == T[m - 1][l]
                 ts == T[m - 1][l - 1]
                 s == S[m][j]
                 sl == S[m][j - 1]
                 sa == S[m - 1][j]
                 ss == S[m - 1][j - 1]
                 c == Cost(v[m], x[j])
                 d == Cost(v[m], y[l])
      <4>1. /\ t \in Nat /\ tl \in Nat /\ ta \in Nat /\ ts \in Nat /\ d \in {0, 1}
            /\ t <= tl + 1 /\ t <= ta + 1 /\ t <= ts + d
        BY <3>4, <3>5
      <4>2. /\ s \in Nat /\ sl \in Nat /\ sa \in Nat /\ ss \in Nat /\ c \in {0, 1}
            /\ s = sl + 1 \/ s = sa + 1 \/ s = ss + c
        BY <3>2, <3>4, <3>5, <3>6, <3>7
      <4>3. tl <= sl + 1 /\ ta <= sa + 1 /\ ts <= ss + 1 /\ c = d
        BY <3>2, <3>4
      <4> HIDE DEF t, tl, ta, ts, s, sl, sa, ss, c, d
      <4>4. t <= s + 1
        BY <4>1, <4>2, <4>3
      <4> QED BY <4>4 DEF t, s
    <3> QED BY <3>8 DEF m
  <2> QED BY <2>1 DEF m
<1>3. G = Nat
  <2> HIDE DEF G
  <2>1. G \subseteq Nat
    BY DEF G
  <2> QED BY <1>1, <1>2, <2>1, Induct
<1> QED BY <1>3, <1>0

(* One edit more of the word along the top costs one more at most.         *)
LEMMA EditCounts ==
  ASSUME NEW v \in Words, NEW x \in Words, NEW A \in SUBSET Nat, NEW y \in OneEdit(x, A)
  PROVE  levenshtein(v, y) <= levenshtein(v, x) + 1
<1> DEFINE S == Table(v, x)
           T == Table(v, y)
<1>1. y \in Words
  BY EditType
<1>2. IsTable(S, v, x) /\ IsTable(T, v, y)
  BY <1>1, TableIs
<1>3. PICK p, d, e : Spliced(x, y, p, d, e)
  BY EditSplices
<1>4. Len(v) \in Nat /\ Len(x) \in Nat /\ Len(y) \in Nat
  BY <1>1 DEF Words
<1>5. /\ p \in 0 .. Len(x) /\ p \in Nat /\ p <= Len(y) /\ d \in {0, 1} /\ e \in {0, 1} /\ d + e >= 1
      /\ p + d <= Len(x) /\ p + e <= Len(y) /\ Len(y) - (p + e) = Len(x) - (p + d)
  BY <1>3, <1>4 DEF Spliced
<1>6. \A t \in 1 .. Len(x) - p - d : y[p + e + t] = x[p + d + t]
  BY <1>3 DEF Spliced
<1> HIDE DEF S, T
<1>7. \A i \in 0 .. Len(v), j \in 0 .. p : T[i][j] = S[i][j]
  <2>1. \A j \in 1 .. p : y[j] = x[j]
    BY <1>3 DEF Spliced
  <2>2. p \in 0 .. Len(x) /\ p <= Len(y)
    BY <1>5
  <2> QED BY <1>1, <1>2, <2>1, <2>2, SameColumns
<1>8. \A i \in 0 .. Len(v) : T[i][p] = S[i][p]
  BY <1>5, <1>7
<1>9. \A i \in 0 .. Len(v) : T[i][p + e] <= S[i][p + d] + 1
  <2>1. CASE d = 0 /\ e = 1
    <3>1. ASSUME NEW i \in 0 .. Len(v) PROVE T[i][p + 1] <= S[i][p + 0] + 1
      <4>1. p + 1 \in 0 .. Len(y) /\ p + 1 > 0 /\ (p + 1) - 1 = p /\ p + 0 = p
        BY <1>4, <1>5, <2>1
      <4>2. CellOK(T, v, y, i, p + 1)
        BY <4>1, <1>1, <1>2, CellsAre
      <4>3. T[i][p + 1] <= T[i][p] + 1
        BY <4>1, <4>2 DEF CellOK
      <4> QED BY <4>1, <4>3, <1>8
    <3> QED BY <3>1, <2>1
  <2>2. CASE d = 1 /\ e = 0
    <3>1. p + 1 \in 1 .. Len(x) /\ (p + 1) - 1 = p /\ p + 0 = p
      BY <1>4, <1>5, <2>2
    <3>2. \A i \in 0 .. Len(v) : S[i][(p + 1) - 1] <= S[i][p + 1] + 1
      BY <3>1, <1>2, BackByOne
    <3> QED BY <3>1, <3>2, <1>8, <2>2
  <2>3. CASE d = 1 /\ e = 1
    <3> DEFINE q == p + 1
    <3>1. q \in 1 .. Len(x) /\ q <= Len(y) /\ q - 1 = p
      BY <1>4, <1>5, <2>3
    <3> HIDE DEF q
    <3>2. \A i \in 0 .. Len(v) : T[i][q - 1] = S[i][q - 1]
      BY <3>1, <1>8
    <3>3. \A i \in 0 .. Len(v) : T[i][q] <= S[i][q] + 1
      BY <3>1, <3>2, <1>1, <1>2, ChangedColumn
    <3> QED BY <3>3, <2>3 DEF q
  <2> QED BY <2>1, <2>2, <2>3, <1>5
<1> DEFINE G == {t \in Nat : t <= Len(x) - p - d =>
                   \A i \in 0 .. Len(v) : T[i][p + e + t] <= S[i][p + d + t] + 1}
<1>10. 0 \in G
  BY <1>5, <1>9
<1>11. ASSUME NEW t \in Nat, t \in G PROVE t + 1 \in G
  <2>1. CASE t + 1 <= Len(x) - p - d
    <3> DEFINE j == p + d + (t + 1)
               l == p + e + (t + 1)
    <3>1. /\ j \in 1 .. Len(x) /\ l \in 1 .. Len(y) /\ j - 1 = p + d + t /\ l - 1 = p + e + t
          /\ t + 1 \in 1 .. Len(x) - p - d /\ t <= Len(x) - p - d
      BY <1>4, <1>5, <2>1
    <3>2. y[l] = x[j]
      BY <3>1, <1>6
    <3>3. \A i \in 0 .. Len(v) : T[i][p + e + t] <= S[i][p + d + t] + 1
      BY <3>1, <1>11
    <3> HIDE DEF j, l
    <3>4. \A i \in 0 .. Len(v) : T[i][l - 1] <= S[i][j - 1] + 1
      BY <3>1, <3>3
    <3>5. \A i \in 0 .. Len(v) : T[i][l] <= S[i][j] + 1
      BY <3>1, <3>2, <3>4, <1>1, <1>2, NextColumn
    <3> QED BY <3>5 DEF j, l
  <2> QED BY <2>1
<1>12. G = Nat
  <2> HIDE DEF G
  <2>1. G \subseteq Nat
    BY DEF G
  <2> QED BY <1>10, <1>11, <2>1, Induct
<1>13. \A i \in 0 .. Len(v) : T[i][Len(y)] <= S[i][Len(x)] + 1
  <2> DEFINE t == Len(x) - p - d
  <2>1. t \in Nat /\ t <= Len(x) - p - d /\ p + e + t = Len(y) /\ p + d + t = Len(x)
    BY <1>4, <1>5
  <2>2. t \in G
    <3> HIDE DEF G, t
    <3> QED BY <2>1, <1>12
  <2> HIDE DEF t
  <2> QED BY <2>1, <2>2
<1> QED BY <1>4, <1>13 DEF levenshtein, S, T

LEMMA NoEdits ==
  ASSUME NEW v \in Words
  PROVE  levenshtein(v, v) = 0
<1> DEFINE T == Table(v, v)
           G == {i \in Nat : i <= Len(v) => T[i][i] = 0}
<1>0. Len(v) \in Nat /\ IsTable(T, v, v)
  BY TableIs DEF Words
<1> HIDE DEF T
<1>1. 0 \in G
  BY <1>0 DEF IsTable
<1>2. ASSUME NEW i \in Nat, i \in G PROVE i + 1 \in G
  <2> DEFINE m == i + 1
  <2>0. m - 1 = i /\ m > 0 /\ m \in Nat
    OBVIOUS
  <2> HIDE DEF m
  <2>1. CASE m <= Len(v)
    <3>1. m \in 0 .. Len(v) /\ T[m - 1][m - 1] = 0
      BY <2>0, <2>1, <1>2, <1>0
    <3>2. CellOK(T, v, v, m, m)
      BY <3>1, <1>0, CellsAre
    <3>3. T[m][m] \in Nat /\ T[m][m] <= T[m - 1][m - 1] + Cost(v[m], v[m]) /\ Cost(v[m], v[m]) = 0
      BY <3>2, <2>0 DEF CellOK, Cost
    <3>4. T[m][m] = 0
      BY <3>1, <3>3
    <3> QED BY <3>4 DEF m
  <2> QED BY <2>1 DEF m
<1>3. G = Nat
  <2> HIDE DEF G
  <2>1. G \subseteq Nat
    BY DEF G
  <2> QED BY <1>1, <1>2, <2>1, Induct
<1>4. T[Len(v)][Len(v)] = 0
  BY <1>3, <1>0
<1> QED BY <1>4 DEF levenshtein, T

LEMMA DistanceType ==
  ASSUME NEW v \in Words, NEW b \in Words
  PROVE  levenshtein(v, b) \in Nat
<1>1. IsTable(Table(v, b), v, b) /\ Len(v) \in 0 .. Len(v) /\ Len(b) \in 0 .. Len(b)
  BY TableIs, StartIs
<1> QED BY <1>1 DEF IsTable, levenshtein

(* suggest.go:107-142: the number the table ends with is the least number  *)
(* of single letters to insert, delete or exchange to come from the one    *)
(* word to the other, for all words and every alphabet the second word is  *)
(* written in.                                                             *)
THEOREM TableIsDistance ==
  ASSUME NEW v \in Words, NEW b \in Words, NEW A \in SUBSET Nat, \A j \in 1 .. Len(b) : b[j] \in A,
         NEW k \in Nat
  PROVE  levenshtein(v, b) <= k <=> b \in Within(v, k, A)
<1>1. levenshtein(v, b) <= k => b \in Within(v, k, A)
  <2>1. /\ Len(v) \in 0 .. Len(v) /\ Len(b) \in 0 .. Len(b)
        /\ Start(v, Len(v)) = v /\ Start(b, Len(b)) = b
    BY StartIs
  <2>2. IsTable(Table(v, b), v, b)
    BY TableIs
  <2>3. \A i \in 0 .. Len(v), j \in 0 .. Len(b), n \in Nat :
          Table(v, b)[i][j] <= n => Start(b, j) \in Within(Start(v, i), n, A)
    BY <2>2, TableReaches
  <2> QED BY <2>1, <2>3 DEF levenshtein
<1>2. b \in Within(v, k, A) => levenshtein(v, b) <= k
  <2> DEFINE G == {n \in Nat : \A y \in Within(v, n, A) : levenshtein(v, y) <= n}
  <2>0. \A y \in Words : levenshtein(v, y) \in Nat
    BY DistanceType
  <2>1. 0 \in G
    BY WithinIs, NoEdits
  <2>2. ASSUME NEW n \in Nat, n \in G PROVE n + 1 \in G
    <3>1. ASSUME NEW y \in Within(v, n + 1, A) PROVE levenshtein(v, y) <= n + 1
      <4>1. Within(v, n + 1, A) = Grown(Within(v, n, A), A) /\ Within(v, n, A) \subseteq Words
        BY WithinIs
      <4>2. CASE y \in Within(v, n, A)
        BY <4>1, <4>2, <2>0, <2>2
      <4>3. CASE \E x \in Within(v, n, A) : y \in OneEdit(x, A)
        <5>1. PICK x \in Within(v, n, A) : y \in OneEdit(x, A)
          BY <4>3
        <5>2. x \in Words /\ y \in Words /\ levenshtein(v, x) <= n
          BY <5>1, <4>1, <2>2, EditType
        <5>3. levenshtein(v, y) <= levenshtein(v, x) + 1
          BY <5>1, <5>2, EditCounts
        <5> QED BY <5>2, <5>3, <2>0
      <4> QED BY <4>1, <4>2, <4>3 DEF Grown
    <3> QED BY <3>1
  <2>3. G = Nat
    <3> HIDE DEF G
    <3>1. G \subseteq Nat
      BY DEF G
    <3> QED BY <2>1, <2>2, <3>1, Induct
  <2> QED BY <2>3
<1> QED BY <1>1, <1>2

(* What is suggested, for the candidates C: the eligible ones, none twice, *)
(* and fewer than n only when these are all.                               *)
SuggestedFrom(s, typed, C, n) ==
  LET eligible == {c \in C : Eligible(lower(typed), lower(c))}
  IN /\ IsInjective(s) /\ s \in Seq(eligible) /\ Len(s) <= n /\ Range(s) \subseteq eligible
     /\ Len(s) < n => Range(s) = eligible

LEMMA ClosestIs ==
  ASSUME NEW typed \in Words, typed # <<>>, NEW C \in SUBSET Words, IsFiniteSet(C), NEW n \in Nat
  PROVE  SuggestedFrom(Closest(typed, C, n), typed, C, n)
<1> DEFINE t == lower(typed)
           E == {d \in C : Eligible(t, lower(d))}
           Scored(c) == [name |-> c, score |-> Score(t, lower(c))]
           out == {Scored(c) : c \in E}
           better(c, d) == c.score < d.score \/ (c.score = d.score /\ WordLess(c.name, d.name))
           R == {p \in out \X out : better(p[1], p[2])}
           r == Ranked(out, R)
           m == Min({n, Len(r)})
           s == [i \in 1 .. m |-> r[i].name]
<1>1. Closest(typed, C, n) = s
  BY DEF Closest
<1>2. \A c \in C : Score(t, lower(c)) \in Int
  <2>1. t \in Words /\ \A c \in C : lower(c) \in Words
    BY LowerType
  <2>2. \A c \in C : levenshtein(t, lower(c)) \in Nat
    BY <2>1, DistanceType
  <2> HIDE DEF t
  <2> QED BY <2>2 DEF Score
<1>3. \A o \in out : o.name \in E /\ o = Scored(o.name) /\ o.score \in Int
  BY <1>2
<1>4. \A c, d \in out : c.name = d.name => c = d
  BY <1>3
<1>5. \A c, d \in out : <<c, d>> \in R <=> better(c, d)
  OBVIOUS
<1>6. IsFiniteSet(out)
  <2> DEFINE f == [c \in E |-> Scored(c)]
  <2>1. IsFiniteSet(E)
    BY FS_Subset
  <2>2. f \in Surjection(E, out)
    <3>1. f \in [E -> out] /\ \A o \in out : \E c \in E : f[c] = o
      OBVIOUS
    <3> HIDE DEF f, E, out
    <3> QED BY <3>1 DEF Surjection
  <2> HIDE DEF f, E, out
  <2> QED BY <2>1, <2>2, FS_Surjection
<1>7. \A o \in out : o.name \in Words /\ o.score \in Int
  BY <1>3
<1>8. E \subseteq C /\ \A c \in E : Scored(c) \in out /\ Scored(c).name = c
  OBVIOUS
<1> HIDE DEF E, out, Scored, R
<1>9. StrictOrder(out, R)
  <2>1. ASSUME NEW c \in out PROVE <<c, c>> \notin R
    <3>1. c.score \in Int /\ ~WordLess(c.name, c.name)
      BY <1>7, WordOrder
    <3> QED BY <3>1, <1>5
  <2>2. ASSUME NEW c \in out, NEW d \in out, NEW e \in out, <<c, d>> \in R, <<d, e>> \in R
        PROVE  <<c, e>> \in R
    <3>1. better(c, d) /\ better(d, e)
      BY <1>5, <2>2
    <3>2. c.score \in Int /\ d.score \in Int /\ e.score \in Int
      BY <1>7
    <3>3. WordLess(c.name, d.name) /\ WordLess(d.name, e.name) => WordLess(c.name, e.name)
      BY <1>7, WordOrder
    <3>4. better(c, e)
      BY <3>1, <3>2, <3>3
    <3> QED BY <3>4, <1>5
  <2> QED BY <2>1, <2>2 DEF StrictOrder
<1>10. ASSUME NEW c \in out, NEW d \in out, c # d PROVE <<c, d>> \in R \/ <<d, c>> \in R
  <2>1. c.name # d.name /\ c.score \in Int /\ d.score \in Int
    BY <1>4, <1>7, <1>10
  <2>2. WordLess(c.name, d.name) \/ WordLess(d.name, c.name)
    BY <1>7, <2>1, WordOrder
  <2> QED BY <2>1, <2>2, <1>5
<1>11. r \in Seq(out) /\ Range(r) = out /\ IsInjective(r)
  BY <1>6, <1>9, <1>10, RankedIs
<1> HIDE DEF r
<1>12. DOMAIN r = 1 .. Len(r) /\ \A i \in 1 .. Len(r) : r[i] \in out
  BY <1>11
<1>0. Len(r) \in Nat
  BY <1>11
<1>13. m \in Nat /\ m \in {n, Len(r)} /\ m <= n /\ m <= Len(r)
  BY <1>0, MinIs
<1> HIDE DEF m
<1>14. \A i \in 1 .. m : i \in 1 .. Len(r) /\ r[i].name \in E
  <2>1. \A i \in 1 .. m : i \in 1 .. Len(r)
    BY <1>0, <1>13
  <2> QED BY <2>1, <1>3, <1>12
<1>15. s \in [1 .. m -> E] /\ \A i \in 1 .. m : s[i] = r[i].name
  BY <1>14
<1> HIDE DEF s
<1>16. s \in Seq(E) /\ Len(s) = m /\ DOMAIN s = 1 .. m
  BY <1>13, <1>15
<1>17. IsInjective(s)
  <2>1. ASSUME NEW i \in 1 .. m, NEW j \in 1 .. m, s[i] = s[j] PROVE i = j
    <3>1. r[i] = r[j] /\ i \in DOMAIN r /\ j \in DOMAIN r
      BY <1>4, <1>12, <1>14, <1>15, <2>1
    <3> QED BY <3>1, <1>11 DEF IsInjective
  <2> QED BY <2>1, <1>16 DEF IsInjective
<1>18. Range(s) \subseteq E
  BY <1>15, <1>16 DEF Range
<1>19. ASSUME m < n PROVE E \subseteq Range(s)
  <2>1. m = Len(r)
    <3>1. m # n
      BY <1>13, <1>19
    <3> QED BY <3>1, <1>13
  <2> SUFFICES ASSUME NEW c \in E PROVE c \in Range(s)
    OBVIOUS
  <2>2. Scored(c) \in Range(r)
    BY <1>8, <1>11
  <2>3. PICK i \in 1 .. m : r[i] = Scored(c)
    BY <2>1, <2>2, <1>12 DEF Range
  <2>4. s[i] = c
    BY <2>3, <1>8, <1>15
  <2> QED BY <2>4, <1>16 DEF Range
<1>20. E = {c \in C : Eligible(lower(typed), lower(c))}
  BY DEF E
<1> HIDE DEF t
<1> QED BY <1>1, <1>13, <1>16, <1>17, <1>18, <1>19, <1>20 DEF SuggestedFrom

LEMMA BudgetType ==
  ASSUME NEW w \in Words
  PROVE  distBudget(w) \in Nat /\ distBudget(lower(w)) = distBudget(w)
<1>1. Len(w) \in Nat /\ Len(lower(w)) = Len(w)
  BY LowerType DEF Words
<1>2. Len(w) \div 2 + 1 \in Nat
  BY <1>1
<1>3. Min({Len(w) \div 2 + 1, 3}) \in Nat
  <2> DEFINE h == Len(w) \div 2 + 1
  <2>1. h \in Nat
    BY <1>2
  <2> HIDE DEF h
  <2>2. {h, 3} \in SUBSET Nat /\ {h, 3} # {}
    BY <2>1
  <2>3. Min({h, 3}) \in Nat
    BY <2>2, MinIs
  <2> QED BY <2>3 DEF h
<1> QED BY <1>1, <1>3 DEF distBudget

-----------------------------------------------------------------------------
(* The files, in the order in which they are discovered. *)

ProgramFiles == [dir : Dirs, stem : Stems]
ScanOrder == {p \in ProgramFiles \X ProgramFiles : ScannedBefore(p[1], p[2])}

LEMMA DirIndexIs ==
  /\ \A d \in Dirs : DirIndex(d) \in 1 .. Len(UserProgramDirs) /\ UserProgramDirs[DirIndex(d)] = d
  /\ Len(UserProgramDirs) \in Nat /\ IsFiniteSet(Dirs)
<1> DEFINE n == Len(UserProgramDirs)
           f == [i \in 1 .. n |-> UserProgramDirs[i]]
<1>1. n \in Nat /\ DOMAIN UserProgramDirs = 1 .. n
  BY CatalogAssumption
<1>2. \A d \in Dirs : \E i \in 1 .. n : UserProgramDirs[i] = d
  BY <1>1 DEF Dirs, Range
<1>3. \A i \in 1 .. n : UserProgramDirs[i] \in Dirs
  BY <1>1 DEF Dirs, Range
<1>4. \A d \in Dirs : DirIndex(d) \in 1 .. n /\ UserProgramDirs[DirIndex(d)] = d
  BY <1>1, <1>2 DEF DirIndex
<1>5. f \in Surjection(1 .. n, Dirs)
  BY <1>2, <1>3 DEF Surjection
<1>6. IsFiniteSet(1 .. n)
  BY <1>1, FS_Interval, 1 \in Int
<1>7. IsFiniteSet(Dirs)
  <2> HIDE DEF f, n
  <2> QED BY <1>5, <1>6, FS_Surjection
<1> QED BY <1>1, <1>4, <1>7

LEMMA StemType == \A s \in Stems : s \in Words /\ s \o Ext \in Words /\ s # <<>>
<1>1. Ext \in Seq(Nat)
  BY DEF Ext
<1> QED BY <1>1, CatalogAssumption DEF Words

LEMMA ScanOrderIs ==
  /\ \A f, g \in ProgramFiles : <<f, g>> \in ScanOrder <=> ScannedBefore(f, g)
  /\ StrictOrder(ProgramFiles, ScanOrder)
  /\ \A f, g \in ProgramFiles : f # g => ScannedBefore(f, g) \/ ScannedBefore(g, f)
<1>1. \A f, g \in ProgramFiles : <<f, g>> \in ScanOrder <=> ScannedBefore(f, g)
  BY DEF ScanOrder
<1>2. \A f \in ProgramFiles :
        /\ f.dir \in Dirs /\ DirIndex(f.dir) \in Nat /\ UserProgramDirs[DirIndex(f.dir)] = f.dir
        /\ f.stem \in Words /\ f.stem \o Ext \in Words
  BY DirIndexIs, StemType DEF ProgramFiles
<1>3. \A f \in ProgramFiles : ~ScannedBefore(f, f)
  BY <1>2, WordOrder DEF ScannedBefore
<1>4. ASSUME NEW f \in ProgramFiles, NEW g \in ProgramFiles, NEW h \in ProgramFiles,
             ScannedBefore(f, g), ScannedBefore(g, h)
      PROVE  ScannedBefore(f, h)
  <2>1. CASE f.dir = g.dir /\ g.dir = h.dir
    <3>1. ~(DirIndex(f.dir) < DirIndex(g.dir)) /\ ~(DirIndex(g.dir) < DirIndex(h.dir))
      BY <1>2, <2>1
    <3>2. WordLess(f.stem \o Ext, g.stem \o Ext) /\ WordLess(g.stem \o Ext, h.stem \o Ext)
      BY <1>4, <3>1 DEF ScannedBefore
    <3>3. WordLess(f.stem \o Ext, h.stem \o Ext)
      BY <1>2, <3>2, WordOrder
    <3> QED BY <2>1, <3>3 DEF ScannedBefore
  <2>2. CASE ~(f.dir = g.dir /\ g.dir = h.dir)
    <3>1. /\ DirIndex(f.dir) < DirIndex(g.dir) \/ f.dir = g.dir
          /\ DirIndex(g.dir) < DirIndex(h.dir) \/ g.dir = h.dir
      BY <1>4 DEF ScannedBefore
    <3>2. DirIndex(f.dir) < DirIndex(h.dir)
      BY <1>2, <2>2, <3>1
    <3> QED BY <3>2 DEF ScannedBefore
  <2> QED BY <2>1, <2>2
<1>5. ASSUME NEW f \in ProgramFiles, NEW g \in ProgramFiles, f # g
      PROVE  ScannedBefore(f, g) \/ ScannedBefore(g, f)
  <2>1. CASE f.dir = g.dir
    <3>1. f.stem # g.stem
      BY <1>5, <2>1 DEF ProgramFiles
    <3>2. f.stem \o Ext # g.stem \o Ext
      <4>1. ASSUME NEW v \in Seq(Nat), NEW w \in Seq(Nat), v \o Ext = w \o Ext PROVE v = w
        <5>0. Ext \in Seq(Nat) /\ Len(Ext) \in Nat
          BY DEF Ext
        <5>1. Len(v \o Ext) = Len(v) + Len(Ext) /\ Len(w \o Ext) = Len(w) + Len(Ext)
          BY <5>0
        <5>2. Len(v) = Len(w)
          BY <4>1, <5>0, <5>1
        <5>3. ASSUME NEW i \in 1 .. Len(v) PROVE v[i] = w[i]
          <6>1. (v \o Ext)[i] = v[i] /\ (w \o Ext)[i] = w[i]
            BY <5>0, <5>2
          <6> QED BY <4>1, <6>1
        <5> QED BY <5>2, <5>3, SameWord DEF Words
      <4> QED BY <1>2, <3>1, <4>1 DEF Words
    <3>3. \/ WordLess(f.stem \o Ext, g.stem \o Ext)
          \/ WordLess(g.stem \o Ext, f.stem \o Ext)
      BY <1>2, <3>2, WordOrder
    <3> QED BY <2>1, <3>3 DEF ScannedBefore
  <2>2. CASE f.dir # g.dir
    <3>1. DirIndex(f.dir) # DirIndex(g.dir)
      BY <1>2, <2>2
    <3>2. DirIndex(f.dir) < DirIndex(g.dir) \/ DirIndex(g.dir) < DirIndex(f.dir)
      BY <1>2, <3>1
    <3> QED BY <3>2 DEF ScannedBefore
  <2> QED BY <2>1, <2>2
<1>6. StrictOrder(ProgramFiles, ScanOrder)
  BY <1>1, <1>3, <1>4 DEF StrictOrder
<1> QED BY <1>1, <1>5, <1>6

LEMMA ProgramFilesFinite == IsFiniteSet(ProgramFiles)
<1> DEFINE P == Dirs \X Stems
           f == [p \in P |-> [dir |-> p[1], stem |-> p[2]]]
<1>1. IsFiniteSet(P)
  BY DirIndexIs, CatalogAssumption, FS_Product
<1>2. \A p \in P : [dir |-> p[1], stem |-> p[2]] \in ProgramFiles
  BY DEF ProgramFiles
<1>3. \A r \in ProgramFiles : \E p \in P : [dir |-> p[1], stem |-> p[2]] = r
  <2> TAKE r \in ProgramFiles
  <2>1. <<r.dir, r.stem>> \in P /\ r = [dir |-> r.dir, stem |-> r.stem]
    BY DEF ProgramFiles
  <2> QED BY <2>1
<1>4. f \in Surjection(P, ProgramFiles)
  <2>1. f \in [P -> ProgramFiles]
    BY <1>2
  <2>2. \A r \in ProgramFiles : \E p \in P : f[p] = r
    BY <1>3
  <2> QED BY <2>1, <2>2 DEF Surjection
<1> QED
  <2> HIDE DEF f, P
  <2> QED BY <1>1, <1>4, FS_Surjection

-----------------------------------------------------------------------------
(* The catalog. *)

Custom(f) == [name |-> NameOf(f), kind |-> "custom", dir |-> f.dir, stem |-> f.stem]

FirstOfName(f) ==
  \A g \in Candidates : lower(NameOf(g)) = lower(NameOf(f)) => ~ScannedBefore(g, f)

LEMMA NameOfIs ==
  ASSUME CatalogTypeOK, NEW f \in ProgramFiles
  PROVE  NameOf(f) \in Words /\ NameOf(f) # <<>> /\ lower(NameOf(f)) \in Words
<1>1. meta[f.dir][f.stem] \in Metadata \cup {NoFile} /\ f.stem \in Words /\ f.stem # <<>>
  BY StemType DEF CatalogTypeOK, ProgramFiles
<1>2. NameOf(f) \in Words /\ NameOf(f) # <<>>
  BY <1>1, CatalogAssumption DEF NameOf, Words
<1> QED BY <1>2, LowerType

LEMMA CandidatesAre ==
  Candidates \subseteq ProgramFiles
BY DEF Candidates, HexFiles, ProgramFiles

(* Of the files of one name there is a first, and only one.                *)
LEMMA FirstExists ==
  ASSUME CatalogTypeOK, NEW f \in Candidates
  PROVE  \E g \in Candidates : FirstOfName(g) /\ lower(NameOf(g)) = lower(NameOf(f))
<1> DEFINE T == {g \in Candidates : lower(NameOf(g)) = lower(NameOf(f))}
<1>1. T \in SUBSET ProgramFiles /\ T # {}
  BY CandidatesAre
<1>2. PICK g \in T : \A h \in T : <<h, g>> \notin ScanOrder
  <2> HIDE DEF T
  <2> QED BY <1>1, ProgramFilesFinite, ScanOrderIs, LeastOf
<1>3. \A h \in T : ~ScannedBefore(h, g)
  BY <1>1, <1>2, ScanOrderIs
<1> QED BY <1>3 DEF FirstOfName

LEMMA FirstIsOne ==
  ASSUME CatalogTypeOK, NEW f \in Candidates, NEW g \in Candidates, FirstOfName(f), FirstOfName(g),
         lower(NameOf(f)) = lower(NameOf(g))
  PROVE  f = g
<1>1. ~ScannedBefore(f, g) /\ ~ScannedBefore(g, f)
  BY DEF FirstOfName
<1> QED BY <1>1, CandidatesAre, ScanOrderIs

LEMMA DiscoveredIs ==
  ASSUME CatalogTypeOK
  PROVE  /\ \A e : e \in discoverUserPrograms <=>
                   \E f \in Candidates : FirstOfName(f) /\ e = Custom(f)
         /\ \A e, f \in discoverUserPrograms : lower(e.name) = lower(f.name) => e = f
         /\ IsFiniteSet(discoverUserPrograms)
<1> DEFINE F == {g \in Candidates : FirstOfName(g)}
           c == [f \in F |-> Custom(f)]
<1>1. discoverUserPrograms = {Custom(f) : f \in F}
  BY DEF discoverUserPrograms, FirstOfName, Custom
<1>2. \A e : e \in discoverUserPrograms <=>
             \E f \in Candidates : FirstOfName(f) /\ e = Custom(f)
  BY <1>1
<1>3. ASSUME NEW e \in discoverUserPrograms, NEW f \in discoverUserPrograms,
             lower(e.name) = lower(f.name)
      PROVE  e = f
  <2>1. PICK g \in Candidates : FirstOfName(g) /\ e = Custom(g)
    BY <1>2
  <2>2. PICK h \in Candidates : FirstOfName(h) /\ f = Custom(h)
    BY <1>2
  <2>3. lower(NameOf(g)) = lower(NameOf(h))
    BY <1>3, <2>1, <2>2 DEF Custom
  <2> QED BY <2>1, <2>2, <2>3, FirstIsOne
<1>4. IsFiniteSet(F)
  <2>1. F \in SUBSET ProgramFiles
    BY CandidatesAre
  <2> HIDE DEF F
  <2> QED BY <2>1, ProgramFilesFinite, FS_Subset
<1>5. c \in Surjection(F, discoverUserPrograms)
  <2>1. c \in [F -> discoverUserPrograms]
    BY <1>1
  <2>2. \A e \in discoverUserPrograms : \E f \in F : c[f] = e
    BY <1>1
  <2> HIDE DEF c, F
  <2> QED BY <2>1, <2>2 DEF Surjection
<1>6. IsFiniteSet(discoverUserPrograms)
  <2> HIDE DEF c, F
  <2> QED BY <1>4, <1>5, FS_Surjection
<1> QED BY <1>2, <1>3, <1>6

LEMMA CustomIs ==
  ASSUME CatalogTypeOK, NEW e \in discoverUserPrograms
  PROVE  /\ e \in Entries /\ e.kind = "custom" /\ e.name # <<>> /\ lower(e.name) \in Words
         /\ ~reserved(e.name) /\ ~reserved(e.stem)
         /\ e.dir \in Dirs /\ e.stem \in Stems /\ hex[e.dir][e.stem] # NoFile
<1>1. PICK f \in Candidates : e = Custom(f)
  BY DiscoveredIs
<1>2. f \in ProgramFiles /\ f.dir \in Dirs /\ f.stem \in Stems
  BY CandidatesAre DEF ProgramFiles
<1>3. /\ e.name = NameOf(f) /\ e.kind = "custom" /\ e.dir = f.dir /\ e.stem = f.stem
      /\ NameOf(f) \in Words /\ NameOf(f) # <<>> /\ lower(NameOf(f)) \in Words
  BY <1>1, <1>2, NameOfIs DEF Custom
<1>4. ~reserved(NameOf(f)) /\ ~reserved(f.stem) /\ hex[f.dir][f.stem] # NoFile
  BY DEF Candidates, HexFiles
<1>5. e \in Entries
  BY <1>1, <1>2, <1>3 DEF Custom, Entries, Words
<1> QED BY <1>2, <1>3, <1>4, <1>5

LEMMA CustomListIs ==
  ASSUME CatalogTypeOK
  PROVE  CustomList \in Seq(discoverUserPrograms) /\ Range(CustomList) = discoverUserPrograms
<1> DEFINE D == discoverUserPrograms
           R == {p \in D \X D : WordLess(lower(p[1].name), lower(p[2].name))}
<1>1. \A e \in D : lower(e.name) \in Words
  BY CustomIs
<1>2. \A e, f \in D : <<e, f>> \in R <=> WordLess(lower(e.name), lower(f.name))
  OBVIOUS
<1>3. StrictOrder(D, R)
  <2> HIDE DEF D, R
  <2>1. \A e \in D : <<e, e>> \notin R
    BY <1>1, <1>2, WordOrder
  <2>2. ASSUME NEW e \in D, NEW f \in D, NEW g \in D, <<e, f>> \in R, <<f, g>> \in R
        PROVE  <<e, g>> \in R
    <3>1. WordLess(lower(e.name), lower(f.name)) /\ WordLess(lower(f.name), lower(g.name))
      BY <1>2, <2>2
    <3>2. WordLess(lower(e.name), lower(g.name))
      BY <1>1, <3>1, WordOrder
    <3> QED BY <1>2, <3>2
  <2> QED BY <2>1, <2>2 DEF StrictOrder
<1>4. \A e, f \in D : e # f => <<e, f>> \in R \/ <<f, e>> \in R
  <2> TAKE e, f \in D
  <2>1. e # f => lower(e.name) # lower(f.name)
    BY DiscoveredIs
  <2> HIDE DEF D, R
  <2> QED BY <1>1, <1>2, <2>1, WordOrder
<1>5. IsFiniteSet(D)
  BY DiscoveredIs
<1>6. CustomList = Ranked(D, R)
  BY DEF CustomList
<1> HIDE DEF D, R
<1>7. Ranked(D, R) \in Seq(D) /\ Range(Ranked(D, R)) = D
  BY <1>3, <1>4, <1>5, RankedIs
<1> QED BY <1>6, <1>7 DEF D

Builtin(b) == [name |-> b, kind |-> "builtin", dir |-> "repo", stem |-> b]

LEMMA BuiltinsAre ==
  /\ builtins \in Seq(Words) /\ Len(builtins) \in Nat /\ Builtins \in Seq(Entries)
  /\ Len(Builtins) = Len(builtins)
  /\ \A i \in 1 .. Len(builtins) :
       Builtins[i] = Builtin(builtins[i]) /\ builtins[i] \in Range(builtins)
  /\ \A b \in Range(builtins) :
       b \in Words /\ b # <<>> /\ lower(b) = b /\ \E i \in 1 .. Len(builtins) : builtins[i] = b
<1>1. builtins \in Seq(Words) /\ Len(builtins) \in Nat /\ DOMAIN builtins = 1 .. Len(builtins)
  BY CatalogAssumption DEF Words
<1>2. \A i \in 1 .. Len(builtins) : builtins[i] \in Range(builtins) /\ builtins[i] \in Words
  BY <1>1 DEF Range
<1>3. \A i \in 1 .. Len(builtins) : Builtin(builtins[i]) \in Entries
  BY <1>2 DEF Builtin, Entries, Words
<1>4. Builtins = [i \in 1 .. Len(builtins) |-> Builtin(builtins[i])]
  BY <1>1 DEF Builtins, Builtin
<1>5. Builtins \in Seq(Entries) /\ Len(Builtins) = Len(builtins)
  <2> DEFINE n == Len(builtins)
             b == [i \in 1 .. n |-> Builtin(builtins[i])]
  <2>1. b \in [1 .. n -> Entries]
    BY <1>3
  <2> HIDE DEF b, n
  <2>2. n \in Nat
    BY <1>1 DEF n
  <2>3. b \in Seq(Entries) /\ Len(b) = n
    BY <2>1, <2>2
  <2> QED BY <1>4, <2>3 DEF b, n
<1>6. \A b \in Range(builtins) :
        b \in Words /\ b # <<>> /\ lower(b) = b /\ \E i \in 1 .. Len(builtins) : builtins[i] = b
  BY <1>1, <1>2, CatalogAssumption DEF Range
<1> QED BY <1>1, <1>2, <1>4, <1>5, <1>6

LEMMA AllIs ==
  ASSUME CatalogTypeOK
  PROVE  /\ All \in Seq(Entries) /\ CustomList \in Seq(Entries)
         /\ Len(All) = Len(builtins) + Len(CustomList)
         /\ \A i \in 1 .. Len(builtins) :
              All[i] = Builtin(builtins[i]) /\ All[i].name = builtins[i]
         /\ \A i \in 1 .. Len(CustomList) :
              All[Len(builtins) + i] = CustomList[i] /\ CustomList[i] \in discoverUserPrograms
         /\ \A e \in discoverUserPrograms : \E i \in 1 .. Len(CustomList) : CustomList[i] = e
<1> DEFINE n == Len(builtins)
           L == CustomList
<1>1. L \in Seq(discoverUserPrograms) /\ Range(L) = discoverUserPrograms
  BY CustomListIs
<1>2. discoverUserPrograms \subseteq Entries
  BY CustomIs
<1>3. L \in Seq(Entries) /\ Len(L) \in Nat /\ DOMAIN L = 1 .. Len(L)
  BY <1>1, <1>2
<1>4. All = Builtins \o L
  BY DEF All
<1>5. /\ Builtins \in Seq(Entries) /\ Len(Builtins) = n /\ n \in Nat
      /\ \A i \in 1 .. n : Builtins[i] = Builtin(builtins[i])
  BY BuiltinsAre
<1>6. \A i \in 1 .. Len(L) : L[i] \in discoverUserPrograms
  BY <1>1, <1>3
<1>7. \A e \in discoverUserPrograms : \E i \in 1 .. Len(L) : L[i] = e
  BY <1>1, <1>3 DEF Range
<1>8. ASSUME NEW s \in Seq(Entries), NEW t \in Seq(Entries)
      PROVE  /\ s \o t \in Seq(Entries) /\ Len(s \o t) = Len(s) + Len(t)
             /\ \A i \in 1 .. Len(s) : (s \o t)[i] = s[i]
             /\ \A i \in 1 .. Len(t) : (s \o t)[Len(s) + i] = t[i]
  OBVIOUS
<1> HIDE DEF L, n
<1>9. All \in Seq(Entries) /\ Len(All) = n + Len(L)
  BY <1>3, <1>4, <1>5, <1>8
<1>10. \A i \in 1 .. n : All[i] = Builtin(builtins[i])
  BY <1>3, <1>4, <1>5, <1>8
<1>11. \A i \in 1 .. Len(L) : All[n + i] = L[i]
  BY <1>3, <1>4, <1>5, <1>8
<1>12. \A i \in 1 .. n : All[i].name = builtins[i]
  <2>1. \A b : Builtin(b).name = b
    BY DEF Builtin
  <2> QED BY <1>10, <2>1
<1> QED BY <1>3, <1>6, <1>7, <1>9, <1>10, <1>11, <1>12 DEF L, n

(* Find returns the first of that name.                                    *)
LEMMA FindIs ==
  ASSUME CatalogTypeOK, NEW n
  PROVE  \/ /\ Find(n) = NoEntry
            /\ \A i \in 1 .. Len(All) : lower(All[i].name) # lower(n)
         \/ \E i \in 1 .. Len(All) :
              /\ Find(n) = All[i] /\ lower(All[i].name) = lower(n)
              /\ \A j \in 1 .. Len(All) : lower(All[j].name) = lower(n) => i <= j
<1> DEFINE I == {i \in 1 .. Len(All) : lower(All[i].name) = lower(n)}
<1>1. Len(All) \in Nat
  BY AllIs
<1>2. Find(n) = IF (IF I # {} THEN Min(I) ELSE 0) = 0 THEN NoEntry
                ELSE All[IF I # {} THEN Min(I) ELSE 0]
  BY DEF Find, SelectInSeq
<1>3. CASE I = {}
  BY <1>2, <1>3
<1>4. CASE I # {}
  <2>1. I \in SUBSET Nat
    BY <1>1
  <2>2. Min(I) \in I /\ \A i \in I : Min(I) <= i
    <3> HIDE DEF I
    <3> QED BY <1>4, <2>1, MinIs
  <2>3. Min(I) # 0
    BY <1>1, <2>2
  <2>4. Find(n) = All[Min(I)]
    <3> HIDE DEF I
    <3> QED BY <1>2, <1>4, <2>3
  <2> QED BY <2>2, <2>4
<1> QED BY <1>3, <1>4

(* A built-in's name is found as the built-in, whatever files there are.   *)
LEMMA FindBuiltin ==
  ASSUME CatalogTypeOK, NEW b \in Range(builtins), NEW n, lower(n) = b
  PROVE  Find(n) = Builtin(b)
<1>1. PICK k \in 1 .. Len(builtins) : builtins[k] = b
  BY BuiltinsAre
<1>2. /\ \A i \in 1 .. Len(builtins) :
             All[i] = Builtin(builtins[i]) /\ All[i].name = builtins[i] /\ lower(builtins[i]) = builtins[i]
      /\ Len(builtins) \in Nat /\ Len(CustomList) \in Nat /\ Len(All) = Len(builtins) + Len(CustomList)
  BY AllIs, BuiltinsAre
<1>3. k \in 1 .. Len(All) /\ lower(All[k].name) = lower(n)
  BY <1>1, <1>2
<1>4. PICK i \in 1 .. Len(All) :
        /\ Find(n) = All[i] /\ lower(All[i].name) = lower(n)
        /\ \A j \in 1 .. Len(All) : lower(All[j].name) = lower(n) => i <= j
  BY <1>3, FindIs
<1>5. i \in 1 .. Len(builtins)
  BY <1>1, <1>2, <1>3, <1>4
<1>6. All[i] = Builtin(builtins[i]) /\ builtins[i] = b
  BY <1>2, <1>4, <1>5
<1> QED BY <1>4, <1>6

(* A program of the user's is found by its name.                           *)
LEMMA FindCustom ==
  ASSUME CatalogTypeOK, NEW e \in discoverUserPrograms, NEW n, lower(n) = lower(e.name)
  PROVE  Find(n) = e
<1>1. ~reserved(e.name)
  BY CustomIs
<1>2. PICK k \in 1 .. Len(CustomList) : CustomList[k] = e
  BY AllIs
<1>3. /\ \A i \in 1 .. Len(builtins) :
             /\ All[i] = Builtin(builtins[i]) /\ All[i].name = builtins[i] /\ lower(builtins[i]) = builtins[i]
             /\ builtins[i] \in Range(builtins)
      /\ \A i \in 1 .. Len(CustomList) :
             All[Len(builtins) + i] = CustomList[i] /\ CustomList[i] \in discoverUserPrograms
      /\ Len(builtins) \in Nat /\ Len(CustomList) \in Nat /\ Len(All) = Len(builtins) + Len(CustomList)
  BY AllIs, BuiltinsAre
<1>4. Len(builtins) + k \in 1 .. Len(All) /\ lower(All[Len(builtins) + k].name) = lower(n)
  BY <1>2, <1>3
<1>5. PICK i \in 1 .. Len(All) :
        /\ Find(n) = All[i] /\ lower(All[i].name) = lower(n)
        /\ \A j \in 1 .. Len(All) : lower(All[j].name) = lower(n) => i <= j
  BY <1>4, FindIs
<1>6. i \notin 1 .. Len(builtins)
  BY <1>1, <1>3, <1>5 DEF reserved
<1>7. i - Len(builtins) \in 1 .. Len(CustomList) /\ i = Len(builtins) + (i - Len(builtins))
  BY <1>3, <1>6
<1>8. All[i] \in discoverUserPrograms
  BY <1>3, <1>7
<1> QED BY <1>5, <1>8, DiscoveredIs

(* What is found is a built-in of that name or one of the user's programs. *)
LEMMA FoundIs ==
  ASSUME CatalogTypeOK, NEW n
  PROVE  \/ Find(n) = NoEntry
         \/ \E b \in Range(builtins) : Find(n) = Builtin(b) /\ lower(n) = b
         \/ Find(n) \in discoverUserPrograms /\ lower(Find(n).name) = lower(n)
<1>1. SUFFICES ASSUME Find(n) # NoEntry
               PROVE  \/ \E b \in Range(builtins) : Find(n) = Builtin(b) /\ lower(n) = b
                      \/ Find(n) \in discoverUserPrograms /\ lower(Find(n).name) = lower(n)
  OBVIOUS
<1>2. PICK i \in 1 .. Len(All) : Find(n) = All[i] /\ lower(All[i].name) = lower(n)
  BY <1>1, FindIs
<1>3. /\ \A j \in 1 .. Len(builtins) :
             /\ All[j] = Builtin(builtins[j]) /\ All[j].name = builtins[j] /\ lower(builtins[j]) = builtins[j]
             /\ builtins[j] \in Range(builtins)
      /\ \A j \in 1 .. Len(CustomList) :
             All[Len(builtins) + j] = CustomList[j] /\ CustomList[j] \in discoverUserPrograms
      /\ Len(builtins) \in Nat /\ Len(CustomList) \in Nat /\ Len(All) = Len(builtins) + Len(CustomList)
  BY AllIs, BuiltinsAre
<1>4. CASE i \in 1 .. Len(builtins)
  BY <1>2, <1>3, <1>4
<1>5. CASE i \notin 1 .. Len(builtins)
  <2>0. /\ Len(builtins) \in Nat /\ Len(CustomList) \in Nat
        /\ Len(All) = Len(builtins) + Len(CustomList)
    BY <1>3
  <2>1. i - Len(builtins) \in 1 .. Len(CustomList) /\ i = Len(builtins) + (i - Len(builtins))
    BY <2>0, <1>5
  <2>2. All[i] \in discoverUserPrograms
    BY <1>3, <2>1
  <2> QED BY <1>2, <2>2
<1> QED BY <1>4, <1>5

(* The listing and the lookup agree.                                       *)
LEMMA CatalogListed == CatalogTypeOK => ListedIsFound
<1> SUFFICES ASSUME CatalogTypeOK PROVE ListedIsFound
  OBVIOUS
<1>1. All \in Seq(Entries) /\ DOMAIN All = 1 .. Len(All)
  BY AllIs
<1>2. ASSUME NEW k \in 1 .. Len(All) PROVE Find(All[k].name) = All[k]
  <2>1. /\ Len(builtins) \in Nat /\ Len(CustomList) \in Nat
        /\ Len(All) = Len(builtins) + Len(CustomList)
    BY AllIs, BuiltinsAre
  <2>2. CASE k \in 1 .. Len(builtins)
    <3>1. /\ All[k] = Builtin(builtins[k]) /\ builtins[k] \in Range(builtins)
          /\ lower(builtins[k]) = builtins[k]
      BY <2>2, AllIs, BuiltinsAre
    <3>2. All[k].name = builtins[k]
      BY <3>1 DEF Builtin
    <3> QED BY <3>1, <3>2, FindBuiltin
  <2>3. CASE k \notin 1 .. Len(builtins)
    <3>1. k - Len(builtins) \in 1 .. Len(CustomList) /\ k = Len(builtins) + (k - Len(builtins))
      BY <2>1, <2>3
    <3>2. All[k] \in discoverUserPrograms
      BY <3>1, AllIs
    <3> QED BY <3>2, FindCustom
  <2> QED BY <2>2, <2>3
<1> QED BY <1>1, <1>2 DEF ListedIsFound

-----------------------------------------------------------------------------
(* Add and remove. *)

LibraryStep ==
  \/ \E p \in Procs, i \in Inputs, n \in OptNames, force \in BOOLEAN : AddBegin(p, i, n, force)
  \/ \E p \in Procs : \E name : RemoveBegin(p, name)
  \/ \E p \in Procs : Command(p)
  \/ \E edit \in HandEdits : EditByHand(edit)
  \/ UNCHANGED libraryVars

LEMMA NextIsLibraryStep == [MenuNext]_vars => LibraryStep
<1> SUFFICES ASSUME [MenuNext]_vars PROVE LibraryStep
  OBVIOUS
<1>0. MenuProc \in Procs /\ FALSE \in BOOLEAN
  BY MenuAssumption
<1>1. Quiet => LibraryStep
  BY DEF Quiet, LibraryStep, libraryVars
<1>2. CASE SubmitInput
  BY <1>0, <1>2 DEF SubmitInput, LibraryStep
<1>3. CASE ConfirmDelete
  BY <1>0, <1>3 DEF ConfirmDelete, LibraryStep
<1>4. CASE MenuCommand
  BY <1>0, <1>4 DEF MenuCommand, LibraryStep
<1>5. CASE Others
  <2>1. CASE \E p \in Procs \ {MenuProc} : Shell(p)
    BY <2>1 DEF Shell, LibraryStep
  <2>2. CASE \E edit \in HandEdits : EditByHand(edit)
    BY <2>2 DEF LibraryStep
  <2> QED BY <1>5, <2>1, <2>2 DEF Others
<1>6. CASE MoveCursor \/ LaunchPick \/ RunReturns \/ PickAction \/ QuitMenu \/ PressEnter
           \/ CancelPrompt \/ RefuseInput \/ SelectProgram \/ DeclineDelete \/ DeleteFindsNothing
  BY <1>1, <1>6
     DEF MoveCursor, LaunchPick, RunReturns, PickAction, QuitMenu, PressEnter, CancelPrompt,
         RefuseInput, SelectProgram, DeclineDelete, DeleteFindsNothing
<1>7. CASE UNCHANGED vars
  BY <1>7 DEF vars, LibraryStep, libraryVars
<1> QED BY <1>2, <1>3, <1>4, <1>5, <1>6, <1>7 DEF MenuNext, runMenu

JobRecords ==
  [at : {"idle", "done", "hex", "json", "rm_hex", "rm_json"}, name : Seq(Nat),
   input : Inputs \cup {NoFile}, dir : Dirs \cup {""}, stem : Stems \cup {<<>>}, clean : BOOLEAN]

Adding == {"hex", "json", "done"}
Removing == {"rm_hex", "rm_json"}

(* No command is about a built-in's file.                                  *)
JobOK(j) ==
  /\ j \in JobRecords
  /\ j.at \in Adding => j.input \in Inputs /\ j.stem = j.name
  /\ j.at \in Adding \cup Removing => j.dir \in Dirs /\ j.stem \in Stems /\ ~reserved(j.stem)

JobInv == job \in [Procs -> JobRecords] /\ \A p \in Procs : JobOK(job[p])

LEMMA IdleOK == JobOK(Idle)
BY DEF JobOK, JobRecords, Idle, Adding, Removing

(* What an update of one field leaves of a command.                        *)
Alike(j, k) == k.name = j.name /\ k.input = j.input /\ k.dir = j.dir /\ k.stem = j.stem

LEMMA JobAt ==
  ASSUME NEW j \in JobRecords, NEW at \in {"idle", "done", "hex", "json", "rm_hex", "rm_json"},
         NEW k, k = [j EXCEPT !.at = at]
  PROVE  k \in JobRecords /\ k.at = at /\ k.clean = j.clean /\ Alike(j, k)
<1>1. k \in JobRecords
  BY DEF JobRecords
<1>2. k.at = at
  BY DEF JobRecords
<1>3. k.clean = j.clean
  BY DEF JobRecords
<1>4. Alike(j, k)
  BY DEF JobRecords, Alike
<1> QED BY <1>1, <1>2, <1>3, <1>4

LEMMA JobUnclean ==
  ASSUME NEW j \in JobRecords, NEW k, k = [j EXCEPT !.clean = FALSE]
  PROVE  k \in JobRecords /\ k.at = j.at /\ k.clean = FALSE /\ Alike(j, k)
<1>1. k \in JobRecords
  BY DEF JobRecords
<1>2. k.at = j.at
  BY DEF JobRecords
<1>3. k.clean = FALSE
  BY DEF JobRecords
<1>4. Alike(j, k)
  BY DEF JobRecords, Alike
<1> QED BY <1>1, <1>2, <1>3, <1>4

LEMMA DisturbedOK == ASSUME NEW j, JobOK(j) PROVE JobOK(Disturbed(j))
<1>1. CASE j.at = "done"
  BY <1>1, IdleOK DEF Disturbed
<1>2. CASE j.at # "done"
  <2> DEFINE k == [j EXCEPT !.clean = FALSE]
  <2>1. Disturbed(j) = k
    BY <1>2 DEF Disturbed
  <2>2. j \in JobRecords
    BY DEF JobOK
  <2>3. k \in JobRecords /\ k.at = j.at /\ Alike(j, k)
    BY <2>2, JobUnclean
  <2> HIDE DEF k
  <2>4. JobOK(k)
    BY <2>3 DEF JobOK, Alike
  <2> QED BY <2>1, <2>4
<1> QED BY <1>1, <1>2

LEMMA ContinueOK ==
  ASSUME JobInv, NEW p \in Procs, NEW j, JobOK(j), Continue(p, j)
  PROVE  JobInv'
<1>1. \A q \in Procs : JobOK(job'[q])
  BY DisturbedOK DEF Continue, JobInv
<1>2. \A q \in Procs : job'[q] \in JobRecords
  BY <1>1 DEF JobOK
<1>3. job' \in [Procs -> JobRecords]
  BY <1>2 DEF Continue
<1> QED BY <1>1, <1>3 DEF JobInv

LEMMA ActiveDir == activeProgramDir \in Dirs
BY LibraryAssumption DEF activeProgramDir

(* What add and remove have checked when they begin.                       *)
LEMMA AddChecks ==
  ASSUME CatalogTypeOK, NEW i \in Inputs, NEW name, NEW force \in BOOLEAN,
         AddAllowed(i, name, force)
  PROVE  name \in Stems /\ ~reserved(name) /\ InputExists(i)
<1>1. name \in Stems /\ InputExists(i)
  BY DEF AddAllowed
<1>2. ASSUME reserved(name) PROVE FALSE
  <2>1. lower(name) \in Range(builtins)
    BY <1>2 DEF reserved
  <2>2. Find(name) = Builtin(lower(name))
    BY <2>1, FindBuiltin
  <2>3. Builtin(lower(name)) \in Entries /\ Builtin(lower(name)).kind = "builtin"
    BY <2>1, BuiltinsAre DEF Builtin, Entries, Words
  <2>4. Find(name) # NoEntry /\ Find(name).kind # "custom"
    BY <2>2, <2>3, CatalogAssumption
  <2> QED BY <2>4 DEF AddAllowed
<1> QED BY <1>1, <1>2

LEMMA RemoveChecks ==
  ASSUME CatalogTypeOK, NEW name, Find(name) # NoEntry, Find(name).kind = "custom"
  PROVE  Find(name) \in discoverUserPrograms /\ lower(Find(name).name) = lower(name)
<1>1. ASSUME NEW b \in Range(builtins), Find(name) = Builtin(b) PROVE FALSE
  BY <1>1 DEF Builtin
<1> QED BY <1>1, FoundIs

CounterOK == commands \in 0 .. MaxCommands /\ edits \in 0 .. MaxEdits

LibraryInv == CatalogTypeOK /\ JobInv /\ CounterOK

LEMMA LibraryInitInv == MenuInit => LibraryInv
<1> SUFFICES ASSUME MenuInit PROVE LibraryInv
  OBVIOUS
<1>1. LibraryInit
  BY DEF MenuInit
<1>2. CatalogTypeOK
  BY <1>1, LibraryAssumption DEF LibraryInit, CatalogTypeOK
<1>3. CounterOK
  BY <1>1, LibraryAssumption DEF LibraryInit, CounterOK
<1>4. \A p \in Procs : job[p] = Idle
  BY <1>1 DEF LibraryInit
<1>5. job \in [Procs -> JobRecords]
  BY <1>1, IdleOK DEF LibraryInit, JobOK
<1> QED BY <1>2, <1>3, <1>4, <1>5, IdleOK DEF LibraryInv, JobInv

LEMMA FileChangeTypes ==
  ASSUME CatalogTypeOK, NEW d \in Dirs, NEW s \in Stems
  PROVE  /\ \A c \in Contents \cup {NoFile} :
              [hex EXCEPT ![d][s] = c] \in [Dirs -> [Stems -> Contents \cup {NoFile}]]
         /\ \A m \in Metadata \cup {NoFile} :
              [meta EXCEPT ![d][s] = m] \in [Dirs -> [Stems -> Metadata \cup {NoFile}]]
BY DEF CatalogTypeOK

LEMMA WrittenType ==
  ASSUME CatalogTypeOK, NEW i \in Inputs, NEW d \in Dirs, NEW s \in Stems, InputExists(i)
  PROVE  Written(i, d, s) \in Contents
<1>1. CASE i.dir \in Dirs
  <2>1. i.base \in Stems /\ hex[i.dir][i.base] # NoFile
    BY <1>1, LibraryAssumption DEF InputExists, FileExists
  <2>2. hex[i.dir][i.base] \in Contents
    BY <1>1, <2>1 DEF CatalogTypeOK
  <2> QED BY <1>1, <2>2, LibraryAssumption DEF Written, AbsSameFile, InputContent
<1>2. CASE i.dir \notin Dirs
  <2>1. i.dir # d /\ i.content \in Contents
    BY <1>2, LibraryAssumption
  <2> QED BY <1>2, <2>1 DEF Written, AbsSameFile, InputContent
<1> QED BY <1>1, <1>2

LEMMA CatalogStep == LibraryInv /\ LibraryStep => CatalogTypeOK'
<1> SUFFICES ASSUME LibraryInv, LibraryStep PROVE CatalogTypeOK'
  OBVIOUS
<1>0. CatalogTypeOK /\ JobInv
  BY DEF LibraryInv
<1>1. ASSUME UNCHANGED <<hex, meta>> PROVE CatalogTypeOK'
  BY <1>0, <1>1 DEF CatalogTypeOK
<1>7. ASSUME NEW d \in Dirs, NEW s \in Stems, NEW c \in Contents \cup {NoFile},
             hex' = [hex EXCEPT ![d][s] = c], UNCHANGED meta
      PROVE  CatalogTypeOK'
  BY <1>0, <1>7, FileChangeTypes DEF CatalogTypeOK
<1>8. ASSUME NEW d \in Dirs, NEW s \in Stems, NEW m \in Metadata \cup {NoFile},
             meta' = [meta EXCEPT ![d][s] = m], UNCHANGED hex
      PROVE  CatalogTypeOK'
  BY <1>0, <1>8, FileChangeTypes DEF CatalogTypeOK
<1>2. CASE \E p \in Procs, i \in Inputs, n \in OptNames, force \in BOOLEAN : AddBegin(p, i, n, force)
  BY <1>1, <1>2 DEF AddBegin
<1>3. CASE \E p \in Procs : \E name : RemoveBegin(p, name)
  BY <1>1, <1>3 DEF RemoveBegin
<1>4. CASE \E edit \in HandEdits : EditByHand(edit)
  <2>1. PICK edit \in HandEdits : EditByHand(edit)
    BY <1>4
  <2>2. /\ edit.dir \in Dirs /\ edit.stem \in Stems
        /\ edit.hex \in Contents \cup {NoFile} /\ edit.meta \in Metadata \cup {NoFile}
    BY LibraryAssumption
  <2>3. /\ hex' = [hex EXCEPT ![edit.dir][edit.stem] = edit.hex]
        /\ meta' = [meta EXCEPT ![edit.dir][edit.stem] = edit.meta]
    BY <2>1 DEF EditByHand
  <2> QED BY <1>0, <2>2, <2>3, FileChangeTypes DEF CatalogTypeOK
<1>5. CASE \E p \in Procs : Command(p)
  <2>1. PICK p \in Procs : Command(p)
    BY <1>5
  <2> DEFINE j == job[p]
  <2>2. JobOK(j)
    BY <1>0 DEF JobInv
  <2>3. CASE AddHex(p)
    <3>1. /\ j.at \in Adding /\ InputExists(j.input) /\ UNCHANGED meta
          /\ hex' = [hex EXCEPT ![j.dir][j.stem] = Written(j.input, j.dir, j.stem)]
      BY <2>3 DEF AddHex, Adding
    <3>2. j.dir \in Dirs /\ j.stem \in Stems /\ j.input \in Inputs
      BY <2>2, <3>1 DEF JobOK
    <3>3. Written(j.input, j.dir, j.stem) \in Contents
      BY <1>0, <3>1, <3>2, WrittenType
    <3> HIDE DEF j
    <3> QED BY <1>7, <3>1, <3>2, <3>3
  <2>4. CASE AddJson(p)
    <3>1. /\ j.at \in Adding /\ UNCHANGED hex
          /\ meta' = [meta EXCEPT ![j.dir][j.stem] = [name |-> j.name, source |-> j.input.content]]
      BY <2>4 DEF AddJson, writeProgramMetadata, Adding
    <3>2. j.dir \in Dirs /\ j.stem \in Stems /\ j.input \in Inputs /\ j.stem = j.name
      BY <2>2, <3>1 DEF JobOK
    <3>3. [name |-> j.name, source |-> j.input.content] \in Metadata
      BY <3>2, LibraryAssumption
    <3> HIDE DEF j
    <3> QED BY <1>8, <3>1, <3>2, <3>3
  <2>5. CASE AddFails(p)
    <3>1. j.at \in Adding
      BY <2>5 DEF AddFails, Adding
    <3>2. j.dir \in Dirs /\ j.stem \in Stems
      BY <2>2, <3>1 DEF JobOK
    <3>3. \/ UNCHANGED <<hex, meta>>
          \/ UNCHANGED meta /\ hex' = [hex EXCEPT ![j.dir][j.stem] = "torn"]
          \/ UNCHANGED hex /\ meta' = [meta EXCEPT ![j.dir][j.stem] = NoFile]
      BY <2>5 DEF AddFails
    <3>4. "torn" \in Contents
      BY LibraryAssumption
    <3> HIDE DEF j
    <3> QED BY <1>1, <1>7, <1>8, <3>2, <3>3, <3>4
  <2>6. CASE RemoveHex(p) \/ RemoveJson(p)
    <3>1. j.at \in Removing
      BY <2>6 DEF RemoveHex, RemoveJson, Removing
    <3>2. j.dir \in Dirs /\ j.stem \in Stems
      BY <2>2, <3>1 DEF JobOK
    <3>3. \/ UNCHANGED meta /\ hex' = [hex EXCEPT ![j.dir][j.stem] = NoFile]
          \/ UNCHANGED hex /\ meta' = [meta EXCEPT ![j.dir][j.stem] = NoFile]
      BY <2>6 DEF RemoveHex, RemoveJson
    <3> HIDE DEF j
    <3> QED BY <1>7, <1>8, <3>2, <3>3
  <2>7. CASE RemoveFails(p)
    BY <1>1, <2>7 DEF RemoveFails
  <2> QED BY <2>1, <2>3, <2>4, <2>5, <2>6, <2>7 DEF Command
<1>6. CASE UNCHANGED libraryVars
  BY <1>1, <1>6 DEF libraryVars
<1> QED BY <1>2, <1>3, <1>4, <1>5, <1>6 DEF LibraryStep

LEMMA JobStep == LibraryInv /\ LibraryStep => JobInv'
<1> SUFFICES ASSUME LibraryInv, LibraryStep PROVE JobInv'
  OBVIOUS
<1>0. CatalogTypeOK /\ JobInv
  BY DEF LibraryInv
<1>1. CASE \E p \in Procs, i \in Inputs, n \in OptNames, force \in BOOLEAN : AddBegin(p, i, n, force)
  <2>1. PICK p \in Procs, i \in Inputs, n \in OptNames, force \in BOOLEAN : AddBegin(p, i, n, force)
    BY <1>1, Zenon
  <2> DEFINE name == ProgramName(i, n)
             clean == NameIsFree(name)
             j == [at |-> "hex", name |-> name, input |-> i, dir |-> activeProgramDir,
                   stem |-> name, clean |-> clean]
  <2>2. AddAllowed(i, name, force) /\ Continue(p, j)
    BY <2>1, Zenon DEF AddBegin
  <2>3. name \in Stems /\ ~reserved(name) /\ name \in Seq(Nat)
    BY <1>0, <2>2, AddChecks, CatalogAssumption
  <2>4. clean \in BOOLEAN
    BY Zenon DEF NameIsFree
  <2>5. JobOK(j)
    <3> HIDE DEF name, clean
    <3> QED BY <2>3, <2>4, ActiveDir DEF JobOK, JobRecords, Adding, Removing
  <2> HIDE DEF j
  <2> QED BY <1>0, <2>2, <2>5, ContinueOK
<1>2. CASE \E p \in Procs : \E name : RemoveBegin(p, name)
  <2>0. PICK p \in Procs : \E name : RemoveBegin(p, name)
    BY <1>2
  <2>1. PICK name : RemoveBegin(p, name)
    BY <2>0
  <2> DEFINE e == Find(name)
             j == [at |-> "rm_hex", name |-> e.name, input |-> NoFile, dir |-> e.dir,
                   stem |-> e.stem, clean |-> TRUE]
  <2>2. e # NoEntry /\ e.kind = "custom" /\ Continue(p, j)
    BY <2>1, Zenon DEF RemoveBegin
  <2>3. /\ e \in Entries /\ ~reserved(e.stem) /\ e.dir \in Dirs /\ e.stem \in Stems
    BY <1>0, <2>2, RemoveChecks, CustomIs
  <2>4. e.name \in Seq(Nat)
    BY <2>3 DEF Entries
  <2>5. JobOK(j)
    <3> HIDE DEF e
    <3> QED BY <2>3, <2>4 DEF JobOK, JobRecords, Adding, Removing
  <2> HIDE DEF j
  <2> QED BY <1>0, <2>2, <2>5, ContinueOK
<1>3. CASE \E edit \in HandEdits : EditByHand(edit)
  <2>1. job' = [q \in Procs |-> Disturbed(job[q])]
    BY <1>3 DEF EditByHand
  <2>2. \A q \in Procs : JobOK(job'[q])
    BY <1>0, <2>1, DisturbedOK DEF JobInv
  <2>3. \A q \in Procs : job'[q] \in JobRecords
    BY <2>2 DEF JobOK
  <2> QED BY <2>1, <2>2, <2>3 DEF JobInv
<1>4. CASE \E p \in Procs : Command(p)
  <2>1. PICK p \in Procs : Command(p)
    BY <1>4
  <2> DEFINE j == job[p]
  <2>2. JobOK(j)
    BY <1>0 DEF JobInv
  <2>3. j \in JobRecords
    BY <2>2 DEF JobOK
  <2>4. ASSUME j.at \in Adding, NEW at \in Adding, NEW k, k = [j EXCEPT !.at = at] PROVE JobOK(k)
    <3>1. k \in JobRecords /\ k.at = at /\ Alike(j, k)
      <4> HIDE DEF j
      <4> QED BY <2>3, <2>4, JobAt DEF Adding
    <3> QED BY <2>2, <2>4, <3>1 DEF JobOK, Alike, Adding, Removing
  <2>5. ASSUME j.at \in Removing, NEW at \in Removing, NEW k, k = [j EXCEPT !.at = at] PROVE JobOK(k)
    <3>1. k \in JobRecords /\ k.at = at /\ Alike(j, k)
      <4> HIDE DEF j
      <4> QED BY <2>3, <2>5, JobAt DEF Removing
    <3> QED BY <2>2, <2>5, <3>1 DEF JobOK, Alike, Adding, Removing
  <2>6. \/ Continue(p, Idle)
        \/ j.at \in Adding /\ \E at \in Adding : Continue(p, [j EXCEPT !.at = at])
        \/ j.at \in Removing /\ \E at \in Removing : Continue(p, [j EXCEPT !.at = at])
    <3>1. CASE AddHex(p)
      BY <3>1 DEF AddHex, Adding
    <3>2. CASE AddJson(p)
      BY <3>2 DEF AddJson, Adding
    <3>3. CASE AddFails(p) \/ RemoveJson(p) \/ RemoveFails(p)
      BY <3>3 DEF AddFails, RemoveJson, RemoveFails
    <3>4. CASE RemoveHex(p)
      BY <3>4 DEF RemoveHex, Removing
    <3> QED BY <2>1, <3>1, <3>2, <3>3, <3>4 DEF Command
  <2>7. \/ Continue(p, Idle)
        \/ \E k : JobOK(k) /\ Continue(p, k)
    <3> HIDE DEF j
    <3> QED BY <2>4, <2>5, <2>6
  <2> QED BY <1>0, <2>7, IdleOK, ContinueOK
<1>5. CASE UNCHANGED libraryVars
  BY <1>0, <1>5 DEF libraryVars, JobInv
<1> QED BY <1>1, <1>2, <1>3, <1>4, <1>5 DEF LibraryStep

LEMMA CounterStep == LibraryInv /\ LibraryStep => CounterOK'
<1> SUFFICES ASSUME LibraryInv, LibraryStep PROVE CounterOK'
  OBVIOUS
<1>1. commands \in 0 .. MaxCommands /\ edits \in 0 .. MaxEdits /\ MaxCommands \in Nat /\ MaxEdits \in Nat
  BY LibraryAssumption DEF LibraryInv, CounterOK
<1>2. ASSUME UNCHANGED <<commands, edits>> PROVE CounterOK'
  BY <1>1, <1>2 DEF CounterOK
<1>3. ASSUME commands < MaxCommands, commands' = commands + 1, UNCHANGED edits PROVE CounterOK'
  BY <1>1, <1>3 DEF CounterOK
<1>4. CASE \E p \in Procs, i \in Inputs, n \in OptNames, force \in BOOLEAN : AddBegin(p, i, n, force)
  <2>1. commands < MaxCommands /\ commands' = commands + 1 /\ UNCHANGED edits
    BY <1>4, Zenon DEF AddBegin
  <2> QED BY <1>3, <2>1
<1>5. CASE \E p \in Procs : \E name : RemoveBegin(p, name)
  <2>1. commands < MaxCommands /\ commands' = commands + 1 /\ UNCHANGED edits
    BY <1>5, Zenon DEF RemoveBegin
  <2> QED BY <1>3, <2>1
<1>6. CASE \E p \in Procs : Command(p)
  BY <1>2, <1>6 DEF Command, AddHex, AddJson, AddFails, RemoveHex, RemoveJson, RemoveFails
<1>7. CASE \E edit \in HandEdits : EditByHand(edit)
  BY <1>1, <1>7 DEF EditByHand, CounterOK
<1>8. CASE UNCHANGED libraryVars
  BY <1>2, <1>8 DEF libraryVars
<1> QED BY <1>4, <1>5, <1>6, <1>7, <1>8 DEF LibraryStep

LEMMA LibraryInvStep == LibraryInv /\ [MenuNext]_vars => LibraryInv'
BY NextIsLibraryStep, CatalogStep, JobStep, CounterStep DEF LibraryInv

(* Every file a command changes is the one it is about.                    *)
LEMMA CommandFiles ==
  ASSUME NEW p \in Procs, Command(p)
  PROVE  \/ UNCHANGED <<hex, meta>>
         \/ /\ job[p].at \in Adding \cup Removing
            /\ \/ UNCHANGED meta /\ \E c : hex' = [hex EXCEPT ![job[p].dir][job[p].stem] = c]
               \/ UNCHANGED hex /\ \E m : meta' = [meta EXCEPT ![job[p].dir][job[p].stem] = m]
<1> DEFINE d == job[p].dir
           s == job[p].stem
<1>1. CASE AddHex(p)
  <2>1. /\ job[p].at \in Adding /\ UNCHANGED meta
        /\ hex' = [hex EXCEPT ![d][s] = Written(job[p].input, d, s)]
    BY <1>1 DEF AddHex, Adding
  <2> HIDE DEF d, s
  <2> QED BY <2>1 DEF d, s
<1>2. CASE AddJson(p)
  <2>1. /\ job[p].at \in Adding /\ UNCHANGED hex
        /\ meta' = [meta EXCEPT ![d][s] = [name |-> job[p].name, source |-> job[p].input.content]]
    BY <1>2 DEF AddJson, Adding, writeProgramMetadata
  <2> HIDE DEF d, s
  <2> QED BY <2>1 DEF d, s
<1>3. CASE AddFails(p)
  <2>1. job[p].at \in Adding
    BY <1>3 DEF AddFails, Adding
  <2>2. \/ UNCHANGED <<hex, meta>>
        \/ UNCHANGED meta /\ hex' = [hex EXCEPT ![d][s] = "torn"]
        \/ UNCHANGED hex /\ meta' = [meta EXCEPT ![d][s] = NoFile]
    BY <1>3 DEF AddFails
  <2> HIDE DEF d, s
  <2> QED BY <2>1, <2>2 DEF d, s
<1>4. CASE RemoveHex(p) \/ RemoveJson(p)
  <2>1. job[p].at \in Removing
    BY <1>4 DEF RemoveHex, RemoveJson, Removing
  <2>2. \/ UNCHANGED meta /\ hex' = [hex EXCEPT ![d][s] = NoFile]
        \/ UNCHANGED hex /\ meta' = [meta EXCEPT ![d][s] = NoFile]
    BY <1>4 DEF RemoveHex, RemoveJson
  <2> HIDE DEF d, s
  <2> QED BY <2>1, <2>2 DEF d, s
<1>5. CASE RemoveFails(p)
  BY <1>5 DEF RemoveFails
<1> QED BY <1>1, <1>2, <1>3, <1>4, <1>5 DEF Command

(* A change of one file leaves the others.                                 *)
LEMMA OtherFilesStay ==
  ASSUME CatalogTypeOK, NEW d \in Dirs, NEW s \in Stems,
         \/ UNCHANGED meta /\ \E c : hex' = [hex EXCEPT ![d][s] = c]
         \/ UNCHANGED hex /\ \E m : meta' = [meta EXCEPT ![d][s] = m]
  PROVE  \A e \in Dirs, t \in Stems :
           <<e, t>> # <<d, s>> => hex'[e][t] = hex[e][t] /\ meta'[e][t] = meta[e][t]
<1> SUFFICES ASSUME NEW e \in Dirs, NEW t \in Stems, <<e, t>> # <<d, s>>
             PROVE  hex'[e][t] = hex[e][t] /\ meta'[e][t] = meta[e][t]
  OBVIOUS
<1>1. ASSUME NEW c, hex' = [hex EXCEPT ![d][s] = c] PROVE hex'[e][t] = hex[e][t]
  BY <1>1 DEF CatalogTypeOK
<1>2. ASSUME NEW m, meta' = [meta EXCEPT ![d][s] = m] PROVE meta'[e][t] = meta[e][t]
  BY <1>2 DEF CatalogTypeOK
<1> QED BY <1>1, <1>2

(* add.go and remove.go: for every library, whatever its sidecars claim    *)
(* and however often --force is given, no command makes, changes or        *)
(* deletes a file that stands in for a built-in.                           *)
THEOREM BuiltinsStay == MenuSpec => BuiltinsKept
<1>1. LibraryInv /\ [MenuNext]_vars =>
        [(files' # files /\ edits' = edits) =>
           \A d \in Dirs, s \in Stems : reserved(s) => /\ hex'[d][s] = hex[d][s]
                                                       /\ meta'[d][s] = meta[d][s]]_files
  <2> SUFFICES ASSUME LibraryInv, LibraryStep, files' # files, edits' = edits,
                      NEW d \in Dirs, NEW s \in Stems, reserved(s)
               PROVE  hex'[d][s] = hex[d][s] /\ meta'[d][s] = meta[d][s]
    BY NextIsLibraryStep
  <2>1. PICK p \in Procs : Command(p)
    <3>1. ~\E p \in Procs, i \in Inputs, n \in OptNames, force \in BOOLEAN : AddBegin(p, i, n, force)
      BY DEF AddBegin, files
    <3>2. ~\E p \in Procs : \E name : RemoveBegin(p, name)
      BY DEF RemoveBegin, files
    <3>3. ASSUME NEW edit, EditByHand(edit) PROVE FALSE
      <4>1. edits \in Nat
        BY LibraryAssumption DEF LibraryInv, CounterOK
      <4>2. edits' = edits + 1
        BY <3>3 DEF EditByHand
      <4> QED BY <4>1, <4>2
    <3>4. ~UNCHANGED libraryVars
      BY DEF libraryVars, files
    <3> QED BY <3>1, <3>2, <3>3, <3>4 DEF LibraryStep
  <2> DEFINE jd == job[p].dir
             js == job[p].stem
  <2>2. /\ job[p].at \in Adding \cup Removing
        /\ \/ UNCHANGED meta /\ \E c : hex' = [hex EXCEPT ![jd][js] = c]
           \/ UNCHANGED hex /\ \E m : meta' = [meta EXCEPT ![jd][js] = m]
    BY <2>1, CommandFiles DEF files
  <2>3. jd \in Dirs /\ js \in Stems /\ ~reserved(js)
    BY <2>2 DEF LibraryInv, JobInv, JobOK
  <2>4. <<d, s>> # <<jd, js>>
    BY <2>3
  <2>5. CatalogTypeOK
    BY DEF LibraryInv
  <2> HIDE DEF jd, js
  <2>6. \A e \in Dirs, t \in Stems :
          <<e, t>> # <<jd, js>> => hex'[e][t] = hex[e][t] /\ meta'[e][t] = meta[e][t]
    BY <2>2, <2>3, <2>5, OtherFilesStay
  <2> QED BY <2>4, <2>6
<1> QED BY <1>1, LibraryInitInv, LibraryInvStep, PTL DEF MenuSpec, BuiltinsKept

(* catalog.go: for all files the directories may hold, every program that  *)
(* is listed is the one its name finds.                                    *)
THEOREM ListedAreFound == MenuSpec => []ListedIsFound
<1>1. LibraryInv => ListedIsFound
  BY CatalogListed DEF LibraryInv
<1> QED BY <1>1, LibraryInitInv, LibraryInvStep, PTL DEF MenuSpec

-----------------------------------------------------------------------------
(* Suggestions. *)

LEMMA NamesAre ==
  ASSUME CatalogTypeOK
  PROVE  /\ Range(catalogNames) \subseteq Words /\ IsFiniteSet(Range(catalogNames))
         /\ \A n \in Range(catalogNames) : lower(n) \in Names
<1> DEFINE D == 1 .. Len(All)
           f == [i \in D |-> All[i].name]
<1>1. All \in Seq(Entries) /\ DOMAIN All = D /\ Len(All) \in Nat
  BY AllIs
<1>2. catalogNames = f
  BY <1>1 DEF catalogNames
<1>3. ASSUME NEW i \in D
      PROVE  f[i] \in Words /\ f[i] \in Stems \cup Range(builtins) \cup {m.name : m \in Metadata}
  <2>1. /\ Len(builtins) \in Nat /\ Len(CustomList) \in Nat
        /\ Len(All) = Len(builtins) + Len(CustomList)
    BY AllIs, BuiltinsAre
  <2>2. CASE i \in 1 .. Len(builtins)
    BY <2>2, AllIs, BuiltinsAre
  <2>3. CASE i \notin 1 .. Len(builtins)
    <3>1. i - Len(builtins) \in 1 .. Len(CustomList) /\ i = Len(builtins) + (i - Len(builtins))
      BY <2>1, <2>3
    <3>2. All[i] \in discoverUserPrograms
      BY <3>1, AllIs
    <3>3. PICK g \in Candidates : All[i] = Custom(g)
      BY <3>2, DiscoveredIs
    <3>4. g \in ProgramFiles /\ f[i] = NameOf(g)
      BY <3>3, CandidatesAre DEF Custom
    <3>5. g.stem \in Stems /\ meta[g.dir][g.stem] \in Metadata \cup {NoFile} /\ NameOf(g) \in Words
      BY <3>4, NameOfIs DEF ProgramFiles, CatalogTypeOK
    <3>6. NameOf(g) \in Stems \cup {m.name : m \in Metadata}
      BY <3>5 DEF NameOf
    <3> QED BY <3>4, <3>5, <3>6
  <2> QED BY <2>2, <2>3
<1>4. DOMAIN f = D
  OBVIOUS
<1> HIDE DEF f
<1>5. IsFiniteSet(D)
  BY <1>1, FS_Interval, 1 \in Int
<1> HIDE DEF D
<1>6. Range(f) = {f[i] : i \in D}
  BY <1>4 DEF Range
<1>7. Range(f) \subseteq Words /\ \A n \in Range(f) : lower(n) \in Names
  BY <1>3, <1>6 DEF Names
<1>8. IsFiniteSet(Range(f))
  <2>1. f \in [D -> Range(f)] 
    BY <1>2, <1>4, <1>6 DEF f
  <2>2. f \in Surjection(D, Range(f))
    BY <2>1, <1>6 DEF Surjection
  <2> QED BY <2>2, <1>5, FS_Surjection
<1> QED BY <1>2, <1>7, <1>8

(* The documented budget is never below that of the code.                  *)
LEMMA BudgetsOrdered ==
  ASSUME NEW w \in Words
  PROVE  documentedBudget(w) \in Nat /\ distBudget(w) <= documentedBudget(w)
<1> DEFINE h == Len(w) \div 2 + 1
           u == (Len(w) + 1) \div 2 + 1
<1>1. h \in Nat /\ u \in Nat /\ h <= u
  <2>1. Len(w) \in Nat
    BY DEF Words
  <2> QED BY <2>1
<1> HIDE DEF h, u
<1>2. /\ Min({h, 3}) \in {h, 3} /\ Min({h, 3}) <= h /\ Min({h, 3}) <= 3
      /\ Min({u, 3}) \in {u, 3}
  <2>1. {h, 3} \in SUBSET Nat /\ {h, 3} # {} /\ {u, 3} \in SUBSET Nat /\ {u, 3} # {}
    BY <1>1
  <2> QED BY <2>1, MinIs
<1>3. Min({u, 3}) \in Nat /\ Min({h, 3}) <= Min({u, 3})
  BY <1>1, <1>2
<1> QED BY <1>3 DEF distBudget, documentedBudget, h, u

LEMMA EligibleIsRelated ==
  ASSUME NEW w \in Typed, NEW n \in Words, lower(n) \in Names
  PROVE  /\ Eligible(lower(w), lower(n)) <=> Related(w, lower(n), Near[w])
         /\ Related(w, lower(n), Near[w]) => Related(w, lower(n), NearOrDocumented[w])
<1> DEFINE t == lower(w)
           c == lower(n)
           A == Range(c)
           k == distBudget(w)
<1>1. w \in Words /\ t \in Words /\ c \in Words
  BY LibraryAssumption, LowerType DEF Words
<1>2. k \in Nat /\ distBudget(t) = k
  BY <1>1, BudgetType
<1>3. A \in SUBSET Nat /\ \A j \in 1 .. Len(c) : c[j] \in A
  BY <1>1 DEF Words, Range
<1>4. levenshtein(t, c) <= k <=> c \in Within(t, k, A)
  <2> HIDE DEF t, c, A, k
  <2> QED BY <1>1, <1>2, <1>3, TableIsDistance
<1>5. c \in Near[w] <=> c \in Within(t, k, A)
  BY DEF Near
<1> DEFINE d == documentedBudget(w)
<1>6. d \in Nat /\ k <= d
  BY <1>1, BudgetsOrdered
<1>7. levenshtein(t, c) <= d <=> c \in Within(t, d, A)
  <2> HIDE DEF t, c, A, d
  <2> QED BY <1>1, <1>3, <1>6, TableIsDistance
<1>8. c \in NearOrDocumented[w] <=> c \in Within(t, d, A)
  BY DEF NearOrDocumented
<1>9. levenshtein(t, c) \in Int
  <2> HIDE DEF t, c
  <2> QED BY <1>1, DistanceType
<1> HIDE DEF t, c, A, k, d
<1>10. Eligible(t, c) <=> Related(w, c, Near[w])
  BY <1>2, <1>4, <1>5 DEF Eligible, Related, t
<1>11. c \in Near[w] => c \in NearOrDocumented[w]
  BY <1>2, <1>4, <1>5, <1>6, <1>7, <1>8, <1>9
<1>12. Related(w, c, Near[w]) => Related(w, c, NearOrDocumented[w])
  BY <1>11 DEF Related
<1> QED BY <1>10, <1>12 DEF t, c

LEMMA SuggestionsHold == CatalogTypeOK => SuggestionsMatch
<1> SUFFICES ASSUME CatalogTypeOK, NEW w \in Typed, w # <<>>, Find(w) = NoEntry
             PROVE  LET s == Resolve(w, {}).suggest
                        names == Range(catalogNames)
                    IN /\ IsInjective(s) /\ Len(s) <= 3 /\ Range(s) \subseteq names
                       /\ \A n \in Range(s) : Related(w, lower(n), NearOrDocumented[w])
                       /\ Len(s) < 3 =>
                            {n \in names : Related(w, lower(n), Near[w])} \subseteq Range(s)
  BY DEF SuggestionsMatch
<1> DEFINE C == Range(catalogNames)
           s == Closest(w, C, 3)
<1>1. w \in Words
  BY LibraryAssumption DEF Words
<1>2. Resolve(w, {}).suggest = s
  BY DEF Resolve
<1>3. C \in SUBSET Words /\ IsFiniteSet(C) /\ \A n \in C : lower(n) \in Names
  BY NamesAre
<1>4. SuggestedFrom(s, w, C, 3)
  <2> HIDE DEF C
  <2> QED BY <1>1, <1>3, ClosestIs
<1>5. /\ {c \in C : Eligible(lower(w), lower(c))} = {n \in C : Related(w, lower(n), Near[w])}
      /\ \A n \in C : Related(w, lower(n), Near[w]) => Related(w, lower(n), NearOrDocumented[w])
  <2> HIDE DEF C
  <2> QED BY <1>3, EligibleIsRelated
<1> HIDE DEF C, s
<1> QED BY <1>2, <1>4, <1>5 DEF SuggestedFrom, C

(* suggest.go, Closest, for all names that may be typed and every library: *)
(* what is suggested is related to it, with a table that counts as one     *)
(* does by hand; nothing twice, and nothing left out but for three others. *)
THEOREM SuggestionsAreRelated == MenuSpec => []SuggestionsMatch
<1>1. LibraryInv => SuggestionsMatch
  BY SuggestionsHold DEF LibraryInv
<1> QED BY <1>1, LibraryInitInv, LibraryInvStep, PTL DEF MenuSpec

-----------------------------------------------------------------------------
(* An add that nobody disturbs. *)

FileOf(j) == [dir |-> j.dir, stem |-> j.stem]

(* No other file of that name comes first.                                 *)
NameClear(j) ==
  \A g \in Candidates : lower(NameOf(g)) = lower(j.name) =>
    g = FileOf(j) \/ ScannedBefore(FileOf(j), g)

(* What an add has done so far is still there.                             *)
AddOK(j) ==
  (j.at \in Adding /\ j.clean) =>
    /\ NameClear(j)
    /\ j.at # "hex" => /\ hex[j.dir][j.stem] # NoFile
                       /\ j.input.dir \notin Dirs => hex[j.dir][j.stem] = j.input.content
    /\ j.at = "done" => meta[j.dir][j.stem] = [name |-> j.name, source |-> j.input.content]

AddInv == \A p \in Procs : AddOK(job[p])

LEMMA FileAgrees ==
  ASSUME NEW f \in ProgramFiles, hex'[f.dir][f.stem] = hex[f.dir][f.stem],
         meta'[f.dir][f.stem] = meta[f.dir][f.stem]
  PROVE  NameOf(f)' = NameOf(f) /\ (f \in Candidates' <=> f \in Candidates)
<1>1. NameOf(f)' = NameOf(f)
  BY DEF NameOf
<1>2. f \in HexFiles' <=> f \in HexFiles
  BY DEF HexFiles
<1>3. f \in Candidates' <=> f \in HexFiles' /\ ~reserved(f.stem) /\ ~reserved(NameOf(f)')
  BY DEF Candidates
<1>4. f \in Candidates <=> f \in HexFiles /\ ~reserved(f.stem) /\ ~reserved(NameOf(f))
  BY DEF Candidates
<1> QED BY <1>1, <1>2, <1>3, <1>4

LEMMA ClearStays ==
  ASSUME NEW j, NameClear(j),
         \A e \in Dirs, t \in Stems :
           <<e, t>> # <<j.dir, j.stem>> => hex'[e][t] = hex[e][t] /\ meta'[e][t] = meta[e][t]
  PROVE  NameClear(j)'
<1> SUFFICES ASSUME NEW g \in Candidates', lower(NameOf(g)') = lower(j.name)
             PROVE  g = FileOf(j) \/ ScannedBefore(FileOf(j), g)
  BY DEF NameClear
<1>1. g \in ProgramFiles
  BY DEF Candidates, HexFiles, ProgramFiles
<1>2. CASE g.dir = j.dir /\ g.stem = j.stem
  BY <1>1, <1>2 DEF ProgramFiles, FileOf
<1>3. CASE ~(g.dir = j.dir /\ g.stem = j.stem)
  <2>1. g.dir \in Dirs /\ g.stem \in Stems /\ <<g.dir, g.stem>> # <<j.dir, j.stem>>
    BY <1>1, <1>3 DEF ProgramFiles
  <2>2. hex'[g.dir][g.stem] = hex[g.dir][g.stem] /\ meta'[g.dir][g.stem] = meta[g.dir][g.stem]
    BY <2>1
  <2>3. NameOf(g)' = NameOf(g) /\ g \in Candidates
    BY <1>1, <2>2, FileAgrees
  <2> QED BY <2>3 DEF NameClear
<1> QED BY <1>2, <1>3

LEMMA AddOKStays == ASSUME UNCHANGED <<hex, meta>>, NEW j, AddOK(j) PROVE AddOK(j)'
<1>1. NameClear(j) => NameClear(j)'
  BY ClearStays
<1> QED BY <1>1 DEF AddOK

(* NameIsFree looks at what is found, which is the first of the files of   *)
(* that name.                                                              *)
LEMMA FreeIsClear ==
  ASSUME CatalogTypeOK, NEW j, NameIsFree(j.name), j.dir = activeProgramDir, j.stem = j.name
  PROVE  NameClear(j)
<1> SUFFICES ASSUME NEW g \in Candidates, lower(NameOf(g)) = lower(j.name)
             PROVE  g = FileOf(j) \/ ScannedBefore(FileOf(j), g)
  BY DEF NameClear
<1>1. PICK f \in Candidates : FirstOfName(f) /\ lower(NameOf(f)) = lower(NameOf(g))
  BY FirstExists
<1>2. Custom(f) \in discoverUserPrograms /\ Custom(f).name = NameOf(f)
  BY <1>1, DiscoveredIs DEF Custom
<1>3. Find(j.name) = Custom(f)
  BY <1>1, <1>2, FindCustom
<1>4. Custom(f) # NoEntry
  BY <1>2, CustomIs, CatalogAssumption
<1>5. f.dir = j.dir /\ f.stem = j.stem
  BY <1>3, <1>4 DEF NameIsFree, Custom
<1>6. f \in ProgramFiles /\ g \in ProgramFiles
  BY CandidatesAre
<1>7. f = FileOf(j)
  BY <1>5, <1>6 DEF FileOf, ProgramFiles
<1>8. ~ScannedBefore(g, f)
  BY <1>1 DEF FirstOfName
<1> QED BY <1>6, <1>7, <1>8, ScanOrderIs

(* Commands of others leave an add alone or make it unclean.               *)
LEMMA DisturbedClear == ASSUME NEW j \in JobRecords PROVE AddOK(Disturbed(j))'
<1>1. CASE j.at = "done"
  BY <1>1 DEF Disturbed, Idle, AddOK, Adding
<1>2. CASE j.at # "done"
  <2> DEFINE k == [j EXCEPT !.clean = FALSE]
  <2>1. k.clean = FALSE
    BY JobUnclean
  <2>2. Disturbed(j) = k
    BY <1>2 DEF Disturbed
  <2> HIDE DEF k
  <2> QED BY <2>1, <2>2 DEF AddOK
<1> QED BY <1>1, <1>2

LEMMA ContinueClear ==
  ASSUME JobInv, AddInv, NEW p \in Procs, NEW j, Continue(p, j), AddOK(j)'
  PROVE  AddInv'
<1>1. ASSUME NEW q \in Procs, NEW k, k = job'[q] PROVE AddOK(k)'
  <2>1. k = IF q = p THEN j ELSE IF files' = files THEN job[q] ELSE Disturbed(job[q])
    BY <1>1 DEF Continue
  <2>2. CASE q = p
    <3>1. k = j
      BY <2>1, <2>2
    <3> QED BY <3>1 DEF AddOK, NameClear, FileOf
  <2>3. CASE q # p /\ files' = files
    <3>1. UNCHANGED <<hex, meta>> /\ AddOK(job[q]) /\ k = job[q]
      BY <2>1, <2>3 DEF files, AddInv
    <3>2. AddOK(k)
      BY <3>1
    <3> QED BY <3>1, <3>2, AddOKStays
  <2>4. CASE q # p /\ files' # files
    <3>1. job[q] \in JobRecords /\ k = Disturbed(job[q])
      BY <2>1, <2>4 DEF JobInv
    <3>2. ASSUME NEW i \in JobRecords, k = Disturbed(i) PROVE AddOK(k)'
      <4>1. AddOK(Disturbed(i))'
        BY DisturbedClear
      <4> DEFINE d == Disturbed(i)
      <4>2. AddOK(d)' /\ k = d
        BY <3>2, <4>1
      <4> HIDE DEF d
      <4> QED BY <4>2 DEF AddOK, NameClear, FileOf
    <3> QED BY <3>1, <3>2
  <2> QED BY <2>2, <2>3, <2>4
<1> QED BY <1>1 DEF AddInv, AddOK, NameClear, FileOf

LEMMA AddInvStep == LibraryInv /\ AddInv /\ LibraryStep => AddInv'
<1> SUFFICES ASSUME LibraryInv, AddInv, LibraryStep PROVE AddInv'
  OBVIOUS
<1>0. CatalogTypeOK /\ JobInv
  BY DEF LibraryInv
<1>1. \A j : (j.at \notin Adding \/ ~j.clean) => AddOK(j)'
  BY DEF AddOK
<1>2. CASE \E p \in Procs, i \in Inputs, n \in OptNames, force \in BOOLEAN : AddBegin(p, i, n, force)
  <2>1. PICK p \in Procs, i \in Inputs, n \in OptNames, force \in BOOLEAN : AddBegin(p, i, n, force)
    BY <1>2, Zenon
  <2> DEFINE name == ProgramName(i, n)
             clean == NameIsFree(name)
             j == [at |-> "hex", name |-> name, input |-> i, dir |-> activeProgramDir,
                   stem |-> name, clean |-> clean]
  <2>2. Continue(p, j) /\ UNCHANGED <<hex, meta>>
    BY <2>1, Zenon DEF AddBegin
  <2>3. j.at = "hex" /\ j.name = name /\ j.dir = activeProgramDir /\ j.stem = name
    OBVIOUS
  <2>4. j.clean => NameIsFree(j.name)
    BY Zenon
  <2> HIDE DEF j, name, clean
  <2>5. PICK k : k = j
    OBVIOUS
  <2>6. k.clean => NameClear(k)
    BY <1>0, <2>3, <2>4, <2>5, FreeIsClear
  <2>7. AddOK(k)
    BY <2>3, <2>5, <2>6 DEF AddOK
  <2>8. AddOK(k)'
    BY <2>2, <2>7, AddOKStays
  <2> QED BY <1>0, <2>2, <2>5, <2>8, ContinueClear
<1>3. CASE \E p \in Procs : \E name : RemoveBegin(p, name)
  <2>0. PICK p \in Procs : \E name : RemoveBegin(p, name)
    BY <1>3
  <2>1. PICK name : RemoveBegin(p, name)
    BY <2>0
  <2> DEFINE e == Find(name)
             j == [at |-> "rm_hex", name |-> e.name, input |-> NoFile, dir |-> e.dir,
                   stem |-> e.stem, clean |-> TRUE]
  <2>2. Continue(p, j)
    BY <2>1, Zenon DEF RemoveBegin
  <2>3. j.at \notin Adding
    BY DEF Adding
  <2> HIDE DEF j
  <2> QED BY <1>0, <1>1, <2>2, <2>3, ContinueClear
<1>4. CASE \E edit \in HandEdits : EditByHand(edit)
  <2>1. job' = [q \in Procs |-> Disturbed(job[q])]
    BY <1>4 DEF EditByHand
  <2>2. ASSUME NEW q \in Procs, NEW k, k = job'[q] PROVE AddOK(k)'
    <3>1. job[q] \in JobRecords /\ k = Disturbed(job[q])
      BY <1>0, <2>1, <2>2 DEF JobInv
    <3>2. ASSUME NEW i \in JobRecords, k = Disturbed(i) PROVE AddOK(k)'
      <4>1. AddOK(Disturbed(i))'
        BY DisturbedClear
      <4> DEFINE d == Disturbed(i)
      <4>2. AddOK(d)' /\ k = d
        BY <3>2, <4>1
      <4> HIDE DEF d
      <4> QED BY <4>2 DEF AddOK, NameClear, FileOf
    <3> QED BY <3>1, <3>2
  <2> QED BY <2>2 DEF AddInv, AddOK, NameClear, FileOf
<1>5. CASE \E p \in Procs : Command(p)
  <2>1. PICK p \in Procs : Command(p)
    BY <1>5
  <2>2. PICK j \in JobRecords : j = job[p]
    BY <1>0 DEF JobInv
  <2>3. JobOK(j) /\ AddOK(j)
    BY <1>0, <2>2 DEF JobInv, AddInv
  <2>4. AddOK(Idle)'
    BY <1>1 DEF Idle, Adding
  <2>5. CASE AddHex(p)
    <3> DEFINE k == [j EXCEPT !.at = "json"]
               w == Written(j.input, j.dir, j.stem)
    <3>1. /\ j.at = "hex" /\ InputExists(j.input) /\ UNCHANGED meta /\ Continue(p, k)
          /\ hex' = [hex EXCEPT ![j.dir][j.stem] = w]
      BY <2>2, <2>5 DEF AddHex
    <3>2. j.dir \in Dirs /\ j.stem \in Stems /\ j.input \in Inputs
      BY <2>3, <3>1 DEF JobOK, Adding
    <3>3. w \in Contents /\ w # NoFile
      BY <1>0, <3>1, <3>2, WrittenType, CatalogAssumption
    <3>4. j.input.dir \notin Dirs => w = j.input.content
      BY <3>2 DEF Written, AbsSameFile, InputContent
    <3>5. k.at = "json" /\ k.clean = j.clean /\ Alike(j, k)
      BY JobAt
    <3> HIDE DEF k, w
    <3>6. hex'[j.dir][j.stem] = w
      BY <1>0, <3>1, <3>2 DEF CatalogTypeOK
    <3>7. \A e \in Dirs, t \in Stems :
            <<e, t>> # <<j.dir, j.stem>> => hex'[e][t] = hex[e][t] /\ meta'[e][t] = meta[e][t]
      BY <1>0, <3>1, <3>2, OtherFilesStay
    <3>8. j.clean => NameClear(j)
      BY <2>3, <3>1 DEF AddOK, Adding
    <3>9. j.clean => NameClear(j)'
      BY <3>7, <3>8, ClearStays
    <3>10. k.clean => NameClear(k)'
      BY <3>5, <3>9 DEF Alike, NameClear, FileOf
    <3>11. /\ hex'[k.dir][k.stem] # NoFile
           /\ k.input.dir \notin Dirs => hex'[k.dir][k.stem] = k.input.content
      BY <3>3, <3>4, <3>5, <3>6 DEF Alike
    <3>12. AddOK(k)'
      BY <3>5, <3>10, <3>11 DEF AddOK
    <3> QED BY <1>0, <3>1, <3>12, ContinueClear
  <2>6. CASE AddJson(p)
    <3> DEFINE k == [j EXCEPT !.at = "done"]
               m == [name |-> j.name, source |-> j.input.content]
    <3>1. /\ j.at = "json" /\ UNCHANGED hex /\ meta' = [meta EXCEPT ![j.dir][j.stem] = m]
          /\ Continue(p, IF j.clean THEN k ELSE Idle)
      BY <2>2, <2>6 DEF AddJson, writeProgramMetadata
    <3>2. CASE ~j.clean
      <4>1. Continue(p, Idle)
        BY <3>1, <3>2
      <4> QED BY <1>0, <2>4, <4>1, ContinueClear
    <3>3. CASE j.clean
      <4>1. Continue(p, k)
        BY <3>1, <3>3
      <4>2. j.dir \in Dirs /\ j.stem \in Stems
        BY <2>3, <3>1 DEF JobOK, Adding
      <4>3. k.at = "done" /\ Alike(j, k)
        BY JobAt
      <4> HIDE DEF k, m
      <4>4. meta'[j.dir][j.stem] = m
        BY <1>0, <3>1, <4>2 DEF CatalogTypeOK
      <4>5. \A e \in Dirs, t \in Stems :
              <<e, t>> # <<j.dir, j.stem>> => hex'[e][t] = hex[e][t] /\ meta'[e][t] = meta[e][t]
        BY <1>0, <3>1, <4>2, OtherFilesStay
      <4>6. /\ NameClear(j) /\ hex[j.dir][j.stem] # NoFile
            /\ j.input.dir \notin Dirs => hex[j.dir][j.stem] = j.input.content
        BY <2>3, <3>1, <3>3 DEF AddOK, Adding
      <4>7. NameClear(j)'
        BY <4>5, <4>6, ClearStays
      <4>8. NameClear(k)'
        BY <4>3, <4>7 DEF Alike, NameClear, FileOf
      <4>9. /\ hex'[k.dir][k.stem] # NoFile
            /\ k.input.dir \notin Dirs => hex'[k.dir][k.stem] = k.input.content
            /\ meta'[k.dir][k.stem] = [name |-> k.name, source |-> k.input.content]
        BY <3>1, <4>3, <4>4, <4>6 DEF Alike, m
      <4>10. AddOK(k)'
        BY <4>8, <4>9 DEF AddOK
      <4> QED BY <1>0, <4>1, <4>10, ContinueClear
    <3> QED BY <3>2, <3>3
  <2>7. CASE AddFails(p) \/ RemoveJson(p) \/ RemoveFails(p)
    <3>1. Continue(p, Idle)
      BY <2>7 DEF AddFails, RemoveJson, RemoveFails
    <3> QED BY <1>0, <2>4, <3>1, ContinueClear
  <2>8. CASE RemoveHex(p)
    <3> DEFINE k == [j EXCEPT !.at = "rm_json"]
    <3>1. Continue(p, k)
      BY <2>2, <2>8 DEF RemoveHex
    <3>2. k.at \notin Adding
      BY JobAt DEF Adding
    <3> HIDE DEF k
    <3> QED BY <1>0, <1>1, <3>1, <3>2, ContinueClear
  <2> QED BY <2>1, <2>5, <2>6, <2>7, <2>8 DEF Command
<1>6. CASE UNCHANGED libraryVars
  <2>1. UNCHANGED <<hex, meta>> /\ job' = job
    BY <1>6 DEF libraryVars
  <2>2. ASSUME NEW q \in Procs, NEW k, k = job'[q] PROVE AddOK(k)'
    <3>1. AddOK(k)
      BY <2>1, <2>2 DEF AddInv
    <3> QED BY <2>1, <3>1, AddOKStays
  <2> QED BY <2>2 DEF AddInv, AddOK, NameClear, FileOf
<1> QED BY <1>2, <1>3, <1>4, <1>5, <1>6 DEF LibraryStep

(* With nothing of its name before it, the file is listed and found.       *)
LEMMA AddDone == LibraryInv /\ AddInv => AddTakesEffect
<1> SUFFICES ASSUME LibraryInv, AddInv, NEW p \in Procs, job[p].at = "done", job[p].clean
             PROVE  /\ Find(job[p].name) = [name |-> job[p].name, kind |-> "custom",
                                            dir |-> job[p].dir, stem |-> job[p].stem]
                    /\ job[p].input.dir \notin Dirs =>
                         hex[job[p].dir][job[p].stem] = job[p].input.content
                    /\ meta[job[p].dir][job[p].stem].source = job[p].input.content
  BY DEF AddTakesEffect
<1> DEFINE j == job[p]
           f == FileOf(j)
<1>1. CatalogTypeOK /\ JobOK(j) /\ AddOK(j) /\ j.at = "done" /\ j.clean
  BY DEF LibraryInv, JobInv, AddInv
<1> HIDE DEF j
<1>2. /\ j.dir \in Dirs /\ j.stem \in Stems /\ ~reserved(j.stem) /\ j.stem = j.name
  BY <1>1 DEF JobOK, Adding
<1>3. /\ NameClear(j) /\ hex[j.dir][j.stem] # NoFile
      /\ j.input.dir \notin Dirs => hex[j.dir][j.stem] = j.input.content
      /\ meta[j.dir][j.stem] = [name |-> j.name, source |-> j.input.content]
  BY <1>1 DEF AddOK, Adding
<1>4. f \in ProgramFiles /\ f.dir = j.dir /\ f.stem = j.stem
  BY <1>2 DEF FileOf, ProgramFiles
<1>5. NameOf(f) = j.name
  <2>1. meta[f.dir][f.stem] \in Metadata \cup {NoFile}
    BY <1>1, <1>2, <1>4 DEF CatalogTypeOK
  <2>2. j.name # <<>>
    BY <1>2, StemType
  <2> QED BY <1>2, <1>3, <1>4, <2>1, <2>2 DEF NameOf
<1>6. f \in Candidates
  BY <1>2, <1>3, <1>4, <1>5 DEF Candidates, HexFiles, ProgramFiles
<1>7. FirstOfName(f)
  <2> SUFFICES ASSUME NEW g \in Candidates, lower(NameOf(g)) = lower(NameOf(f))
               PROVE  ~ScannedBefore(g, f)
    BY DEF FirstOfName
  <2>1. g \in ProgramFiles /\ (g = f \/ ScannedBefore(f, g))
    BY <1>3, <1>5, CandidatesAre DEF NameClear
  <2> HIDE DEF f
  <2>2. \A x, y \in ProgramFiles : <<x, y>> \in ScanOrder <=> ScannedBefore(x, y)
    BY ScanOrderIs
  <2>3. ScannedBefore(g, f) => <<f, f>> \in ScanOrder
    BY <1>4, <2>1, <2>2, ScanOrderIs DEF StrictOrder
  <2> QED BY <1>4, <2>3, ScanOrderIs DEF StrictOrder
<1>8. Custom(f) \in discoverUserPrograms /\ Custom(f).name = j.name
  BY <1>1, <1>5, <1>6, <1>7, DiscoveredIs DEF Custom
<1>9. Find(j.name) = Custom(f)
  BY <1>1, <1>8, FindCustom
<1>10. Custom(f) = [name |-> j.name, kind |-> "custom", dir |-> j.dir, stem |-> j.stem]
  BY <1>4, <1>5 DEF Custom
<1> QED BY <1>3, <1>9, <1>10 DEF j

LEMMA AddInvInit == MenuInit => AddInv
<1> SUFFICES ASSUME MenuInit, NEW p \in Procs PROVE AddOK(job[p])
  BY DEF AddInv
<1>1. job[p] = Idle
  BY DEF MenuInit, LibraryInit
<1>2. Idle.at \notin Adding
  BY DEF Idle, Adding
<1> QED BY <1>1, <1>2 DEF AddOK

(* add.go: however many processes change the library, an add that nobody   *)
(* disturbed and whose name was free ends with its name finding the new    *)
(* program and a sidecar that describes it.                                *)
THEOREM AddsTakeEffect == MenuSpec => []AddTakesEffect
<1> DEFINE IInv == LibraryInv /\ AddInv
<1>1. MenuInit => IInv
  BY LibraryInitInv, AddInvInit
<1>2. IInv /\ [MenuNext]_vars => IInv'
  BY LibraryInvStep, AddInvStep, NextIsLibraryStep
<1>3. IInv => AddTakesEffect
  BY AddDone
<1> QED BY <1>1, <1>2, <1>3, PTL DEF MenuSpec

-----------------------------------------------------------------------------
(* The menu. *)

OtherKinds == {"sep", "import", "compile", "remove", "demos", "info", "quit"}
MenuRows == {Row("demo", e) : e \in Entries} \cup {Row(k, NoEntry) : k \in OtherKinds}

RowsOK(rows) == rows \in Seq(MenuRows) /\ Len(rows) > 0 /\ rows[1].kind = "demo"

(* What the screen lists.                                                  *)
Shown == Range(Builtins) \cup discoverUserPrograms
ShownRows == {Row("demo", e) : e \in Shown} \cup {Row(k, NoEntry) : k \in OtherKinds}

LEMMA ShownAre ==
  ASSUME CatalogTypeOK, NEW e \in Shown
  PROVE  /\ e \in Entries /\ e # NoEntry /\ e.name # <<>> /\ Find(e.name) = e
         /\ e.kind = "custom" => e \in discoverUserPrograms
<1>1. CASE e \in discoverUserPrograms
  BY <1>1, CustomIs, FindCustom, CatalogAssumption
<1>2. CASE e \in Range(Builtins)
  <2>0. PICK i \in 1 .. Len(builtins) : e = Builtins[i]
    <3>1. Builtins \in Seq(Entries) /\ Len(Builtins) = Len(builtins)
      BY BuiltinsAre
    <3>2. DOMAIN Builtins = 1 .. Len(builtins)
      BY <3>1
    <3> QED BY <1>2, <3>2 DEF Range
  <2>1. PICK b \in Range(builtins) : e = Builtin(b) /\ lower(b) = b /\ b # <<>> /\ b \in Words
    BY <2>0, BuiltinsAre
  <2>2. e \in Entries /\ e.name = b /\ e.kind = "builtin"
    BY <2>1 DEF Builtin, Entries, Words
  <2>3. Find(e.name) = e
    BY <2>1, <2>2, FindBuiltin
  <2> QED BY <2>1, <2>2, <2>3, CatalogAssumption
<1> QED BY <1>1, <1>2 DEF Shown

LEMMA RowIs ==
  /\ \A r \in MenuRows : r.kind = "demo" <=> r.entry \in Entries
  /\ \A r \in ShownRows : r.kind = "demo" => r.entry \in Shown
BY CatalogAssumption DEF MenuRows, ShownRows, Row, OtherKinds

LEMMA InitialMenuIs ==
  ASSUME CatalogTypeOK
  PROVE  /\ initialMenu \in Seq(ShownRows) /\ RowsOK(initialMenu)
<1> DEFINE demo(e) == Row("demo", e)
           first == [i \in DOMAIN Builtins |-> demo(Builtins[i])]
           second == IF CustomList = <<>> THEN <<>>
                     ELSE <<Sep>> \o [i \in DOMAIN CustomList |-> demo(CustomList[i])]
           third == [i \in DOMAIN Actions |-> Row(Actions[i], NoEntry)]
<1>1. ASSUME NEW S, NEW s \in Seq(S), S \subseteq Shown
      PROVE  /\ [i \in DOMAIN s |-> demo(s[i])] \in Seq(ShownRows)
             /\ Len([i \in DOMAIN s |-> demo(s[i])]) = Len(s)
  <2> DEFINE t == [i \in 1 .. Len(s) |-> demo(s[i])]
             n == Len(s)
  <2>1. n \in Nat /\ DOMAIN s = 1 .. n /\ \A i \in 1 .. n : s[i] \in Shown
    BY <1>1
  <2>2. t \in [1 .. n -> ShownRows]
    BY <2>1 DEF ShownRows
  <2>3. t \in Seq(ShownRows) /\ Len(t) = n
    <3> HIDE DEF t, n
    <3> QED BY <2>1, <2>2
  <2> QED BY <2>1, <2>3
<1>2. first \in Seq(ShownRows) /\ Len(first) > 0
  <2>1. Builtins \in Seq(Range(Builtins)) /\ Len(Builtins) > 0
    BY BuiltinsAre, MenuAssumption, CatalogAssumption DEF Range
  <2> QED BY <1>1, <2>1 DEF Shown
<1>3. <<Sep>> \in Seq(ShownRows)
  BY DEF ShownRows, Sep, OtherKinds
<1>4. second \in Seq(ShownRows)
  <2>1. [i \in DOMAIN CustomList |-> demo(CustomList[i])] \in Seq(ShownRows)
    BY <1>1, CustomListIs DEF Shown
  <2> HIDE DEF demo
  <2> QED BY <1>3, <2>1
<1>5. third \in Seq(ShownRows)
  <2> DEFINE a == [i \in 1 .. 6 |-> Row(Actions[i], NoEntry)]
  <2>1. DOMAIN Actions = 1 .. 6 /\ \A i \in 1 .. 6 : Actions[i] \in OtherKinds
    BY DEF Actions, OtherKinds
  <2>2. a \in [1 .. 6 -> ShownRows]
    BY <2>1 DEF ShownRows
  <2>3. a \in Seq(ShownRows)
    <3>1. ASSUME NEW n \in Nat, NEW s \in [1 .. n -> ShownRows] PROVE s \in Seq(ShownRows)
      BY <3>1
    <3> HIDE DEF a
    <3> QED BY <2>2, <3>1
  <2> QED BY <2>1, <2>3
<1>6. initialMenu = first \o second \o <<Sep>> \o third
  BY DEF initialMenu
<1>7. first[1].kind = "demo"
  <2>1. 1 \in DOMAIN Builtins
    BY BuiltinsAre, MenuAssumption, CatalogAssumption
  <2> QED BY <2>1 DEF Row
<1> HIDE DEF first, second, third
<1>8. initialMenu \in Seq(ShownRows) /\ Len(initialMenu) > 0 /\ initialMenu[1] = first[1]
  BY <1>2, <1>3, <1>4, <1>5, <1>6
<1>9. ShownRows \subseteq MenuRows
  BY ShownAre DEF ShownRows, MenuRows
<1> QED BY <1>7, <1>8, <1>9 DEF RowsOK

(* What the deletion prompt's line stands for is a row of the listing.     *)
Picked(sel, list, r) ==
  /\ r \in DOMAIN list
  /\ IF IsNumber(sel) THEN r = Atoi(sel) ELSE lower(list[r].name) = lower(sel)

LEMMA ResolvedIs ==
  ASSUME NEW sel, NEW list \in Seq(Entries)
  PROVE  \/ resolveCustomSelection(sel, list) = NoEntry
         \/ \E r \in DOMAIN list :
              Picked(sel, list, r) /\ resolveCustomSelection(sel, list) = list[r]
<1> DEFINE I == {i \in 1 .. Len(list) : lower(list[i].name) = lower(sel)}
           e == resolveCustomSelection(sel, list)
<1>1. Len(list) \in Nat /\ DOMAIN list = 1 .. Len(list)
  OBVIOUS
<1>2. CASE IsNumber(sel)
  BY <1>2 DEF resolveCustomSelection, Picked
<1>3. CASE ~IsNumber(sel)
  <2>1. e = IF (IF I # {} THEN Min(I) ELSE 0) = 0 THEN NoEntry
            ELSE list[IF I # {} THEN Min(I) ELSE 0]
    BY <1>3 DEF resolveCustomSelection, SelectInSeq
  <2>2. CASE I = {}
    BY <2>1, <2>2
  <2>3. CASE I # {}
    <3>1. I \in SUBSET Nat
      BY <1>1
    <3>2. Min(I) \in I
      <4> HIDE DEF I
      <4> QED BY <2>3, <3>1, MinIs
    <3>3. Min(I) # 0
      BY <1>1, <3>2
    <3>4. e = list[Min(I)]
      <4> HIDE DEF I, e
      <4> QED BY <2>1, <2>3, <3>3
    <3>5. Picked(sel, list, Min(I)) /\ Min(I) \in DOMAIN list
      BY <1>1, <1>3, <3>2 DEF Picked
    <3> QED BY <3>4, <3>5
  <2> QED BY <2>2, <2>3
<1> QED BY <1>2, <1>3

(* Wherever the cursor moves to, a row that is no separator is there.      *)
RowAt(rows, c) == c \in DOMAIN rows /\ rows[c].kind # "sep"

LEMMA MovesStay ==
  ASSUME RowsOK(items), NEW c \in DOMAIN items
  PROVE  RowAt(items, prev(c)) /\ RowAt(items, next(c)) /\ RowAt(items, 1)
<1> DEFINE n == Len(items)
           rows == {r \in DOMAIN items : items[r].kind # "sep"}
           above == {r \in rows : r < c}
           below == {r \in rows : r > c}
<1>1. n \in Nat /\ DOMAIN items = 1 .. n /\ 1 \in rows
  BY DEF RowsOK
<1>2. rows \in SUBSET (1 .. n) /\ above \in SUBSET (1 .. n) /\ rows \in SUBSET Nat /\ below \in SUBSET Nat
  BY <1>1
<1>3. prev(c) = IF above # {} THEN Max(above) ELSE Max(rows)
  BY DEF prev
<1>4. next(c) = IF below # {} THEN Min(below) ELSE Min(rows)
  BY DEF next
<1>5. above \subseteq rows /\ below \subseteq rows /\ \A r \in rows : RowAt(items, r)
  BY DEF RowAt
<1> HIDE DEF above, below, rows, n
<1>6. prev(c) \in rows
  BY <1>1, <1>2, <1>3, <1>5, MaxIs
<1>7. next(c) \in rows
  BY <1>1, <1>2, <1>4, <1>5, MinIs
<1> QED BY <1>1, <1>5, <1>6, <1>7

Screens == {"menu", "running", "wait", "import", "compile", "delete", "confirm", "busy", "gone"}

FieldsOK ==
  /\ screen \in Screens /\ fresh \in BOOLEAN
  /\ customs \in Seq(Entries) /\ selection \in Selections \cup {<<>>}

(* While nobody changes the library, the rows are its own.                 *)
RowsInv ==
  /\ screen = "menu" => RowsOK(items) /\ RowAt(items, cursor) /\ (fresh => items = initialMenu)
  /\ screen # "menu" => items = <<>>

ListingInv ==
  /\ (screen \in {"delete", "confirm"} /\ fresh) => customs = CustomList
  /\ screen = "confirm" => resolveCustomSelection(selection, customs) # NoEntry

(* The removal that was confirmed is of the row that was chosen.           *)
Chosen(j) ==
  (j.at = "rm_hex" /\ fresh) =>
     \E r \in DOMAIN customs :
       Picked(selection, customs, r) /\ j.dir = customs[r].dir /\ j.stem = customs[r].stem

ScreenInv ==
  /\ FieldsOK /\ RowsInv /\ ListingInv
  /\ screen = "busy" => Chosen(job[MenuProc])

LEMMA CatalogAgrees ==
  ASSUME UNCHANGED <<hex, meta>>
  PROVE  initialMenu' = initialMenu /\ CustomList' = CustomList
<1>1. HexFiles' = HexFiles /\ \A f : NameOf(f)' = NameOf(f)
  BY DEF HexFiles, NameOf
<1>2. Candidates' = Candidates
  BY <1>1 DEF Candidates
<1>3. discoverUserPrograms' = discoverUserPrograms
  BY <1>1, <1>2 DEF discoverUserPrograms
<1>4. CustomList' = CustomList
  BY <1>3 DEF CustomList
<1> QED BY <1>4 DEF initialMenu

LEMMA ScreenInit == MenuInit => ScreenInv
<1> SUFFICES ASSUME MenuInit PROVE ScreenInv
  OBVIOUS
<1>1. /\ screen = "menu" /\ items = initialMenu /\ cursor = 1 /\ fresh = TRUE
      /\ customs = <<>> /\ selection = <<>>
  BY DEF MenuInit
<1>2. RowsOK(initialMenu)
  BY InitialMenuIs, LibraryInitInv DEF LibraryInv
<1>3. RowAt(items, 1)
  BY <1>1, <1>2 DEF RowsOK, RowAt
<1>4. FieldsOK
  BY <1>1 DEF FieldsOK, Screens
<1> QED BY <1>1, <1>2, <1>3, <1>4 DEF ScreenInv, RowsInv, ListingInv

(* The screens that hold neither rows nor a listing.                       *)
LEMMA PlainScreen ==
  ASSUME FieldsOK, LeaveMenu, UNCHANGED fresh,
         screen' \in Screens \ {"menu", "delete", "confirm", "busy"},
         customs' = customs, selection' = selection
  PROVE  ScreenInv'
<1>1. FieldsOK'
  <2>1. fresh' \in BOOLEAN
    BY Zenon DEF FieldsOK
  <2> QED BY <2>1 DEF FieldsOK
<1>2. items' = <<>>
  BY DEF LeaveMenu
<1>3. screen' \notin {"menu", "delete", "confirm", "busy"}
  OBVIOUS
<1> QED BY <1>1, <1>2, <1>3 DEF ScreenInv, RowsInv, ListingInv

LEMMA MenuShown == CatalogTypeOK /\ Quiet /\ ShowMenu => ScreenInv'
<1> SUFFICES ASSUME CatalogTypeOK, Quiet, ShowMenu PROVE ScreenInv'
  OBVIOUS
<1>1. /\ screen' = "menu" /\ items' = initialMenu /\ cursor' = 1 /\ fresh' = TRUE
      /\ customs' = <<>> /\ selection' = <<>>
  BY DEF ShowMenu
<1>2. RowsOK(initialMenu) /\ initialMenu' = initialMenu
  BY InitialMenuIs, CatalogAgrees DEF Quiet
<1>3. RowAt(initialMenu, 1)
  BY <1>2 DEF RowsOK, RowAt
<1>4. FieldsOK'
  BY <1>1 DEF FieldsOK, Screens
<1>5. RowsInv'
  BY <1>1, <1>2, <1>3 DEF RowsInv
<1> QED BY <1>1, <1>4, <1>5 DEF ScreenInv, ListingInv

LEMMA CursorMoved == CatalogTypeOK /\ ScreenInv /\ MoveCursor => ScreenInv'
<1> SUFFICES ASSUME CatalogTypeOK, ScreenInv, MoveCursor PROVE ScreenInv'
  OBVIOUS
<1>1. /\ screen = "menu" /\ UNCHANGED <<hex, meta>>
      /\ screen' = screen /\ items' = items /\ customs' = customs /\ selection' = selection
  BY DEF MoveCursor, Quiet
<1>2. UNCHANGED fresh
  BY DEF MoveCursor
<1>3. FieldsOK'
  <2>1. fresh' \in BOOLEAN
    BY <1>2, Zenon DEF ScreenInv, FieldsOK
  <2> QED BY <1>1, <2>1 DEF ScreenInv, FieldsOK
<1>4. RowsOK(items) /\ RowAt(items, cursor) /\ (fresh => items = initialMenu)
  BY <1>1 DEF ScreenInv, RowsInv
<1>5. Len(items) \in DOMAIN items
  BY <1>4 DEF RowsOK
<1>6. RowAt(items, cursor')
  <2>1. /\ RowAt(items, prev(cursor)) /\ RowAt(items, next(cursor)) /\ RowAt(items, 1)
        /\ RowAt(items, prev(Len(items)))
    BY <1>4, <1>5, MovesStay DEF RowAt
  <2>2. items[Len(items)].kind # "sep" => RowAt(items, Len(items))
    BY <1>5 DEF RowAt
  <2>3. cursor' \in {prev(cursor), next(cursor), 1,
                     IF items[Len(items)].kind = "sep" THEN prev(Len(items)) ELSE Len(items)}
    BY DEF MoveCursor
  <2> QED BY <2>1, <2>2, <2>3
<1>7. initialMenu' = initialMenu
  BY <1>1, CatalogAgrees
<1>8. fresh' => items' = initialMenu'
  BY <1>1, <1>2, <1>4, <1>7
<1>9. RowsInv'
  BY <1>1, <1>4, <1>6, <1>8 DEF RowsInv, RowAt
<1> QED BY <1>1, <1>3, <1>9 DEF ScreenInv, ListingInv

LEMMA DeleteEntered == CatalogTypeOK /\ ScreenInv /\ Quiet /\ EnterDelete => ScreenInv'
<1> SUFFICES ASSUME CatalogTypeOK, ScreenInv, Quiet, EnterDelete PROVE ScreenInv'
  OBVIOUS
<1>1. /\ customs' = CustomList /\ fresh' = TRUE /\ screen' \in {"wait", "delete"}
      /\ items' = <<>> /\ selection' = selection
  BY DEF EnterDelete, LeaveMenu
<1>2. CustomList' = CustomList /\ CustomList \in Seq(Entries)
  BY CatalogAgrees, AllIs DEF Quiet
<1>3. FieldsOK'
  BY <1>1, <1>2 DEF FieldsOK, Screens, ScreenInv
<1> QED BY <1>1, <1>2, <1>3 DEF ScreenInv, RowsInv, ListingInv

LEMMA ProgramSelected == CatalogTypeOK /\ ScreenInv /\ SelectProgram => ScreenInv'
<1> SUFFICES ASSUME CatalogTypeOK, ScreenInv, SelectProgram PROVE ScreenInv'
  OBVIOUS
<1>1. /\ screen = "delete" /\ UNCHANGED <<hex, meta>> /\ items' = items /\ customs' = customs
      /\ selection' \in Selections
      /\ screen' = IF resolveCustomSelection(selection', customs) = NoEntry THEN "wait" ELSE "confirm"
  BY DEF SelectProgram, Quiet
<1>2. UNCHANGED fresh
  BY DEF SelectProgram
<1>3. FieldsOK'
  <2>1. fresh' \in BOOLEAN
    BY <1>2, Zenon DEF ScreenInv, FieldsOK
  <2> QED BY <1>1, <2>1 DEF ScreenInv, FieldsOK, Screens
<1>4. items' = <<>> /\ screen' \notin {"menu", "busy"}
  BY <1>1 DEF ScreenInv, RowsInv
<1>5. CustomList' = CustomList
  BY <1>1, CatalogAgrees
<1>6. fresh' => customs' = CustomList'
  BY <1>1, <1>2, <1>5 DEF ScreenInv, ListingInv
<1>7. ListingInv'
  BY <1>1, <1>6 DEF ListingInv
<1> QED BY <1>3, <1>4, <1>7 DEF ScreenInv, RowsInv

(* The screens behind which a command of the menu's runs.                  *)
LEMMA BusyScreen ==
  ASSUME ScreenInv, screen' = "busy", items' = <<>>, UNCHANGED <<customs, selection>>,
         fresh' \in BOOLEAN, Chosen(job[MenuProc])'
  PROVE  ScreenInv'
<1>1. FieldsOK'
  BY DEF ScreenInv, FieldsOK, Screens
<1> QED BY <1>1 DEF ScreenInv, RowsInv, ListingInv

LEMMA InputSubmitted == ScreenInv /\ SubmitInput => ScreenInv'
<1> SUFFICES ASSUME ScreenInv, SubmitInput PROVE ScreenInv'
  OBVIOUS
<1>1. PICK i \in Inputs, n \in OptNames : AddBegin(MenuProc, i, n, FALSE)
  BY DEF SubmitInput
<1>2. job'[MenuProc].at = "hex"
  BY <1>1, MenuAssumption DEF AddBegin, Continue
<1>3. Chosen(job[MenuProc])'
  BY <1>2 DEF Chosen
<1>4. Goto("busy")
  BY DEF SubmitInput
<1>5. screen' = "busy" /\ items' = <<>> /\ UNCHANGED <<customs, selection>>
  BY <1>4 DEF Goto, LeaveMenu
<1>6. fresh' \in BOOLEAN
  BY <1>4, Zenon DEF Goto, ScreenInv, FieldsOK
<1> QED BY <1>3, <1>5, <1>6, BusyScreen

LEMMA DeleteConfirmed == CatalogTypeOK /\ ScreenInv /\ ConfirmDelete => ScreenInv'
<1> SUFFICES ASSUME CatalogTypeOK, ScreenInv, ConfirmDelete PROVE ScreenInv'
  OBVIOUS
<1> DEFINE c == resolveCustomSelection(selection, customs)
           e == Find(c.name)
           j == [at |-> "rm_hex", name |-> e.name, input |-> NoFile, dir |-> e.dir,
                 stem |-> e.stem, clean |-> TRUE]
<1>1. Goto("busy") /\ screen = "confirm" /\ RemoveBegin(MenuProc, c.name)
  BY Zenon DEF ConfirmDelete
<1>2. screen' = "busy" /\ items' = <<>> /\ UNCHANGED <<customs, selection>>
  BY <1>1 DEF Goto, LeaveMenu
<1>3. UNCHANGED fresh
  BY <1>1 DEF Goto
<1>4. fresh' \in BOOLEAN
  BY <1>3, Zenon DEF ScreenInv, FieldsOK
<1>5. Continue(MenuProc, j)
  BY <1>1, Zenon DEF RemoveBegin
<1>6. job'[MenuProc] = j
  <2> HIDE DEF j
  <2> QED BY <1>5, MenuAssumption DEF Continue
<1>7. j.dir = e.dir /\ j.stem = e.stem
  OBVIOUS
<1>8. PICK r \in DOMAIN customs : Picked(selection, customs, r) /\ c = customs[r]
  BY <1>1, ResolvedIs DEF ScreenInv, ListingInv, FieldsOK
<1> HIDE DEF c, e, j
<1>9. fresh => e = customs[r]
  <2> SUFFICES ASSUME fresh PROVE e = customs[r]
    OBVIOUS
  <2>1. customs = CustomList
    BY <1>1 DEF ScreenInv, ListingInv
  <2>2. c \in discoverUserPrograms
    BY <1>8, <2>1, CustomListIs
  <2>3. e = c
    BY <2>2, FindCustom DEF e
  <2> QED BY <1>8, <2>3
<1>10. ASSUME fresh' PROVE \E q \in DOMAIN customs' :
          /\ Picked(selection', customs', q)
          /\ job'[MenuProc].dir = customs'[q].dir /\ job'[MenuProc].stem = customs'[q].stem
  <2>1. e = customs[r]
    BY <1>3, <1>9, <1>10
  <2>2. job'[MenuProc].dir = customs[r].dir /\ job'[MenuProc].stem = customs[r].stem
    BY <1>6, <1>7, <2>1
  <2> QED BY <1>2, <1>8, <2>2
<1>11. Chosen(job[MenuProc])'
  BY <1>10 DEF Chosen
<1> QED BY <1>2, <1>4, <1>11, BusyScreen

(* No step but the first of a removal leads to its removing the file.      *)
LEMMA NeverToRmHex ==
  ASSUME JobInv, NEW p \in Procs, Command(p)
  PROVE  job'[p].at # "rm_hex"
<1>1. PICK j \in JobRecords : j = job[p]
  BY DEF JobInv
<1>2. ASSUME NEW k, Continue(p, k), k.at # "rm_hex" PROVE job'[p].at # "rm_hex"
  BY <1>2 DEF Continue
<1>3. Idle.at # "rm_hex"
  BY DEF Idle
<1>4. ASSUME NEW at \in {"json", "done", "rm_json"} PROVE [j EXCEPT !.at = at].at # "rm_hex"
  BY DEF JobRecords
<1>5. \/ Continue(p, Idle)
      \/ \E at \in {"json", "done", "rm_json"} : Continue(p, [j EXCEPT !.at = at])
  <2>1. CASE AddHex(p)
    BY <1>1, <2>1 DEF AddHex
  <2>2. CASE AddJson(p)
    BY <1>1, <2>2 DEF AddJson
  <2>3. CASE RemoveHex(p)
    BY <1>1, <2>3 DEF RemoveHex
  <2>4. CASE AddFails(p) \/ RemoveJson(p) \/ RemoveFails(p)
    BY <2>4 DEF AddFails, RemoveJson, RemoveFails
  <2> QED BY <2>1, <2>2, <2>3, <2>4 DEF Command
<1> QED BY <1>2, <1>3, <1>4, <1>5

LEMMA CommandRuns == JobInv /\ ScreenInv /\ MenuCommand => ScreenInv'
<1> SUFFICES ASSUME JobInv, ScreenInv, MenuCommand PROVE ScreenInv'
  OBVIOUS
<1>1. /\ screen = "busy" /\ Command(MenuProc) /\ screen' \in {"wait", "busy"}
      /\ items' = items /\ customs' = customs /\ selection' = selection
  BY DEF MenuCommand
<1>2. fresh' \in BOOLEAN
  BY Zenon DEF MenuCommand
<1>3. job'[MenuProc].at # "rm_hex"
  BY <1>1, NeverToRmHex, MenuAssumption
<1>4. Chosen(job[MenuProc])'
  BY <1>3 DEF Chosen
<1>5. FieldsOK'
  BY <1>1, <1>2 DEF ScreenInv, FieldsOK, Screens
<1>6. items' = <<>>
  BY <1>1 DEF ScreenInv, RowsInv
<1> QED BY <1>1, <1>4, <1>5, <1>6 DEF ScreenInv, RowsInv, ListingInv

(* Commands of the others leave the menu's alone.                          *)
LEMMA OthersLeave ==
  ASSUME JobInv, Others
  PROVE  job'[MenuProc].at = job[MenuProc].at \/ job'[MenuProc] = Idle
<1> SUFFICES ASSUME NEW j \in JobRecords, j = job[MenuProc]
             PROVE  job'[MenuProc].at = j.at \/ job'[MenuProc] = Idle
  BY MenuAssumption DEF JobInv
<1>1. Disturbed(j).at = j.at \/ Disturbed(j) = Idle
  BY DEF Disturbed, JobRecords
<1>2. ASSUME NEW p \in Procs \ {MenuProc}, Shell(p)
      PROVE  job'[MenuProc] \in {j, Disturbed(j)}
  <2>1. \E k : Continue(p, k)
    BY <1>2, Zenon DEF Shell, Command, AddBegin, RemoveBegin, AddHex, AddJson, AddFails, RemoveHex,
                RemoveJson, RemoveFails
  <2> QED BY <2>1, MenuAssumption DEF Continue
<1>3. ASSUME NEW edit, EditByHand(edit) PROVE job'[MenuProc] = Disturbed(j)
  BY <1>3, MenuAssumption DEF EditByHand
<1> QED BY <1>1, <1>2, <1>3 DEF Others

LEMMA OthersFresh ==
  ASSUME JobInv, Others, fresh'
  PROVE  fresh /\ UNCHANGED <<hex, meta>> /\ job'[MenuProc] = job[MenuProc]
<1>1. fresh /\ files' = files
  BY Zenon DEF Others
<1>2. PICK p \in Procs \ {MenuProc} : Shell(p)
  BY <1>1 DEF Others, EditByHand
<1>3. \E k : Continue(p, k)
  BY <1>2, Zenon DEF Shell, Command, AddBegin, RemoveBegin, AddHex, AddJson, AddFails, RemoveHex,
              RemoveJson, RemoveFails
<1> QED BY <1>1, <1>3, MenuAssumption DEF Continue, files

LEMMA OthersStep == CatalogTypeOK /\ JobInv /\ ScreenInv /\ Others => ScreenInv'
<1> SUFFICES ASSUME CatalogTypeOK, JobInv, ScreenInv, Others PROVE ScreenInv'
  OBVIOUS
<1>1. /\ screen' = screen /\ items' = items /\ cursor' = cursor
      /\ customs' = customs /\ selection' = selection
  BY DEF Others
<1>2. fresh' \in BOOLEAN
  BY Zenon DEF Others
<1>3. FieldsOK'
  BY <1>1, <1>2 DEF ScreenInv, FieldsOK
<1>4. ASSUME fresh'
      PROVE  /\ fresh /\ job'[MenuProc] = job[MenuProc]
             /\ initialMenu' = initialMenu /\ CustomList' = CustomList
  BY <1>4, OthersFresh, CatalogAgrees
<1>5. RowsInv'
  BY <1>1, <1>4 DEF ScreenInv, RowsInv
<1>6. ListingInv'
  BY <1>1, <1>4 DEF ScreenInv, ListingInv
<1>7. screen' = "busy" => Chosen(job[MenuProc])'
  BY <1>1, <1>4 DEF ScreenInv, Chosen
<1> QED BY <1>3, <1>5, <1>6, <1>7 DEF ScreenInv

LEMMA ScreenInvStep == LibraryInv /\ ScreenInv /\ [MenuNext]_vars => ScreenInv'
<1> SUFFICES ASSUME LibraryInv, ScreenInv, [MenuNext]_vars PROVE ScreenInv'
  OBVIOUS
<1>0. CatalogTypeOK /\ JobInv
  BY DEF LibraryInv
<1>1. ASSUME NEW s \in {"wait", "gone", "import", "compile"}, Goto(s) PROVE ScreenInv'
  <2>1. FieldsOK /\ s \in Screens \ {"menu", "delete", "confirm", "busy"}
    BY DEF ScreenInv, Screens
  <2>2. LeaveMenu /\ screen' = s /\ customs' = customs /\ selection' = selection
    BY <1>1 DEF Goto
  <2>3. UNCHANGED fresh
    BY <1>1 DEF Goto
  <2> QED BY <2>1, <2>2, <2>3, PlainScreen
<1>2. CASE MoveCursor
  BY <1>0, <1>2, CursorMoved
<1>3. CASE LaunchPick
  <2>1. LeaveMenu /\ screen' \in {"wait", "running"} /\ customs' = customs /\ selection' = selection
    BY <1>3 DEF LaunchPick
  <2>2. UNCHANGED fresh
    BY <1>3 DEF LaunchPick
  <2>3. FieldsOK /\ screen' \in Screens \ {"menu", "delete", "confirm", "busy"}
    BY <2>1 DEF ScreenInv, Screens
  <2> QED BY <2>1, <2>2, <2>3, PlainScreen
<1>4. CASE RunReturns \/ PressEnter \/ CancelPrompt
  BY <1>0, <1>4, MenuShown DEF RunReturns, PressEnter, CancelPrompt
<1>5. CASE PickAction
  <2>1. Quiet /\ (EnterDelete \/ \E s \in {"wait", "import", "compile"} : Goto(s))
    BY <1>5 DEF PickAction
  <2>2. ASSUME NEW s \in {"wait", "import", "compile"}, Goto(s) PROVE ScreenInv'
    BY <1>1, <2>2
  <2> QED BY <1>0, <2>1, <2>2, DeleteEntered
<1>6. CASE QuitMenu \/ RefuseInput \/ DeclineDelete \/ DeleteFindsNothing
  <2>1. \E s \in {"wait", "gone"} : Goto(s)
    BY <1>6 DEF QuitMenu, RefuseInput, DeclineDelete, DeleteFindsNothing
  <2> QED BY <1>1, <2>1
<1>7. CASE SubmitInput
  BY <1>7, InputSubmitted
<1>8. CASE SelectProgram
  BY <1>0, <1>8, ProgramSelected
<1>9. CASE ConfirmDelete
  BY <1>0, <1>9, DeleteConfirmed
<1>10. CASE MenuCommand
  BY <1>0, <1>10, CommandRuns
<1>11. CASE Others
  BY <1>0, <1>11, OthersStep
<1>12. CASE UNCHANGED vars
  <2>1. /\ screen' = screen /\ items' = items /\ cursor' = cursor /\ customs' = customs
        /\ selection' = selection /\ UNCHANGED <<hex, meta>> /\ job' = job
    BY <1>12 DEF vars, menuVars
  <2>2. UNCHANGED fresh
    BY <1>12 DEF vars, menuVars
  <2>3. fresh' \in BOOLEAN
    BY <2>2, Zenon DEF ScreenInv, FieldsOK
  <2>4. initialMenu' = initialMenu /\ CustomList' = CustomList
    BY <2>1, CatalogAgrees
  <2>5. FieldsOK'
    BY <2>1, <2>3 DEF ScreenInv, FieldsOK
  <2>6. RowsInv'
    BY <2>1, <2>2, <2>4 DEF ScreenInv, RowsInv
  <2>7. ListingInv'
    BY <2>1, <2>2, <2>4 DEF ScreenInv, ListingInv
  <2>8. screen' = "busy" => Chosen(job[MenuProc])'
    BY <2>1, <2>2 DEF ScreenInv, Chosen
  <2> QED BY <2>5, <2>6, <2>7, <2>8 DEF ScreenInv
<1> QED BY <1>2, <1>3, <1>4, <1>5, <1>6, <1>7, <1>8, <1>9, <1>10, <1>11, <1>12 DEF MenuNext, runMenu

LEMMA ScreenTypes == LibraryInv /\ ScreenInv => MenuTypeOK
<1> SUFFICES ASSUME LibraryInv, ScreenInv PROVE MenuTypeOK
  OBVIOUS
<1>1. LibraryTypeOK
  BY DEF LibraryInv, LibraryTypeOK, JobInv, JobRecords, CounterOK
<1>2. \A r \in DOMAIN items : items[r].kind = "demo" <=> items[r].entry \in Entries
  <2>1. CASE screen = "menu"
    <3>1. \A r \in DOMAIN items : items[r] \in MenuRows
      BY <2>1 DEF ScreenInv, RowsInv, RowsOK
    <3> QED BY <3>1, RowIs
  <2>2. CASE screen # "menu"
    BY <2>2 DEF ScreenInv, RowsInv
  <2> QED BY <2>1, <2>2
<1>3. screen = "menu" => cursor \in DOMAIN items /\ items[cursor].kind # "sep"
  BY DEF ScreenInv, RowsInv, RowAt
<1>4. Range(customs) \subseteq Entries
  BY DEF ScreenInv, FieldsOK, Range
<1>5. screen \in Screens /\ selection \in Selections \cup {<<>>}
  BY DEF ScreenInv, FieldsOK
<1>6. fresh \in BOOLEAN
  BY Zenon DEF ScreenInv, FieldsOK
<1> QED BY <1>1, <1>2, <1>3, <1>4, <1>5, <1>6 DEF MenuTypeOK, Screens

(* menu.go: the library's files, the commands on it and the screens are    *)
(* well formed, and on the selection screen the cursor is always on a row  *)
(* that Enter acts on.                                                     *)
THEOREM MenuIsTyped == MenuSpec => []MenuTypeOK
<1> DEFINE IInv == LibraryInv /\ ScreenInv
<1>1. MenuInit => IInv
  BY LibraryInitInv, ScreenInit
<1>2. IInv /\ [MenuNext]_vars => IInv'
  BY LibraryInvStep, ScreenInvStep
<1>3. IInv => MenuTypeOK
  BY ScreenTypes
<1> QED BY <1>1, <1>2, <1>3, PTL DEF MenuSpec

(* menu.go, menuDeleteProgram: unless the library was changed under the    *)
(* listing, the file deleted is that of the row the user chose, and no     *)
(* other file goes with it, although the name is looked up again.          *)
THEOREM DeletesAsShown == MenuSpec => DeleteAsShown
<1> DEFINE IInv == LibraryInv /\ ScreenInv
           A == (screen = "busy" /\ job[MenuProc].at = "rm_hex" /\ job'[MenuProc].at = "rm_json"
                 /\ fresh) =>
                  \E r \in DOMAIN customs :
                    /\ IF IsNumber(selection) THEN r = Atoi(selection)
                       ELSE lower(customs[r].name) = lower(selection)
                    /\ hex' = [hex EXCEPT ![customs[r].dir][customs[r].stem] = NoFile]
<1>1. IInv /\ [MenuNext]_vars => [A]_vars
  <2> SUFFICES ASSUME IInv, MenuNext, screen = "busy", job[MenuProc].at = "rm_hex",
                      job'[MenuProc].at = "rm_json", fresh
               PROVE  \E r \in DOMAIN customs :
                        /\ IF IsNumber(selection) THEN r = Atoi(selection)
                           ELSE lower(customs[r].name) = lower(selection)
                        /\ hex' = [hex EXCEPT ![customs[r].dir][customs[r].stem] = NoFile]
    OBVIOUS
  <2>0. Idle.at # "rm_json"
    BY DEF Idle
  <2>1. MenuCommand
    <3>1. ~Others
      <4>1. JobInv
        BY DEF LibraryInv
      <4> QED BY <2>0, <4>1, OthersLeave
    <3> QED BY <3>1
        DEF MenuNext, runMenu, MoveCursor, LaunchPick, RunReturns, PickAction, QuitMenu,
            PressEnter, CancelPrompt, RefuseInput, SubmitInput, SelectProgram, DeclineDelete,
            ConfirmDelete, DeleteFindsNothing
  <2>2. job[MenuProc].at = "rm_hex" /\ Command(MenuProc)
    BY <2>1 DEF MenuCommand
  <2>3. ~RemoveFails(MenuProc)
    <3>1. RemoveFails(MenuProc) => job'[MenuProc] = Idle
      BY MenuAssumption DEF RemoveFails, Continue
    <3> QED BY <2>0, <3>1
  <2>4. RemoveHex(MenuProc)
    BY <2>2, <2>3 DEF Command, AddHex, AddJson, AddFails, RemoveJson
  <2>5. hex' = [hex EXCEPT ![job[MenuProc].dir][job[MenuProc].stem] = NoFile]
    BY <2>4 DEF RemoveHex
  <2>6. PICK r \in DOMAIN customs :
          /\ Picked(selection, customs, r)
          /\ job[MenuProc].dir = customs[r].dir /\ job[MenuProc].stem = customs[r].stem
    BY DEF ScreenInv, Chosen
  <2> QED BY <2>5, <2>6 DEF Picked
<1>2. MenuInit => IInv
  BY LibraryInitInv, ScreenInit
<1>3. IInv /\ [MenuNext]_vars => IInv'
  BY LibraryInvStep, ScreenInvStep
<1> QED BY <1>1, <1>2, <1>3, PTL DEF MenuSpec, DeleteAsShown

(* menu.go, runMenu, case "demo": unless the library was changed, what is  *)
(* started from a row is what its name stands for on the command line, and *)
(* for one of the user's programs the very file listed.                    *)
THEOREM RunsAsShown == MenuSpec => RunAsShown
<1> DEFINE IInv == LibraryInv /\ ScreenInv
           A == (screen = "menu" /\ screen' = "running" /\ fresh) =>
                  LET e == items[cursor].entry
                  IN /\ launched' = Resolve(e.name, {}).hexPath
                     /\ e.kind = "custom" => launched' = [dir |-> e.dir, stem |-> e.stem]
<1>1. IInv /\ [MenuNext]_vars => [A]_vars
  <2> SUFFICES ASSUME IInv, MenuNext, screen = "menu", screen' = "running", fresh,
                      NEW e, e = items[cursor].entry
               PROVE  /\ launched' = Resolve(e.name, {}).hexPath
                      /\ e.kind = "custom" => launched' = [dir |-> e.dir, stem |-> e.stem]
    OBVIOUS
  <2>1. LaunchPick
    BY DEF MenuNext, runMenu, MoveCursor, LaunchPick, RunReturns, PickAction, QuitMenu,
           PressEnter, CancelPrompt, RefuseInput, SubmitInput, SelectProgram, DeclineDelete,
           ConfirmDelete, DeleteFindsNothing, MenuCommand, Others, ShowMenu, Goto, EnterDelete
  <2>2. items[cursor].kind = "demo" /\ launched' = ResolveHex(e)
    BY <2>1 DEF LaunchPick
  <2>3. CatalogTypeOK /\ items = initialMenu /\ cursor \in DOMAIN items
    BY DEF LibraryInv, ScreenInv, RowsInv, RowAt
  <2>4. items[cursor] \in ShownRows
    BY <2>3, InitialMenuIs
  <2>5. e \in Shown
    BY <2>2, <2>4, RowIs
  <2>6. /\ e # NoEntry /\ e.name # <<>> /\ Find(e.name) = e
        /\ e.kind = "custom" => e \in discoverUserPrograms
    BY <2>3, <2>5, ShownAre
  <2>7. Resolve(e.name, {}).hexPath = ResolveHex(e)
    BY <2>6 DEF Resolve
  <2>8. ASSUME e.kind = "custom" PROVE ResolveHex(e) = [dir |-> e.dir, stem |-> e.stem]
    <3>1. e.dir \in Dirs /\ FileExists(e.dir, e.stem)
      BY <2>3, <2>6, <2>8, CustomIs DEF FileExists
    <3> QED BY <2>8, <3>1 DEF ResolveHex
  <2> QED BY <2>2, <2>7, <2>8
<1>2. MenuInit => IInv
  BY LibraryInitInv, ScreenInit
<1>3. IInv /\ [MenuNext]_vars => IInv'
  BY LibraryInvStep, ScreenInvStep
<1> QED BY <1>1, <1>2, <1>3, PTL DEF MenuSpec, RunAsShown
=============================================================================
