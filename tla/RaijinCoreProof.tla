-------------------------- MODULE RaijinCoreProof --------------------------
(***************************************************************************)
(* Theorems about the core for every program, word size, memory map, timer *)
(* width and queue capacity: type correctness, the bookkeeping of the trap *)
(* counters, precise traps, what protects a handler's return address, and  *)
(* a memory of bytes.  First, of the combinational units for every word:   *)
(* their results are words, a word is its four bytes, a store changes the  *)
(* addressed bytes only and a load returns them, the low word of a product *)
(* does not depend on signs, quotient and remainder belong together.       *)
(***************************************************************************)
EXTENDS RaijinCore, TLAPS

-----------------------------------------------------------------------------
(* Arithmetic. *)

LEMMA DivMod ==
  ASSUME NEW a \in Nat, NEW n \in Nat \ {0}
  PROVE  a \div n \in Nat /\ a % n \in 0 .. n - 1 /\ a = n * (a \div n) + (a % n)
OBVIOUS

LEMMA ModRange ==
  ASSUME NEW a \in Int, NEW n \in Nat \ {0}
  PROVE  a % n \in 0 .. n - 1
OBVIOUS

(* The quotient and the remainder are the only ones. *)
LEMMA DivModUnique ==
  ASSUME NEW n \in Nat \ {0}, NEW q \in Nat, NEW r \in 0 .. n - 1
  PROVE  (r + n * q) \div n = q /\ (r + n * q) % n = r
OBVIOUS

LEMMA WrapType ==
  ASSUME NEW n \in Int
  PROVE  Wrap(n) \in Word
BY WordBaseAssumption, ModRange DEF Wrap, Word

(* A digit of base x in front of one of base y is one of base x * y. *)
LEMMA DigitsBelow ==
  ASSUME NEW x \in Nat \ {0}, NEW y \in Nat \ {0},
         NEW a \in 0 .. x - 1, NEW b \in 0 .. y - 1
  PROVE  a + x * b \in 0 .. x * y - 1
<1>1. x * b \in Nat /\ x * b <= x * (y - 1)
  OBVIOUS
<1> QED BY <1>1

LEMMA QuotientBelow ==
  ASSUME NEW x \in Nat \ {0}, NEW y \in Nat \ {0}, NEW a \in 0 .. x * y - 1
  PROVE  a \div x \in 0 .. y - 1
<1>1. a \div x \in Nat /\ a % x \in 0 .. x - 1 /\ a = x * (a \div x) + (a % x)
  BY DivMod
<1>2. ASSUME a \div x >= y PROVE FALSE
  <2>1. x * (a \div x) >= x * y
    BY <1>1, <1>2
  <2>2. x * y \in Nat /\ x * (a \div x) \in Nat
    BY <1>1
  <2> QED BY <1>1, <2>1, <2>2
<1> QED BY <1>1, <1>2

(* Adding words to a number does not change its low word. *)
LEMMA WrapShift ==
  ASSUME NEW n \in Int, NEW k \in Int
  PROVE  Wrap(n + k * WordBase) = Wrap(n)
<1> DEFINE W == WordBase
           r == n % W
           q == n \div W
<1>1. W \in Nat \ {0}
  BY WordBaseAssumption
<1> HIDE DEF W
<1>2. r \in 0 .. W - 1 /\ q \in Int /\ n = W * q + r
  BY <1>1
<1> HIDE DEF r, q
<1>3. n + k * W = W * (q + k) + r
  BY <1>1, <1>2
<1> DEFINE p == q + k
<1>4. p \in Int
  BY <1>2
<1> HIDE DEF p
<1>5. (W * p + r) % W = r
  BY <1>1, <1>2, <1>4
<1>6. (n + k * W) % W = r
  BY <1>3, <1>5 DEF p
<1> QED BY <1>6 DEF Wrap, W, r

LEMMA WrapSmall ==
  ASSUME NEW w \in Word
  PROVE  Wrap(w) = w
BY WordBaseAssumption DEF Wrap, Word

LEMMA SignedRange ==
  ASSUME NEW w \in Word
  PROVE  /\ Signed(w) \in Int
         /\ Signed(w) = w \/ Signed(w) = w - WordBase
         /\ 2 * Signed(w) >= 0 - WordBase /\ 2 * Signed(w) < WordBase
         /\ Wrap(Signed(w)) = w
BY WordBaseAssumption DEF Wrap, Word, Signed

-----------------------------------------------------------------------------
(* Bytes. *)

LEMMA LaneFacts ==
  /\ LaneBase \in Nat \ {0, 1} /\ WordBase \in Nat \ {0}
  /\ LaneBase * LaneBase \in Nat \ {0}
  /\ LaneBase * (LaneBase * LaneBase) \in Nat \ {0}
BY LaneAssumption, WordBaseAssumption

(* Every word has four bytes, and is the word of its bytes. *)
THEOREM WordIsItsBytes ==
  ASSUME NEW w \in Word
  PROVE  Lanes(w) \in [0 .. 3 -> Lane] /\ FromLanes(Lanes(w)) = w
<1> DEFINE L == LaneBase
           w1 == w \div L
           w2 == w1 \div L
           w3 == w2 \div L
<1>0. L \in Nat \ {0}
  BY LaneFacts
<1>1. w \in 0 .. L * (L * (L * L)) - 1
  BY LaneAssumption DEF Word
<1>2. w1 \in 0 .. L * (L * L) - 1
  BY <1>1, LaneFacts, QuotientBelow
<1>3. w2 \in 0 .. L * L - 1
  BY <1>2, LaneFacts, QuotientBelow
<1>4. w3 \in 0 .. L - 1
  BY <1>3, LaneFacts, QuotientBelow
<1>5. w = L * w1 + (w % L) /\ w % L \in Lane
  BY <1>0, <1>1, DivMod DEF Lane
<1>6. w1 = L * w2 + (w1 % L) /\ w1 % L \in Lane
  <2> w1 \in Nat /\ w2 \in Nat
    BY <1>2, <1>3, LaneFacts
  <2> HIDE DEF w1
  <2>1. w1 = L * (w1 \div L) + (w1 % L) /\ w1 % L \in 0 .. L - 1
    BY <1>0, DivMod
  <2> QED BY <2>1 DEF Lane
<1>7. w2 = L * w3 + (w2 % L) /\ w2 % L \in Lane
  <2> w1 \in Nat /\ w2 \in Nat
    BY <1>2, <1>3, LaneFacts
  <2> HIDE DEF w2
  <2>1. w2 = L * (w2 \div L) + (w2 % L) /\ w2 % L \in 0 .. L - 1
    BY <1>0, DivMod
  <2> QED BY <2>1 DEF Lane
<1>8. w3 % L = w3 /\ w3 \in Lane
  BY <1>0, <1>4 DEF Lane
<1>9. Lanes(w) = [k \in 0 .. 3 |-> (CASE k = 0 -> w [] k = 1 -> w1 [] k = 2 -> w2 [] k = 3 -> w3) % L]
  BY DEF Lanes
<1> HIDE DEF w1, w2, w3
<1>10. Lanes(w)[0] = w % L /\ Lanes(w)[1] = w1 % L /\ Lanes(w)[2] = w2 % L /\ Lanes(w)[3] = w3
  BY <1>8, <1>9
<1>11. Lanes(w) \in [0 .. 3 -> Lane]
  <2>1. ASSUME NEW k \in 0 .. 3 PROVE Lanes(w)[k] \in Lane
    <3>1. k = 0 \/ k = 1 \/ k = 2 \/ k = 3
      OBVIOUS
    <3> QED BY <3>1, <1>5, <1>6, <1>7, <1>8, <1>10
  <2>2. Lanes(w) = [k \in 0 .. 3 |-> Lanes(w)[k]]
    BY <1>9
  <2> QED BY <2>1, <2>2
<1>12. FromLanes(Lanes(w)) = (w % L) + L * ((w1 % L) + L * ((w2 % L) + L * w3))
  BY <1>10 DEF FromLanes
<1>13. (w2 % L) + L * w3 = w2
  BY <1>0, <1>4, <1>7 DEF Lane
<1>14. (w1 % L) + L * w2 = w1
  BY <1>0, <1>3, <1>6 DEF Lane
<1>15. (w % L) + L * w1 = w
  BY <1>0, <1>2, <1>5 DEF Lane
<1> QED BY <1>11, <1>12, <1>13, <1>14, <1>15

(* Four bytes make a word, and are the bytes of it. *)
THEOREM BytesAreTheWords ==
  ASSUME NEW b \in [0 .. 3 -> Lane]
  PROVE  FromLanes(b) \in Word /\ Lanes(FromLanes(b)) = b
<1> DEFINE L == LaneBase
           b2 == b[2] + L * b[3]
           b1 == b[1] + L * b2
           b0 == b[0] + L * b1
<1>0. L \in Nat \ {0} /\ b[0] \in 0 .. L - 1 /\ b[1] \in 0 .. L - 1
      /\ b[2] \in 0 .. L - 1 /\ b[3] \in 0 .. L - 1
  BY LaneFacts DEF Lane
<1>1. b2 \in 0 .. L * L - 1
  BY <1>0, DigitsBelow
<1>2. b1 \in 0 .. L * (L * L) - 1
  BY <1>0, <1>1, LaneFacts, DigitsBelow
<1>3. b0 \in 0 .. L * (L * (L * L)) - 1
  BY <1>0, <1>2, LaneFacts, DigitsBelow
<1>4. b2 \div L = b[3] /\ b2 % L = b[2]
  BY <1>0, DivModUnique
<1>5. b1 \div L = b2 /\ b1 % L = b[1]
  <2> b2 \in Nat
    BY <1>1, LaneFacts
  <2> HIDE DEF b2
  <2> QED BY <1>0, DivModUnique
<1>6. b0 \div L = b1 /\ b0 % L = b[0]
  <2> b1 \in Nat
    BY <1>2, LaneFacts
  <2> HIDE DEF b1
  <2> QED BY <1>0, DivModUnique
<1>7. b[3] % L = b[3]
  BY <1>0
<1>8. FromLanes(b) = b0
  BY DEF FromLanes
<1> HIDE DEF b0, b1, b2
<1>9. Lanes(b0) = [k \in 0 .. 3 |-> (CASE k = 0 -> b0 [] k = 1 -> b1 [] k = 2 -> b2 [] k = 3 -> b[3]) % L]
  BY <1>4, <1>5, <1>6 DEF Lanes
<1>10. ASSUME NEW k \in 0 .. 3 PROVE Lanes(b0)[k] = b[k]
  <2>1. k = 0 \/ k = 1 \/ k = 2 \/ k = 3
    OBVIOUS
  <2> QED BY <1>4, <1>5, <1>6, <1>7, <1>9, <2>1
<1>11. Lanes(b0) = [k \in 0 .. 3 |-> b[k]]
  BY <1>9, <1>10
<1>12. b0 \in Word
  BY <1>3, LaneAssumption DEF Word
<1> QED BY <1>8, <1>11, <1>12

(* So two words with the same bytes are the same word. *)
LEMMA LanesAreLanes ==
  ASSUME NEW w \in Word, NEW k \in 0 .. 3
  PROVE  Lanes(w)[k] \in Lane
BY WordIsItsBytes

-----------------------------------------------------------------------------
(* Stores and loads of dmem.v. *)

LEMMA LaneInWord ==
  ASSUME NEW n \in Lane
  PROVE  n \in Word
<1>1. LaneBase <= LaneBase * (LaneBase * (LaneBase * LaneBase))
  BY LaneFacts
<1> QED BY <1>1, LaneAssumption, WordBaseAssumption DEF Lane, Word

LEMMA StoreMakesWord ==
  ASSUME NEW w \in Word, NEW d \in Word, NEW off \in 0 .. 3, NEW size \in Sizes
  PROVE  new_word(w, off, size, d) \in Word
<1> DEFINE b == Lanes(w)
           c == Lanes(d)
           h == 2 * (off \div 2)
<1>1. b \in [0 .. 3 -> Lane] /\ c \in [0 .. 3 -> Lane]
  BY WordIsItsBytes
<1> HIDE DEF b, c
<1>2. CASE size = "byte"
  <2>1. [b EXCEPT ![off] = c[0]] \in [0 .. 3 -> Lane]
    BY <1>1
  <2> QED BY <1>2, <2>1, BytesAreTheWords DEF new_word, b, c
<1>3. CASE size = "half"
  <2>1. h \in {0, 2}
    OBVIOUS
  <2>2. [b EXCEPT ![h] = c[0], ![h + 1] = c[1]] \in [0 .. 3 -> Lane]
    BY <1>1, <2>1
  <2> QED BY <1>3, <2>2, BytesAreTheWords DEF new_word, b, c
<1>4. CASE size = "word"
  BY <1>4 DEF new_word
<1> QED BY <1>2, <1>3, <1>4 DEF Sizes

(* A store puts the low bytes of the data at the addressed lanes and keeps *)
(* the others (dmem.v:92-112).                                             *)
THEOREM StoreChangesItsBytes ==
  ASSUME NEW w \in Word, NEW d \in Word, NEW off \in 0 .. 3, NEW size \in Sizes,
         off % Bytes(size) = 0
  PROVE  \A k \in 0 .. 3 :
           /\ k \in off .. off + Bytes(size) - 1 =>
                Lanes(new_word(w, off, size, d))[k] = Lanes(d)[k - off]
           /\ k \notin off .. off + Bytes(size) - 1 =>
                Lanes(new_word(w, off, size, d))[k] = Lanes(w)[k]
<1> DEFINE b == Lanes(w)
           c == Lanes(d)
<1>1. b \in [0 .. 3 -> Lane] /\ c \in [0 .. 3 -> Lane]
  BY WordIsItsBytes
<1> HIDE DEF b, c
<1>2. CASE size = "byte"
  <2> DEFINE n == [b EXCEPT ![off] = c[0]]
  <2>1. n \in [0 .. 3 -> Lane] /\ Bytes(size) = 1
    BY <1>1, <1>2 DEF Bytes
  <2>2. new_word(w, off, size, d) = FromLanes(n)
    BY <1>2 DEF new_word, b, c
  <2>3. \A k \in 0 .. 3 : n[k] = IF k \in off .. off + 1 - 1 THEN c[k - off] ELSE b[k]
    BY <1>1
  <2> HIDE DEF n
  <2>4. FromLanes(n) \in Word /\ Lanes(FromLanes(n)) = n
    BY <2>1, BytesAreTheWords
  <2> QED BY <2>1, <2>2, <2>3, <2>4 DEF b, c
<1>3. CASE size = "half"
  <2> DEFINE n == [b EXCEPT ![off] = c[0], ![off + 1] = c[1]]
  <2>1. Bytes(size) = 2 /\ off \in {0, 2} /\ 2 * (off \div 2) = off
    BY <1>3 DEF Bytes
  <2>2. n \in [0 .. 3 -> Lane]
    BY <1>1, <2>1
  <2>3. new_word(w, off, size, d) = FromLanes(n)
    BY <1>3, <2>1 DEF new_word, b, c
  <2>4. \A k \in 0 .. 3 : n[k] = IF k \in off .. off + 2 - 1 THEN c[k - off] ELSE b[k]
    BY <1>1, <2>1
  <2> HIDE DEF n
  <2>5. FromLanes(n) \in Word /\ Lanes(FromLanes(n)) = n
    BY <2>2, BytesAreTheWords
  <2> QED BY <2>1, <2>3, <2>4, <2>5 DEF b, c
<1>4. CASE size = "word"
  <2>1. Bytes(size) = 4 /\ off = 0
    BY <1>4 DEF Bytes
  <2>2. new_word(w, off, size, d) = d
    BY <1>4 DEF new_word
  <2> QED BY <2>1, <2>2
<1> QED BY <1>2, <1>3, <1>4 DEF Sizes

(* The fill above a value whose top byte is t. *)
Fill(signed, t) == IF signed /\ t >= LaneBase \div 2 THEN LaneBase - 1 ELSE 0

(* Extending a byte or a half word fills the bytes above it. *)
LEMMA ExtendsByte ==
  ASSUME NEW n \in Lane, NEW signed \in BOOLEAN
  PROVE  (IF signed THEN SignExtend(n, LaneBase) ELSE n)
           = FromLanes([k \in 0 .. 3 |-> IF k < 1 THEN n ELSE Fill(signed, n)])
<1> DEFINE L == LaneBase
<1>1. L \in Nat /\ n \in Nat /\ WordBase = L * (L * (L * L))
  BY LaneAssumption DEF Lane
<1>2. L * (L - 1 + L * (L - 1 + L * (L - 1))) = L * (L * (L * L)) - L
  BY <1>1
<1> QED BY <1>1, <1>2 DEF FromLanes, Fill, SignExtend

LEMMA ExtendsHalf ==
  ASSUME NEW lo \in Lane, NEW hi \in Lane, NEW signed \in BOOLEAN
  PROVE  LET n == lo + LaneBase * hi
         IN (IF signed THEN SignExtend(n, LaneBase * LaneBase) ELSE n)
              = FromLanes([k \in 0 .. 3 |->
                             IF k = 0 THEN lo ELSE IF k = 1 THEN hi ELSE Fill(signed, hi)])
<1> DEFINE L == LaneBase
           n == lo + L * hi
<1>1. L \in Nat \ {0} /\ lo \in 0 .. L - 1 /\ hi \in 0 .. L - 1 /\ L % 2 = 0
      /\ WordBase = L * (L * (L * L))
  BY LaneAssumption DEF Lane
<1>2. L * (L * (L - 1 + L * (L - 1))) = L * (L * (L * L)) - L * L
  BY <1>1
<1>3. n < (L * L) \div 2 <=> hi < L \div 2
  <2> DEFINE h == L \div 2
  <2>1. h \in Nat /\ L = 2 * h
    BY <1>1
  <2> HIDE DEF h
  <2>2. L * L = 2 * (L * h) /\ L * h \in Nat
    BY <2>1
  <2>3. (L * L) \div 2 = L * h
    BY <2>2
  <2>4. CASE hi < h
    <3>1. hi + 1 <= h
      BY <1>1, <2>1, <2>4
    <3>2. L * (hi + 1) <= L * h
      BY <1>1, <2>1, <3>1
    <3>3. L * (hi + 1) = L * hi + L
      BY <1>1
    <3> QED BY <1>1, <2>2, <2>3, <2>4, <3>2, <3>3 DEF h
  <2>5. CASE hi >= h
    <3>1. L * hi >= L * h
      BY <1>1, <2>1, <2>5
    <3> QED BY <1>1, <2>1, <2>2, <2>3, <2>5, <3>1 DEF h
  <2> QED BY <1>1, <2>1, <2>4, <2>5
<1>4. FromLanes([k \in 0 .. 3 |->
                  IF k = 0 THEN lo ELSE IF k = 1 THEN hi ELSE Fill(signed, hi)])
        = lo + L * (hi + L * (Fill(signed, hi) + L * Fill(signed, hi)))
  BY DEF FromLanes
<1>5. CASE signed /\ hi >= L \div 2
  <2>1. Fill(signed, hi) = L - 1
    BY <1>5 DEF Fill
  <2>2. L * (hi + L * (L - 1 + L * (L - 1))) = L * hi + L * (L * (L - 1 + L * (L - 1)))
    BY <1>1
  <2>3. SignExtend(n, L * L) = n + WordBase - L * L
    BY <1>1, <1>3, <1>5 DEF SignExtend
  <2>4. lo + L * (hi + L * (L - 1 + L * (L - 1))) = n + WordBase - L * L
    <3> DEFINE A == L * hi
               S == L * L
               X == L * (L * (L - 1 + L * (L - 1)))
               Y == L * (hi + L * (L - 1 + L * (L - 1)))
    <3>1. X = WordBase - S /\ Y = A + X
      BY <1>1, <1>2, <2>2
    <3>2. A \in Int /\ S \in Int /\ X \in Int /\ lo \in Int /\ WordBase \in Int
      BY <1>1, WordBaseAssumption
    <3> HIDE DEF A, S, X, Y
    <3>3. lo + Y = (lo + A) + WordBase - S
      BY <3>1, <3>2
    <3> QED BY <3>3 DEF A, S, Y
  <2>5. FromLanes([k \in 0 .. 3 |->
                     IF k = 0 THEN lo ELSE IF k = 1 THEN hi ELSE Fill(signed, hi)])
          = SignExtend(n, L * L)
    BY <1>4, <2>1, <2>3, <2>4
  <2> QED BY <1>5, <2>5
<1>6. CASE ~(signed /\ hi >= L \div 2)
  <2>1. Fill(signed, hi) = 0
    BY <1>6 DEF Fill
  <2>2. signed => SignExtend(n, L * L) = n
    BY <1>1, <1>3, <1>6 DEF SignExtend
  <2> QED BY <1>1, <1>4, <2>1, <2>2
<1> QED BY <1>5, <1>6

(* A load returns the bytes from its address, below copies of their sign   *)
(* or of 0 (dmem.v:61-83).                                                 *)
THEOREM LoadReturnsTheBytes ==
  ASSUME NEW w \in Word, NEW off \in 0 .. 3, NEW size \in Sizes,
         NEW signed \in BOOLEAN, off % Bytes(size) = 0
  PROVE  /\ read_data(w, off, size, signed) \in Word
         /\ \A k \in 0 .. 3 :
              Lanes(read_data(w, off, size, signed))[k] =
                IF k < Bytes(size) THEN Lanes(w)[off + k]
                ELSE Fill(signed, Lanes(w)[off + Bytes(size) - 1])
<1> DEFINE b == Lanes(w)
<1>1. b \in [0 .. 3 -> Lane]
  BY WordIsItsBytes
<1>2. \A t \in Lane : Fill(signed, t) \in Lane
  BY LaneFacts DEF Fill, Lane
<1> HIDE DEF b
<1>3. CASE size = "byte"
  <2> DEFINE n == [k \in 0 .. 3 |-> IF k < 1 THEN b[off] ELSE Fill(signed, b[off])]
  <2>1. b[off] \in Lane
    BY <1>1
  <2>2. read_data(w, off, size, signed) = FromLanes(n)
    <3>1. read_data(w, off, size, signed)
            = (IF signed THEN SignExtend(b[off], LaneBase) ELSE b[off])
      BY <1>3 DEF read_data, b
    <3> QED BY <2>1, <3>1, ExtendsByte
  <2>3. n \in [0 .. 3 -> Lane]
    BY <1>2, <2>1
  <2>4. \A k \in 0 .. 3 : n[k] = IF k < 1 THEN b[off + k] ELSE Fill(signed, b[off + 1 - 1])
    OBVIOUS
  <2> HIDE DEF n
  <2>5. FromLanes(n) \in Word /\ Lanes(FromLanes(n)) = n
    BY <2>3, BytesAreTheWords
  <2>6. Bytes(size) = 1
    BY <1>3 DEF Bytes
  <2> QED BY <2>2, <2>4, <2>5, <2>6 DEF b
<1>4. CASE size = "half"
  <2> DEFINE n == [k \in 0 .. 3 |->
                     IF k = 0 THEN b[off] ELSE IF k = 1 THEN b[off + 1]
                     ELSE Fill(signed, b[off + 1])]
  <2>1. Bytes(size) = 2 /\ off \in {0, 2} /\ 2 * (off \div 2) = off
    BY <1>4 DEF Bytes
  <2>2. b[off] \in Lane /\ b[off + 1] \in Lane
    BY <1>1, <2>1
  <2>3. read_data(w, off, size, signed) = FromLanes(n)
    <3>1. half_value(b, off) = b[off] + LaneBase * b[off + 1]
      BY <2>1 DEF half_value
    <3>2. read_data(w, off, size, signed)
            = (IF signed THEN SignExtend(half_value(b, off), LaneBase * LaneBase)
               ELSE half_value(b, off))
      BY <1>4 DEF read_data, b
    <3> QED BY <2>2, <3>1, <3>2, ExtendsHalf
  <2>4. n \in [0 .. 3 -> Lane]
    BY <1>2, <2>2
  <2>5. \A k \in 0 .. 3 : n[k] = IF k < 2 THEN b[off + k] ELSE Fill(signed, b[off + 2 - 1])
    BY <2>1
  <2> HIDE DEF n
  <2>6. FromLanes(n) \in Word /\ Lanes(FromLanes(n)) = n
    BY <2>4, BytesAreTheWords
  <2> QED BY <2>1, <2>3, <2>5, <2>6 DEF b
<1>5. CASE size = "word"
  <2>1. Bytes(size) = 4 /\ off = 0
    BY <1>5 DEF Bytes
  <2>2. read_data(w, off, size, signed) = w
    BY <1>5 DEF read_data
  <2> QED BY <2>1, <2>2
<1> QED BY <1>3, <1>4, <1>5 DEF Sizes

-----------------------------------------------------------------------------
(* alu.v and m_unit.v. *)

LEMMA AluType ==
  ASSUME NEW op \in AluOps, NEW a \in Word, NEW b \in Word
  PROVE  Alu(op, a, b) \in Word
<1>1. Wrap(a + b) \in Word /\ Wrap(a - b) \in Word
  <2>1. a + b \in Int /\ a - b \in Int
    BY WordBaseAssumption DEF Word
  <2> QED BY <2>1, WrapType
<1>2. 0 \in Word /\ 1 \in Word
  BY WordBaseAssumption DEF Word
<1> QED BY <1>1, <1>2 DEF Alu, AluOps

(* The sign of the operands does not matter to the low word of a product:  *)
(* one multiplier serves MUL (m_unit.v:59).                                *)
THEOREM LowWordOfProduct ==
  ASSUME NEW a \in Word, NEW b \in Word
  PROVE  /\ MUnit("mul", a, b) = Wrap(a * b)
         /\ Wrap(Signed(a) * b) = Wrap(a * b)
<1> DEFINE W == WordBase
<1>1. W \in Nat /\ a \in Int /\ b \in Int /\ a * b \in Int
  BY WordBaseAssumption DEF Word
<1>2. Wrap(Signed(a) * b) = Wrap(a * b)
  <2>1. CASE Signed(a) = a
    BY <2>1
  <2>2. CASE Signed(a) = a - W
    <3>1. (a - W) * b = a * b + (0 - b) * W
      BY <1>1
    <3> QED BY <1>1, <2>2, <3>1, WrapShift, 0 - b \in Int
  <2> QED BY <2>1, <2>2, SignedRange
<1>3. Wrap(Signed(a) * Signed(b)) = Wrap(Signed(a) * b)
  <2> DEFINE s == Signed(a)
  <2>0. s \in Int
    BY SignedRange
  <2> HIDE DEF s
  <2>1. CASE Signed(b) = b
    BY <2>1
  <2>2. CASE Signed(b) = b - W
    <3>1. s * (b - W) = s * b + (0 - s) * W
      BY <1>1, <2>0
    <3> QED BY <1>1, <2>0, <2>2, <3>1, WrapShift, 0 - s \in Int, s * b \in Int DEF s
  <2> QED BY <2>1, <2>2, SignedRange DEF s
<1> QED BY <1>2, <1>3 DEF MUnit

(* Verilog's signed division: the dividend is recovered, and the remainder *)
(* is smaller than the divisor and has the sign of the dividend.           *)
LEMMA SignedDivision ==
  ASSUME NEW x \in Int, NEW y \in Int \ {0}
  PROVE  /\ Quotient(x, y) \in Int /\ Remainder(x, y) \in Int
         /\ Quotient(x, y) * y + Remainder(x, y) = x
         /\ Magnitude(Remainder(x, y)) < Magnitude(y)
         /\ Remainder(x, y) = 0 \/ (Remainder(x, y) < 0 <=> x < 0)
<1> DEFINE m == Magnitude(x)
           n == Magnitude(y)
           q == m \div n
           r == m % n
<1>1. m \in Nat /\ n \in Nat \ {0} /\ x = (IF x < 0 THEN 0 - m ELSE m)
      /\ y = (IF y < 0 THEN 0 - n ELSE n)
  BY DEF Magnitude
<1> HIDE DEF m, n
<1>2. q \in Nat /\ r \in 0 .. n - 1 /\ m = n * q + r
  BY <1>1, DivMod
<1>3. Quotient(x, y) = IF (x < 0) = (y < 0) THEN q ELSE -q
  BY DEF Quotient, m, n
<1>4. Remainder(x, y) = IF x < 0 THEN -r ELSE r
  BY DEF Remainder, m, n
<1> HIDE DEF q, r
<1>5. Magnitude(Remainder(x, y)) = r
  BY <1>2, <1>4 DEF Magnitude
<1>6. Quotient(x, y) * y + Remainder(x, y) = x
  <2>1. CASE x < 0 /\ y < 0
    BY <1>1, <1>2, <1>3, <1>4, <2>1
  <2>2. CASE x < 0 /\ ~(y < 0)
    BY <1>1, <1>2, <1>3, <1>4, <2>2
  <2>3. CASE ~(x < 0) /\ y < 0
    BY <1>1, <1>2, <1>3, <1>4, <2>3
  <2>4. CASE ~(x < 0) /\ ~(y < 0)
    BY <1>1, <1>2, <1>3, <1>4, <2>4
  <2> QED BY <2>1, <2>2, <2>3, <2>4
<1> QED BY <1>1, <1>2, <1>3, <1>4, <1>5, <1>6 DEF m, n

LEMMA WrapIs ==
  ASSUME NEW n \in Int
  PROVE  \E k \in Int : Wrap(n) = n + k * WordBase
<1> DEFINE W == WordBase
           r == n % W
           q == n \div W
<1>1. W \in Nat \ {0}
  BY WordBaseAssumption
<1> HIDE DEF W
<1>2. r \in 0 .. W - 1 /\ q \in Int /\ n = W * q + r
  BY <1>1
<1> HIDE DEF r, q
<1>3. r = n + (0 - q) * W /\ 0 - q \in Int
  BY <1>1, <1>2
<1> QED BY <1>3 DEF Wrap, W, r

LEMMA SignedOfWrap ==
  ASSUME NEW n \in Int, 2 * n >= 0 - WordBase, 2 * n < WordBase
  PROVE  Signed(Wrap(n)) = n
<1>1. CASE n >= 0
  BY <1>1, WordBaseAssumption DEF Signed, Wrap
<1>2. CASE n < 0
  <2>1. Wrap(n) = n + WordBase
    <3>1. n + WordBase \in Word
      BY <1>2, WordBaseAssumption DEF Word
    <3>2. Wrap(n + 1 * WordBase) = Wrap(n)
      BY WrapShift
    <3> QED BY <3>1, <3>2, WrapSmall, WordBaseAssumption
  <2> QED BY <1>2, <2>1, WordBaseAssumption DEF Signed
<1> QED BY <1>1, <1>2

(* Quotient and remainder belong together for every pair of words, also    *)
(* when the divisor is 0 and when the quotient overflows; unless it is 0,  *)
(* the remainder is the smaller, and has the sign of the dividend          *)
(* (m_unit.v:23-29, 64-86).                                                *)
THEOREM QuotientAndRemainder ==
  ASSUME NEW a \in Word, NEW b \in Word
  PROVE  /\ Wrap(MUnit("divu", a, b) * b + MUnit("remu", a, b)) = a
         /\ Wrap(MUnit("div", a, b) * b + MUnit("rem", a, b)) = a
         /\ b # 0 =>
              LET r == Signed(MUnit("rem", a, b))
              IN /\ MUnit("remu", a, b) < b
                 /\ Magnitude(r) < Magnitude(Signed(b))
                 /\ r = 0 \/ (r < 0 <=> Signed(a) < 0)
<1> DEFINE W == WordBase
           x == Signed(a)
           y == Signed(b)
           q == Quotient(x, y)
           r == Remainder(x, y)
<1>0. W \in Nat \ {0} /\ a \in Nat /\ b \in Nat /\ a \in Word
  BY WordBaseAssumption DEF Word
<1>1. /\ MUnit("divu", a, b) = divu_q(a, b) /\ MUnit("remu", a, b) = remu_r(a, b)
      /\ MUnit("div", a, b) = div_q(a, b) /\ MUnit("rem", a, b) = rem_r(a, b)
  BY DEF MUnit
<1>2. CASE b = 0
  <2>1. divu_q(a, b) \in Int /\ div_q(a, b) \in Int
    BY <1>2, WordBaseAssumption DEF divu_q, div_q
  <2>2. divu_q(a, b) * b + a = a /\ div_q(a, b) * b + a = a
    BY <1>0, <1>2, <2>1
  <2>3. remu_r(a, b) = a /\ rem_r(a, b) = a
    BY <1>2 DEF remu_r, rem_r
  <2> QED BY <1>0, <1>1, <1>2, <2>2, <2>3, WrapSmall
<1>3. ASSUME b # 0
      PROVE  Wrap(divu_q(a, b) * b + remu_r(a, b)) = a /\ remu_r(a, b) < b
  <2>1. a = b * (a \div b) + (a % b) /\ a % b \in 0 .. b - 1 /\ a \div b \in Nat
    BY <1>0, <1>3, DivMod
  <2>2. divu_q(a, b) = a \div b /\ remu_r(a, b) = a % b
    BY <1>3 DEF divu_q, remu_r
  <2>3. divu_q(a, b) * b + remu_r(a, b) = a
    <3> DEFINE d == a \div b
               e == a % b
    <3>1. a = b * d + e /\ d \in Nat /\ e \in Nat
      BY <1>0, <2>1
    <3> HIDE DEF d, e
    <3>2. d * b + e = a
      BY <1>0, <3>1
    <3> QED BY <2>2, <3>2 DEF d, e
  <2> QED BY <1>0, <1>3, <2>1, <2>2, <2>3, WrapSmall
<1>4. CASE b # 0 /\ is_signed_ovf(a, b)
  <2>1. div_q(a, b) = a /\ rem_r(a, b) = 0 /\ b = W - 1 /\ y = -1
    BY <1>4, WordBaseAssumption DEF div_q, rem_r, is_signed_ovf, Signed
  <2>2. a * b + 0 = -a + a * W
    BY <1>0, <2>1
  <2>3. W = 2 * a
    BY <1>4, WordBaseAssumption DEF is_signed_ovf
  <2>4. -a + a * W = a + (a - 1) * W
    BY <1>0, <2>3
  <2>5. Wrap(a * b + 0) = a
    <3>1. a * b + 0 = a + (a - 1) * W
      BY <2>2, <2>4
    <3>2. Wrap(a + (a - 1) * W) = Wrap(a)
      <4> DEFINE k == a - 1
      <4>1. k \in Int /\ a \in Int
        BY <1>0
      <4> HIDE DEF k
      <4>2. Wrap(a + k * WordBase) = Wrap(a)
        BY <4>1, WrapShift
      <4> QED BY <4>2 DEF k
    <3> QED BY <1>0, <3>1, <3>2, WrapSmall
  <2>6. Signed(0) = 0 /\ Magnitude(0) = 0 /\ Magnitude(-1) = 1
    <3>1. Signed(0) = 0
      BY WordBaseAssumption DEF Signed
    <3>2. Magnitude(0) = 0 /\ Magnitude(-1) = 1
      <4>1. \A n \in Int : Magnitude(n) = IF n < 0 THEN 0 - n ELSE n
        BY DEF Magnitude
      <4>2. -1 \in Int /\ 0 \in Int /\ -1 < 0
        OBVIOUS
      <4> QED BY <4>1, <4>2
    <3> QED BY <3>1, <3>2
  <2> QED BY <1>1, <1>3, <1>4, <2>1, <2>5, <2>6
<1>5. CASE b # 0 /\ ~is_signed_ovf(a, b)
  <2>1. x \in Int /\ y \in Int /\ (y = b \/ y = b - W) /\ Wrap(x) = a
        /\ 2 * y >= 0 - W /\ 2 * y < W
    BY SignedRange
  <2>2. y # 0
    BY <1>5, <2>1, <1>0 DEF Word
  <2>3. div_q(a, b) = Wrap(q) /\ rem_r(a, b) = Wrap(r)
    BY <1>5 DEF div_q, rem_r
  <2> HIDE DEF x, y
  <2>4. q \in Int /\ r \in Int /\ q * y + r = x /\ Magnitude(r) < Magnitude(y)
        /\ (r = 0 \/ (r < 0 <=> x < 0))
    BY <2>1, <2>2, SignedDivision
  <2>5. 2 * r >= 0 - W /\ 2 * r < W
    BY <1>0, <2>1, <2>4 DEF Magnitude
  <2> HIDE DEF q, r
  <2>6. Signed(Wrap(r)) = r
    BY <2>4, <2>5, SignedOfWrap
  <2>7. Wrap(Wrap(q) * b + Wrap(r)) = a
    <3>1. PICK i \in Int : Wrap(q) = q + i * W
      BY <2>4, WrapIs
    <3>2. PICK j \in Int : Wrap(r) = r + j * W
      BY <2>4, WrapIs
    <3>3. PICK k \in {0, 1} : b = y + k * W
      BY <1>0, <2>1
    <3> DEFINE t == q * k + i * y + (i * k) * W + j
    <3>4. t \in Int
      BY <1>0, <2>1, <2>4, <3>1, <3>2, <3>3
    <3>5. Wrap(q) * b + Wrap(r) = x + t * W
      <4>1. (q + i * W) * (y + k * W) = q * y + (q * k + i * y + (i * k) * W) * W
        BY <1>0, <2>1, <2>4, <3>1, <3>3
      <4> DEFINE u == q * k + i * y + (i * k) * W
                 v == q * y
      <4>2. u \in Int /\ v \in Int
        BY <1>0, <2>1, <2>4, <3>1, <3>3
      <4>3. Wrap(q) * b = v + u * W
        BY <3>1, <3>3, <4>1
      <4> HIDE DEF u, v
      <4>4. v + u * W + (r + j * W) = (v + r) + (u + j) * W
        BY <1>0, <2>4, <3>2, <4>2
      <4>5. v + r = x /\ u + j = t
        BY <2>4 DEF u, v
      <4> QED BY <3>2, <4>3, <4>4, <4>5
    <3> HIDE DEF t
    <3> QED BY <2>1, <3>4, <3>5, WrapShift
  <2> QED BY <1>1, <1>3, <1>5, <2>3, <2>4, <2>6, <2>7 DEF x, y
<1> QED BY <1>2, <1>4, <1>5

LEMMA MUnitType ==
  ASSUME NEW op \in MulOps, NEW a \in Word, NEW b \in Word
  PROVE  MUnit(op, a, b) \in Word
<1>0. WordBase \in Nat \ {0} /\ a \in Nat /\ b \in Nat /\ Signed(a) \in Int /\ Signed(b) \in Int
  BY WordBaseAssumption, SignedRange DEF Word
<1>1. CASE op \in {"mul", "mulh", "mulhsu", "mulhu"}
  <2>1. \A p \in Int : Wrap(p) \in Word /\ HighWord(p) \in Word
    <3> SUFFICES ASSUME NEW p \in Int PROVE Wrap(p) \in Word /\ HighWord(p) \in Word
      OBVIOUS
    <3>1. p \div WordBase \in Int
      BY <1>0
    <3> QED BY <3>1, WrapType DEF HighWord
  <2>2. Signed(a) * Signed(b) \in Int /\ Signed(a) * b \in Int /\ a * b \in Int
    BY <1>0
  <2>3. /\ Wrap(Signed(a) * Signed(b)) \in Word /\ HighWord(Signed(a) * Signed(b)) \in Word
        /\ HighWord(Signed(a) * b) \in Word /\ HighWord(a * b) \in Word
    BY <2>1, <2>2
  <2>4. CASE op = "mul"
    <3>1. MUnit(op, a, b) = Wrap(Signed(a) * Signed(b))
      BY <2>4 DEF MUnit
    <3> QED BY <2>3, <3>1
  <2>5. CASE op = "mulh"
    <3>1. MUnit(op, a, b) = HighWord(Signed(a) * Signed(b))
      BY <2>5 DEF MUnit
    <3> QED BY <2>3, <3>1
  <2>6. CASE op = "mulhsu"
    <3>1. MUnit(op, a, b) = HighWord(Signed(a) * b)
      BY <2>6 DEF MUnit
    <3> QED BY <2>3, <3>1
  <2>7. CASE op = "mulhu"
    <3>1. MUnit(op, a, b) = HighWord(a * b)
      BY <2>7 DEF MUnit
    <3> QED BY <2>3, <3>1
  <2> QED BY <1>1, <2>4, <2>5, <2>6, <2>7
<1>2. CASE op \in {"divu", "remu"}
  <2>1. CASE b = 0
    <3>1. MUnit(op, a, b) \in {divu_q(a, b), remu_r(a, b)}
      BY <1>2 DEF MUnit
    <3>2. divu_q(a, b) = WordBase - 1 /\ remu_r(a, b) = a
      BY <2>1 DEF divu_q, remu_r
    <3>3. WordBase - 1 \in Word
      BY <1>0 DEF Word
    <3> QED BY <3>1, <3>2, <3>3
  <2>2. CASE b # 0
    <3> DEFINE q == a \div b
               r == a % b
    <3>1. q \in Nat /\ r \in 0 .. b - 1 /\ a = b * q + r
      BY <1>0, <2>2, DivMod
    <3>2. MUnit(op, a, b) \in {q, r}
      BY <1>2, <2>2 DEF MUnit, divu_q, remu_r
    <3> HIDE DEF q, r
    <3>3. q <= b * q
      BY <1>0, <2>2, <3>1
    <3>4. b * q \in Nat
      BY <1>0, <3>1
    <3>5. q <= a /\ r <= a
      BY <1>0, <3>1, <3>3, <3>4
    <3> QED BY <1>0, <3>1, <3>2, <3>5 DEF Word
  <2> QED BY <2>1, <2>2
<1>3. CASE op \in {"div", "rem"}
  <2>1. CASE b = 0 \/ is_signed_ovf(a, b)
    <3>1. MUnit(op, a, b) \in {div_q(a, b), rem_r(a, b)}
      BY <1>3 DEF MUnit
    <3>2. div_q(a, b) \in {WordBase - 1, WordBase \div 2} /\ rem_r(a, b) \in {a, 0}
      BY <2>1 DEF div_q, rem_r
    <3>3. WordBase - 1 \in Word /\ WordBase \div 2 \in Word /\ 0 \in Word
      BY WordBaseAssumption DEF Word
    <3> QED BY <3>1, <3>2, <3>3
  <2>2. CASE b # 0 /\ ~is_signed_ovf(a, b)
    <3>1. Signed(b) \in Int \ {0}
      BY <1>0, <2>2 DEF Signed, Word
    <3>2. Wrap(Quotient(Signed(a), Signed(b))) \in Word
          /\ Wrap(Remainder(Signed(a), Signed(b))) \in Word
      BY <1>0, <3>1, SignedDivision, WrapType
    <3> QED BY <1>3, <2>2, <3>2 DEF MUnit, div_q, rem_r
  <2> QED BY <2>1, <2>2
<1> QED BY <1>1, <1>2, <1>3 DEF MulOps

-----------------------------------------------------------------------------
(* The CLINT on its own: its circuits work half by half.                  *)

(* Multiplication by a natural number is monotone. *)
LEMMA ProductMonotone ==
  ASSUME NEW m \in Nat, NEW n \in Nat, NEW b \in Nat, m <= n
  PROVE  m * b <= n * b
<1>1. PICK k \in Nat : n = m + k
  BY m <= n, n - m \in Nat
<1>2. n * b = m * b + k * b
  BY <1>1
<1>3. m * b \in Nat /\ k * b \in Nat
  OBVIOUS
<1> QED BY <1>2, <1>3

(* A counter whose upper half is smaller has a smaller value, whatever the *)
(* lower halves are.                                                       *)
LEMMA HighHalfDecides ==
  ASSUME NEW c \in Wide, NEW d \in Wide, c.hi < d.hi
  PROVE  WideValue(c) < WideValue(d)
<1> USE BaseAssumption
<1>1. c.hi \in Nat /\ d.hi \in Nat /\ c.lo \in Nat /\ d.lo \in Nat /\ c.lo < Base
  BY DEF Wide, Half
<1>2. (c.hi + 1) * Base <= d.hi * Base
  BY <1>1, ProductMonotone, c.hi + 1 \in Nat, c.hi + 1 <= d.hi
<1>3. (c.hi + 1) * Base = c.hi * Base + Base
  BY <1>1
<1>4. c.hi * Base \in Nat /\ d.hi * Base \in Nat
  BY <1>1
<1> QED BY <1>1, <1>2, <1>3, <1>4 DEF WideValue

(* The comparison of two counters half by half is the comparison of the    *)
(* numbers they stand for.                                                 *)
LEMMA HalvesCompare ==
  ASSUME NEW c \in Wide, NEW d \in Wide
  PROVE  (c.hi > d.hi \/ (c.hi = d.hi /\ c.lo >= d.lo))
           <=> WideValue(c) >= WideValue(d)
<1> USE BaseAssumption
<1>1. c.hi \in Nat /\ d.hi \in Nat /\ c.lo \in Nat /\ d.lo \in Nat
  BY DEF Wide, Half
<1>2. c.hi * Base \in Nat /\ d.hi * Base \in Nat
  BY <1>1
<1>3. WideValue(c) \in Nat /\ WideValue(d) \in Nat
  BY <1>1, <1>2 DEF WideValue
<1>4. CASE c.hi > d.hi
  BY <1>1, <1>3, <1>4, HighHalfDecides, d.hi < c.hi
<1>5. CASE c.hi < d.hi
  BY <1>1, <1>3, <1>5, HighHalfDecides
<1>6. CASE c.hi = d.hi
  BY <1>1, <1>2, <1>6 DEF WideValue
<1> QED BY <1>1, <1>4, <1>5, <1>6

(* A counter stays below Base * Base. *)
LEMMA WideBound ==
  ASSUME NEW c \in Wide
  PROVE  WideValue(c) \in 0 .. Base * Base - 1
<1> USE BaseAssumption
<1>1. c.hi \in Nat /\ c.lo \in Nat /\ c.lo < Base /\ c.hi + 1 <= Base
  BY DEF Wide, Half
<1>2. (c.hi + 1) * Base <= Base * Base
  BY <1>1, ProductMonotone, c.hi + 1 \in Nat
<1>3. (c.hi + 1) * Base = c.hi * Base + Base
  BY <1>1
<1>4. c.hi * Base \in Nat /\ Base * Base \in Nat
  BY <1>1
<1> QED BY <1>1, <1>2, <1>3, <1>4 DEF WideValue

(* The remainder of a number below the modulus, and of the modulus.        *)
LEMMA RemainderBelow ==
  ASSUME NEW n \in Nat, NEW m \in 0 .. n - 1
  PROVE  m % n = m
OBVIOUS

LEMMA RemainderSelf ==
  ASSUME NEW n \in Nat, n > 0
  PROVE  n % n = 0
OBVIOUS

(* A tick without a write counts by one modulo Base * Base. *)
LEMMA TickCounts ==
  ASSUME NEW c \in Wide, NEW w, w.half = "none"
  PROVE  WideValue(CounterTick(c, w)) = (WideValue(c) + 1) % (Base * Base)
<1> USE BaseAssumption
<1> DEFINE t == CounterTick(c, w)
<1>1. c.hi \in Nat /\ c.lo \in Nat /\ c.lo < Base /\ c.hi < Base
  BY DEF Wide, Half
<1>2. c.hi * Base \in Nat /\ Base * Base \in Nat /\ Base * Base > 0
  BY <1>1, ProductMonotone
<1>3. WideValue(c) \in 0 .. Base * Base - 1
  BY WideBound
<1>4. CASE c.lo < Base - 1
  <2>1. t.lo = c.lo + 1 /\ t.hi = c.hi
    BY <1>1, <1>4 DEF CounterTick
  <2>2. WideValue(t) = WideValue(c) + 1
    BY <2>1, <1>1, <1>2 DEF WideValue
  <2>3. t \in Wide
    BY <2>1, <1>1, <1>4 DEF CounterTick, Wide, Half
  <2>4. WideValue(t) \in 0 .. Base * Base - 1
    BY <2>3, WideBound
  <2> QED BY <2>2, <2>4, <1>2, RemainderBelow
<1>5. CASE c.lo = Base - 1 /\ c.hi < Base - 1
  <2>1. t.lo = 0 /\ t.hi = c.hi + 1
    BY <1>1, <1>5 DEF CounterTick
  <2>2. WideValue(t) = WideValue(c) + 1
    BY <2>1, <1>1, <1>2, <1>5 DEF WideValue
  <2>3. t \in Wide
    BY <2>1, <1>1, <1>5 DEF CounterTick, Wide, Half
  <2>4. WideValue(t) \in 0 .. Base * Base - 1
    BY <2>3, WideBound
  <2> QED BY <2>2, <2>4, <1>2, RemainderBelow
<1>6. CASE c.lo = Base - 1 /\ c.hi = Base - 1
  <2>1. t.lo = 0 /\ t.hi = 0
    BY <1>1, <1>6 DEF CounterTick
  <2>2. WideValue(t) = 0
    BY <2>1 DEF WideValue
  <2>3. WideValue(c) + 1 = Base * Base
    BY <1>1, <1>6 DEF WideValue
  <2> QED BY <2>2, <2>3, <1>2, RemainderSelf
<1> QED BY <1>1, <1>4, <1>5, <1>6

-----------------------------------------------------------------------------
(* The reset values are values of a counter. *)
LEMMA ResetValues == Zero \in Wide /\ AllOnes \in Wide
<1>1. 0 \in Half /\ Base - 1 \in Half
  BY BaseAssumption DEF Half
<1> QED BY <1>1 DEF Zero, AllOnes, Wide

(* Type correctness. *)
THEOREM ClintTypeCorrect == ClintSpec => []ClintTypeOK
<1> USE BaseAssumption
<1>1. ClintInit => ClintTypeOK
  BY ResetValues DEF ClintInit, ClintTypeOK
<1>2. ASSUME ClintTypeOK, [ClintNext]_clintVars PROVE ClintTypeOK'
  <2>1. CASE UNCHANGED clintVars
    BY <1>2, <2>1 DEF ClintTypeOK, clintVars
  <2>2. ASSUME ClintReset PROVE ClintTypeOK'
    BY <2>2, ResetValues DEF ClintReset, ClintTypeOK
  <2>3. ASSUME NEW w \in ClintStores, ClintRun(w) PROVE ClintTypeOK'
    <3>1. w.data \in Half
      BY DEF ClintStores
    <3>2. msip_bit' \in BOOLEAN
      BY <1>2, <2>3 DEF ClintRun, ClintTypeOK
    <3>3. mtimecmp' \in Wide
      BY <1>2, <2>3, <3>1 DEF ClintRun, ClintTypeOK, Wide
    <3>4. CounterTick(mtime, MtimeWrite(w)) \in Wide
      <4>1. mtime \in Wide
        BY <1>2 DEF ClintTypeOK
      <4>2. (mtime.lo + 1) % Base \in Half /\ (mtime.hi + 1) % Base \in Half
        BY <4>1 DEF Wide, Half
      <4>3. MtimeWrite(w).data \in Half
        BY <3>1 DEF MtimeWrite
      <4> QED BY <4>1, <4>2, <4>3 DEF CounterTick, Wide
    <3> QED BY <2>3, <3>2, <3>3, <3>4 DEF ClintRun, ClintTypeOK
  <2> QED BY <1>2, <2>1, <2>2, <2>3 DEF ClintNext, ClintClock
<1> QED BY <1>1, <1>2, PTL DEF ClintSpec

(* The half-by-half comparison that drives the timer interrupt is the      *)
(* 64-bit one in every reachable state (clint.v:99-100); the property says *)
(* nothing of the compare value 0.                                         *)
THEOREM TimerLineIsCompare == ClintSpec => []MtipIsCompare
<1>1. ClintTypeOK => MtipIsCompare
  BY HalvesCompare DEF ClintTypeOK, MtipIsCompare, mtip
<1> QED BY <1>1, ClintTypeCorrect, PTL

(* The timer counts modulo the square of Base in every cycle that does not *)
(* store to it: the carry between the halves is exact (clint.v:91-95).     *)
THEOREM TimerCounts == ClintSpec => MtimeCounts
<1>1. ASSUME ClintTypeOK, NEW w \in ClintStores, ClintRun(w),
             w.reg \notin {"mtime_lo", "mtime_hi"}
      PROVE  WideValue(mtime') = (WideValue(mtime) + 1) % (Base * Base)
  <2>1. MtimeWrite(w).half = "none"
    BY <1>1 DEF MtimeWrite
  <2>2. mtime' = CounterTick(mtime, MtimeWrite(w)) /\ mtime \in Wide
    BY <1>1 DEF ClintRun, ClintTypeOK
  <2> QED BY <2>1, <2>2, TickCounts
<1>2. ClintTypeOK /\ [ClintNext]_clintVars =>
        [\A w \in ClintStores :
           ClintRun(w) /\ w.reg \notin {"mtime_lo", "mtime_hi"}
             => WideValue(mtime') = (WideValue(mtime) + 1) % (Base * Base)]_clintVars
  BY <1>1
<1> QED BY <1>2, ClintTypeCorrect, PTL DEF ClintSpec, MtimeCounts

-----------------------------------------------------------------------------
(* Arithmetic. *)

LEMMA RemainderRange ==
  ASSUME NEW a \in Nat, NEW n \in Nat \ {0}
  PROVE  a % n \in 0 .. n - 1
OBVIOUS

LEMMA RemainderSmall ==
  ASSUME NEW n \in Nat \ {0}, NEW m \in 0 .. n - 1
  PROVE  m % n = m
OBVIOUS

LEMMA RemainderOver ==
  ASSUME NEW n \in Nat \ {0}, NEW m \in n .. 2 * n - 1
  PROVE  m % n = m - n
OBVIOUS

LEMMA PlusType ==
  ASSUME NEW a \in Word, NEW b \in Word
  PROVE  Plus(a, b) \in Word
BY WrapType, WordBaseAssumption, a + b \in Int DEF Plus, Word

(* Adding one on both sides of a sum commutes with wrapping around.        *)
LEMMA SumWraps ==
  ASSUME NEW n \in Nat \ {0}, NEW t \in 0 .. n - 1, NEW e \in 0 .. n - 1,
         NEW i \in 0 .. n - 1, t = (e + i) % n
  PROVE  (t + 1) % n = (((e + 1) % n) + i) % n
<1>1. CASE e + i < n
  <2>1. t = e + i
    BY <1>1, RemainderSmall
  <2>2. CASE e + 1 < n
    BY <2>1, <2>2, RemainderSmall
  <2>3. CASE e + 1 = n
    <3>1. i = 0 /\ t + 1 = n
      BY <1>1, <2>1, <2>3
    <3>2. n % n = 0
      BY RemainderOver
    <3> QED BY <2>3, <3>1, <3>2, RemainderSmall
  <2> QED BY <2>2, <2>3
<1>2. CASE e + i >= n
  <2>1. t = e + i - n
    <3>1. e + i \in n .. 2 * n - 1
      BY <1>2
    <3>2. (e + i) % n = (e + i) - n
      BY <3>1, RemainderOver
    <3> QED BY <3>2
  <2>2. CASE e + 1 < n
    <3>1. (e + 1) % n = e + 1
      BY <2>2, RemainderSmall
    <3>2. (e + 1 + i) % n = e + 1 + i - n
      <4> DEFINE m == e + 1 + i
      <4>1. m \in n .. 2 * n - 1
        BY <1>2, <2>2
      <4> HIDE DEF m
      <4>2. m % n = m - n
        BY <4>1, RemainderOver
      <4> QED BY <4>2 DEF m
    <3>3. (t + 1) % n = t + 1
      BY <2>1, <2>2, RemainderSmall
    <3> QED BY <2>1, <3>1, <3>2, <3>3
  <2>3. CASE e + 1 = n
    <3>1. (e + 1) % n = 0
      BY <2>3, RemainderOver, n \in n .. 2 * n - 1
    <3>2. ((e + 1) % n) + i = t + 1
      BY <3>1, <2>1, <2>3
    <3> QED BY <3>2
  <2> QED BY <2>2, <2>3
<1> QED BY <1>1, <1>2

-----------------------------------------------------------------------------
(* What the decoder may assume of an instruction. *)

LEMMA InstructionFields ==
  ASSUME NEW i \in Instruction
  PROVE  /\ i.op \in ImmOps \cup {"load", "jalr"} =>
              i.rd \in Reg /\ i.rs1 \in Reg /\ i.imm \in Word
         /\ i.op \in AluOps \cup MulOps => i.rd \in Reg /\ i.rs1 \in Reg /\ i.rs2 \in Reg
         /\ i.op \in UpperOps \cup {"jal"} => i.rd \in Reg /\ i.imm \in Word
         /\ i.op = "load" => i.size \in Sizes /\ i.signed \in BOOLEAN
         /\ i.op = "store" => /\ i.rs2 \in Reg /\ i.rs1 \in Reg
                               /\ i.imm \in Word /\ i.size \in Sizes
         /\ i.op \in BranchOps => i.rs1 \in Reg /\ i.rs2 \in Reg /\ i.imm \in Word
         /\ i.op = "csr" =>
              /\ i.rd \in Reg /\ i.f \in CsrOps /\ i.csr \in CsrNames
              /\ (i.src = "reg" /\ i.rs1 \in Reg) \/ (i.src = "imm" /\ i.imm \in Word)
<1> USE DEF ImmOps, UpperOps, AluOps, MulOps, BranchOps
<1>1. CASE i \in AluImm \cup AluReg \cup Upper
  BY <1>1 DEF AluImm, AluReg, Upper
<1>2. CASE i \in Load \cup Store \cup Branch
  BY <1>2 DEF Load, Store, Branch
<1>3. CASE i \in Jal \cup Jalr
  BY <1>3 DEF Jal, Jalr
<1>4. CASE i \in CsrReg \cup CsrImm
  BY <1>4 DEF CsrReg, CsrImm
<1>5. CASE i \in Priv \cup Nop
  BY <1>5 DEF Priv, Nop
<1> QED BY <1>1, <1>2, <1>3, <1>4, <1>5 DEF Instruction

(* Whatever the pc is, the core executes an instruction. *)
LEMMA InstType ==
  ASSUME imem \in Programs
  PROVE  inst \in Instruction
<1>1. [op |-> "nop"] \in Instruction
  BY DEF Instruction, Nop
<1>2. \A k \in DOMAIN imem : imem[k] \in Instruction
  BY ProgramsAssumption
<1> QED BY <1>1, <1>2 DEF inst

-----------------------------------------------------------------------------
(* The wires of one cycle are words. *)

LEMMA ReadRegType ==
  ASSUME CoreTypeOK, NEW r \in Reg
  PROVE  ReadReg(r) \in Word
BY WordBaseAssumption DEF CoreTypeOK, ReadReg, Word

LEMMA AddressType ==
  ASSUME CoreTypeOK, imem \in Programs, mem_read_en \/ mem_write_en_raw
  PROVE  effective_addr \in Word
<1>1. inst.rs1 \in Reg /\ inst.imm \in Word
  BY InstType, InstructionFields DEF mem_read_en, mem_write_en_raw
<1> QED BY <1>1, ReadRegType, PlusType DEF effective_addr

(* A word address has a word of data memory behind it. *)
LEMMA DmemIndexType ==
  ASSUME NEW a \in Word
  PROVE  a \div 4 \in DmemIndex
BY WordBaseAssumption DEF Word, DmemIndex

(* An aligned address is aligned within its word. *)
LEMMA OffsetAligned ==
  ASSUME NEW a \in Word, NEW size \in Sizes, a % Bytes(size) = 0
  PROVE  a % 4 \in 0 .. 3 /\ (a % 4) % Bytes(size) = 0
<1>1. a \in Nat
  BY WordBaseAssumption DEF Word
<1>2. size = "byte" \/ size = "half" \/ size = "word"
  BY DEF Sizes
<1> QED BY <1>1, <1>2 DEF Bytes

LEMMA AlignedType ==
  ASSUME NEW a \in Word, NEW n \in {2, 4}
  PROVE  a - (a % n) \in Word
BY WordBaseAssumption DEF Word

LEMMA FlagWordType ==
  ASSUME NEW x \in BOOLEAN, NEW y \in BOOLEAN
  PROVE  FlagWord(x, y) \in Word
BY WordBaseAssumption DEF FlagWord, Word

LEMMA LoadType ==
  ASSUME TypeOK, imem \in Programs, mem_read_en, ~misaligned
  PROVE  mem_read_data \in Word
<1> DEFINE a == effective_addr
<1>1. a \in Word
  BY AddressType DEF TypeOK
<1>2. 0 \in Word /\ 1 \in Word /\ Byte \subseteq Word /\ Half \subseteq Word
  BY WordBaseAssumption, CoreAssumption, BaseAssumption, UartAssumption
     DEF Word, Byte, Half
<1>3. CASE IsUartAddr(a)
  <2>1. rx_latch \in Word
    BY <1>2 DEF TypeOK, UartTypeOK
  <2>2. UartRead(UartReg(a)) \in Word
    BY <1>2, <2>1 DEF UartRead
  <2>3. ~IsClintAddr(a)
    BY <1>3, CoreAssumption DEF IsUartAddr, IsClintAddr
  <2> QED BY <1>3, <2>2, <2>3 DEF mem_read_data
<1>4. CASE ~IsUartAddr(a) /\ IsClintAddr(a)
  <2>1. ClintRead(ClintReg(a)) \in Word
    BY <1>2 DEF ClintRead, TypeOK, ClintTypeOK, Wide
  <2> QED BY <1>4, <2>1 DEF mem_read_data
<1>5. CASE ~IsUartAddr(a) /\ ~IsClintAddr(a)
  <2>1. dmem[a \div 4] \in Word
    BY <1>1, DmemIndexType DEF TypeOK, CoreTypeOK
  <2>2. inst.size \in Sizes /\ inst.signed \in BOOLEAN /\ a % Bytes(inst.size) = 0
    BY InstType, InstructionFields DEF mem_read_en, misaligned
  <2>3. read_data(dmem[a \div 4], a % 4, inst.size, inst.signed) \in Word
    BY <1>1, <2>1, <2>2, OffsetAligned, LoadReturnsTheBytes
  <2> QED BY <1>5, <2>3 DEF mem_read_data
<1> QED BY <1>3, <1>4, <1>5

LEMMA CsrReadType ==
  ASSUME CsrTypeOK, NEW c, NEW x \in BOOLEAN, NEW y \in BOOLEAN
  PROVE  CsrRead(c, x, y) \in Word
<1>1. mcycle_ctr.lo \in Word /\ mcycle_ctr.hi \in Word
  BY WordBaseAssumption, CoreAssumption, BaseAssumption
     DEF CsrTypeOK, Wide, Half, Word
<1>2. 0 \in Word
  BY WordBaseAssumption DEF Word
<1> QED BY <1>1, <1>2, FlagWordType DEF CsrTypeOK, CsrRead

LEMMA LinesType ==
  ASSUME TypeOK
  PROVE  mtip \in BOOLEAN /\ msip \in BOOLEAN
BY DEF TypeOK, ClintTypeOK, mtip, msip

LEMMA WriteBackType ==
  ASSUME TypeOK, imem \in Programs, reg_write_en
  PROVE  inst.rd \in Reg /\ wb_data \in Word
<1>1. inst \in Instruction /\ CoreTypeOK
  BY InstType DEF TypeOK
<1> USE DEF jump, is_m_op, ImmOps, UpperOps, AluOps, MulOps
<1>2. CASE inst.op \in ImmOps
  <2>1. inst.rd \in Reg /\ ReadReg(inst.rs1) \in Word /\ inst.imm \in Word
    BY <1>1, <1>2, InstructionFields, ReadRegType
  <2>2. alu_op \in AluOps
    BY <1>2 DEF alu_op
  <2>3. Alu(alu_op, ReadReg(inst.rs1), inst.imm) \in Word
    BY <2>1, <2>2, AluType
  <2> QED BY <1>2, <2>1, <2>3 DEF wb_data
<1>3. CASE inst.op \in AluOps \cup MulOps
  <2>1. inst.rd \in Reg /\ ReadReg(inst.rs1) \in Word /\ ReadReg(inst.rs2) \in Word
    BY <1>1, <1>3, InstructionFields, ReadRegType
  <2>2. inst.op \in AluOps => Alu(inst.op, ReadReg(inst.rs1), ReadReg(inst.rs2)) \in Word
    BY <2>1, AluType
  <2>3. inst.op \in MulOps => MUnit(inst.op, ReadReg(inst.rs1), ReadReg(inst.rs2)) \in Word
    BY <2>1, MUnitType
  <2>4. CASE inst.op \in AluOps
    <3>1. wb_data = Alu(alu_op, ReadReg(inst.rs1), ReadReg(inst.rs2)) /\ alu_op = inst.op
      BY <2>4 DEF wb_data, alu_op
    <3> QED BY <2>1, <2>2, <2>4, <3>1
  <2>5. CASE inst.op \in MulOps
    <3>1. wb_data = MUnit(inst.op, ReadReg(inst.rs1), ReadReg(inst.rs2))
      BY <2>5 DEF wb_data
    <3> QED BY <2>1, <2>3, <2>5, <3>1
  <2> QED BY <1>3, <2>4, <2>5
<1>4. CASE inst.op = "load"
  <2>1. inst.rd \in Reg
    BY <1>1, <1>4, InstructionFields
  <2>2. mem_read_data \in Word
    BY <1>4, LoadType DEF reg_write_en, trap_en, sync_exception, mem_read_en
  <2> QED BY <1>4, <2>1, <2>2 DEF wb_data
<1>5. CASE jump \/ inst.op \in UpperOps
  <2>1. inst.rd \in Reg /\ inst.imm \in Word
    BY <1>1, <1>5, InstructionFields
  <2>2. Plus(pc, 4) \in Word /\ Plus(pc, inst.imm) \in Word
    BY <2>1, PlusType, WordBaseAssumption DEF TypeOK, CoreTypeOK, Word
  <2> QED BY <1>5, <2>1, <2>2 DEF wb_data
<1>6. CASE inst.op = "csr"
  <2>1. inst.rd \in Reg
    BY <1>1, <1>6, InstructionFields
  <2>2. CsrRead(inst.csr, mtip, msip) \in Word
    BY CsrReadType, LinesType DEF TypeOK
  <2> QED BY <1>6, <2>1, <2>2 DEF wb_data
<1> QED BY <1>2, <1>3, <1>4, <1>5, <1>6 DEF reg_write_en, reg_write_en_raw

(* A store that commits is aligned, and makes a word. *)
LEMMA StoreType ==
  ASSUME TypeOK, imem \in Programs, mem_write_en
  PROVE  /\ effective_addr \in Word /\ effective_addr \div 4 \in DmemIndex
         /\ ReadReg(inst.rs2) \in Word /\ inst.size \in Sizes
         /\ effective_addr % Bytes(inst.size) = 0
         /\ new_word(dmem[effective_addr \div 4], effective_addr % 4,
                     inst.size, ReadReg(inst.rs2)) \in Word
<1>1. inst.op = "store" /\ ~misaligned
  BY DEF mem_write_en, mem_write_en_raw, trap_en, sync_exception
<1>2. inst.rs2 \in Reg /\ inst.size \in Sizes
  BY <1>1, InstType, InstructionFields
<1>3. effective_addr \in Word /\ ReadReg(inst.rs2) \in Word
  BY <1>1, <1>2, AddressType, ReadRegType DEF mem_write_en_raw, TypeOK
<1>4. effective_addr % Bytes(inst.size) = 0
  BY <1>1 DEF misaligned, mem_write_en_raw
<1>5. effective_addr \div 4 \in DmemIndex /\ dmem[effective_addr \div 4] \in Word
  BY <1>3, DmemIndexType DEF TypeOK, CoreTypeOK
<1>6. effective_addr % 4 \in 0 .. 3 /\ (effective_addr % 4) % Bytes(inst.size) = 0
  BY <1>2, <1>3, <1>4, OffsetAligned
<1> DEFINE w == dmem[effective_addr \div 4]
           off == effective_addr % 4
           d == ReadReg(inst.rs2)
<1>7. w \in Word /\ d \in Word /\ off \in 0 .. 3 /\ off % Bytes(inst.size) = 0
  BY <1>3, <1>5, <1>6
<1> HIDE DEF w, off, d
<1>8. new_word(w, off, inst.size, d) \in Word
  BY <1>2, <1>7, StoreMakesWord
<1> QED BY <1>2, <1>3, <1>4, <1>5, <1>8 DEF w, off, d

LEMMA NextPcType ==
  ASSUME TypeOK, imem \in Programs
  PROVE  next_pc \in Word
<1>1. inst \in Instruction
  BY InstType
<1>2. mtvec_out \in Word /\ mepc_out \in Word
  BY AlignedType DEF mtvec_out, mepc_out, TypeOK, CsrTypeOK
<1>3. Plus(pc, 4) \in Word
  BY PlusType, WordBaseAssumption DEF TypeOK, CoreTypeOK, Word
<1>4. ASSUME inst.op = "jalr"
      PROVE  LET t == Plus(ReadReg(inst.rs1), inst.imm) IN t - (t % 2) \in Word
  <2>1. Plus(ReadReg(inst.rs1), inst.imm) \in Word
    BY <1>1, <1>4, InstructionFields, ReadRegType, PlusType DEF TypeOK
  <2> QED BY <2>1, AlignedType
<1>5. ASSUME inst.op = "jal" \/ branch_taken
      PROVE  Plus(pc, inst.imm) \in Word
  <2>1. inst.op \in BranchOps \cup {"jal"}
    BY <1>5 DEF branch_taken, branch
  <2>2. inst.imm \in Word
    BY <1>1, <2>1, InstructionFields
  <2> QED BY <2>2, PlusType DEF TypeOK, CoreTypeOK
<1> QED BY <1>2, <1>3, <1>4, <1>5 DEF next_pc

-----------------------------------------------------------------------------
(* Type correctness, one lemma per component. *)

LEMMA InitType == Init => TypeOK /\ imem \in Programs
<1> SUFFICES ASSUME Init PROVE TypeOK /\ imem \in Programs
  OBVIOUS
<1>1. 0 \in Word /\ 0 \in Byte /\ 0 \in Half /\ Base - 1 \in Half
      /\ 0 \in 0 .. CountBase - 1
  BY WordBaseAssumption, UartAssumption, BaseAssumption, CoreAssumption
     DEF Word, Byte, Half
<1>2. CoreTypeOK
  BY <1>1 DEF Init, CoreTypeOK, NoCounts
<1>3. ClintTypeOK
  BY <1>1 DEF Init, ClintInit, ClintTypeOK, Zero, AllOnes, Wide
<1>4. CsrTypeOK
  BY <1>1 DEF Init, CsrInit, CsrTypeOK, Zero, Wide
<1>5. UartTypeOK
  <2>1. <<>> \in Seq(Byte) /\ Len(<<>>) <= MaxBuffered
    BY UartAssumption
  <2> QED BY <1>1, <2>1 DEF Init, UartInit, UartTypeOK
<1> QED BY <1>2, <1>3, <1>4, <1>5 DEF TypeOK, Init

LEMMA CoreRegistersType ==
  ASSUME TypeOK, imem \in Programs, NEW reset \in BOOLEAN, Clock(reset)
  PROVE  CoreTypeOK'
<1>0. 0 \in Word /\ 0 \in 0 .. CountBase - 1
  BY WordBaseAssumption, CoreAssumption DEF Word
<1>1. pc' \in Word
  BY <1>0, NextPcType DEF Clock
<1>2. regs' \in [Reg -> Word]
  <2>1. regs \in [Reg -> Word]
    BY DEF TypeOK, CoreTypeOK
  <2>2. reg_write_en => wb_data \in Word
    BY WriteBackType
  <2> QED BY <1>0, <2>1, <2>2 DEF Clock
<1>3. dmem' \in [DmemIndex -> Word]
  <2>1. dmem \in [DmemIndex -> Word]
    BY DEF TypeOK, CoreTypeOK
  <2> DEFINE at == effective_addr \div 4
             new == new_word(dmem[at], effective_addr % 4, inst.size, ReadReg(inst.rs2))
  <2>2. mem_write_en => new \in Word
    BY StoreType
  <2>3. dmem' = dmem \/ (mem_write_en /\ dmem' = [dmem EXCEPT ![at] = new])
    BY DEF Clock
  <2> HIDE DEF new
  <2> QED BY <2>1, <2>2, <2>3
<1>4. cnt' \in [CounterNames -> 0 .. CountBase - 1]
  <2>1. \A c \in CounterNames : cnt[c] \in 0 .. CountBase - 1
    BY DEF TypeOK, CoreTypeOK
  <2>2. ASSUME NEW c \in CounterNames
        PROVE  (cnt[c] + 1) % CountBase \in 0 .. CountBase - 1
    <3>1. cnt[c] + 1 \in Nat
      BY <2>1
    <3> QED BY <3>1, RemainderRange, CoreAssumption
  <2> QED BY <1>0, <2>1, <2>2 DEF Clock, NoCounts
<1> QED BY <1>1, <1>2, <1>3, <1>4 DEF CoreTypeOK

(* A 64-bit counter that ticks stays one. *)
LEMMA CounterTickType ==
  ASSUME NEW c \in Wide, NEW w, w.data \in Half
  PROVE  CounterTick(c, w) \in Wide
<1>1. (c.lo + 1) % Base \in Half /\ (c.hi + 1) % Base \in Half
  <2>1. c.lo + 1 \in Nat /\ c.hi + 1 \in Nat
    BY DEF Wide, Half
  <2>2. (c.lo + 1) % Base \in 0 .. Base - 1 /\ (c.hi + 1) % Base \in 0 .. Base - 1
    BY <2>1, RemainderRange, BaseAssumption
  <2> QED BY <2>2 DEF Half
<1> QED BY <1>1 DEF CounterTick, Wide

(* The store that reaches the CLINT carries a half word. *)
LEMMA ClintStoreType ==
  ASSUME TypeOK, imem \in Programs
  PROVE  clint_store.data \in Half
<1>1. 0 \in Half
  BY BaseAssumption DEF Half
<1>2. ASSUME mem_write_en PROVE ReadReg(inst.rs2) % Base \in Half
  <2>1. ReadReg(inst.rs2) \in Word
    BY <1>2, InstType, InstructionFields, ReadRegType
       DEF mem_write_en, mem_write_en_raw, TypeOK
  <2> QED BY <2>1, RemainderRange, BaseAssumption DEF Word, Half
<1> QED BY <1>1, <1>2 DEF clint_store, NoStore

LEMMA ClintRegistersType ==
  ASSUME TypeOK, imem \in Programs, NEW reset \in BOOLEAN, Clock(reset)
  PROVE  ClintTypeOK'
<1>1. CASE reset
  <2>1. 0 \in Half /\ Base - 1 \in Half
    BY BaseAssumption DEF Half
  <2>2. Zero \in Wide /\ AllOnes \in Wide
    BY <2>1 DEF Zero, AllOnes, Wide
  <2> QED BY <1>1, <2>2 DEF Clock, ClintClock, ClintReset, ClintTypeOK
<1>2. CASE ~reset
  <2>1. ClintRun(clint_store)
    BY <1>2 DEF Clock, ClintClock
  <2>2. clint_store.data \in Half /\ mtime \in Wide /\ mtimecmp \in Wide
    BY ClintStoreType DEF TypeOK, ClintTypeOK
  <2>3. msip_bit' \in BOOLEAN
    BY <2>1 DEF ClintRun, TypeOK, ClintTypeOK
  <2>4. mtimecmp' \in Wide
    BY <2>1, <2>2 DEF ClintRun, Wide
  <2>5. mtime' \in Wide
    <3>1. MtimeWrite(clint_store).data \in Half
      BY <2>2 DEF MtimeWrite
    <3> QED BY <2>1, <2>2, <3>1, CounterTickType DEF ClintRun
  <2> QED BY <2>3, <2>4, <2>5 DEF ClintTypeOK
<1> QED BY <1>1, <1>2

(* What the trap port and a CSR instruction write are words. *)
LEMMA TrapType ==
  ASSUME TypeOK, imem \in Programs
  PROVE  trap.pc \in Word /\ trap.cause \in Word /\ trap.tval \in Word
<1>1. pc \in Word
  BY DEF TypeOK, CoreTypeOK
<1>2. trap_cause \in Word
  <2>1. /\ InterruptBit + 3 \in Word /\ InterruptBit + 7 \in Word
        /\ {2, 3, 4, 6, 11} \subseteq Word
    BY WordBaseAssumption DEF InterruptBit, Word
  <2> QED BY <2>1 DEF trap_cause
<1>3. trap_tval \in Word
  <2>1. 0 \in Word
    BY WordBaseAssumption DEF Word
  <2>2. misaligned => effective_addr \in Word
    BY AddressType DEF misaligned, TypeOK
  <2> QED BY <2>1, <2>2 DEF trap_tval
<1> QED BY <1>1, <1>2, <1>3 DEF trap

LEMMA CsrWriteType ==
  ASSUME TypeOK, imem \in Programs
  PROVE  csr_write.data \in Word /\ csr_write.op \in CsrOps
<1>1. 0 \in Word
  BY WordBaseAssumption DEF Word
<1>2. ASSUME csr_access_en PROVE csr_wdata \in Word /\ inst.f \in CsrOps
  <2>1. /\ inst.f \in CsrOps
        /\ (inst.src = "reg" /\ inst.rs1 \in Reg) \/ (inst.src = "imm" /\ inst.imm \in Word)
    BY <1>2, InstType, InstructionFields DEF csr_access_en
  <2> QED BY <2>1, ReadRegType DEF csr_wdata, TypeOK
<1> QED BY <1>1, <1>2 DEF csr_write, NoCsrWrite, CsrOps

LEMMA CsrRegistersType ==
  ASSUME TypeOK, imem \in Programs, NEW reset \in BOOLEAN, Clock(reset)
  PROVE  CsrTypeOK'
<1> DEFINE Port ==
      /\ {mstatus_mie', mstatus_mpie', mie_mtie', mie_msie'} \subseteq BOOLEAN
      /\ {mtvec', mepc', mcause', mscratch', mtval'} \subseteq Word
<1>0. 0 \in Word /\ CsrTypeOK
  BY WordBaseAssumption DEF Word, TypeOK
<1>1. ASSUME CsrReset PROVE Port
  BY <1>0, <1>1 DEF CsrReset
<1>2. ASSUME CsrTrap(trap) PROVE Port
  BY <1>0, <1>2, TrapType DEF CsrTrap, CsrTypeOK
<1>3. ASSUME CsrMret PROVE Port
  BY <1>0, <1>3 DEF CsrMret, CsrTypeOK
<1>4. ASSUME CsrSoftware(csr_write) PROVE Port
  <2>1. /\ mstatus_mie' \in BOOLEAN /\ mstatus_mpie' \in BOOLEAN
        /\ mie_mtie' \in BOOLEAN /\ mie_msie' \in BOOLEAN
    BY <1>0, <1>4, CsrWriteType
       DEF CsrSoftware, CsrTypeOK, NextFlag, LowBit, HighBit, CsrOps
  <2>2. {mtvec', mepc', mcause', mscratch', mtval'} \subseteq Word
    BY <1>0, <1>4, CsrWriteType DEF CsrSoftware, CsrTypeOK
  <2> QED BY <2>1, <2>2
<1>5. mcycle_ctr' \in Wide
  <2>1. Zero \in Wide /\ NoWrite.data \in Half
    BY BaseAssumption DEF Zero, Wide, Half, NoWrite
  <2>2. CycleWrite(csr_write).data \in Half
    <3>1. csr_write.data \in Nat
      BY CsrWriteType DEF Word
    <3> QED BY <3>1, RemainderRange, BaseAssumption DEF CycleWrite, Half
  <2>3. mcycle_ctr \in Wide
    BY <1>0 DEF CsrTypeOK
  <2>4. CounterTick(mcycle_ctr, NoWrite) \in Wide
    BY <2>1, <2>3, CounterTickType
  <2>5. CounterTick(mcycle_ctr, CycleWrite(csr_write)) \in Wide
    BY <2>2, <2>3, CounterTickType
  <2>6. CsrClock(reset, trap, is_mret, csr_write)
    BY DEF Clock
  <2> QED BY <2>1, <2>4, <2>5, <2>6 DEF CsrClock
<1>6. Port
  BY <1>1, <1>2, <1>3, <1>4 DEF Clock, CsrClock
<1> QED BY <1>5, <1>6 DEF CsrTypeOK

LEMMA PushType ==
  ASSUME NEW q \in Seq(Byte), Len(q) <= MaxBuffered, NEW c \in Byte
  PROVE  PushBounded(q, c) \in Seq(Byte) /\ Len(PushBounded(q, c)) <= MaxBuffered
<1>1. CASE Len(q) < MaxBuffered
  BY <1>1, UartAssumption DEF PushBounded
<1>2. CASE Len(q) = MaxBuffered
  <2>1. Tail(q) \in Seq(Byte) /\ Len(Tail(q)) = Len(q) - 1
    BY <1>2, UartAssumption
  <2> QED BY <1>2, <2>1, UartAssumption DEF PushBounded
<1> QED BY <1>1, <1>2, UartAssumption

LEMMA UartRegistersType ==
  ASSUME TypeOK, imem \in Programs, NEW reset \in BOOLEAN, Clock(reset)
  PROVE  UartTypeOK'
<1>1. UartClock(uart_rx_strobe, uart_tx) /\ UartTypeOK
  BY DEF Clock, TypeOK
<1>2. rx_latch' \in Byte /\ g_rx_buf' \in Seq(Byte) /\ Len(g_rx_buf') <= MaxBuffered
  <2>1. CASE g_rx_buf = <<>>
    BY <1>1, <2>1 DEF UartClock, Refill, UartTypeOK
  <2>2. CASE g_rx_buf # <<>>
    <3>1. /\ Head(g_rx_buf) \in Byte /\ Tail(g_rx_buf) \in Seq(Byte)
          /\ Len(Tail(g_rx_buf)) = Len(g_rx_buf) - 1
      BY <1>1, <2>2 DEF UartTypeOK
    <3> QED BY <1>1, <3>1, UartAssumption DEF UartClock, Refill, UartTypeOK
  <2> QED BY <2>1, <2>2
<1>3. rx_valid' \in BOOLEAN
  BY <1>1 DEF UartClock, Refill, UartTypeOK
<1>4. g_tx_buf' \in Seq(Byte) /\ Len(g_tx_buf') <= MaxBuffered
  <2>1. uart_tx # <<>> => uart_tx[1] \in Byte
    <3>1. ASSUME mem_write_en PROVE ReadReg(inst.rs2) % ByteBase \in Byte
      <4>1. ReadReg(inst.rs2) \in Word
        BY <3>1, InstType, InstructionFields, ReadRegType
           DEF mem_write_en, mem_write_en_raw, TypeOK
      <4> QED BY <4>1, RemainderRange, UartAssumption DEF Word, Byte
    <3> QED BY <3>1 DEF uart_tx
  <2>2. CASE uart_tx = <<>>
    BY <1>1, <2>2 DEF UartClock, Refill, UartTypeOK
  <2>3. CASE uart_tx # <<>>
    BY <1>1, <2>1, <2>3, PushType DEF UartClock, Refill, UartTypeOK
  <2> QED BY <2>2, <2>3
<1> QED BY <1>2, <1>3, <1>4 DEF UartTypeOK

-----------------------------------------------------------------------------
(* The invariant every theorem below rests on: registers and queues hold   *)
(* what their widths allow, and the program is the one that was loaded.    *)
IInv == TypeOK /\ imem \in Programs

(* What the host does to the UART keeps its types, and touches nothing     *)
(* else.                                                                   *)
LEMMA HostStepType ==
  ASSUME IInv, HostRead \/ (\E b \in Byte : HostWrite(b))
  PROVE  IInv'
<1>1. UartTypeOK
  BY DEF IInv, TypeOK
<1>2. UartTypeOK'
  <2>1. CASE HostRead
    <3>1. UartDrain(MaxBuffered)
      BY <2>1 DEF HostRead
    <3>2. g_tx_buf' = <<>>
      <4>1. Len(g_tx_buf) \in Nat /\ Len(g_tx_buf) <= MaxBuffered
        BY <1>1 DEF UartTypeOK
      <4>2. (IF Len(g_tx_buf) < MaxBuffered THEN Len(g_tx_buf) ELSE MaxBuffered)
              = Len(g_tx_buf)
        BY <4>1, UartAssumption
      <4>3. g_tx_buf' = SubSeq(g_tx_buf, Len(g_tx_buf) + 1, Len(g_tx_buf))
        BY <3>1, <4>2 DEF UartDrain
      <4> QED BY <1>1, <4>1, <4>3 DEF UartTypeOK
    <3>3. <<>> \in Seq(Byte) /\ Len(<<>>) <= MaxBuffered
      BY UartAssumption
    <3> QED BY <1>1, <3>1, <3>2, <3>3 DEF UartDrain, UartTypeOK
  <2>2. ASSUME NEW b \in Byte, HostWrite(b) PROVE UartTypeOK'
    BY <1>1, <2>2, PushType DEF HostWrite, UartPush, UartTypeOK
  <2> QED BY <2>1, <2>2
<1>3. UNCHANGED <<coreVars, clintVars, csrVars>>
  BY DEF HostRead, HostWrite
<1>4. CoreTypeOK' /\ ClintTypeOK' /\ CsrTypeOK' /\ imem' \in Programs
  BY <1>3 DEF IInv, TypeOK, CoreTypeOK, ClintTypeOK, CsrTypeOK,
              coreVars, clintVars, csrVars
<1> QED BY <1>2, <1>4 DEF IInv, TypeOK

LEMMA ClockType ==
  ASSUME IInv, NEW reset \in BOOLEAN, Clock(reset)
  PROVE  IInv'
<1>1. CoreTypeOK' /\ ClintTypeOK' /\ CsrTypeOK' /\ UartTypeOK'
  BY CoreRegistersType, ClintRegistersType, CsrRegistersType, UartRegistersType
     DEF IInv
<1>2. imem' = imem
  BY DEF Clock
<1> QED BY <1>1, <1>2 DEF IInv, TypeOK

LEMMA Invariance == Spec => []IInv
<1>1. Init => IInv
  BY InitType DEF IInv
<1>2. IInv /\ [Next]_vars => IInv'
  <2> SUFFICES ASSUME IInv, [Next]_vars PROVE IInv'
    OBVIOUS
  <2>1. CASE Tick
    BY <2>1, ClockType DEF Tick
  <2>2. CASE ResetTick
    BY <2>2, ClockType DEF ResetTick
  <2>3. CASE HostRead \/ (\E b \in Byte : HostWrite(b))
    BY <2>3, HostStepType
  <2>4. CASE UNCHANGED vars
    BY <2>4 DEF IInv, TypeOK, CoreTypeOK, ClintTypeOK, CsrTypeOK, UartTypeOK,
                vars, coreVars, clintVars, csrVars, uartVars
  <2> QED BY <2>1, <2>2, <2>3, <2>4 DEF Next
<1> QED BY <1>1, <1>2, PTL DEF Spec

(* Whatever the program and the host do, every register holds a value of   *)
(* its width, every address stays in memory and no queue exceeds its cap.  *)
THEOREM TypeCorrect == Spec => []TypeOK
<1>1. IInv => TypeOK
  BY DEF IInv
<1> QED BY <1>1, Invariance, PTL

-----------------------------------------------------------------------------
(* The trap counter and the two counters it is split into stay in step     *)
(* through every program, interrupt and reset, and through wrap-around     *)
(* (raijin_core.v:361-362, 448-474).                                       *)
THEOREM CountersAgree == Spec => []TrapCountersAgree
<1>1. Init => TrapCountersAgree
  <2>1. (0 + 0) % CountBase = 0
    BY CoreAssumption
  <2> QED BY <2>1 DEF Init, NoCounts, CounterNames, TrapCountersAgree
<1>2. IInv /\ TrapCountersAgree /\ [Next]_vars => TrapCountersAgree'
  <2> SUFFICES ASSUME IInv, TrapCountersAgree, [Next]_vars
               PROVE  TrapCountersAgree'
    OBVIOUS
  <2> DEFINE N == CountBase
  <2>1. /\ cnt["trap"] \in 0 .. N - 1 /\ cnt["exception"] \in 0 .. N - 1
        /\ cnt["interrupt"] \in 0 .. N - 1 /\ N \in Nat \ {0}
    BY CoreAssumption DEF IInv, TypeOK, CoreTypeOK, CounterNames
  <2>2. ASSUME Tick PROVE TrapCountersAgree'
    <3>1. \A c \in CounterNames :
            cnt'[c] = IF Counted(c) THEN (cnt[c] + 1) % N ELSE cnt[c]
      BY <2>2 DEF Tick, Clock
    <3>2. /\ cnt'["trap"] =
               IF trap_en THEN (cnt["trap"] + 1) % N ELSE cnt["trap"]
          /\ cnt'["exception"] =
               IF trap_en /\ ~take_interrupt
               THEN (cnt["exception"] + 1) % N ELSE cnt["exception"]
          /\ cnt'["interrupt"] =
               IF trap_en /\ take_interrupt
               THEN (cnt["interrupt"] + 1) % N ELSE cnt["interrupt"]
      BY <3>1 DEF CounterNames, Counted, exception_taken, interrupt_taken
    <3>3. cnt["trap"] = (cnt["exception"] + cnt["interrupt"]) % N
      BY DEF TrapCountersAgree
    <3>4. CASE ~trap_en
      BY <3>2, <3>3, <3>4 DEF TrapCountersAgree
    <3>5. CASE trap_en /\ ~take_interrupt
      <4>1. (cnt["trap"] + 1) % N
              = (((cnt["exception"] + 1) % N) + cnt["interrupt"]) % N
        BY <2>1, <3>3, SumWraps
      <4> QED BY <3>2, <3>5, <4>1 DEF TrapCountersAgree
    <3>6. CASE trap_en /\ take_interrupt
      <4>1. cnt["trap"] = (cnt["interrupt"] + cnt["exception"]) % N
        BY <2>1, <3>3
      <4>2. (cnt["trap"] + 1) % N
              = (((cnt["interrupt"] + 1) % N) + cnt["exception"]) % N
        BY <2>1, <4>1, SumWraps
      <4>3. (cnt["interrupt"] + 1) % N \in 0 .. N - 1
        BY <2>1, RemainderRange, cnt["interrupt"] + 1 \in Nat
      <4>4. ((cnt["interrupt"] + 1) % N) + cnt["exception"]
              = cnt["exception"] + ((cnt["interrupt"] + 1) % N)
        BY <2>1, <4>3
      <4> QED BY <3>2, <3>6, <4>2, <4>4 DEF TrapCountersAgree
    <3> QED BY <3>4, <3>5, <3>6
  <2>3. CASE ResetTick
    <3>1. (0 + 0) % CountBase = 0
      BY CoreAssumption
    <3> QED BY <2>3, <3>1
         DEF ResetTick, Clock, NoCounts, CounterNames, TrapCountersAgree
  <2>4. CASE UNCHANGED cnt
    BY <2>4 DEF TrapCountersAgree
  <2> QED BY <2>2, <2>3, <2>4 DEF Next, HostRead, HostWrite, vars, coreVars
<1> QED BY <1>1, <1>2, Invariance, PTL DEF Spec

(* Precise traps: an instruction that is preempted or faults changes no    *)
(* register, memory word, device or control register that a program can    *)
(* see, and can be executed again (raijin_core.v:21-22).                   *)
THEOREM PreciseTraps == Spec => TrapCommitsNothing
<1> DEFINE Nothing ==
      /\ UNCHANGED <<regs, dmem, mtimecmp, msip_bit, g_tx_buf>>
      /\ UNCHANGED <<mie_mtie, mie_msie, mtvec, mscratch>>
      /\ mepc' = pc
<1>1. ASSUME IInv, trap_en, Tick PROVE Nothing
  <2>1. ~reg_write_en /\ ~mem_write_en
    BY <1>1 DEF reg_write_en, mem_write_en
  <2>2. regs' = regs /\ dmem' = dmem
    BY <1>1, <2>1 DEF Tick, Clock
  <2>3. clint_store = NoStore /\ uart_tx = <<>>
    BY <2>1 DEF clint_store, uart_tx
  <2>4. g_tx_buf' = g_tx_buf
    BY <1>1, <2>3 DEF Tick, Clock, UartClock
  <2>5. ClintRun(NoStore) /\ mtimecmp \in Wide
    BY <1>1, <2>3 DEF Tick, Clock, ClintClock, IInv, TypeOK, ClintTypeOK
  <2>6. mtimecmp' = mtimecmp /\ msip_bit' = msip_bit
    BY <2>5 DEF ClintRun, NoStore, Wide
  <2>7. CsrTrap(trap)
    BY <1>1 DEF Tick, Clock, CsrClock, trap
  <2> QED BY <2>2, <2>4, <2>6, <2>7 DEF CsrTrap, trap
<1>2. IInv /\ [Next]_vars => [trap_en /\ Tick => Nothing]_vars
  BY <1>1
<1> QED BY <1>2, Invariance, PTL DEF Spec, TrapCommitsNothing

(* With the enable bit off no interrupt, whatever its line and enable, can *)
(* overwrite the return address: only the running code's own exception or  *)
(* its own write to mepc does (raijin_core.v:161-168).                     *)
THEOREM ReturnAddressKept == Spec => InterruptsStayOff
<1> DEFINE Own == sync_exception \/ (csr_access_en /\ inst.csr = "mepc")
<1>1. ASSUME ~mstatus_mie, mepc' # mepc, Tick PROVE Own
  <2>1. CsrClock(FALSE, trap, is_mret, csr_write)
    BY <1>1 DEF Tick, Clock
  <2>2. CASE trap_en
    BY <1>1, <2>2
       DEF trap_en, take_interrupt, take_soft_interrupt, take_timer_interrupt
  <2>3. CASE ~trap_en
    <3>1. CsrMret \/ CsrSoftware(csr_write)
      BY <2>1, <2>3 DEF CsrClock, trap
    <3>2. csr_write.csr = "mepc"
      BY <1>1, <3>1 DEF CsrMret, CsrSoftware
    <3> QED BY <3>2 DEF csr_write, NoCsrWrite
  <2> QED BY <2>2, <2>3
<1>2. [Next]_vars => [~mstatus_mie /\ mepc' # mepc /\ Tick => Own]_vars
  BY <1>1
<1> QED BY <1>2, PTL DEF Spec, InterruptsStayOff

-----------------------------------------------------------------------------
(* The data memory is an array of bytes. *)

(* A byte address is a word address and a lane. *)
LEMMA ByteOfWord ==
  ASSUME NEW a \in Nat, NEW k \in 4 * (a \div 4) .. 4 * (a \div 4) + 3
  PROVE  /\ k \div 4 = a \div 4 /\ k % 4 \in 0 .. 3 /\ k = 4 * (a \div 4) + (k % 4)
         /\ a = 4 * (a \div 4) + (a % 4)
OBVIOUS

LEMMA StoreIsOfBytes ==
  ASSUME IInv, Tick, Accesses("store")
  PROVE  LET a == effective_addr
             at == a \div 4
         IN /\ dmem' = [dmem EXCEPT ![at] = dmem'[at]]
            /\ \A k \in 4 * at .. 4 * at + 3 :
                 MemByte(k)' = IF k \in a .. a + Bytes(inst.size) - 1
                               THEN Lanes(ReadReg(inst.rs2))[k - a] ELSE MemByte(k)
<1> DEFINE a == effective_addr
           at == a \div 4
           w == dmem[at]
           d == ReadReg(inst.rs2)
           off == a % 4
           n == Bytes(inst.size)
           new == new_word(w, off, inst.size, d)
<1>1. mem_write_en /\ TypeOK
  BY DEF Accesses, mem_write_en, mem_write_en_raw, IInv
<1>2. /\ a \in Word /\ at \in DmemIndex /\ d \in Word /\ inst.size \in Sizes
      /\ a % n = 0 /\ w \in Word
  BY <1>1, StoreType DEF IInv, TypeOK, CoreTypeOK
<1>3. off \in 0 .. 3 /\ off % n = 0
  BY <1>2, OffsetAligned
<1>4. \A l \in 0 .. 3 :
        /\ l \in off .. off + n - 1 => Lanes(new)[l] = Lanes(d)[l - off]
        /\ l \notin off .. off + n - 1 => Lanes(new)[l] = Lanes(w)[l]
  <2> DEFINE s == inst.size
  <2>1. w \in Word /\ d \in Word /\ s \in Sizes /\ off \in 0 .. 3 /\ off % Bytes(s) = 0
    BY <1>2, <1>3
  <2> HIDE DEF w, d, off, s
  <2>2. \A l \in 0 .. 3 :
          /\ l \in off .. off + Bytes(s) - 1 =>
               Lanes(new_word(w, off, s, d))[l] = Lanes(d)[l - off]
          /\ l \notin off .. off + Bytes(s) - 1 =>
               Lanes(new_word(w, off, s, d))[l] = Lanes(w)[l]
    BY <2>1, StoreChangesItsBytes
  <2> QED BY <2>2 DEF s
<1>5. dmem' = [dmem EXCEPT ![at] = new]
  BY <1>1 DEF Tick, Clock, Accesses
<1>6. dmem'[at] = new
  BY <1>1, <1>2, <1>5 DEF TypeOK, CoreTypeOK
<1>7. a \in Nat /\ n \in {1, 2, 4}
  BY <1>2, WordBaseAssumption DEF Word, Bytes, Sizes
<1> HIDE DEF a, w, d, n, new
<1>8. ASSUME NEW k \in 4 * at .. 4 * at + 3
      PROVE  MemByte(k)' = IF k \in a .. a + n - 1 THEN Lanes(d)[k - a] ELSE MemByte(k)
  <2>1. k \div 4 = at /\ k % 4 \in 0 .. 3 /\ k = 4 * at + (k % 4) /\ a = 4 * at + off
    BY <1>7, ByteOfWord
  <2>2. MemByte(k)' = Lanes(new)[k % 4] /\ MemByte(k) = Lanes(w)[k % 4]
    BY <1>6, <2>1 DEF MemByte, w
  <2> HIDE DEF at, off
  <2> DEFINE l == k % 4
  <2>3. l \in 0 .. 3 /\ k = 4 * at + l
    BY <2>1
  <2>4. at \in Nat /\ off \in 0 .. 3
    BY <1>2, <1>3 DEF DmemIndex
  <2> HIDE DEF l
  <2>5. (k \in a .. a + n - 1 <=> l \in off .. off + n - 1) /\ k - a = l - off
    BY <1>7, <2>1, <2>3, <2>4
  <2>6. Lanes(new)[l] = IF l \in off .. off + n - 1 THEN Lanes(d)[l - off] ELSE Lanes(w)[l]
    BY <1>4, <2>3
  <2> QED BY <2>2, <2>5, <2>6 DEF l
<1> QED BY <1>5, <1>6, <1>8 DEF a, d, n

LEMMA LoadIsOfBytes ==
  ASSUME IInv, Tick, Accesses("load"), inst.rd # 0
  PROVE  LET a == effective_addr
             top == MemByte(a + Bytes(inst.size) - 1)
             fill == IF inst.signed /\ top >= LaneBase \div 2 THEN LaneBase - 1 ELSE 0
         IN \A k \in 0 .. 3 :
              Lanes(regs'[inst.rd])[k] = IF k < Bytes(inst.size) THEN MemByte(a + k) ELSE fill
<1> DEFINE a == effective_addr
           at == a \div 4
           w == dmem[at]
           off == a % 4
           n == Bytes(inst.size)
           v == read_data(w, off, inst.size, inst.signed)
<1>1. inst.op = "load" /\ ~misaligned /\ reg_write_en /\ IsDmemAddr(a) /\ TypeOK
  BY DEF Accesses, trap_en, sync_exception, reg_write_en, reg_write_en_raw, IInv
<1>2. inst.rd \in Reg /\ inst.size \in Sizes /\ inst.signed \in BOOLEAN
  BY <1>1, InstType, InstructionFields DEF IInv
<1>3. a \in Word /\ a % n = 0
  BY <1>1, AddressType DEF mem_read_en, misaligned, IInv, TypeOK
<1>4. w \in Word
  BY <1>1, <1>3, DmemIndexType DEF TypeOK, CoreTypeOK
<1>5. off \in 0 .. 3 /\ off % n = 0
  BY <1>2, <1>3, OffsetAligned
<1>6. \A k \in 0 .. 3 :
        Lanes(v)[k] = IF k < n THEN Lanes(w)[off + k] ELSE Fill(inst.signed, Lanes(w)[off + n - 1])
  BY <1>2, <1>4, <1>5, LoadReturnsTheBytes
<1>7. regs'[inst.rd] = v
  <2>1. mem_read_data = v
    BY <1>1 DEF mem_read_data, IsDmemAddr
  <2>2. wb_data = v
    BY <1>1, <2>1 DEF wb_data, ImmOps, AluOps, MulOps, UpperOps, is_m_op, jump
  <2>3. regs' = [regs EXCEPT ![inst.rd] = wb_data]
    BY <1>1 DEF Tick, Clock
  <2> QED BY <1>1, <1>2, <2>2, <2>3 DEF TypeOK, CoreTypeOK
<1>8. a \in Nat /\ n \in {1, 2, 4}
  BY <1>2, <1>3, WordBaseAssumption DEF Word, Bytes, Sizes
<1> HIDE DEF a, w, n, v
<1>9. ASSUME NEW k \in 0 .. n - 1 PROVE MemByte(a + k) = Lanes(w)[off + k]
  <2>1. (a + k) \div 4 = at /\ (a + k) % 4 = off + k
    BY <1>3, <1>5, <1>8
  <2> QED BY <2>1 DEF MemByte, w
<1>10. n - 1 \in 0 .. n - 1 /\ a + (n - 1) = a + n - 1 /\ off + (n - 1) = off + n - 1
  BY <1>5, <1>8
<1>11. MemByte(a + n - 1) = Lanes(w)[off + n - 1]
  BY <1>9, <1>10
<1>12. \A k \in 0 .. 3 : k < n => MemByte(a + k) = Lanes(w)[off + k]
  BY <1>8, <1>9
<1> HIDE DEF off
<1> QED BY <1>6, <1>7, <1>11, <1>12 DEF a, n, Fill

(* Through every program, alignment trap, interrupt and reset, data memory *)
(* behaves as bytes: a store changes the bytes it addresses and no other,  *)
(* and a load returns them, below their sign or zeros (dmem.v:53-117).     *)
THEOREM MemoryOfBytes == Spec => MemoryIsBytes
<1>1. ASSUME IInv, Tick, ~Accesses("store") PROVE dmem' = dmem
  BY <1>1 DEF Tick, Clock, Accesses, mem_write_en, mem_write_en_raw
<1>2. IInv /\ [Next]_vars =>
        [Tick =>
           /\ Accesses("store") =>
                LET a == effective_addr
                    at == a \div 4
                IN /\ dmem' = [dmem EXCEPT ![at] = dmem'[at]]
                   /\ \A k \in 4 * at .. 4 * at + 3 :
                        MemByte(k)' = IF k \in a .. a + Bytes(inst.size) - 1
                                      THEN Lanes(ReadReg(inst.rs2))[k - a] ELSE MemByte(k)
           /\ Accesses("load") /\ inst.rd # 0 =>
                LET a == effective_addr
                    top == MemByte(a + Bytes(inst.size) - 1)
                    fill == IF inst.signed /\ top >= LaneBase \div 2 THEN LaneBase - 1 ELSE 0
                IN \A k \in 0 .. 3 :
                     Lanes(regs'[inst.rd])[k] =
                       IF k < Bytes(inst.size) THEN MemByte(a + k) ELSE fill
           /\ ~Accesses("store") => UNCHANGED dmem]_vars
  BY <1>1, StoreIsOfBytes, LoadIsOfBytes
<1> QED BY <1>2, Invariance, PTL DEF Spec, MemoryIsBytes

-----------------------------------------------------------------------------
(* The timer of the core, under the stores of any program.                 *)

(* Its interrupt line is the 64-bit comparison (clint.v:99-100), with the  *)
(* same exception.                                                         *)
THEOREM CoreTimerIsCompare == Spec => []MtipIsCompare
<1>1. TypeOK => MtipIsCompare
  BY HalvesCompare DEF TypeOK, ClintTypeOK, MtipIsCompare, mtip
<1> QED BY <1>1, TypeCorrect, PTL

(* It counts in every cycle that does not store to it (clint.v:91-95).     *)
THEOREM CoreTimerCounts == Spec => MtimeCounts
<1>1. ASSUME TypeOK
      PROVE  [\A w \in ClintStores :
                ClintRun(w) /\ w.reg \notin {"mtime_lo", "mtime_hi"}
                  => WideValue(mtime') = (WideValue(mtime) + 1) % (Base * Base)]_clintVars
  <2>1. SUFFICES ASSUME NEW w \in ClintStores, ClintRun(w), w.reg \notin {"mtime_lo", "mtime_hi"}
                 PROVE  WideValue(mtime') = (WideValue(mtime) + 1) % (Base * Base)
    OBVIOUS
  <2>2. MtimeWrite(w).half = "none"
    BY <2>1 DEF MtimeWrite
  <2>3. mtime' = CounterTick(mtime, MtimeWrite(w)) /\ mtime \in Wide
    BY <1>1, <2>1 DEF ClintRun, TypeOK, ClintTypeOK
  <2> QED BY <2>2, <2>3, TickCounts
<1> QED BY <1>1, TypeCorrect, PTL DEF MtimeCounts
=============================================================================
