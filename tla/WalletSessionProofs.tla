------------------------ MODULE WalletSessionProofs -------------------------
(***************************************************************************)
(* Proofs about WalletSession: local storage gives back the session it was *)
(* given, whatever the bytes of its keys; a message is opened with the key *)
(* it was sealed with only; and the key of a direction tells the secret    *)
(* and both ends in order.                                                 *)
(***************************************************************************)
EXTENDS WalletSession, TLAPS

-----------------------------------------------------------------------------
(* The loops of Bytes.                                                     *)

(* Their turns, with the operator FoldFacts expects, and the folds.        *)
WordTurn(around, word, j) == word * 2^around.width + At(around.a, around.i + j)
EncTurn(bytes, text, g) == text \o Group(bytes, g)
KeptTurn(around, kept, c) == IF c = Pad THEN kept ELSE Append(kept, c)

Words == INSTANCE FoldFacts WITH Op <- WordTurn
Groups == INSTANCE FoldFacts WITH Op <- EncTurn
Kept == INSTANCE FoldFacts WITH Op <- KeptTurn

LEMMA WordIsFold ==
    ASSUME NEW a, NEW i, NEW n, NEW w
    PROVE  Word(a, i, n, w) = Words!Fold([a |-> a, i |-> i, width |-> w], 0, [j \in 1..n |-> j - 1])
<1> DEFINE around == [a |-> a, i |-> i, width |-> w]
<1>1. \A r, j : WordTurn(around, r, j) = r * 2^w + At(a, i + j)
  BY DEF WordTurn
<1> QED
  BY DEF Word, Words!Fold, WordTurn, FoldLeft, Words!FoldLeft, MapThenFoldSet, Words!MapThenFoldSet,
     Max, Words!Max

LEMMA EncIsFold ==
    ASSUME NEW a
    PROVE  base64EncArr(a) = Groups!Fold(a, <<>>, [g \in 1..((Len(a) + 2) \div 3) |-> g - 1])
BY DEF base64EncArr, Groups!Fold, EncTurn, FoldLeft, Groups!FoldLeft, MapThenFoldSet,
   Groups!MapThenFoldSet, Max, Groups!Max

LEMMA KeptIsFold ==
    ASSUME NEW text
    PROVE  WithoutPadding(text) = Kept!Fold(0, <<>>, text)
BY DEF WithoutPadding, Kept!Fold, KeptTurn, FoldLeft, Kept!FoldLeft, MapThenFoldSet,
   Kept!MapThenFoldSet, Max, Kept!Max

-----------------------------------------------------------------------------
(* Words of bytes and of digits.                                           *)

LEMMA ByteIs == ASSUME NEW v \in Byte PROVE v \in Nat /\ v < 256
BY DEF Byte

LEMMA AtByte == ASSUME NEW a \in Seq(Byte), NEW j \in Nat PROVE At(a, j) \in Nat /\ At(a, j) < 256
<1>1. CASE j < Len(a)
  <2>1. j + 1 \in 1..Len(a)
    BY <1>1
  <2>2. PICK v \in Byte : v = a[j + 1]
    BY <2>1
  <2>3. At(a, j) = v
    BY <1>1, <2>2 DEF At
  <2> QED
    BY <2>3, ByteIs
<1>2. CASE ~(j < Len(a))
  BY <1>2 DEF At
<1> QED
  BY <1>1, <1>2

(* A word of three bytes, and one of four base64 digits.                   *)
LEMMA Bytewise ==
    ASSUME NEW a \in Seq(Byte), NEW i \in Nat
    PROVE  Word(a, i, 3, 8) = (At(a, i) * 256 + At(a, i + 1)) * 256 + At(a, i + 2)
<1> DEFINE around == [a |-> a, i |-> i, width |-> 8]
           base == 0
<1>1. \A j \in Nat : At(a, j) \in Nat
  BY AtByte
<1>2. [j \in 1..3 |-> j - 1] = <<0, 1, 2>>
  OBVIOUS
<1>3. 2^8 = 256
  OBVIOUS
<1>4. \A r : WordTurn(around, r, 0) = r * 256 + At(a, i)
  BY <1>3 DEF WordTurn
<1>5. \A r : WordTurn(around, r, 1) = r * 256 + At(a, i + 1)
  BY <1>3 DEF WordTurn
<1>6. \A r : WordTurn(around, r, 2) = r * 256 + At(a, i + 2)
  BY <1>3 DEF WordTurn
<1>7. Word(a, i, 3, 8) = Words!Fold(around, base, <<0, 1, 2>>)
  BY <1>2, WordIsFold
<1> HIDE DEF around, base
<1>8. Words!Fold(around, base, <<0, 1, 2>>)
          = WordTurn(around, WordTurn(around, WordTurn(around, base, 0), 1), 2)
  BY Words!FoldThree
<1>9. base = 0
  BY DEF base
<1>10. 0 * 256 + At(a, i) = At(a, i)
  BY <1>1
<1> QED
  BY <1>4, <1>5, <1>6, <1>7, <1>8, <1>9, <1>10

LEMMA Digitwise ==
    ASSUME NEW d, NEW i \in Nat, \A j \in Nat : At(d, j) \in Nat
    PROVE  Word(d, i, 4, 6)
               = ((At(d, i) * 64 + At(d, i + 1)) * 64 + At(d, i + 2)) * 64 + At(d, i + 3)
<1> DEFINE around == [a |-> d, i |-> i, width |-> 6]
           base == 0
<1>2. [j \in 1..4 |-> j - 1] = <<0, 1, 2, 3>>
  OBVIOUS
<1>3. 2^6 = 64
  OBVIOUS
<1>4. \A r : WordTurn(around, r, 0) = r * 64 + At(d, i)
  BY <1>3 DEF WordTurn
<1>5. \A r : WordTurn(around, r, 1) = r * 64 + At(d, i + 1)
  BY <1>3 DEF WordTurn
<1>6. \A r : WordTurn(around, r, 2) = r * 64 + At(d, i + 2)
  BY <1>3 DEF WordTurn
<1>7. \A r : WordTurn(around, r, 3) = r * 64 + At(d, i + 3)
  BY <1>3 DEF WordTurn
<1>8. Word(d, i, 4, 6) = Words!Fold(around, base, <<0, 1, 2, 3>>)
  BY <1>2, WordIsFold
<1> HIDE DEF around, base
<1>9. Words!Fold(around, base, <<0, 1, 2, 3>>)
          = WordTurn(around, WordTurn(around, WordTurn(around, WordTurn(around, base, 0), 1), 2), 3)
  BY Words!FoldFour
<1>10. base = 0
  BY DEF base
<1>11. 0 * 64 + At(d, i) = At(d, i)
  OBVIOUS
<1> QED
  BY <1>4, <1>5, <1>6, <1>7, <1>8, <1>9, <1>10, <1>11
-----------------------------------------------------------------------------
(* Arithmetic: a word of 24 bits is its four digits and its three bytes.   *)

(* The k-th base64 digit of a word of 24 bits.                             *)
Digit(w, k) == (w \div 64^(4 - k)) % 64

LEMMA Digit1 == \A w \in Nat : Digit(w, 1) = (w \div 262144) % 64
<1>1. 64^(4 - 1) = 262144
  BY SMT
<1> QED
  BY SMT, <1>1 DEF Digit

LEMMA Digit2 == \A w \in Nat : Digit(w, 2) = (w \div 4096) % 64
<1>1. 64^(4 - 2) = 4096
  BY SMT
<1> QED
  BY SMT, <1>1 DEF Digit

LEMMA Digit3 == \A w \in Nat : Digit(w, 3) = (w \div 64) % 64
<1>1. 64^(4 - 3) = 64
  BY SMT
<1> QED
  BY SMT, <1>1 DEF Digit

LEMMA Digit4 == \A w \in Nat : Digit(w, 4) = w % 64
<1>1. 64^(4 - 4) = 1
  BY SMT
<1>2. \A w \in Nat : w \div 1 = w
  BY SMT
<1> QED
  BY SMT, <1>1, <1>2 DEF Digit

(* The four digits of a word are the word.                                 *)
LEMMA DigitsMakeWord ==
    ASSUME NEW w \in Nat, w < 16777216
    PROVE  ((Digit(w, 1) * 64 + Digit(w, 2)) * 64 + Digit(w, 3)) * 64 + Digit(w, 4) = w
<1> DEFINE q1 == w \div 64
           q2 == w \div 4096
           q3 == w \div 262144
<1>1. w = q1 * 64 + (w % 64) /\ q1 \in Nat
  BY SMT
<1>2. q1 = q2 * 64 + (q1 % 64) /\ q2 \in Nat
  <2>1. q2 = q1 \div 64 /\ q2 \in Nat
    BY SMT
  <2> HIDE DEF q1, q2
  <2> QED
    BY SMT, <1>1, <2>1
<1>3. q2 = q3 * 64 + (q2 % 64) /\ q3 \in Nat /\ q3 < 64
  <2>1. q3 = q2 \div 64 /\ q3 \in Nat /\ q3 < 64
    BY SMT
  <2> HIDE DEF q1, q2, q3
  <2> QED
    BY SMT, <1>2, <2>1
<1>5. /\ Digit(w, 1) = q3 % 64 /\ Digit(w, 2) = q2 % 64
      /\ Digit(w, 3) = q1 % 64 /\ Digit(w, 4) = w % 64
  <2>1. Digit(w, 1) = q3 % 64
    BY SMT, Digit1
  <2>2. Digit(w, 2) = q2 % 64
    BY SMT, Digit2
  <2>3. Digit(w, 3) = q1 % 64
    BY SMT, Digit3
  <2>4. Digit(w, 4) = w % 64
    BY SMT, Digit4
  <2> HIDE DEF q1, q2, q3
  <2> QED
    BY <2>1, <2>2, <2>3, <2>4
<1> HIDE DEF q1, q2, q3
<1>4. q3 % 64 = q3
  BY SMT, <1>3
<1>6. w % 64 \in Nat /\ q1 % 64 \in Nat /\ q2 % 64 \in Nat
  BY SMT, <1>1, <1>2
<1>7. Digit(w, 1) * 64 + Digit(w, 2) = q2
  BY SMT, <1>3, <1>4, <1>5
<1>8. q2 * 64 + Digit(w, 3) = q1
  BY SMT, <1>2, <1>5
<1>9. q1 * 64 + Digit(w, 4) = w
  BY SMT, <1>1, <1>5
<1> QED
  BY <1>7, <1>8, <1>9, SMT

LEMMA DigitRange ==
    ASSUME NEW w \in Nat, NEW k \in 1..4
    PROVE  Digit(w, k) \in Nat /\ Digit(w, k) < 64
<1>1. k = 1 \/ k = 2 \/ k = 3 \/ k = 4
  BY SMT
<1>2. \A q \in Nat : (q % 64) \in Nat /\ (q % 64) < 64
  BY SMT
<1>3. (w \div 262144) \in Nat /\ (w \div 4096) \in Nat /\ (w \div 64) \in Nat
  BY SMT
<1>4. Digit(w, 1) \in Nat /\ Digit(w, 1) < 64
  BY SMT, <1>2, <1>3, Digit1
<1>5. Digit(w, 2) \in Nat /\ Digit(w, 2) < 64
  BY SMT, <1>2, <1>3, Digit2
<1>6. Digit(w, 3) \in Nat /\ Digit(w, 3) < 64
  BY SMT, <1>2, <1>3, Digit3
<1>7. Digit(w, 4) \in Nat /\ Digit(w, 4) < 64
  BY SMT, <1>2, Digit4
<1> QED
  BY <1>1, <1>4, <1>5, <1>6, <1>7

(* The word three bytes make.                                              *)
BytesOf(x, y, z) == (x * 256 + y) * 256 + z

(* ... gives back the three bytes.                                         *)
LEMMA WordMakesBytes ==
    ASSUME NEW x \in Nat, NEW y \in Nat, NEW z \in Nat, x < 256, y < 256, z < 256
    PROVE  LET w == BytesOf(x, y, z) IN
           /\ w \in Nat /\ w < 16777216
           /\ (w \div 256^2) % 256 = x
           /\ (w \div 256^1) % 256 = y
           /\ (w \div 256^0) % 256 = z
<1>1. 256^2 = 65536 /\ 256^1 = 256 /\ 256^0 = 1
  BY SMT
<1> DEFINE w == BytesOf(x, y, z)
<1>2. w \div 65536 = x
  BY SMT DEF BytesOf
<1>3. w \div 256 = x * 256 + y /\ (x * 256 + y) % 256 = y
  BY SMT DEF BytesOf
<1>4. w \div 1 = w /\ w % 256 = z
  BY SMT DEF BytesOf
<1>5. w \in Nat /\ w < 16777216
  BY SMT DEF BytesOf
<1>6. x % 256 = x
  BY SMT
<1> HIDE DEF w
<1>7. (w \div 256^2) % 256 = x /\ (w \div 256^1) % 256 = y /\ (w \div 256^0) % 256 = z
  BY <1>1, <1>2, <1>3, <1>4, <1>6
<1> QED
  BY <1>5, <1>7, SMT DEF w

(* The digits left out for one or two bytes are zeros.                     *)
LEMMA FewBytes ==
    ASSUME NEW x \in Nat, NEW y \in Nat
    PROVE  /\ Digit(BytesOf(x, y, 0), 4) = 0
           /\ Digit(BytesOf(x, 0, 0), 3) = 0 /\ Digit(BytesOf(x, 0, 0), 4) = 0
<1>1. BytesOf(x, y, 0) \in Nat /\ BytesOf(x, 0, 0) \in Nat
  BY SMT DEF BytesOf
<1>2. BytesOf(x, y, 0) % 64 = 0 /\ BytesOf(x, 0, 0) % 64 = 0
  BY SMT DEF BytesOf
<1>3. (BytesOf(x, 0, 0) \div 64) % 64 = 0
  <2>1. BytesOf(x, 0, 0) \div 64 = x * 1024
    BY SMT DEF BytesOf
  <2> QED
    BY SMT, <2>1
<1>4. Digit(BytesOf(x, y, 0), 4) = 0 /\ Digit(BytesOf(x, 0, 0), 4) = 0
  BY SMT, <1>1, <1>2, Digit4
<1>5. Digit(BytesOf(x, 0, 0), 3) = 0
  BY SMT, <1>1, <1>3, Digit3
<1> QED
  BY <1>4, <1>5
-----------------------------------------------------------------------------
(* The text of an array that fits a line.                                  *)

(* The digits of an array, without padding, and its characters.            *)
Digits(a) == (4 * Len(a) + 2) \div 3
WordOf(a, g) == Word(a, 3 * g, 3, 8)
DigitOf(a, i) == Digit(WordOf(a, (i - 1) \div 4), ((i - 1) % 4) + 1)
CharOf(a, i) == IF i <= Digits(a) THEN uint6ToB64(DigitOf(a, i)) ELSE Pad

(* Two parts of a function on 1..n, joined.                                *)
LEMMA Concat ==
    ASSUME NEW f, NEW m \in Nat, NEW k \in Nat
    PROVE  [i \in 1..m |-> f[i]] \o [i \in 1..k |-> f[m + i]] = [i \in 1..(m + k) |-> f[i]]
<1> DEFINE s == [i \in 1..m |-> f[i]]
           t == [i \in 1..k |-> f[m + i]]
<1>1. s \o t = [i \in 1..(Len(s) + Len(t)) |-> IF i <= Len(s) THEN s[i] ELSE t[i - Len(s)]]
  OBVIOUS
<1>2. Len(s) = m /\ Len(t) = k
  OBVIOUS
<1>3. ASSUME NEW i \in 1..(m + k)
      PROVE  (IF i <= m THEN s[i] ELSE t[i - m]) = f[i]
  OBVIOUS
<1> HIDE DEF s, t
<1> QED
  BY <1>1, <1>2, <1>3 DEF s, t

LEMMA SecretIs ==
    ASSUME NEW a \in Secret
    PROVE  a \in Seq(Byte) /\ Len(a) \in Nat /\ Len(a) >= 1 /\ Len(a) <= 57
<1>1. a \in Seq(Byte)
  BY DEF Secret
<1>2. PICK n \in 1..57 : n = Len(a)
  BY DEF Secret
<1>3. n \in Nat /\ n >= 1 /\ n <= 57
  OBVIOUS
<1> QED
  BY <1>1, <1>2, <1>3

(* The characters of a group: no line break in a line of 57 bytes.         *)
LEMMA GroupIs ==
    ASSUME NEW a \in Secret, NEW g \in Nat, g < (Len(a) + 2) \div 3
    PROVE  Group(a, g) = [k \in 1..4 |-> CharOf(a, 4 * g + k)]
<1> DEFINE n == Len(a)
           chars == [k \in 1..4 |-> uint6ToB64((WordOf(a, g) \div 64^(4 - k)) % 64)]
           left == n - 3 * g
           padded == [k \in 1..4 |-> IF k <= left + 1 THEN chars[k] ELSE Pad]
           prefix == IF g > 0 /\ g % 19 = 0 THEN LineBreak ELSE <<>>
<1>1. Group(a, g) = prefix \o (IF left >= 3 THEN chars ELSE padded)
  BY DEF Group, WordOf
<1>2. n \in Nat /\ n >= 1 /\ n <= 57
  BY SecretIs
<1>3. prefix = <<>>
  <2>1. g < 19
    BY <1>2
  <2> QED
    BY <2>1
<1>4. ASSUME NEW k \in 1..4
      PROVE  /\ chars[k] = uint6ToB64(DigitOf(a, 4 * g + k))
             /\ left >= 3 => 4 * g + k <= Digits(a)
             /\ ~(left >= 3) => (4 * g + k <= Digits(a) <=> k <= left + 1)
  <2>1. (4 * g + k - 1) \div 4 = g /\ ((4 * g + k - 1) % 4) + 1 = k
    OBVIOUS
  <2>2. chars[k] = uint6ToB64(DigitOf(a, 4 * g + k))
    BY <2>1 DEF DigitOf, Digit
  <2> HIDE DEF chars
  <2>3. left >= 3 => 4 * g + k <= Digits(a)
    BY <1>2 DEF Digits
  <2>4. ~(left >= 3) => (4 * g + k <= Digits(a) <=> k <= left + 1)
    BY <1>2 DEF Digits
  <2> QED
    BY <2>2, <2>3, <2>4
<1>5. (IF left >= 3 THEN chars ELSE padded) = [k \in 1..4 |-> CharOf(a, 4 * g + k)]
  <2>1. CASE left >= 3
    BY <1>4, <2>1 DEF CharOf
  <2>2. CASE ~(left >= 3)
    BY <1>4, <2>2 DEF CharOf
  <2> QED
    BY <2>1, <2>2
<1>6. <<>> \o [k \in 1..4 |-> CharOf(a, 4 * g + k)] = [k \in 1..4 |-> CharOf(a, 4 * g + k)]
  <2> DEFINE f == [i \in 1..4 |-> CharOf(a, 4 * g + i)]
  <2>1. [i \in 1..0 |-> f[i]] \o [i \in 1..4 |-> f[0 + i]] = [i \in 1..(0 + 4) |-> f[i]]
    <3> HIDE DEF f
    <3> QED
      BY Concat
  <2> QED
    BY <2>1
<1> HIDE DEF prefix, chars, padded, left
<1> QED
  BY <1>1, <1>3, <1>5, <1>6

(* What base64EncArr makes of an array of one line, by induction over its  *)
(* groups.                                                                 *)
LEMMA EncodedIs ==
    ASSUME NEW a \in Secret
    PROVE  base64EncArr(a) = [i \in 1..(4 * ((Len(a) + 2) \div 3)) |-> CharOf(a, i)]
<1> DEFINE G == (Len(a) + 2) \div 3
           f == [i \in Nat |-> CharOf(a, i)]
           Upto(m) == [g \in 1..m |-> g - 1]
           empty == <<>>
           S == {m \in Nat : m <= G =>
                    Groups!Fold(a, empty, Upto(m)) = [i \in 1..(4 * m) |-> f[i]]}
<1>1. G \in Nat
  BY SecretIs
<1>2. 0 \in S
  <2>1. Upto(0) = empty /\ [i \in 1..(4 * 0) |-> f[i]] = empty
    OBVIOUS
  <2> HIDE DEF Upto, f, empty
  <2>2. Groups!Fold(a, empty, empty) = empty
    BY Groups!FoldEmpty DEF empty
  <2> QED
    BY <2>1, <2>2
<1>3. ASSUME NEW m \in S PROVE m + 1 \in S
  <2>1. m \in Nat
    OBVIOUS
  <2> SUFFICES ASSUME m + 1 <= G
               PROVE  Groups!Fold(a, empty, Upto(m + 1)) = [i \in 1..(4 * (m + 1)) |-> f[i]]
    BY <2>1
  <2>2. Groups!Fold(a, empty, Upto(m)) = [i \in 1..(4 * m) |-> f[i]]
    BY <1>1, <2>1
  <2>3. Upto(m) \in Seq(Nat) /\ Append(Upto(m), m) = Upto(m + 1)
    BY <2>1
  <2>4. Group(a, m) = [k \in 1..4 |-> f[4 * m + k]]
    <3>1. Group(a, m) = [k \in 1..4 |-> CharOf(a, 4 * m + k)]
      BY <1>1, <2>1, GroupIs
    <3>2. \A k \in 1..4 : f[4 * m + k] = CharOf(a, 4 * m + k)
      BY <2>1
    <3> QED
      BY <3>1, <3>2
  <2> HIDE DEF Upto, f, G, S, empty
  <2>5. Groups!Fold(a, empty, Upto(m + 1)) = EncTurn(a, Groups!Fold(a, empty, Upto(m)), m)
    <3> DEFINE E == Nat
               seq == Upto(m)
    <3>1. seq \in Seq(E) /\ m \in E
      BY <2>1, <2>3
    <3> HIDE DEF E, seq
    <3>2. Groups!Fold(a, empty, Append(seq, m)) = EncTurn(a, Groups!Fold(a, empty, seq), m)
      BY <3>1, Groups!FoldAppend
    <3> QED
      BY <2>3, <3>2 DEF seq
  <2>6. [i \in 1..(4 * m) |-> f[i]] \o [k \in 1..4 |-> f[4 * m + k]] = [i \in 1..(4 * m + 4) |-> f[i]]
    BY <2>1, Concat
  <2>7. 4 * m + 4 = 4 * (m + 1)
    BY <2>1
  <2> QED
    BY <2>2, <2>4, <2>5, <2>6, <2>7 DEF EncTurn
<1>4. S \in SUBSET Nat
  OBVIOUS
<1>5. S = Nat
  <2> HIDE DEF S
  <2> QED
    BY <1>2, <1>3, <1>4, Groups!SetInduction
<1>6. Groups!Fold(a, empty, Upto(G)) = [i \in 1..(4 * G) |-> f[i]]
  <2>1. G \in S
    BY <1>1, <1>5
  <2> HIDE DEF G, Upto, f, empty
  <2> QED
    BY <1>1, <2>1
<1>7. [i \in 1..(4 * G) |-> f[i]] = [i \in 1..(4 * G) |-> CharOf(a, i)]
  BY <1>1
<1> QED
  BY <1>6, <1>7, EncIsFold

(* The padding of a text of N characters is what comes after the first L.  *)
PaddedAfter(t, L, N, E) ==
    /\ N \in Nat /\ L \in Nat /\ L <= N
    /\ t \in Seq(E) /\ DOMAIN t = 1..N
    /\ \A i \in 1..N : t[i] = Pad <=> i > L

LEMMA Stripped ==
    ASSUME NEW t, NEW L, NEW N, NEW E, PaddedAfter(t, L, N, E)
    PROVE  WithoutPadding(t) = [i \in 1..L |-> t[i]]
<1> USE DEF PaddedAfter
<1> DEFINE Upto(m) == [i \in 1..m |-> t[i]]
           Less(m) == IF m <= L THEN m ELSE L
           empty == <<>>
           S == {m \in Nat : m <= N => Kept!Fold(0, empty, Upto(m)) = Upto(Less(m))}
<1>2. 0 \in S
  <2>1. Upto(0) = empty /\ Less(0) = 0
    OBVIOUS
  <2> HIDE DEF Upto, empty, Less
  <2>2. Kept!Fold(0, empty, empty) = empty
    BY Kept!FoldEmpty DEF empty
  <2> QED
    BY <2>1, <2>2
<1>3. ASSUME NEW m \in S PROVE m + 1 \in S
  <2>1. m \in Nat
    OBVIOUS
  <2> SUFFICES ASSUME m + 1 <= N
               PROVE  Kept!Fold(0, empty, Upto(m + 1)) = Upto(Less(m + 1))
    BY <2>1
  <2>2. Kept!Fold(0, empty, Upto(m)) = Upto(Less(m))
    BY <2>1
  <2>3. t[m + 1] \in E /\ Upto(m) \in Seq(E)
    <3>1. \A i \in 1..N : t[i] \in E
      OBVIOUS
    <3> QED
      BY <2>1, <3>1
  <2>4. Append(Upto(m), t[m + 1]) = Upto(m + 1)
    BY <2>1
  <2>5. t[m + 1] = Pad <=> m + 1 > L
    BY <2>1
  <2>6. /\ m + 1 > L => Less(m + 1) = Less(m)
        /\ ~(m + 1 > L) => Less(m + 1) = m + 1 /\ Less(m) = m
    BY <2>1
  <2> HIDE DEF Upto, Less, S, empty
  <2>7. Kept!Fold(0, empty, Upto(m + 1)) = KeptTurn(0, Kept!Fold(0, empty, Upto(m)), t[m + 1])
    <3> DEFINE seq == Upto(m)
               e == t[m + 1]
               around == 0
    <3>1. seq \in Seq(E) /\ e \in E
      BY <2>3
    <3> HIDE DEF seq, e, around
    <3>2. Kept!Fold(around, empty, Append(seq, e)) = KeptTurn(around, Kept!Fold(around, empty, seq), e)
      BY <3>1, Kept!FoldAppend
    <3> QED
      BY <2>4, <3>2 DEF seq, e, around
  <2> QED
    BY <2>2, <2>4, <2>5, <2>6, <2>7 DEF KeptTurn
<1>4. S \in SUBSET Nat
  OBVIOUS
<1>5. S = Nat
  <2> HIDE DEF S
  <2> QED
    BY <1>2, <1>3, <1>4, Kept!SetInduction
<1>6. Kept!Fold(0, empty, Upto(N)) = Upto(Less(N))
  <2>1. N \in S
    BY <1>5
  <2>2. N <= N
    OBVIOUS
  <2> HIDE DEF Upto, Less, empty
  <2> QED
    BY <2>1, <2>2
<1>7. Upto(N) = t /\ Less(N) = L
  OBVIOUS
<1> HIDE DEF Upto, Less, S
<1> QED
  BY <1>6, <1>7, KeptIsFold DEF Upto
-----------------------------------------------------------------------------
(* The alphabet.                                                           *)

(* The character for c of base64url.                                       *)
Url(c) == IF c = Plus THEN Minus ELSE IF c = Slash THEN Low ELSE c

(* The alphabets: each digit is read back from its character, and no       *)
(* character of a digit is padding.                                        *)
LEMMA CharIs ==
    ASSUME NEW v \in Nat, v < 64
    PROVE  LET c == uint6ToB64(v) IN
           /\ c \in Nat /\ c # Pad /\ c # Minus /\ c # Low
           /\ b64ToUint6(c) = v
           /\ Url(c) \in Alphanumeric \cup {Minus, Low} /\ Url(c) \in Nat /\ Url(c) # Pad
<1>1. CASE v < 26
  <2>1. uint6ToB64(v) = v + 65
    BY <1>1 DEF uint6ToB64
  <2>2. v + 65 \in 65..90 /\ v + 65 \notin {Pad, Plus, Slash, Minus, Low}
    BY <1>1 DEF Pad, Plus, Slash, Minus, Low
  <2>3. b64ToUint6(v + 65) = v
    BY <2>2 DEF b64ToUint6
  <2> QED
    BY <2>1, <2>2, <2>3 DEF Url, Alphanumeric
<1>2. CASE v \in 26..51
  <2>1. uint6ToB64(v) = v + 71
    BY <1>2 DEF uint6ToB64
  <2>2. v + 71 \in 97..122 /\ v + 71 \notin 65..90 /\ v + 71 \notin {Pad, Plus, Slash, Minus, Low}
    BY <1>2 DEF Pad, Plus, Slash, Minus, Low
  <2>3. b64ToUint6(v + 71) = v
    BY <2>2 DEF b64ToUint6
  <2> QED
    BY <2>1, <2>2, <2>3 DEF Url, Alphanumeric
<1>3. CASE v \in 52..61
  <2>1. uint6ToB64(v) = v - 4
    BY <1>3 DEF uint6ToB64
  <2>2. /\ v - 4 \in 48..57 /\ v - 4 \notin 65..90 /\ v - 4 \notin 97..122
        /\ v - 4 \notin {Pad, Plus, Slash, Minus, Low}
    BY <1>3 DEF Pad, Plus, Slash, Minus, Low
  <2>3. b64ToUint6(v - 4) = v
    BY <2>2 DEF b64ToUint6
  <2> QED
    BY <2>1, <2>2, <2>3 DEF Url, Alphanumeric
<1>4. CASE v = 62
  <2>1. uint6ToB64(v) = Plus
    BY <1>4 DEF uint6ToB64
  <2>2. \A c \in Nat : c = Plus => b64ToUint6(c) = 62
    BY DEF b64ToUint6, Plus, Slash
  <2> QED
    BY <1>4, <2>1, <2>2 DEF Url, Plus, Slash, Minus, Low, Pad
<1>5. CASE v = 63
  <2>1. uint6ToB64(v) = Slash
    BY <1>5 DEF uint6ToB64
  <2>2. b64ToUint6(Slash) = 63
    BY DEF b64ToUint6, Plus, Slash
  <2> QED
    BY <1>5, <2>1, <2>2 DEF Url, Plus, Slash, Minus, Low, Pad
<1>6. v < 26 \/ v \in 26..51 \/ v \in 52..61 \/ v = 62 \/ v = 63
  OBVIOUS
<1> QED
  BY <1>1, <1>2, <1>3, <1>4, <1>5, <1>6

LEMMA WordBytes ==
    ASSUME NEW a \in Seq(Byte), NEW g \in Nat
    PROVE  WordOf(a, g) = BytesOf(At(a, 3 * g), At(a, 3 * g + 1), At(a, 3 * g + 2))
<1>1. 3 * g \in Nat /\ 3 * g + 1 \in Nat /\ 3 * g + 2 \in Nat
  OBVIOUS
<1> QED
  BY <1>1, Bytewise DEF WordOf, BytesOf

LEMMA BytesRange ==
    ASSUME NEW x \in Nat, NEW y \in Nat, NEW z \in Nat, x < 256, y < 256, z < 256
    PROVE  BytesOf(x, y, z) \in Nat /\ BytesOf(x, y, z) < 16777216
BY SMT DEF BytesOf

LEMMA WordRange ==
    ASSUME NEW a \in Seq(Byte), NEW g \in Nat
    PROVE  WordOf(a, g) \in Nat /\ WordOf(a, g) < 16777216
<1>1. 3 * g \in Nat /\ 3 * g + 1 \in Nat /\ 3 * g + 2 \in Nat
  OBVIOUS
<1>2. PICK x, y, z \in Nat : /\ x < 256 /\ y < 256 /\ z < 256
                             /\ x = At(a, 3 * g) /\ y = At(a, 3 * g + 1) /\ z = At(a, 3 * g + 2)
  BY <1>1, AtByte
<1>3. WordOf(a, g) = BytesOf(x, y, z)
  BY <1>2, WordBytes
<1>4. BytesOf(x, y, z) \in Nat /\ BytesOf(x, y, z) < 16777216
  BY SMT, <1>2, BytesRange
<1> QED
  BY SMT, <1>3, <1>4

LEMMA DigitOfRange ==
    ASSUME NEW a \in Seq(Byte), NEW i \in Nat \ {0}
    PROVE  DigitOf(a, i) \in Nat /\ DigitOf(a, i) < 64
<1>1. (i - 1) \div 4 \in Nat /\ ((i - 1) % 4) + 1 \in 1..4
  OBVIOUS
<1>2. PICK g \in Nat, k \in 1..4 : g = (i - 1) \div 4 /\ k = ((i - 1) % 4) + 1
  BY <1>1
<1>3. WordOf(a, g) \in Nat
  BY SMT, WordRange
<1>4. Digit(WordOf(a, g), k) \in Nat /\ Digit(WordOf(a, g), k) < 64
  BY <1>3, DigitRange
<1> QED
  BY <1>2, <1>4 DEF DigitOf

(* The text of an array as it is stored, and as it is decoded.             *)
Stored(a) == [i \in 1..Digits(a) |-> Url(uint6ToB64(DigitOf(a, i)))]
Restored(a) == [i \in 1..Digits(a) |-> uint6ToB64(DigitOf(a, i))]

LEMMA DigitsIs ==
    ASSUME NEW a \in Secret
    PROVE  Digits(a) \in Nat /\ Digits(a) > 0 /\ Digits(a) <= 4 * ((Len(a) + 2) \div 3)
BY SecretIs DEF Digits

(* What is stored of an array, and that decode takes it for base64url.     *)
LEMMA Base64Is ==
    ASSUME NEW a \in Secret
    PROVE  Base64(a) = Stored(a)
<1> DEFINE N == 4 * ((Len(a) + 2) \div 3)
           url == Replace(Replace(base64EncArr(a), Plus, Minus), Slash, Low)
           t == [i \in 1..N |-> Url(CharOf(a, i))]
<1>1. N \in Nat /\ Digits(a) \in Nat /\ Digits(a) <= N /\ a \in Seq(Byte)
  BY SecretIs, DigitsIs
<1>2. base64EncArr(a) = [i \in 1..N |-> CharOf(a, i)]
  BY EncodedIs
<1> HIDE DEF N
<1>3. url = t
  <2>1. Minus # Slash /\ Plus # Slash
    BY DEF Plus, Minus, Slash
  <2> QED
    BY <1>2, <2>1 DEF Replace, Url
<1>4. ASSUME NEW i \in 1..N
      PROVE  t[i] \in Nat /\ (t[i] = Pad <=> i > Digits(a))
  <2>1. i \in Nat \ {0} /\ i \in Nat
    BY <1>1
  <2>2. t[i] = Url(CharOf(a, i))
    OBVIOUS
  <2>3. CASE i <= Digits(a)
    <3>1. CharOf(a, i) = uint6ToB64(DigitOf(a, i))
      BY <2>3 DEF CharOf
    <3>2. Url(CharOf(a, i)) \in Nat /\ Url(CharOf(a, i)) # Pad
      BY <1>1, <2>1, <3>1, DigitOfRange, CharIs
    <3> HIDE DEF t
    <3> QED
      BY <1>1, <2>1, <2>2, <2>3, <3>2
  <2>4. CASE i > Digits(a)
    <3>1. CharOf(a, i) = Pad
      BY <1>1, <2>1, <2>4 DEF CharOf
    <3>2. Url(Pad) = Pad /\ Pad \in Nat
      BY DEF Url, Pad, Plus, Slash
    <3> HIDE DEF t
    <3> QED
      BY <2>2, <2>4, <3>1, <3>2
  <2> HIDE DEF t
  <2> QED
    BY <1>1, <2>1, <2>3, <2>4
<1> DEFINE E == Nat
<1>5. DOMAIN t = 1..N /\ t \in Seq(E)
  <2>1. t \in [1..N -> E]
    BY <1>4
  <2> HIDE DEF t, E
  <2> QED
    BY <1>1, <2>1
<1>6. WithoutPadding(t) = [i \in 1..Digits(a) |-> t[i]]
  <2> DEFINE L == Digits(a)
  <2>1. L \in Nat /\ L <= N /\ \A i \in 1..N : t[i] = Pad <=> i > L
    BY <1>1, <1>4
  <2> HIDE DEF t, L, url, E
  <2>2. PaddedAfter(t, L, N, E)
    BY <1>1, <1>5, <2>1 DEF PaddedAfter
  <2>3. WithoutPadding(t) = [i \in 1..L |-> t[i]]
    BY <2>2, Stripped
  <2> QED
    BY <2>3 DEF L
<1>7. [i \in 1..Digits(a) |-> t[i]] = Stored(a)
  BY <1>1 DEF Stored, CharOf
<1>8. Base64(a) = WithoutPadding(url)
  BY DEF Base64, encode
<1> HIDE DEF t, url
<1> QED
  BY <1>3, <1>6, <1>7, <1>8
-----------------------------------------------------------------------------
(* Decoding.                                                               *)

LEMMA CharsOf ==
    ASSUME NEW a \in Secret, NEW i \in 1..Digits(a)
    PROVE  LET c == uint6ToB64(DigitOf(a, i)) IN
           /\ c \in Nat /\ c # Pad /\ c # Minus /\ c # Low
           /\ b64ToUint6(c) = DigitOf(a, i)
           /\ Url(c) \in Alphanumeric \cup {Minus, Low} /\ Url(c) \in Nat /\ Url(c) # Pad
<1>1. i \in Nat \ {0} /\ a \in Seq(Byte)
  BY SecretIs, DigitsIs
<1>2. DigitOf(a, i) \in Nat /\ DigitOf(a, i) < 64
  BY <1>1, DigitOfRange
<1> QED
  BY <1>2, CharIs

(* A text without padding.                                                 *)
LEMMA Unpadded ==
    ASSUME NEW L \in Nat, NEW t, DOMAIN t = 1..L, \A i \in 1..L : t[i] \in Nat /\ t[i] # Pad,
           t = [i \in 1..L |-> t[i]]
    PROVE  WithoutPadding(t) = t /\ Len(t) = L
<1> DEFINE E == Nat
<1>1. t \in [1..L -> E]
  OBVIOUS
<1>2. t \in Seq(E) /\ Len(t) = L
  <2> HIDE DEF E
  <2> QED
    BY <1>1
<1>3. PaddedAfter(t, L, L, E)
  <2>1. \A i \in 1..L : t[i] = Pad <=> i > L
    OBVIOUS
  <2> HIDE DEF E
  <2> QED
    BY <1>2, <2>1 DEF PaddedAfter
<1> HIDE DEF E
<1> QED
  BY <1>2, <1>3, Stripped

LEMMA StoredIsUrlSafe == ASSUME NEW a \in Secret PROVE UrlSafe(Stored(a))
<1> DEFINE L == Digits(a)
           t == Stored(a)
<1>1. L \in Nat /\ L > 0
  BY DigitsIs
<1>2. /\ DOMAIN t = 1..L /\ t = [i \in 1..L |-> t[i]]
      /\ \A i \in 1..L : t[i] \in Alphanumeric \cup {Minus, Low} /\ t[i] \in Nat /\ t[i] # Pad
  BY CharsOf DEF Stored
<1> HIDE DEF L, t
<1>3. WithoutPadding(t) = t /\ Len(t) = L
  BY <1>1, <1>2, Unpadded
<1>4. InAlphabet(t, Alphanumeric \cup {Minus, Low})
  <2>1. L \in 0..Len(t) /\ Len(t) - L <= 2
    BY <1>1, <1>3
  <2>2. \A i \in 1..Len(t) : i <= L /\ t[i] \in Alphanumeric \cup {Minus, Low}
    BY <1>1, <1>2, <1>3
  <2> HIDE DEF L
  <2> QED
    BY <2>1, <2>2 DEF InAlphabet
<1>5. UrlSafe(t)
  BY <1>1, <1>3, <1>4 DEF UrlSafe
<1> QED
  BY <1>5 DEF t

(* What decode makes of it before reading the digits.                      *)
LEMMA RestoredIs ==
    ASSUME NEW a \in Secret
    PROVE  /\ Replace(Replace(Stored(a), Minus, Plus), Low, Slash) = Restored(a)
           /\ WithoutPadding(Restored(a)) = Restored(a) /\ Len(Restored(a)) = Digits(a)
<1> DEFINE L == Digits(a)
           t == Restored(a)
<1>1. L \in Nat
  BY DigitsIs
<1>2. \A i \in 1..L : LET c == uint6ToB64(DigitOf(a, i)) IN
                      c \in Nat /\ c # Pad /\ c # Minus /\ c # Low
  BY CharsOf
<1>3. Replace(Replace(Stored(a), Minus, Plus), Low, Slash) = t
  <2>1. Plus # Low /\ Minus # Low /\ Plus # Slash
    BY DEF Plus, Low, Slash, Minus
  <2> QED
    BY <1>2, <2>1 DEF Stored, Restored, Replace, Url
<1>4. DOMAIN t = 1..L /\ t = [i \in 1..L |-> t[i]] /\ \A i \in 1..L : t[i] \in Nat /\ t[i] # Pad
  BY <1>2 DEF Restored
<1> HIDE DEF L, t
<1>5. WithoutPadding(t) = t /\ Len(t) = L
  BY <1>1, <1>4, Unpadded
<1> QED
  BY <1>3, <1>5 DEF L, t

(* The four digits of a group, of which the last group may lack some.      *)
LEMMA GroupDecoded ==
    ASSUME NEW a \in Secret, NEW d, DOMAIN d = 1..Digits(a), Len(d) = Digits(a),
           \A i \in 1..Digits(a) : d[i] = DigitOf(a, i),
           NEW g \in Nat, 3 * g < Len(a)
    PROVE  Word(d, 4 * g, 4, 6) = WordOf(a, g)
<1> DEFINE L == Digits(a)
           n == Len(a)
           w == WordOf(a, g)
<1>1. n \in Nat /\ L \in Nat /\ a \in Seq(Byte) /\ L = (4 * n + 2) \div 3
  BY SecretIs, DigitsIs DEF Digits
<1>2. ASSUME NEW k \in 1..4
      PROVE  At(d, 4 * g + (k - 1)) = IF 4 * g + k <= L THEN Digit(w, k) ELSE 0
  <2>1. (4 * g + k - 1) \div 4 = g /\ ((4 * g + k - 1) % 4) + 1 = k
    OBVIOUS
  <2>2. DigitOf(a, 4 * g + k) = Digit(w, k)
    BY <2>1 DEF DigitOf
  <2>3. 4 * g + (k - 1) + 1 = 4 * g + k /\ 4 * g + (k - 1) \in Nat
    OBVIOUS
  <2>4. 4 * g + (k - 1) < L <=> 4 * g + k <= L
    BY <1>1
  <2>5. 4 * g + k <= L => 4 * g + k \in 1..L
    BY <1>1
  <2> HIDE DEF w, L
  <2> QED
    BY <2>2, <2>3, <2>4, <2>5 DEF At, L
<1>3. ASSUME NEW j \in Nat PROVE At(d, j) \in Nat
  <2>1. CASE j < L
    <3>1. j + 1 \in 1..L /\ j + 1 \in Nat \ {0}
      BY <1>1, <2>1
    <3>2. At(d, j) = DigitOf(a, j + 1)
      BY <2>1, <3>1 DEF At
    <3> QED
      BY <1>1, <3>1, <3>2, DigitOfRange
  <2>2. CASE ~(j < L)
    BY <2>2 DEF At
  <2> QED
    BY <2>1, <2>2
<1>4. Word(d, 4 * g, 4, 6) = ((At(d, 4 * g) * 64 + At(d, 4 * g + 1)) * 64 + At(d, 4 * g + 2)) * 64
                                 + At(d, 4 * g + 3)
  <2>1. 4 * g \in Nat
    OBVIOUS
  <2> QED
    BY <1>3, <2>1, Digitwise
<1>5. \A k \in 1..4 : 4 * g + k > L => Digit(w, k) = 0
  <2>1. PICK x, y, z \in Nat : x = At(a, 3 * g) /\ y = At(a, 3 * g + 1) /\ z = At(a, 3 * g + 2)
    <3>1. 3 * g \in Nat /\ 3 * g + 1 \in Nat /\ 3 * g + 2 \in Nat
      OBVIOUS
    <3> QED
      BY <1>1, <3>1, AtByte
  <2>2. w = BytesOf(x, y, z)
    BY <1>1, <2>1, WordBytes
  <2>3. CASE n - 3 * g >= 3
    <3>1. L >= 4 * g + 4
      BY <1>1, <2>3
    <3> HIDE DEF L
    <3> QED
      BY <1>1, <3>1
  <2>4. CASE n - 3 * g = 2
    <3>1. L = 4 * g + 3 /\ ~(3 * g + 2 < n)
      BY <1>1, <2>4
    <3>2. z = 0
      BY <2>1, <3>1 DEF At
    <3>3. Digit(w, 4) = 0
      BY <2>2, <3>2, FewBytes
    <3> HIDE DEF L, w
    <3> QED
      BY <1>1, <3>1, <3>3
  <2>5. CASE n - 3 * g = 1
    <3>1. L = 4 * g + 2 /\ ~(3 * g + 2 < n) /\ ~(3 * g + 1 < n)
      BY <1>1, <2>5
    <3>2. z = 0 /\ y = 0
      BY <2>1, <3>1 DEF At
    <3>3. Digit(w, 4) = 0 /\ Digit(w, 3) = 0
      BY <2>2, <3>2, FewBytes
    <3> HIDE DEF L, w
    <3> QED
      BY <1>1, <3>1, <3>3
  <2>6. n - 3 * g >= 3 \/ n - 3 * g = 2 \/ n - 3 * g = 1
    BY <1>1
  <2> QED
    BY <2>3, <2>4, <2>5, <2>6
<1>6. ASSUME NEW k \in 1..4 PROVE At(d, 4 * g + (k - 1)) = Digit(w, k)
  <2> HIDE DEF L, w
  <2> QED
    BY <1>1, <1>2, <1>5
<1>7. /\ At(d, 4 * g) = Digit(w, 1) /\ At(d, 4 * g + 1) = Digit(w, 2)
      /\ At(d, 4 * g + 2) = Digit(w, 3) /\ At(d, 4 * g + 3) = Digit(w, 4)
  <2>1. 1 \in 1..4 /\ 2 \in 1..4 /\ 3 \in 1..4 /\ 4 \in 1..4
    OBVIOUS
  <2>2. 4 * g + (1 - 1) = 4 * g /\ 2 - 1 = 1 /\ 3 - 1 = 2 /\ 4 - 1 = 3
    OBVIOUS
  <2> HIDE DEF w
  <2>3. At(d, 4 * g + (1 - 1)) = Digit(w, 1)
    BY <1>6, <2>1
  <2>4. At(d, 4 * g + (2 - 1)) = Digit(w, 2)
    BY <1>6, <2>1
  <2>5. At(d, 4 * g + (3 - 1)) = Digit(w, 3)
    BY <1>6, <2>1
  <2>6. At(d, 4 * g + (4 - 1)) = Digit(w, 4)
    BY <1>6, <2>1
  <2> QED
    BY <2>2, <2>3, <2>4, <2>5, <2>6
<1>8. ((Digit(w, 1) * 64 + Digit(w, 2)) * 64 + Digit(w, 3)) * 64 + Digit(w, 4) = w
  BY SMT, <1>1, WordRange, DigitsMakeWord
<1> HIDE DEF w
<1> QED
  BY <1>4, <1>7, <1>8 DEF w

(* The digits give back the bytes, whatever the length modulo three.       *)
LEMMA RestoredBytes == ASSUME NEW a \in Secret PROVE base64DecToArr(Restored(a)) = a
<1> DEFINE n == Len(a)
           L == Digits(a)
           d == [i \in DOMAIN Restored(a) |-> b64ToUint6(Restored(a)[i])]
           byte(i) == (Word(d, 4 * ((i - 1) \div 3), 4, 6) \div 256^(2 - ((i - 1) % 3))) % 256
<1>1. n \in Nat /\ L \in Nat /\ a \in Seq(Byte) /\ L = (4 * n + 2) \div 3
  BY SecretIs, DigitsIs DEF Digits
<1>2. (Len(Restored(a)) * 3 + 1) \div 4 = n
  <2>1. Len(Restored(a)) = L
    BY RestoredIs
  <2>2. (L * 3 + 1) \div 4 = n
    BY <1>1
  <2> HIDE DEF n, L
  <2> QED
    BY <2>1, <2>2
<1>3. DOMAIN d = 1..L /\ Len(d) = L /\ \A i \in 1..L : d[i] = DigitOf(a, i)
  <2>1. DOMAIN Restored(a) = 1..L
    BY DEF Restored
  <2>2. \A i \in 1..L : b64ToUint6(Restored(a)[i]) = DigitOf(a, i)
    BY CharsOf DEF Restored
  <2>3. d = [i \in 1..L |-> DigitOf(a, i)]
    BY <2>1, <2>2
  <2> HIDE DEF d, L
  <2>4. DOMAIN d = 1..L /\ \A i \in 1..L : d[i] = DigitOf(a, i)
    BY <2>3
  <2>5. Len([i \in 1..L |-> DigitOf(a, i)]) = L
    BY <1>1
  <2> QED
    BY <2>3, <2>4, <2>5
<1>4. base64DecToArr(Restored(a)) = [i \in 1..n |-> byte(i)]
  <2> HIDE DEF n
  <2> QED
    BY <1>2 DEF base64DecToArr
<1> HIDE DEF d
<1>5. ASSUME NEW i \in 1..n PROVE byte(i) = a[i]
  <2>1. PICK g \in Nat : g = (i - 1) \div 3
    BY <1>1
  <2>2. PICK r \in 0..2 : r = (i - 1) % 3 /\ i = 3 * g + r + 1
    BY <1>1, <2>1
  <2>3. 3 * g < n /\ 3 * g + r < n /\ 3 * g + r \in Nat
    BY <1>1, <2>2
  <2>4. Word(d, 4 * g, 4, 6) = WordOf(a, g)
    BY <1>3, <2>3, GroupDecoded
  <2>5. PICK x, y, z \in Nat : /\ x < 256 /\ y < 256 /\ z < 256
                               /\ x = At(a, 3 * g) /\ y = At(a, 3 * g + 1) /\ z = At(a, 3 * g + 2)
    <3>1. 3 * g \in Nat /\ 3 * g + 1 \in Nat /\ 3 * g + 2 \in Nat
      OBVIOUS
    <3> QED
      BY <1>1, <3>1, AtByte
  <2>6. WordOf(a, g) = BytesOf(x, y, z)
    BY <1>1, <2>5, WordBytes
  <2>7. /\ (BytesOf(x, y, z) \div 256^2) % 256 = x /\ (BytesOf(x, y, z) \div 256^1) % 256 = y
        /\ (BytesOf(x, y, z) \div 256^0) % 256 = z
    BY <2>5, WordMakesBytes, SMT
  <2>8. At(a, 3 * g + r) = a[i]
    BY <1>1, <2>2, <2>3 DEF At
  <2>9. byte(i) = (BytesOf(x, y, z) \div 256^(2 - r)) % 256
    BY <2>1, <2>2, <2>4, <2>6
  <2> HIDE DEF byte
  <2>10. CASE r = 0
    <3>1. 2 - r = 2 /\ 3 * g + r = 3 * g
      BY <2>10
    <3> QED
      BY <2>5, <2>7, <2>8, <2>9, <3>1
  <2>11. CASE r = 1
    <3>1. 2 - r = 1
      BY <2>11
    <3> QED
      BY <2>5, <2>7, <2>8, <2>9, <2>11, <3>1
  <2>12. CASE r = 2
    <3>1. 2 - r = 0
      BY <2>12
    <3> QED
      BY <2>5, <2>7, <2>8, <2>9, <2>12, <3>1
  <2> QED
    BY <2>10, <2>11, <2>12
<1>6. a = [i \in 1..n |-> a[i]]
  BY <1>1
<1> HIDE DEF byte, n
<1> QED
  BY <1>4, <1>5, <1>6

(* Base64 without padding gives back every array that fits a line.         *)
THEOREM Base64RoundTrip == \A a \in Secret : decode(Base64(a)) = a
<1> TAKE a \in Secret
<1>1. UrlSafe(Stored(a))
  BY StoredIsUrlSafe
<1>2. decode(Stored(a)) = base64DecToArr(Restored(a))
  BY <1>1, RestoredIs DEF decode
<1> QED
  BY <1>2, Base64Is, RestoredBytes

-----------------------------------------------------------------------------
(* Hexadecimal.                                                            *)

LEMMA Halves ==
    ASSUME NEW v \in Nat, v < 256
    PROVE  (v \div 16) * 16 + (v % 16) = v
OBVIOUS

(* Hexadecimal gives back every array of at least one byte.                *)
THEOREM HexRoundTrip == \A a \in Seq(Byte) \ {<<>>} : hex2U8Arr(u8Arr2Hex(a)) = a
<1> TAKE a \in Seq(Byte) \ {<<>>}
<1> DEFINE n == Len(a)
           half(i) == LET byte == a[(i + 1) \div 2] IN IF i % 2 = 1 THEN byte \div 16 ELSE byte % 16
           hex == [i \in 1..(2 * n) |-> half(i)]
<1>1. n \in Nat /\ n > 0 /\ DOMAIN a = 1..n /\ a = [i \in 1..n |-> a[i]]
  <2>1. a # <<>> /\ a \in Seq(Byte)
    OBVIOUS
  <2> QED
    BY <2>1
<1>2. u8Arr2Hex(a) = hex
  BY DEF u8Arr2Hex
<1>3. Len(hex) = 2 * n /\ hex # <<>>
  <2> HIDE DEF half
  <2>1. Len(hex) = 2 * n
    BY <1>1
  <2> HIDE DEF hex
  <2>2. Len(<<>>) = 0
    OBVIOUS
  <2> QED
    BY <1>1, <2>1, <2>2
<1>4. ASSUME NEW i \in 1..n
      PROVE  2 * i <= Len(hex) /\ hex[2 * i - 1] * 16 + hex[2 * i] = a[i]
  <2>1. PICK v \in Byte : v = a[i]
    BY <1>1
  <2>2. 2 * i - 1 \in 1..(2 * n) /\ 2 * i \in 1..(2 * n)
    BY <1>1
  <2>3. (2 * i - 1 + 1) \div 2 = i /\ (2 * i + 1) \div 2 = i /\ (2 * i - 1) % 2 = 1 /\ (2 * i) % 2 = 0
    BY <1>1
  <2>4. half(2 * i - 1) = v \div 16 /\ half(2 * i) = v % 16
    BY <2>1, <2>3
  <2> HIDE DEF half
  <2>5. hex[2 * i - 1] = v \div 16 /\ hex[2 * i] = v % 16
    BY <2>2, <2>4
  <2> HIDE DEF hex
  <2>6. v \in Nat /\ v < 256
    BY <2>1, ByteIs
  <2> QED
    BY <1>1, <1>3, <2>1, <2>5, <2>6, Halves
<1>5. (Len(hex) + 1) \div 2 = n
  <2>1. \A m \in Nat : (2 * m + 1) \div 2 = m
    OBVIOUS
  <2> HIDE DEF hex, n
  <2> QED
    BY <1>1, <1>3, <2>1
<1> HIDE DEF hex, n
<1>6. hex2U8Arr(hex) = [i \in 1..n |-> IF 2 * i <= Len(hex) THEN hex[2 * i - 1] * 16 + hex[2 * i]
                                        ELSE hex[2 * i - 1]]
  BY <1>3, <1>5 DEF hex2U8Arr
<1> QED
  BY <1>1, <1>2, <1>4, <1>6

-----------------------------------------------------------------------------
(* Sessions.                                                               *)

(* A key with other arrays, and keys with arrays of a set V.               *)
KeyWith(k, na, nb, secret) ==
    [from |-> k.from, to |-> k.to, port |-> k.port, na |-> na, nb |-> nb, secret |-> secret]

Keys(V) == [from : DOMAIN digest, to : DOMAIN digest, port : Nat, na : V, nb : V, secret : V]

(* A session comes back from local storage as it was.                      *)
THEOREM RoundTrip == \A s \in Sessions : fromJSON(toJSON(s)) = s
<1> TAKE s \in Sessions
<1> DEFINE k == s.masterKey
           json == masterKeyToJSON(k)
<1>1. k \in Keys(Secret) /\ s.code \in Seq(Byte) \ {<<>>} /\ s = [masterKey |-> k, code |-> s.code]
  BY DEF Sessions, MasterKey, Keys
<1> HIDE DEF k, json
<1>2. /\ k = [from |-> k.from, to |-> k.to, port |-> k.port,
              na |-> k.na, nb |-> k.nb, secret |-> k.secret]
      /\ k.na \in Secret /\ k.nb \in Secret /\ k.secret \in Secret
  BY <1>1 DEF Keys
<1>3. json = KeyWith(k, Base64(k.na), Base64(k.nb), Base64(k.secret))
  <2>1. json = [k EXCEPT !.na = Base64(@), !.nb = Base64(@), !.secret = Base64(@)]
    BY DEF json, masterKeyToJSON
  <2>2. json = [k EXCEPT !.na = Base64(k.na), !.nb = Base64(k.nb), !.secret = Base64(k.secret)]
    BY <1>2, <2>1
  <2> DEFINE x == Base64(k.na)
             y == Base64(k.nb)
             z == Base64(k.secret)
  <2> HIDE DEF x, y, z
  <2>3. PICK g : g = [k EXCEPT !.na = x, !.nb = y, !.secret = z]
    OBVIOUS
  <2>4. g = KeyWith(k, x, y, z)
    BY <1>1, <2>3 DEF Keys, KeyWith
  <2> QED
    BY <2>2, <2>3, <2>4 DEF x, y, z
<1>4. masterKeyFromJSON(json) = KeyWith(json, decode(json.na), decode(json.nb), decode(json.secret))
  <2>1. masterKeyFromJSON(json)
            = [json EXCEPT !.na = decode(@), !.nb = decode(@), !.secret = decode(@)]
    BY DEF masterKeyFromJSON
  <2>2. json = [from |-> k.from, to |-> k.to, port |-> k.port,
                na |-> Base64(k.na), nb |-> Base64(k.nb), secret |-> Base64(k.secret)]
    BY <1>3 DEF KeyWith
  <2>3. masterKeyFromJSON(json)
            = [json EXCEPT !.na = decode(json.na), !.nb = decode(json.nb), !.secret = decode(json.secret)]
    BY <2>1, <2>2
  <2> DEFINE V == {Base64(k.na), Base64(k.nb), Base64(k.secret)}
  <2>4. json \in Keys(V)
    BY <1>1, <2>2 DEF Keys
  <2> DEFINE x == decode(json.na)
             y == decode(json.nb)
             z == decode(json.secret)
  <2> HIDE DEF V, x, y, z
  <2>5. PICK g : g = [json EXCEPT !.na = x, !.nb = y, !.secret = z]
    OBVIOUS
  <2>6. g = KeyWith(json, x, y, z)
    BY <2>4, <2>5 DEF Keys, KeyWith
  <2> QED
    BY <2>3, <2>5, <2>6 DEF x, y, z
<1>5. masterKeyFromJSON(json) = k
  <2>1. /\ decode(Base64(k.na)) = k.na /\ decode(Base64(k.nb)) = k.nb
        /\ decode(Base64(k.secret)) = k.secret
    BY <1>2, Base64RoundTrip
  <2> QED
    BY <1>2, <1>3, <1>4, <2>1 DEF KeyWith
<1>6. hex2U8Arr(u8Arr2Hex(s.code)) = s.code
  BY <1>1, HexRoundTrip
<1>7. fromJSON(toJSON(s)) = [masterKey |-> masterKeyFromJSON(json), code |-> hex2U8Arr(u8Arr2Hex(s.code))]
  BY DEF fromJSON, toJSON, json, k
<1> QED
  BY <1>1, <1>5, <1>6, <1>7
-----------------------------------------------------------------------------
(* Keys.                                                                   *)

(* insertBytes within the bounds of the array.                             *)
LEMMA InsertedBytes ==
    ASSUME NEW N \in Nat, NEW to \in Nat, NEW size \in Nat, to + size <= N,
           NEW src, NEW V, NEW dst \in Seq(V), Len(dst) = N
    PROVE  insertBytes(src, dst, 0, to, size)
               = [i \in 1..N |-> IF i > to /\ i <= to + size THEN At(src, i - to - 1) ELSE dst[i]]
<1> DEFINE before == SubSeq(dst, 1, to)
           middle == [i \in 1..size |-> At(src, 0 + i - 1)]
           after == SubSeq(dst, to + size + 1, Len(dst))
           whole == before \o middle \o after
           f == [i \in 1..N |-> IF i > to /\ i <= to + size THEN At(src, i - to - 1) ELSE dst[i]]
<1>1. before = [i \in 1..to |-> f[i]]
  <2>1. before = [i \in 1..to |-> dst[i]]
    OBVIOUS
  <2> QED
    BY <2>1
<1>2. middle = [i \in 1..size |-> f[to + i]]
  OBVIOUS
<1>3. after = [i \in 1..(N - (to + size)) |-> f[(to + size) + i]]
  <2>1. after = [i \in 1..(N - (to + size)) |-> dst[to + size + 1 + i - 1]]
    OBVIOUS
  <2>2. \A i \in 1..(N - (to + size)) :
            /\ to + size + 1 + i - 1 = (to + size) + i /\ (to + size) + i \in 1..N
            /\ f[(to + size) + i] = dst[(to + size) + i]
    OBVIOUS
  <2> HIDE DEF f, after
  <2> QED
    BY <2>1, <2>2
<1>4. whole = f
  <2> DEFINE m == to + size
             k == N - m
  <2>1. m \in Nat /\ k \in Nat /\ m + k = N /\ to + size = m
    OBVIOUS
  <2>2. f = [i \in 1..N |-> f[i]]
    OBVIOUS
  <2>3. before \o middle = [i \in 1..m |-> f[i]]
    <3> HIDE DEF f, before, middle
    <3>1. [i \in 1..to |-> f[i]] \o [i \in 1..size |-> f[to + i]] = [i \in 1..(to + size) |-> f[i]]
      BY Concat
    <3> QED
      BY <1>1, <1>2, <3>1
  <2>4. after = [i \in 1..k |-> f[m + i]]
    BY <1>3
  <2> HIDE DEF f, before, middle, after, m, k
  <2>5. [i \in 1..m |-> f[i]] \o [i \in 1..k |-> f[m + i]] = [i \in 1..(m + k) |-> f[i]]
    BY <2>1, Concat
  <2> QED
    BY <2>1, <2>2, <2>3, <2>4, <2>5
<1>5. SubSeq(f, 1, Len(dst)) = f
  OBVIOUS
<1>6. insertBytes(src, dst, 0, to, size) = SubSeq(whole, 1, Len(dst))
  BY DEF insertBytes
<1> HIDE DEF f, whole
<1> QED
  BY <1>4, <1>5, <1>6 DEF f

(* The array of the first N values of f.                                   *)
Array(f, N) == [i \in 1..N |-> f[i]]

LEMMA InsertedInArray ==
    ASSUME NEW N \in Nat, NEW to \in Nat, NEW size \in Nat, to + size <= N, NEW src, NEW f
    PROVE  insertBytes(src, Array(f, N), 0, to, size)
               = [i \in 1..N |-> IF i > to /\ i <= to + size THEN At(src, i - to - 1) ELSE f[i]]
<1> DEFINE V == {f[i] : i \in 1..N}
           dst == Array(f, N)
<1>1. \A i \in 1..N : f[i] \in V /\ dst[i] = f[i]
  BY DEF Array
<1>2. dst \in [1..N -> V]
  <2> HIDE DEF V
  <2> QED
    BY <1>1 DEF Array
<1> HIDE DEF V, dst
<1>3. dst \in Seq(V) /\ Len(dst) = N
  BY <1>2
<1>4. insertBytes(src, dst, 0, to, size)
          = [i \in 1..N |-> IF i > to /\ i <= to + size THEN At(src, i - to - 1) ELSE dst[i]]
  BY <1>3, InsertedBytes
<1>5. insertBytes(src, dst, 0, to, size)
          = [i \in 1..N |-> IF i > to /\ i <= to + size THEN At(src, i - to - 1) ELSE f[i]]
  BY <1>1, <1>4
<1> QED
  BY <1>5 DEF dst

(* What is fed into the derivation: the secret and the two hashes.         *)
LEMMA KeyIs ==
    ASSUME KeyLength \in Nat, NEW from, NEW to, NEW secret
    PROVE  deriveKey(from, to, secret)
               = [i \in 1..(3 * KeyLength) |->
                     IF i <= KeyLength THEN At(secret, i - 1)
                     ELSE IF i <= 2 * KeyLength THEN At(hex2U8Arr(from), i - KeyLength - 1)
                     ELSE At(hex2U8Arr(to), i - 2 * KeyLength - 1)]
<1> DEFINE N == 3 * KeyLength
           zeros == [i \in 1..N |-> 0]
           one == [i \in 1..N |-> IF i > 0 /\ i <= 0 + KeyLength THEN At(secret, i - 0 - 1) ELSE zeros[i]]
           two == [i \in 1..N |-> IF i > KeyLength /\ i <= KeyLength + KeyLength
                                  THEN At(hex2U8Arr(from), i - KeyLength - 1) ELSE one[i]]
           three == [i \in 1..N |-> IF i > 2 * KeyLength /\ i <= 2 * KeyLength + KeyLength
                                    THEN At(hex2U8Arr(to), i - 2 * KeyLength - 1) ELSE two[i]]
           key == [i \in 1..N |->
                     IF i <= KeyLength THEN At(secret, i - 1)
                     ELSE IF i <= 2 * KeyLength THEN At(hex2U8Arr(from), i - KeyLength - 1)
                     ELSE At(hex2U8Arr(to), i - 2 * KeyLength - 1)]
<1>1. /\ N \in Nat /\ 0 \in Nat /\ 2 * KeyLength \in Nat
      /\ 0 + KeyLength <= N /\ KeyLength + KeyLength <= N /\ 2 * KeyLength + KeyLength <= N
  OBVIOUS
<1>2. zeros = Array(zeros, N) /\ one = Array(one, N) /\ two = Array(two, N)
  BY DEF Array
<1>3. insertBytes(secret, zeros, 0, 0, KeyLength) = one
  <2> DEFINE at == 0
  <2>1. at \in Nat /\ at + KeyLength <= N
    BY <1>1
  <2> HIDE DEF N, zeros, at
  <2>2. insertBytes(secret, Array(zeros, N), 0, at, KeyLength)
            = [i \in 1..N |-> IF i > at /\ i <= at + KeyLength THEN At(secret, i - at - 1) ELSE zeros[i]]
    BY <1>1, <2>1, InsertedInArray
  <2> QED
    BY <1>2, <2>2 DEF at
<1>4. insertBytes(hex2U8Arr(from), one, 0, KeyLength, KeyLength) = two
  <2> HIDE DEF N, one
  <2> QED
    BY <1>1, <1>2, InsertedInArray
<1>5. insertBytes(hex2U8Arr(to), two, 0, 2 * KeyLength, KeyLength) = three
  <2> DEFINE at == 2 * KeyLength
  <2>1. at \in Nat /\ at + KeyLength <= N
    BY <1>1
  <2> HIDE DEF N, two, at
  <2>2. insertBytes(hex2U8Arr(to), Array(two, N), 0, at, KeyLength)
            = [i \in 1..N |-> IF i > at /\ i <= at + KeyLength
                              THEN At(hex2U8Arr(to), i - at - 1) ELSE two[i]]
    BY <1>1, <2>1, InsertedInArray
  <2> QED
    BY <1>2, <2>2 DEF at
<1>6. three = key
  <2>1. ASSUME NEW i \in 1..N PROVE three[i] = key[i]
    <3>1. i - 0 - 1 = i - 1
      OBVIOUS
    <3> QED
      BY <3>1
  <2> QED
    BY <2>1
<1>7. deriveKey(from, to, secret)
          = insertBytes(hex2U8Arr(to), insertBytes(hex2U8Arr(from),
                insertBytes(secret, zeros, 0, 0, KeyLength), 0, KeyLength, KeyLength),
                0, 2 * KeyLength, KeyLength)
  BY DEF deriveKey
<1> HIDE DEF zeros, one, two, three, key
<1>8. deriveKey(from, to, secret) = key
  BY <1>3, <1>4, <1>5, <1>6, <1>7
<1> QED
  BY <1>8 DEF key
-----------------------------------------------------------------------------
(* Messages.                                                               *)

(* The loops of join and split, with the operator FoldFacts expects.       *)
JoinTurn(around, joined, part) == joined \o part
SumTurn(around, sum, s) == sum + s

Joined == INSTANCE FoldFacts WITH Op <- JoinTurn
Sums == INSTANCE FoldFacts WITH Op <- SumTurn

LEMMA JoinIsFold == ASSUME NEW list PROVE join(list) = Joined!Fold(0, <<>>, list)
BY DEF join, Joined!Fold, JoinTurn, FoldLeft, Joined!FoldLeft, MapThenFoldSet,
   Joined!MapThenFoldSet, Max, Joined!Max

(* Where part i begins.                                                    *)
Start(sizes, i) == Sums!Fold(0, 0, SubSeq(sizes, 1, i - 1))

LEMMA SplitIsFold ==
    ASSUME NEW buffer, NEW sizes
    PROVE  split(buffer, sizes)
               = [i \in DOMAIN sizes |->
                     SubSeq(buffer, Start(sizes, i) + 1,
                            IF Start(sizes, i) + sizes[i] < Len(buffer)
                            THEN Start(sizes, i) + sizes[i] ELSE Len(buffer))]
BY DEF split, Start, Sums!Fold, SumTurn, FoldLeft, Sums!FoldLeft, MapThenFoldSet,
   Sums!MapThenFoldSet, Max, Sums!Max

LEMMA JoinOfTwo ==
    ASSUME NEW V, NEW a \in Seq(V), NEW b \in Seq(V)
    PROVE  join(<<a, b>>) = a \o b
<1> DEFINE empty == <<>>
           around == 0
<1>1. empty \o a = a
  OBVIOUS
<1>2. join(<<a, b>>) = Joined!Fold(around, empty, <<a, b>>)
  BY JoinIsFold
<1> HIDE DEF empty, around
<1>3. Joined!Fold(around, empty, <<a, b>>) = JoinTurn(around, JoinTurn(around, empty, a), b)
  BY Joined!FoldTwo
<1> QED
  BY <1>1, <1>2, <1>3 DEF JoinTurn

LEMMA SplitInTwo ==
    ASSUME NEW buffer, NEW m \in Nat, NEW n \in Nat, Len(buffer) = m + n
    PROVE  /\ split(buffer, <<m, n>>)[1] = SubSeq(buffer, 1, m)
           /\ split(buffer, <<m, n>>)[2] = SubSeq(buffer, m + 1, m + n)
<1> DEFINE sizes == <<m, n>>
           parts == split(buffer, sizes)
           zero == 0
<1>1. DOMAIN sizes = {1, 2} /\ sizes[1] = m /\ sizes[2] = n
  OBVIOUS
<1>2. SubSeq(sizes, 1, 1 - 1) = <<>> /\ SubSeq(sizes, 1, 2 - 1) = <<m>>
  <2>1. 1 - 1 = 0 /\ 2 - 1 = 1 /\ sizes \in Seq(Nat)
    OBVIOUS
  <2>2. SubSeq(sizes, 1, 0) = [i \in 1..0 |-> sizes[i]] /\ SubSeq(sizes, 1, 1) = [i \in 1..1 |-> sizes[i]]
    BY <2>1
  <2>3. [i \in 1..0 |-> sizes[i]] = <<>>
    OBVIOUS
  <2>4. [i \in 1..1 |-> sizes[i]] = <<m>>
    BY <1>1
  <2> QED
    BY <2>1, <2>2, <2>3, <2>4
<1>3. Start(sizes, 1) = zero /\ Start(sizes, 2) = m
  <2>1. Start(sizes, 1) = Sums!Fold(zero, zero, <<>>) /\ Start(sizes, 2) = Sums!Fold(zero, zero, <<m>>)
    BY <1>2 DEF Start
  <2>2. zero + m = m
    OBVIOUS
  <2> HIDE DEF zero, sizes
  <2>3. Sums!Fold(zero, zero, <<>>) = zero
    BY Sums!FoldEmpty
  <2>4. Sums!Fold(zero, zero, <<m>>) = SumTurn(zero, zero, m)
    BY Sums!FoldOne
  <2> QED
    BY <2>1, <2>2, <2>3, <2>4 DEF SumTurn
<1>4. parts = [i \in DOMAIN sizes |->
                     SubSeq(buffer, Start(sizes, i) + 1,
                            IF Start(sizes, i) + sizes[i] < Len(buffer)
                            THEN Start(sizes, i) + sizes[i] ELSE Len(buffer))]
  BY SplitIsFold
<1> HIDE DEF sizes, parts
<1>5. parts[1] = SubSeq(buffer, zero + 1, IF zero + m < Len(buffer) THEN zero + m ELSE Len(buffer))
  BY <1>1, <1>3, <1>4
<1>6. parts[2] = SubSeq(buffer, m + 1, IF m + n < Len(buffer) THEN m + n ELSE Len(buffer))
  BY <1>1, <1>3, <1>4
<1>7. zero + 1 = 1 /\ (IF zero + m < Len(buffer) THEN zero + m ELSE Len(buffer)) = m
  OBVIOUS
<1>8. (IF m + n < Len(buffer) THEN m + n ELSE Len(buffer)) = m + n
  OBVIOUS
<1> QED
  BY <1>5, <1>6, <1>7, <1>8 DEF parts, sizes

(* Two sequences joined are split where they meet.                         *)
LEMMA Halved ==
    ASSUME NEW V, NEW a \in Seq(V), NEW b \in Seq(V)
    PROVE  /\ SubSeq(a \o b, 1, Len(a)) = a
           /\ SubSeq(a \o b, Len(a) + 1, Len(a) + Len(b)) = b
           /\ Len(a \o b) = Len(a) + Len(b)
OBVIOUS

(* What is sealed with a key is opened with that key only.                 *)
THEOREM OpensWithItsKey ==
    ASSUME NEW key, NEW other, NEW V, NEW iv \in Seq(V), Len(iv) = IvLength, NEW message \in Seq(V)
    PROVE  decrypt(other, encrypt(key, iv, message)) = IF other = key THEN message ELSE Throws
<1> DEFINE tag == <<key, iv, message>>
           sealed == Append(message, tag)
           W == V \cup {tag}
           sequence == iv \o sealed
           parts == split(sequence, <<IvLength, Len(sequence) - IvLength>>)
<1>1. tag = <<key, iv, message>>
  OBVIOUS
<1> HIDE DEF tag
<1>2. iv \in Seq(W) /\ message \in Seq(W) /\ sealed \in Seq(W) /\ tag \in W
  OBVIOUS
<1>3. Len(sealed) = Len(message) + 1 /\ Len(sealed) \in Nat /\ sealed # <<>>
  <2>1. Len(sealed) = Len(message) + 1 /\ Len(message) \in Nat
    OBVIOUS
  <2> HIDE DEF sealed
  <2>2. Len(<<>>) = 0
    OBVIOUS
  <2> QED
    BY <2>1, <2>2
<1>4. Last(sealed) = tag /\ Front(sealed) = message
  BY DEF Last, Front
<1>5. encrypt(key, iv, message) = sequence
  <2>1. encrypt(key, iv, message) = join(<<iv, sealed>>)
    BY DEF encrypt, Seal, tag
  <2> HIDE DEF sealed, W
  <2> QED
    BY <1>2, <2>1, JoinOfTwo
<1> HIDE DEF sealed, W
<1>6. /\ SubSeq(sequence, 1, Len(iv)) = iv
      /\ SubSeq(sequence, Len(iv) + 1, Len(iv) + Len(sealed)) = sealed
      /\ Len(sequence) = Len(iv) + Len(sealed)
  BY <1>2, Halved
<1>7. IvLength \in Nat /\ Len(sequence) - IvLength = Len(sealed)
  BY <1>3, <1>6 DEF IvLength
<1> HIDE DEF sequence
<1>8. parts[1] = iv /\ parts[2] = sealed
  <2> DEFINE m == IvLength
             n == Len(sealed)
  <2>1. m \in Nat /\ n \in Nat /\ Len(sequence) = m + n /\ Len(sequence) - IvLength = n
    BY <1>3, <1>6, <1>7
  <2>2. SubSeq(sequence, 1, m) = iv /\ SubSeq(sequence, m + 1, m + n) = sealed
    BY <1>6
  <2>3. parts = split(sequence, <<m, n>>)
    BY <2>1
  <2> HIDE DEF m, n, parts
  <2>4. /\ split(sequence, <<m, n>>)[1] = SubSeq(sequence, 1, m)
        /\ split(sequence, <<m, n>>)[2] = SubSeq(sequence, m + 1, m + n)
    BY <2>1, SplitInTwo
  <2> QED
    BY <2>2, <2>3, <2>4
<1>9. decrypt(other, sequence) = Unseal(other, parts[1], parts[2])
  BY DEF decrypt
<1> HIDE DEF parts
<1>10. Unseal(other, iv, sealed) = IF tag = <<other, iv, message>> THEN message ELSE Throws
  BY <1>3, <1>4 DEF Unseal
<1>11. tag = <<other, iv, message>> <=> other = key
  BY <1>1
<1> QED
  BY <1>5, <1>8, <1>9, <1>10, <1>11

-----------------------------------------------------------------------------
(* Keys of two sessions.                                                   *)

(* A hash as digest gives it, in hexadecimal.                              *)
Hash == [1..(2 * KeyLength) -> 0..15]

LEMMA HashBytes ==
    ASSUME KeyLength \in Nat, KeyLength > 0, NEW h \in Hash
    PROVE  hex2U8Arr(h) = [i \in 1..KeyLength |-> h[2 * i - 1] * 16 + h[2 * i]]
<1>1. h \in Seq(0..15) /\ Len(h) = 2 * KeyLength
  BY DEF Hash
<1>2. h # <<>> /\ (2 * KeyLength + 1) \div 2 = KeyLength
  BY <1>1
<1>3. hex2U8Arr(h) = [i \in 1..KeyLength |->
             IF 2 * i <= 2 * KeyLength THEN h[2 * i - 1] * 16 + h[2 * i] ELSE h[2 * i - 1]]
  BY <1>1, <1>2 DEF hex2U8Arr
<1> QED
  BY <1>3

LEMMA NibblesOfByte ==
    ASSUME NEW a \in Nat, NEW b \in Nat, NEW c \in Nat, NEW d \in Nat,
           a < 16, b < 16, c < 16, d < 16, a * 16 + b = c * 16 + d
    PROVE  a = c /\ b = d
OBVIOUS

(* Different hashes have different bytes.                                  *)
LEMMA HashOfBytes ==
    ASSUME KeyLength \in Nat, KeyLength > 0, NEW g \in Hash, NEW h \in Hash,
           \A i \in 1..KeyLength : At(hex2U8Arr(g), i - 1) = At(hex2U8Arr(h), i - 1)
    PROVE  g = h
<1>1. \A f \in Hash : \A i \in 1..KeyLength : At(hex2U8Arr(f), i - 1) = f[2 * i - 1] * 16 + f[2 * i]
  <2> TAKE f \in Hash
  <2> TAKE i \in 1..KeyLength
  <2> DEFINE bytes == [j \in 1..KeyLength |-> f[2 * j - 1] * 16 + f[2 * j]]
  <2>1. hex2U8Arr(f) = bytes
    BY HashBytes
  <2>2. Len(bytes) = KeyLength /\ i - 1 < KeyLength /\ i - 1 + 1 = i
    OBVIOUS
  <2>3. bytes[i] = f[2 * i - 1] * 16 + f[2 * i]
    OBVIOUS
  <2> HIDE DEF bytes
  <2> QED
    BY <2>1, <2>2, <2>3 DEF At
<1>2. ASSUME NEW i \in 1..KeyLength PROVE g[2 * i - 1] = h[2 * i - 1] /\ g[2 * i] = h[2 * i]
  <2>1. 2 * i - 1 \in 1..(2 * KeyLength) /\ 2 * i \in 1..(2 * KeyLength)
    OBVIOUS
  <2>2. \A f \in Hash : \A j \in 1..(2 * KeyLength) : f[j] \in Nat /\ f[j] < 16
    BY DEF Hash
  <2>3. g[2 * i - 1] * 16 + g[2 * i] = h[2 * i - 1] * 16 + h[2 * i]
    BY <1>1
  <2> DEFINE a == g[2 * i - 1]
             b == g[2 * i]
             c == h[2 * i - 1]
             d == h[2 * i]
  <2>4. a \in Nat /\ b \in Nat /\ c \in Nat /\ d \in Nat /\ a < 16 /\ b < 16 /\ c < 16 /\ d < 16
    BY <2>1, <2>2
  <2>5. a * 16 + b = c * 16 + d
    BY <2>3
  <2> HIDE DEF a, b, c, d
  <2>6. a = c /\ b = d
    BY <2>4, <2>5, NibblesOfByte
  <2> QED
    BY <2>6 DEF a, b, c, d
<1>3. ASSUME NEW j \in 1..(2 * KeyLength) PROVE g[j] = h[j]
  <2>1. PICK i \in 1..KeyLength : j = 2 * i - 1 \/ j = 2 * i
    <3>1. (j + 1) \div 2 \in 1..KeyLength /\ (j = 2 * ((j + 1) \div 2) - 1 \/ j = 2 * ((j + 1) \div 2))
      OBVIOUS
    <3> QED
      BY <3>1
  <2> QED
    BY <1>2, <2>1
<1> QED
  BY <1>3 DEF Hash

(* The key tells the secret and both ends.                                 *)
THEOREM KeysDiffer ==
    ASSUME KeyLength \in Nat, KeyLength > 0,
           NEW from \in Hash, NEW to \in Hash, NEW secret \in Seq(Byte), Len(secret) = KeyLength,
           NEW from2 \in Hash, NEW to2 \in Hash, NEW secret2 \in Seq(Byte), Len(secret2) = KeyLength,
           deriveKey(from, to, secret) = deriveKey(from2, to2, secret2)
    PROVE  from = from2 /\ to = to2 /\ secret = secret2
<1> DEFINE key(f, t, s) == [i \in 1..(3 * KeyLength) |->
                     IF i <= KeyLength THEN At(s, i - 1)
                     ELSE IF i <= 2 * KeyLength THEN At(hex2U8Arr(f), i - KeyLength - 1)
                     ELSE At(hex2U8Arr(t), i - 2 * KeyLength - 1)]
           k1 == key(from, to, secret)
           k2 == key(from2, to2, secret2)
<1>1. k1 = k2
  <2>1. deriveKey(from, to, secret) = k1
    BY KeyIs
  <2>2. deriveKey(from2, to2, secret2) = k2
    BY KeyIs
  <2> HIDE DEF k1, k2
  <2> QED
    BY <2>1, <2>2
<1>2. ASSUME NEW i \in 1..KeyLength
      PROVE  /\ At(secret, i - 1) = At(secret2, i - 1)
             /\ At(hex2U8Arr(from), i - 1) = At(hex2U8Arr(from2), i - 1)
             /\ At(hex2U8Arr(to), i - 1) = At(hex2U8Arr(to2), i - 1)
  <2>1. i \in 1..(3 * KeyLength) /\ i <= KeyLength
    OBVIOUS
  <2>2. /\ KeyLength + i \in 1..(3 * KeyLength) /\ ~(KeyLength + i <= KeyLength)
        /\ KeyLength + i <= 2 * KeyLength /\ KeyLength + i - KeyLength - 1 = i - 1
    OBVIOUS
  <2>3. /\ 2 * KeyLength + i \in 1..(3 * KeyLength) /\ ~(2 * KeyLength + i <= KeyLength)
        /\ ~(2 * KeyLength + i <= 2 * KeyLength) /\ 2 * KeyLength + i - 2 * KeyLength - 1 = i - 1
    OBVIOUS
  <2>4. k1[i] = At(secret, i - 1) /\ k2[i] = At(secret2, i - 1)
    BY <2>1
  <2>5. /\ k1[KeyLength + i] = At(hex2U8Arr(from), i - 1)
        /\ k2[KeyLength + i] = At(hex2U8Arr(from2), i - 1)
    BY <2>2
  <2>6. /\ k1[2 * KeyLength + i] = At(hex2U8Arr(to), i - 1)
        /\ k2[2 * KeyLength + i] = At(hex2U8Arr(to2), i - 1)
    BY <2>3
  <2> HIDE DEF k1, k2
  <2> QED
    BY <1>1, <2>4, <2>5, <2>6
<1>3. from = from2 /\ to = to2
  BY <1>2, HashOfBytes
<1>4. secret = secret2
  <2>1. ASSUME NEW i \in 1..KeyLength PROVE secret[i] = secret2[i]
    <3>1. At(secret, i - 1) = secret[i] /\ At(secret2, i - 1) = secret2[i]
      <4>1. i - 1 < KeyLength /\ i - 1 + 1 = i
        OBVIOUS
      <4> QED
        BY <4>1 DEF At
    <3> QED
      BY <1>2, <3>1
  <2> QED
    BY <2>1
<1> QED
  BY <1>3, <1>4
=============================================================================
