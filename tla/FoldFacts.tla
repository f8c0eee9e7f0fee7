----------------------------- MODULE FoldFacts -----------------------------
(***************************************************************************)
(* What FoldLeft computes with an operator Op, for sequences of any        *)
(* length.  The provers cannot take a theorem with an operator for a       *)
(* parameter; a module that folds with an operator of its own instantiates *)
(* this one for it.                                                        *)
(***************************************************************************)
EXTENDS Integers, Sequences, SequencesExt, WellFoundedInduction, TLAPS

CONSTANT Op(_, _, _)

(* around is what a turn of the loop reads beside its element.             *)
Fold(around, base, seq) == FoldLeft(LAMBDA r, e : Op(around, r, e), base, seq)

-----------------------------------------------------------------------------
(* Induction over the naturals, with a set in the place of a predicate.    *)

LEMMA Smallest ==
    ASSUME NEW S \in SUBSET Nat, S # {}
    PROVE  \E n \in S : \A m \in S : n <= m
<1> DEFINE R == OpToRel(<, Nat)
<1>1. IsWellFoundedOn(R, Nat)
  BY NatLessThanWellFounded, Zenon
<1> HIDE DEF R
<1>2. PICK n \in S : \A m \in S : ~(<<m, n>> \in R)
  BY <1>1, WFMin
<1>3. \A m \in S : ~(m < n)
  BY <1>2 DEF R, OpToRel
<1> QED
  BY <1>3

(* A set of naturals with 0 and with the successor of each is all of them. *)
(* This is how the proofs that cite this module reason by induction.       *)
THEOREM SetInduction ==
    ASSUME NEW S \in SUBSET Nat, 0 \in S, \A n \in S : n + 1 \in S
    PROVE  S = Nat
<1> SUFFICES ASSUME Nat \ S # {} PROVE FALSE
  OBVIOUS
<1>1. PICK n \in Nat \ S : \A m \in Nat \ S : n <= m
  BY Smallest
<1>2. n - 1 \in Nat /\ n - 1 \notin S
  BY <1>1
<1> QED
  BY <1>1, <1>2

-----------------------------------------------------------------------------
(* The function by which FoldLeft is defined.                              *)

(* iter is the function by which FoldLeft folds over sets of indices.      *)
Folds(around, iter, base, seq, n) ==
    iter = [s \in SUBSET (1..n) |->
               IF s = {} THEN base ELSE Op(around, iter[s \ {Max(s)}], seq[Max(s)])]

LEMMA MaxIsTop ==
    ASSUME NEW n \in Nat, NEW s \in SUBSET (1..(n + 1)), n + 1 \in s
    PROVE  Max(s) = n + 1
<1>1. \A x \in s : (\A y \in s : x >= y) <=> x = n + 1
  <2> TAKE x \in s
  <2>1. x \in Nat /\ x <= n + 1 /\ \A y \in s : y \in Nat /\ y <= n + 1
    OBVIOUS
  <2> QED
    BY <2>1
<1> QED
  BY <1>1 DEF Max

LEMMA Largest ==
    ASSUME NEW n \in Nat, NEW s \in SUBSET (1..n), s # {}
    PROVE  \E m \in s : \A y \in s : m >= y
<1> DEFINE D == {d \in Nat : \E x \in s : d = n - x}
<1>1. PICK x \in s : TRUE
  OBVIOUS
<1>2. D \in SUBSET Nat /\ D # {}
  <2>1. n - x \in Nat
    BY <1>1
  <2> QED
    BY <2>1
<1>3. PICK d \in D : \A e \in D : d <= e
  <2> HIDE DEF D
  <2> QED
    BY <1>2, Smallest
<1>4. PICK m \in s : d = n - m
  BY <1>3
<1>5. ASSUME NEW y \in s PROVE m >= y
  <2>1. n - y \in D /\ m \in Nat /\ y \in Nat
    OBVIOUS
  <2>2. d <= n - y
    BY <1>3, <2>1
  <2> QED
    BY <1>4, <2>1, <2>2
<1> QED
  BY <1>5

LEMMA MaxIsIn ==
    ASSUME NEW n \in Nat, NEW s \in SUBSET (1..n), s # {}
    PROVE  Max(s) \in s
BY Largest DEF Max

LEMMA FoldsExist ==
    ASSUME NEW around, NEW base, NEW seq, NEW k \in Nat
    PROVE  \E iter : Folds(around, iter, base, seq, k)
<1> DEFINE S == {n \in Nat : \E iter : Folds(around, iter, base, seq, n)}
<1>1. 0 \in S
  <2> DEFINE f == [s \in SUBSET (1..0) |-> base]
  <2>1. Folds(around, f, base, seq, 0)
    BY DEF Folds
  <2> QED
    BY <2>1
<1>2. ASSUME NEW n \in S PROVE n + 1 \in S
  <2>1. PICK f : Folds(around, f, base, seq, n)
    OBVIOUS
  <2> DEFINE g == [s \in SUBSET (1..(n + 1)) |->
                      IF n + 1 \in s THEN Op(around, f[s \ {n + 1}], seq[n + 1]) ELSE f[s]]
  <2>2. ASSUME NEW s \in SUBSET (1..(n + 1))
        PROVE  g[s] = IF s = {} THEN base ELSE Op(around, g[s \ {Max(s)}], seq[Max(s)])
    <3>1. CASE n + 1 \in s
      <4>1. Max(s) = n + 1
        BY <3>1, MaxIsTop
      <4>2. s \ {n + 1} \in SUBSET (1..(n + 1)) /\ n + 1 \notin s \ {n + 1}
        OBVIOUS
      <4>3. g[s \ {n + 1}] = f[s \ {n + 1}]
        BY <4>2
      <4> QED
        BY <3>1, <4>1, <4>3
    <3>2. CASE n + 1 \notin s
      <4>1. s \in SUBSET (1..n)
        BY <3>2
      <4>2. s # {} => Max(s) \in s
        BY <4>1, MaxIsIn
      <4>3. g[s] = f[s] /\ (s # {} => g[s \ {Max(s)}] = f[s \ {Max(s)}])
        BY <3>2, <4>1, <4>2
      <4>4. f[s] = IF s = {} THEN base ELSE Op(around, f[s \ {Max(s)}], seq[Max(s)])
        BY <2>1, <4>1 DEF Folds
      <4> QED
        BY <4>3, <4>4
    <3> QED
      BY <3>1, <3>2
  <2>3. Folds(around, g, base, seq, n + 1)
    BY <2>2 DEF Folds
  <2> QED
    BY <2>3
<1>3. S \in SUBSET Nat
  OBVIOUS
<1> HIDE DEF S
<1>4. S = Nat
  BY <1>1, <1>2, <1>3, SetInduction
<1> QED
  BY <1>4 DEF S

LEMMA FoldIter ==
    ASSUME NEW around, NEW base, NEW n \in Nat, NEW seq, DOMAIN seq = 1..n
    PROVE  \E iter : Folds(around, iter, base, seq, n) /\ Fold(around, base, seq) = iter[1..n]
<1>1. \E iter : Folds(around, iter, base, seq, n)
  BY FoldsExist
<1> DEFINE f == CHOOSE iter : Folds(around, iter, base, seq, n)
<1>2. Folds(around, f, base, seq, n)
  BY <1>1
<1>3. Fold(around, base, seq) = f[1..n]
  BY DEF Fold, FoldLeft, MapThenFoldSet, Folds
<1> QED
  BY <1>2, <1>3

-----------------------------------------------------------------------------
(* The loop: nothing to fold gives the base, and one more element is one   *)
(* more turn.                                                              *)

(* Folding nothing.                                                        *)
THEOREM FoldEmpty == \A around, base : Fold(around, base, <<>>) = base
<1> TAKE around, base
<1>1. DOMAIN <<>> = 1..0
  OBVIOUS
<1>2. PICK iter : Folds(around, iter, base, <<>>, 0) /\ Fold(around, base, <<>>) = iter[1..0]
  BY <1>1, FoldIter
<1>3. 1..0 = {} /\ {} \in SUBSET (1..0)
  OBVIOUS
<1> QED
  BY <1>2, <1>3 DEF Folds

(* One turn more for one element more: what a loop does, step by step.     *)
THEOREM FoldAppend ==
    ASSUME NEW E, NEW around, NEW base, NEW seq \in Seq(E), NEW e \in E
    PROVE  Fold(around, base, Append(seq, e)) = Op(around, Fold(around, base, seq), e)
<1> DEFINE n == Len(seq)
           longer == Append(seq, e)
<1>1. /\ n \in Nat /\ DOMAIN seq = 1..n /\ DOMAIN longer = 1..(n + 1)
      /\ longer[n + 1] = e /\ \A i \in 1..n : longer[i] = seq[i]
  OBVIOUS
<1> HIDE DEF n, longer
<1>2. PICK f : Folds(around, f, base, seq, n) /\ Fold(around, base, seq) = f[1..n]
  BY <1>1, FoldIter
<1>3. PICK g : Folds(around, g, base, longer, n + 1) /\ Fold(around, base, longer) = g[1..(n + 1)]
  BY <1>1, FoldIter
<1>4. ASSUME NEW k \in Nat, NEW m \in Nat, k + 1 <= m, NEW iter, NEW q, Folds(around, iter, base, q, m)
      PROVE  iter[1..(k + 1)] = Op(around, iter[1..k], q[k + 1])
  <2>1. (1..(k + 1)) \in SUBSET (1..(k + 1)) /\ k + 1 \in 1..(k + 1)
    OBVIOUS
  <2>2. Max(1..(k + 1)) = k + 1
    BY <2>1, MaxIsTop
  <2>3. (1..(k + 1)) \ {k + 1} = 1..k
    OBVIOUS
  <2>4. (1..(k + 1)) \in SUBSET (1..m)
    BY <1>4
  <2> DEFINE s == 1..(k + 1)
  <2>5. s # {} /\ s \in SUBSET (1..m)
    BY <2>1, <2>4
  <2> HIDE DEF s
  <2>6. iter[s] = Op(around, iter[s \ {Max(s)}], q[Max(s)])
    BY <1>4, <2>5 DEF Folds
  <2> QED
    BY <2>2, <2>3, <2>6 DEF s
<1>5. f[{}] = base /\ g[{}] = base
  <2>1. {} \in SUBSET (1..n) /\ {} \in SUBSET (1..(n + 1))
    OBVIOUS
  <2> QED
    BY <1>2, <1>3, <2>1 DEF Folds
<1> DEFINE S == {k \in Nat : k <= n => f[1..k] = g[1..k]}
<1>6. 0 \in S
  <2>1. 1..0 = {}
    OBVIOUS
  <2> QED
    BY <1>5, <2>1
<1>7. ASSUME NEW k \in S PROVE k + 1 \in S
  <2>1. k \in Nat
    OBVIOUS
  <2> SUFFICES ASSUME k + 1 <= n PROVE f[1..(k + 1)] = g[1..(k + 1)]
    BY <2>1
  <2>2. f[1..k] = g[1..k]
    BY <1>1, <2>1
  <2> HIDE DEF S
  <2>3. k + 1 <= n + 1 /\ n + 1 \in Nat /\ k + 1 \in 1..n
    BY <1>1, <2>1
  <2>4. f[1..(k + 1)] = Op(around, f[1..k], seq[k + 1])
    BY <1>1, <1>2, <1>4, <2>1
  <2>5. g[1..(k + 1)] = Op(around, g[1..k], longer[k + 1])
    BY <1>3, <1>4, <2>1, <2>3
  <2>6. longer[k + 1] = seq[k + 1]
    BY <1>1, <2>3
  <2> QED
    BY <2>2, <2>4, <2>5, <2>6
<1>8. f[1..n] = g[1..n]
  <2>1. S \in SUBSET Nat
    OBVIOUS
  <2> HIDE DEF S
  <2>2. S = Nat
    BY <1>6, <1>7, <2>1, SetInduction
  <2> QED
    BY <1>1, <2>2 DEF S
<1> HIDE DEF S
<1>9. g[1..(n + 1)] = Op(around, g[1..n], longer[n + 1])
  <2>1. n + 1 \in Nat /\ n + 1 <= n + 1
    BY <1>1
  <2> QED
    BY <1>1, <1>3, <1>4, <2>1
<1> QED
  BY <1>1, <1>2, <1>3, <1>8, <1>9 DEF longer

(* Loops of one, two, three and four turns.                                *)
THEOREM FoldOne ==
    ASSUME NEW around, NEW base, NEW a
    PROVE  Fold(around, base, <<a>>) = Op(around, base, a)
<1> DEFINE s == <<>>
<1> DEFINE E == {a}
<1>1. s \in Seq(E) /\ a \in E
  OBVIOUS
<1>2. Append(s, a) = <<a>>
  OBVIOUS
<1>3. Fold(around, base, s) = base
  BY FoldEmpty
<1> HIDE DEF s, E
<1>4. Fold(around, base, Append(s, a)) = Op(around, Fold(around, base, s), a)
  BY <1>1, FoldAppend
<1> QED
  BY <1>2, <1>3, <1>4

(* Folds of short sequences.                                               *)
THEOREM FoldTwo ==
    ASSUME NEW around, NEW base, NEW a, NEW b
    PROVE  Fold(around, base, <<a, b>>) = Op(around, Op(around, base, a), b)
<1> DEFINE s == <<a>>
<1> DEFINE E == {a, b}
<1>1. s \in Seq(E) /\ b \in E
  <2>1. a \in E /\ b \in E
    OBVIOUS
  <2> HIDE DEF E
  <2> QED
    BY <2>1
<1>2. Append(s, b) = <<a, b>>
  <2>1. Append(s, b) = [i \in 1..2 |-> IF i <= 1 THEN a ELSE b]
    OBVIOUS
  <2>2. <<a, b>> = [i \in 1..2 |-> IF i <= 1 THEN a ELSE b]
    OBVIOUS
  <2> QED
    BY <2>1, <2>2
<1>3. Fold(around, base, s) = Op(around, base, a)
  BY FoldOne
<1> HIDE DEF s, E
<1>4. Fold(around, base, Append(s, b)) = Op(around, Fold(around, base, s), b)
  BY <1>1, FoldAppend
<1> QED
  BY <1>2, <1>3, <1>4

(* ... of three elements.                                                  *)
THEOREM FoldThree ==
    ASSUME NEW around, NEW base, NEW a, NEW b, NEW c
    PROVE  Fold(around, base, <<a, b, c>>)
               = Op(around, Op(around, Op(around, base, a), b), c)
<1> DEFINE s == <<a, b>>
<1> DEFINE E == {a, b, c}
<1>1. s \in Seq(E) /\ c \in E
  <2>1. a \in E /\ b \in E /\ c \in E
    OBVIOUS
  <2> HIDE DEF E
  <2> QED
    BY <2>1
<1>2. Append(s, c) = <<a, b, c>>
  <2>1. Append(s, c) = [i \in 1..3 |-> IF i = 1 THEN a ELSE IF i = 2 THEN b ELSE c]
    OBVIOUS
  <2>2. <<a, b, c>> = [i \in 1..3 |-> IF i = 1 THEN a ELSE IF i = 2 THEN b ELSE c]
    OBVIOUS
  <2> QED
    BY <2>1, <2>2
<1>3. Fold(around, base, s) = Op(around, Op(around, base, a), b)
  BY FoldTwo
<1> HIDE DEF s, E
<1>4. Fold(around, base, Append(s, c)) = Op(around, Fold(around, base, s), c)
  BY <1>1, FoldAppend
<1> QED
  BY <1>2, <1>3, <1>4

(* ... of four elements.                                                   *)
THEOREM FoldFour ==
    ASSUME NEW around, NEW base, NEW a, NEW b, NEW c, NEW d
    PROVE  Fold(around, base, <<a, b, c, d>>)
               = Op(around, Op(around, Op(around, Op(around, base, a), b), c), d)
<1> DEFINE s == <<a, b, c>>
<1> DEFINE E == {a, b, c, d}
<1>1. s \in Seq(E) /\ d \in E
  <2>1. a \in E /\ b \in E /\ c \in E /\ d \in E
    OBVIOUS
  <2> HIDE DEF E
  <2> QED
    BY <2>1
<1>2. Append(s, d) = <<a, b, c, d>>
  <2>1. Append(s, d) = [i \in 1..4 |-> IF i = 1 THEN a ELSE IF i = 2 THEN b ELSE IF i = 3 THEN c ELSE d]
    OBVIOUS
  <2>2. <<a, b, c, d>> = [i \in 1..4 |-> IF i = 1 THEN a ELSE IF i = 2 THEN b ELSE IF i = 3 THEN c ELSE d]
    OBVIOUS
  <2> QED
    BY <2>1, <2>2
<1>3. Fold(around, base, s) = Op(around, Op(around, Op(around, base, a), b), c)
  BY FoldThree
<1> HIDE DEF s, E
<1>4. Fold(around, base, Append(s, d)) = Op(around, Fold(around, base, s), d)
  BY <1>1, FoldAppend
<1> QED
  BY <1>2, <1>3, <1>4
=============================================================================
