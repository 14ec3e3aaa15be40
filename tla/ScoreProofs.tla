---------------------------- MODULE ScoreProofs ----------------------------
(***************************************************************************)
(* What is proved of the scores: however many weights there are, their sum *)
(* is a number of the model, and of finitely many scores one is strongest. *)
(* Both need induction, which is reduced here to the well-foundedness of   *)
(* the strict subset ordering.                                             *)
(***************************************************************************)
EXTENDS Scores, FiniteSets, FiniteSetTheorems, WellFoundedInduction, TLAPS

-----------------------------------------------------------------------------
(* Induction *)

Less == {p \in Nat \X Nat : p[1] < p[2]}

LEMMA LessIsWellFounded == IsWellFoundedOn(Less, Nat)
<1> SUFFICES ASSUME NEW f \in [Nat -> Nat], \A n \in Nat : <<f[n + 1], f[n]>> \in Less
             PROVE  FALSE
  BY DEF IsWellFoundedOn
<1> DEFINE g == [n \in Nat |-> 0..(f[n] - 1)]
<1>1. \A n \in Nat : f[n] \in Nat /\ f[n + 1] \in Nat /\ f[n + 1] < f[n]
  BY DEF Less
<1>2. g \in [Nat -> FiniteSubsetsOf(Nat)]
  <2> SUFFICES ASSUME NEW n \in Nat PROVE 0..(f[n] - 1) \in FiniteSubsetsOf(Nat)
    OBVIOUS
  <2>1. IsFiniteSet(0..(f[n] - 1))
    BY <1>1, FS_Interval
  <2> QED
    BY <1>1, <2>1 DEF FiniteSubsetsOf
<1>3. \A n \in Nat : <<g[n + 1], g[n]>> \in StrictSubsetOrdering(Nat)
  <2> SUFFICES ASSUME NEW n \in Nat PROVE <<g[n + 1], g[n]>> \in StrictSubsetOrdering(Nat)
    OBVIOUS
  <2>1. n + 1 \in Nat /\ g[n] = 0..(f[n] - 1) /\ g[n + 1] = 0..(f[n + 1] - 1)
    OBVIOUS
  <2>2. g[n + 1] \subseteq g[n] /\ g[n] \subseteq Nat
    BY <1>1, <2>1
  <2>3. g[n + 1] # g[n]
    <3>1. f[n + 1] \in g[n] /\ f[n + 1] \notin g[n + 1]
      BY <1>1, <2>1
    <3> QED
      BY <3>1
  <2> DEFINE pair == <<g[n + 1], g[n]>>
  <2>4. pair[1] = g[n + 1] /\ pair[2] = g[n]
    OBVIOUS
  <2> HIDE DEF g
  <2>5. pair \in (SUBSET Nat) \X (SUBSET Nat)
    BY <2>2
  <2> HIDE DEF pair
  <2>6. pair \in StrictSubsetOrdering(Nat)
    BY <2>2, <2>3, <2>4, <2>5, Zenon DEF StrictSubsetOrdering
  <2> QED
    BY <2>6 DEF pair
<1> HIDE DEF g
<1>4. IsWellFoundedOn(StrictSubsetOrdering(Nat), FiniteSubsetsOf(Nat))
  BY FS_StrictSubsetOrderingWellFounded
<1> QED
  BY <1>2, <1>3, <1>4 DEF IsWellFoundedOn

(* What holds of 0 and is handed on to the next number holds of all.       *)
LEMMA Induction ==
    ASSUME NEW S, 0 \in S, \A n \in Nat : n \in S => n + 1 \in S
    PROVE  Nat \subseteq S
<1> SUFFICES ASSUME Nat \ S # {} PROVE FALSE
  OBVIOUS
<1>1. PICK x \in Nat \ S : \A y \in Nat \ S : <<y, x>> \notin Less
  BY LessIsWellFounded, WFMin
<1>2. x # 0 /\ x - 1 \in Nat /\ (x - 1) + 1 = x
  BY <1>1
<1>3. x - 1 \in S
  <2>1. <<x - 1, x>> \in Less
    <3> DEFINE pair == <<x - 1, x>>
    <3>1. pair \in Nat \X Nat /\ pair[1] = x - 1 /\ pair[2] = x
      BY <1>2
    <3> QED
      BY <1>2, <3>1 DEF Less
  <2> QED
    BY <1>1, <1>2, <2>1
<1> QED
  BY <1>1, <1>2, <1>3

-----------------------------------------------------------------------------
(* The numbers *)

Numbers == [t : Int, r : Int]

(* Rounding keeps what is written on paper and moves the rest. *)
LEMMA RoundedType ==
    ASSUME NEW t \in Int, NEW r \in Int
    PROVE  Rounded(t, r) \in Numbers /\ Rounded(t, r).t = t
<1>1. \A n \in Int : Abs(n) \in Int
  BY DEF Abs
<1>2. PICK space \in {8, 16, 32, 64, 128, 256, 512} : space = Spacing(t, r)
  BY <1>1 DEF Spacing
<1>3. InverseModulo125(space) \in Int
  BY DEF InverseModulo125
<1>4. (3 * t * InverseModulo125(space)) % 125 \in Int
  BY <1>3
<1>5. \A class \in Int : LargestBelow(r, space, class) \in Int
  BY DEF LargestBelow
<1>6. \A k \in Int : Nearest(r, space, k) \in Int
  BY DEF Nearest
<1>7. NearestTo(t, r, space) \in Int
  BY <1>4, <1>5, <1>6, Zenon DEF NearestTo
<1> QED
  BY <1>2, <1>7 DEF Rounded, Numbers

LEMMA LiteralType ==
    ASSUME NEW t \in 0..1000
    PROVE  Literal(t) \in Numbers /\ Literal(t).t = t
<1>1. Literal(t) = Rounded(t, 0)
  BY DEF Literal, Doubles
<1> QED
  BY <1>1, RoundedType

LEMMA WhenType ==
    ASSUME NEW signal, NEW weight \in 0..1000
    PROVE  When(signal, weight) \in Numbers
<1>1. (IF signal THEN weight ELSE 0) \in 0..1000
  OBVIOUS
<1> QED
  BY <1>1, LiteralType DEF When

LEMMA PlusType ==
    ASSUME NEW a \in Numbers, NEW b \in Numbers
    PROVE  /\ Plus(a, b) \in Numbers /\ Plus(a, b).t = a.t + b.t
           /\ Minus(a, b) \in Numbers /\ Minus(a, b).t = a.t - b.t
<1>1. a.t \in Int /\ a.r \in Int /\ b.t \in Int /\ b.r \in Int
  BY DEF Numbers
<1>2. a.t + b.t \in Int /\ a.r + b.r \in Int /\ a.t - b.t \in Int /\ a.r - b.r \in Int
  BY <1>1
<1> QED
  BY <1>2, RoundedType, Zenon DEF Plus, Minus

(* A sum starts at zero and adds one weight after the other, so it is a    *)
(* number however many weights there are.                                  *)
LEMMA SumType ==
    ASSUME NEW weights \in Seq(Numbers)
    PROVE  Sum(weights) \in Numbers
<1> DEFINE Adds(f, n) ==
              f = [k \in 0..n |-> IF k = 0 THEN Literal(0) ELSE Plus(f[k - 1], weights[k])]
           Summed == {n \in Nat : \E f : Adds(f, n)}
           sum == CHOOSE f : Adds(f, Len(weights))
           Typed == {n \in Nat : n <= Len(weights) => sum[n] \in Numbers}
<1>1. 0 \in Summed
  <2>1. Adds([k \in 0..0 |-> Literal(0)], 0)
    OBVIOUS
  <2> HIDE DEF Adds
  <2> QED
    BY <2>1
<1>2. ASSUME NEW n \in Nat, n \in Summed PROVE n + 1 \in Summed
  <2>1. PICK f : Adds(f, n)
    BY <1>2
  <2> DEFINE next == Plus(f[n], weights[n + 1])
             g == [k \in 0..(n + 1) |-> IF k = n + 1 THEN next ELSE f[k]]
  <2>2. Adds(g, n + 1)
    <3> HIDE DEF next
    <3> SUFFICES ASSUME NEW k \in 0..(n + 1)
                 PROVE  g[k] = IF k = 0 THEN Literal(0) ELSE Plus(g[k - 1], weights[k])
      OBVIOUS
    <3>1. CASE k = n + 1
      <4>1. g[k] = next /\ k # 0 /\ g[k - 1] = f[n] /\ weights[k] = weights[n + 1]
        BY <3>1
      <4> QED
        BY <4>1, Zenon DEF next
    <3>2. CASE k # n + 1
      <4>1. k \in 0..n /\ g[k] = f[k]
        BY <3>2
      <4>2. f[k] = IF k = 0 THEN Literal(0) ELSE Plus(f[k - 1], weights[k])
        BY <2>1, <4>1, Zenon
      <4>3. k # 0 => g[k - 1] = f[k - 1]
        BY <4>1
      <4> HIDE DEF g
      <4> QED
        BY <4>1, <4>2, <4>3, Zenon
    <3> QED
      BY <3>1, <3>2
  <2> HIDE DEF g, Adds
  <2> QED
    BY <2>2
<1>3. Len(weights) \in Nat
  OBVIOUS
<1>4. Adds(sum, Len(weights))
  <2> HIDE DEF Adds
  <2>1. Nat \subseteq Summed
    <3> HIDE DEF Summed
    <3> QED
      BY <1>1, <1>2, Induction
  <2>2. \E f : Adds(f, Len(weights))
    BY <1>3, <2>1
  <2> QED
    BY <2>2, Zenon
<1>5. Sum(weights) = sum[Len(weights)]
  BY Zenon DEF Sum
<1> HIDE DEF sum
<1>6. \A k \in 0..Len(weights) :
         sum[k] = IF k = 0 THEN Literal(0) ELSE Plus(sum[k - 1], weights[k])
  BY <1>4, Zenon
<1>7. 0 \in Typed
  <2>1. sum[0] = Literal(0)
    BY <1>3, <1>6
  <2>2. sum[0] \in Numbers
    BY <2>1, LiteralType
  <2> QED
    BY <2>2
<1>8. ASSUME NEW n \in Nat, n \in Typed PROVE n + 1 \in Typed
  <2> SUFFICES ASSUME n + 1 <= Len(weights) PROVE sum[n + 1] \in Numbers
    OBVIOUS
  <2>1. sum[n] \in Numbers /\ weights[n + 1] \in Numbers
    BY <1>3, <1>8
  <2>2. n + 1 \in 0..Len(weights) /\ n + 1 # 0 /\ (n + 1) - 1 = n
    BY <1>3
  <2>3. sum[n + 1] = Plus(sum[n], weights[n + 1])
    BY <1>6, <2>2, Zenon
  <2> QED
    BY <2>1, <2>3, PlusType
<1>9. Nat \subseteq Typed
  <2> HIDE DEF Typed
  <2> QED
    BY <1>7, <1>8, Induction
<1> QED
  BY <1>3, <1>5, <1>9

-----------------------------------------------------------------------------
(* The strongest of several *)

LEMMA AtLeastIsTotal ==
    /\ \A a, b \in Numbers : AtLeast(a, b) \/ AtLeast(b, a)
    /\ \A a, b, c \in Numbers : AtLeast(a, b) /\ AtLeast(b, c) => AtLeast(a, c)
BY DEF AtLeast, Numbers

(* Of finitely many scores one is at least as strong as all.               *)
LEMMA HighestExists ==
    ASSUME NEW scores \in SUBSET Numbers, IsFiniteSet(scores), scores # {}
    PROVE  Highest(scores) \in scores /\ \A s \in scores : AtLeast(Highest(scores), s)
<1> DEFINE HasHighest(set) == \E s \in set : \A other \in set : AtLeast(s, other)
           Sizes == {n \in Nat : \A set \in SUBSET Numbers :
                        IsFiniteSet(set) /\ Cardinality(set) = n /\ set # {} => HasHighest(set)}
<1>1. 0 \in Sizes
  BY FS_EmptySet
<1>2. ASSUME NEW n \in Nat, n \in Sizes PROVE n + 1 \in Sizes
  <2> SUFFICES ASSUME NEW set \in SUBSET Numbers, IsFiniteSet(set), Cardinality(set) = n + 1
               PROVE  HasHighest(set)
    OBVIOUS
  <2>1. PICK x : x \in set
    BY FS_EmptySet
  <2> DEFINE rest == set \ {x}
  <2>2. IsFiniteSet(rest) /\ Cardinality(rest) = n /\ rest \in SUBSET Numbers
    <3>1. IsFiniteSet(rest) /\ Cardinality(rest) = (n + 1) - 1
      BY <2>1, FS_RemoveElement, Zenon
    <3> QED
      BY <3>1
  <2>3. CASE rest = {}
    BY <2>1, <2>3, AtLeastIsTotal
  <2>4. CASE rest # {}
    <3>1. PICK s \in rest : \A other \in rest : AtLeast(s, other)
      BY <1>2, <2>2, <2>4
    <3>2. CASE AtLeast(s, x)
      BY <3>1, <3>2
    <3>3. CASE AtLeast(x, s)
      BY <2>1, <3>1, <3>3, AtLeastIsTotal
    <3> QED
      BY <2>1, <3>1, <3>2, <3>3, AtLeastIsTotal
  <2> QED
    BY <2>3, <2>4
<1>3. Nat \subseteq Sizes
  <2> HIDE DEF Sizes
  <2> QED
    BY <1>1, <1>2, Induction
<1>4. HasHighest(scores)
  <2>1. Cardinality(scores) \in Nat
    BY FS_CardinalityType
  <2> HIDE DEF HasHighest
  <2> QED
    BY <1>3, <2>1
<1> QED
  BY <1>4, Zenon DEF Highest

(* The same of classes and their support. *)
LEMMA StrongestExists ==
    ASSUME NEW classes, IsFiniteSet(classes), classes # {}, NEW score \in [classes -> Numbers]
    PROVE  LET supports == {Support(class, score[class]) : class \in classes}
           IN  /\ Strongest(supports) \in supports
               /\ \A s \in supports : AtLeast(Strongest(supports).score, s.score)
<1> DEFINE scores == {score[class] : class \in classes}
           supports == {Support(class, score[class]) : class \in classes}
<1>1. scores # {} /\ scores \in SUBSET Numbers
  OBVIOUS
<1>2. IsFiniteSet(scores)
  <2>1. score \in Surjection(classes, scores)
    BY DEF Surjection
  <2> QED
    BY <2>1, FS_Surjection
<1>3. /\ Highest(scores) \in scores
      /\ \A x \in scores : AtLeast(Highest(scores), x)
  BY <1>1, <1>2, HighestExists
<1>4. PICK class \in classes : score[class] = Highest(scores)
  BY <1>3
<1>5. \A other \in supports : AtLeast(Support(class, score[class]).score, other.score)
  <2>1. \A other \in classes : AtLeast(score[class], score[other])
    BY <1>3, <1>4
  <2> QED
    BY <2>1 DEF Support
<1>6. Support(class, score[class]) \in supports
  OBVIOUS
<1> HIDE DEF supports
<1> QED
  BY <1>5, <1>6, Zenon DEF Strongest, supports

LEMMA ClampType ==
    ASSUME NEW score \in Numbers
    PROVE  Clamp(score) \in Numbers
BY LiteralType DEF Clamp
=============================================================================
