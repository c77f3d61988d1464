----------------------------- MODULE NamesProofs -----------------------------
(***************************************************************************)
(* What generateValidName computes for texts of any characters and any     *)
(* length, over any alphabet and with any bound: valid names, and          *)
(* different ones for what must be told apart, unless they are cut.        *)
(*                                                                         *)
(* The name is made by operators that keep some of the characters of a     *)
(* text (Kept), so everything rests on what is said of the positions kept, *)
(* and that on the least number of a set of naturals.                      *)
(***************************************************************************)
EXTENDS ResourceNames, FiniteSetTheorems, SequenceTheorems,
        WellFoundedInduction, TLAPS

(* Sets of naturals.                                                       *)

\* A set of naturals has a least element.
LEMMA Least ==
  ASSUME NEW S \in SUBSET Nat, S # {}
  PROVE  \E m \in S : \A k \in S : m <= k
  <1> DEFINE R == {ss \in Nat \X Nat : ss[1] < ss[2]}
  <1>1. IsWellFoundedOn(R, Nat)
    BY NatLessThanWellFounded, Zenon DEF OpToRel
  <1>2. \A k, m \in Nat : k < m => <<k, m>> \in R
    OBVIOUS
  <1> HIDE DEF R
  <1>3. PICK m \in S : \A k \in S : ~(<<k, m>> \in R)
    BY <1>1, WFMin
  <1>4. \A k \in S : ~(k < m)
    BY <1>2, <1>3
  <1>5. \A k \in S : m <= k
    BY <1>4
  <1>6. QED  BY <1>5

\* Min and Max of the positions of a text.
LEMMA MinMax ==
  ASSUME NEW n \in Nat, NEW S \in SUBSET (1..n), S # {}
  PROVE  /\ Min(S) \in S /\ \A k \in S : Min(S) <= k
         /\ Max(S) \in S /\ \A k \in S : k <= Max(S)
  <1>1. \E m \in S : \A k \in S : m <= k
    BY Least
  <1>2. \E m \in S : \A k \in S : m >= k
    <2> DEFINE T == {n - k : k \in S}
    <2>1. T \in SUBSET Nat /\ T # {}
      <3>1. \A k \in S : n - k \in Nat
        <4>1. \A k \in S : k \in 1..n
          OBVIOUS
        <4>2. \A k \in 1..n : n - k \in Nat
          OBVIOUS
        <4>3. QED  BY <4>1, <4>2
      <3>2. QED  BY <3>1
    <2>2. PICK t \in T : \A k \in T : t <= k
      <3> HIDE DEF T
      <3>1. QED  BY <2>1, Least
    <2>3. PICK m \in S : t = n - m
      OBVIOUS
    <2>4. \A k \in S : n - m <= n - k
      BY <2>2, <2>3
    <2>5. \A k \in S : m >= k
      BY <2>4
    <2>6. QED  BY <2>5
  <1>3. Min(S) \in S /\ \A k \in S : Min(S) <= k
    BY <1>1 DEF Min
  <1>4. Max(S) \in S /\ \A k \in S : Max(S) >= k
    BY <1>2 DEF Max
  <1>5. QED  BY <1>3, <1>4

\* How many of the positions I are up to i.
Rank(I, i) == Cardinality({j \in I : j <= i})

\* How the rank grows, one position after another.
LEMMA RankStep ==
  ASSUME NEW n \in Nat, NEW I \in SUBSET (1..n)
  PROVE  /\ IsFiniteSet(I) /\ Cardinality(I) \in Nat
         /\ \A i \in Nat : Rank(I, i) \in Nat
         /\ Rank(I, 0) = 0 /\ Rank(I, n) = Cardinality(I)
         /\ \A i \in Nat : Rank(I, i + 1) =
               IF i + 1 \in I THEN Rank(I, i) + 1 ELSE Rank(I, i)
         /\ \A i, k \in Nat : i <= k => Rank(I, i) <= Rank(I, k)
  <1>1. IsFiniteSet(1..n)
    BY FS_Interval
  <1>2. IsFiniteSet(I)
    BY <1>1, FS_Subset
  <1>3. \A T \in SUBSET I : IsFiniteSet(T) /\ Cardinality(T) \in Nat
    BY <1>2, FS_Subset, FS_CardinalityType
  <1>4. \A i \in Nat : {j \in I : j <= i} \in SUBSET I
    OBVIOUS
  <1>0. \A j \in I : j \in Nat /\ 1 <= j /\ j <= n
    <2>1. \A j \in I : j \in 1..n
      OBVIOUS
    <2>2. QED  BY <2>1
  <1>5. {j \in I : j <= 0} = {} /\ {j \in I : j <= n} = I
    <2>1. \A j \in I : ~(j <= 0) /\ j <= n
      BY <1>0
    <2>2. QED  BY <2>1
  <1>6. ASSUME NEW i \in Nat
        PROVE  Rank(I, i + 1) =
                  IF i + 1 \in I THEN Rank(I, i) + 1 ELSE Rank(I, i)
    <2>1. CASE i + 1 \in I
      <3>1. {j \in I : j <= i + 1} = {j \in I : j <= i} \cup {i + 1}
        <4>1. \A j \in I : j <= i + 1 <=> j <= i \/ j = i + 1
          BY <1>0
        <4>2. QED  BY <4>1, <2>1
      <3>2. i + 1 \notin {j \in I : j <= i}
        OBVIOUS
      <3>3. QED  BY <1>3, <1>4, <2>1, <3>1, <3>2, FS_AddElement DEF Rank
    <2>2. CASE i + 1 \notin I
      <3>1. {j \in I : j <= i + 1} = {j \in I : j <= i}
        <4>1. \A j \in I : j <= i + 1 <=> j <= i
          BY <1>0, <2>2
        <4>2. QED  BY <4>1
      <3>2. QED  BY <2>2, <3>1 DEF Rank
    <2>3. QED  BY <2>1, <2>2
  <1>7. ASSUME NEW i \in Nat, NEW k \in Nat, i <= k
        PROVE  Rank(I, i) <= Rank(I, k)
    <2>1. {j \in I : j <= i} \in SUBSET {j \in I : j <= k}
      <3>1. \A j \in I : j <= i => j <= k
        BY <1>0, <1>7
      <3>2. QED  BY <3>1
    <2>2. QED  BY <1>3, <1>4, <2>1, FS_Subset DEF Rank
  <1>8. QED
    BY <1>2, <1>3, <1>4, <1>5, <1>6, <1>7, FS_EmptySet DEF Rank

\* There is a k-th position, and only one.
LEMMA NthPosition ==
  ASSUME NEW n \in Nat, NEW I \in SUBSET (1..n)
  PROVE  /\ \A k \in 1..Cardinality(I) : \E i \in I : Rank(I, i) = k
         /\ \A i, j \in I : i < j => Rank(I, i) < Rank(I, j)
         /\ \A i \in I : Rank(I, i) \in 1..Cardinality(I)
  <1>1. ASSUME NEW k \in 1..Cardinality(I)
        PROVE  \E i \in I : Rank(I, i) = k
    <2> DEFINE T == {i \in 0..n : k <= Rank(I, i)}
    <2>1. n \in T /\ 0 \notin T
      BY RankStep
    <2>2. PICK m \in T : \A i \in T : m <= i
      <3> HIDE DEF T
      <3>1. T \in SUBSET Nat
        BY DEF T
      <3>2. QED  BY <2>1, <3>1, Least
    <2>3. m - 1 \in 0..n /\ m - 1 \notin T
      BY <2>1, <2>2
    <2>4. k <= Rank(I, m) /\ Rank(I, m - 1) < k
      <3>1. m \in Nat /\ m - 1 \in Nat /\ Rank(I, m - 1) \in Nat /\ k \in Nat
        BY <2>3, RankStep
      <3>2. ~(k <= Rank(I, m - 1))
        BY <2>3
      <3>3. k <= Rank(I, m)
        OBVIOUS
      <3>4. QED  BY <3>1, <3>2, <3>3
    <2>5. Rank(I, m) = IF m \in I THEN Rank(I, m - 1) + 1 ELSE Rank(I, m - 1)
      <3>1. (m - 1) + 1 = m /\ m - 1 \in Nat
        BY <2>3
      <3>2. QED  BY <3>1, RankStep
    <2>6. Rank(I, m - 1) \in Nat
      BY <2>3, RankStep
    <2>7. m \in I /\ Rank(I, m) = k
      BY <2>4, <2>5, <2>6
    <2>8. QED  BY <2>7
  <1>2. ASSUME NEW i \in I, NEW j \in I, i < j
        PROVE  Rank(I, i) < Rank(I, j)
    <2>1. j - 1 \in Nat /\ i \in Nat /\ i <= j - 1 /\ (j - 1) + 1 = j
      BY <1>2
    <2>2. Rank(I, i) <= Rank(I, j - 1)
      BY <2>1, RankStep
    <2>3. Rank(I, j) = Rank(I, j - 1) + 1
      <3>1. Rank(I, (j - 1) + 1) =
               IF (j - 1) + 1 \in I THEN Rank(I, j - 1) + 1 ELSE Rank(I, j - 1)
        BY <2>1, RankStep
      <3>2. QED  BY <2>1, <3>1, Zenon
    <2>4. Rank(I, i) \in Nat /\ Rank(I, j - 1) \in Nat
      BY <2>1, RankStep
    <2>5. QED  BY <2>2, <2>3, <2>4
  <1>3. ASSUME NEW i \in I
        PROVE  Rank(I, i) \in 1..Cardinality(I)
    <2>1. i - 1 \in Nat /\ i \in Nat /\ n \in Nat /\ i <= n /\ (i - 1) + 1 = i
      OBVIOUS
    <2>2. Rank(I, i) = Rank(I, i - 1) + 1 /\ Rank(I, i - 1) \in Nat
      <3>1. Rank(I, (i - 1) + 1) =
               IF (i - 1) + 1 \in I THEN Rank(I, i - 1) + 1 ELSE Rank(I, i - 1)
        BY <2>1, RankStep
      <3>2. Rank(I, i) = Rank(I, i - 1) + 1
        BY <2>1, <3>1, Zenon
      <3>3. QED  BY <2>1, <3>2, RankStep
    <2>3. Rank(I, i) <= Cardinality(I) /\ Cardinality(I) \in Nat
      BY <2>1, RankStep
    <2>4. QED  BY <2>2, <2>3
  <1>4. QED  BY <1>1, <1>2, <1>3

-----------------------------------------------------------------------------
(* What Kept keeps.                                                        *)

\* The characters are those of I's positions, in their order, each once.
LEMMA KeptSpec ==
  ASSUME NEW S, NEW s \in Seq(S), NEW I \in SUBSET (1..Len(s))
  PROVE  /\ Kept(s, I) \in Seq(S) /\ Len(Kept(s, I)) = Cardinality(I)
         /\ \A i \in I : Rank(I, i) \in 1..Cardinality(I)
         /\ \A i \in I : Kept(s, I)[Rank(I, i)] = s[i]
         /\ \A k \in 1..Cardinality(I) : \E i \in I : Rank(I, i) = k
         /\ \A i, j \in I : i < j => Rank(I, i) < Rank(I, j)
  <1> DEFINE pos(k) == CHOOSE i \in I : Rank(I, i) = k
  <1>1. Len(s) \in Nat /\ \A i \in 1..Len(s) : s[i] \in S
    BY LenProperties, ElementOfSeq
  <1>2. /\ \A k \in 1..Cardinality(I) : \E i \in I : Rank(I, i) = k
        /\ \A i, j \in I : i < j => Rank(I, i) < Rank(I, j)
        /\ \A i \in I : Rank(I, i) \in 1..Cardinality(I)
        /\ Cardinality(I) \in Nat
    <2>1. \A n \in Nat : n = Len(s) => I \in SUBSET (1..n)
      OBVIOUS
    <2> HIDE DEF pos
    <2>2. /\ \A k \in 1..Cardinality(I) : \E i \in I : Rank(I, i) = k
          /\ \A i, j \in I : i < j => Rank(I, i) < Rank(I, j)
          /\ \A i \in I : Rank(I, i) \in 1..Cardinality(I)
      BY <1>1, NthPosition
    <2>3. Cardinality(I) \in Nat
      BY <1>1, RankStep
    <2>4. QED  BY <2>2, <2>3
  <1>3. \A k \in 1..Cardinality(I) : pos(k) \in I /\ Rank(I, pos(k)) = k
    BY <1>2
  <1>4. \A i \in I : pos(Rank(I, i)) = i
    <2> SUFFICES ASSUME NEW i \in I  PROVE pos(Rank(I, i)) = i
      OBVIOUS
    <2>1. pos(Rank(I, i)) \in I /\ Rank(I, pos(Rank(I, i))) = Rank(I, i)
      BY <1>2, <1>3
    <2>2. \A j \in I : j \in Nat
      BY <1>1
    <2> HIDE DEF pos
    <2>3. ~(pos(Rank(I, i)) < i) /\ ~(i < pos(Rank(I, i)))
      <3>1. \A h, j \in I : Rank(I, h) = Rank(I, j) => ~(h < j)
        <4>1. \A h \in I : Rank(I, h) \in Nat
          BY <1>2
        <4>2. \A h \in I : ~(Rank(I, h) < Rank(I, h))
          BY <4>1
        <4>3. QED  BY <1>2, <4>2
      <3>2. QED  BY <2>1, <3>1
    <2>4. \A h \in Nat : ~(h < i) /\ ~(i < h) => h = i
      BY <2>2
    <2>5. QED  BY <2>1, <2>2, <2>3, <2>4, Zenon
  <1>5. Kept(s, I) = [k \in 1..Cardinality(I) |-> s[pos(k)]]
    <2>1. ASSUME NEW k \in 1..Cardinality(I)
          PROVE  (CHOOSE i \in I : [j \in I |-> Rank(I, j)][i] = k) = pos(k)
      OBVIOUS
    <2>2. Kept(s, I) =
             [k \in 1..Cardinality(I) |->
                 s[CHOOSE i \in I : [j \in I |-> Rank(I, j)][i] = k]]
      BY DEF Kept, Rank
    <2> HIDE DEF pos
    <2>3. QED  BY <2>1, <2>2
  <1> HIDE DEF pos
  <1>6. \A k \in 1..Cardinality(I) : s[pos(k)] \in S
    BY <1>1, <1>3
  <1>7. Kept(s, I) \in Seq(S) /\ Len(Kept(s, I)) = Cardinality(I)
    BY <1>2, <1>5, <1>6, IsASeq
  <1>8. \A i \in I : Kept(s, I)[Rank(I, i)] = s[i]
    BY <1>2, <1>4, <1>5
  <1>9. QED  BY <1>2, <1>7, <1>8

\* What is kept from the start stays where it is; what is last stays last.
LEMMA KeptEnds ==
  ASSUME NEW S, NEW s \in Seq(S), NEW I \in SUBSET (1..Len(s))
  PROVE  /\ \A m \in 0..Len(s) : 1..m \subseteq I =>
               /\ m <= Len(Kept(s, I))
               /\ \A k \in 1..m : Kept(s, I)[k] = s[k]
         /\ Len(s) \in I => Kept(s, I) # <<>> /\ Last(Kept(s, I)) = Last(s)
         /\ I = 1..Len(s) => Kept(s, I) = s
  <1>1. Len(s) \in Nat
    BY LenProperties
  <1>2. ASSUME NEW m \in 0..Len(s), 1..m \subseteq I
        PROVE  /\ m <= Len(Kept(s, I))
               /\ \A k \in 1..m : Kept(s, I)[k] = s[k]
    <2>1. ASSUME NEW k \in 1..m
          PROVE  k \in I /\ Rank(I, k) = k
      <3>1. k \in I
        BY <1>2
      <3>2. \A j \in I : j <= k <=> j \in 1..k
        BY <1>1
      <3>3. 1..k \subseteq I
        BY <1>2
      <3>4. {j \in I : j <= k} = 1..k
        BY <3>2, <3>3
      <3>5. Cardinality(1..k) = k
        BY FS_Interval
      <3>6. QED  BY <3>1, <3>4, <3>5 DEF Rank
    <2>2. \A k \in 1..m : Kept(s, I)[k] = s[k] /\ k \in 1..Len(Kept(s, I))
      BY <2>1, KeptSpec
    <2>3. Len(Kept(s, I)) \in Nat
      BY KeptSpec, LenProperties
    <2>4. m <= Len(Kept(s, I))
      BY <2>2, <2>3
    <2>5. QED  BY <2>2, <2>4
  <1>3. ASSUME Len(s) \in I
        PROVE  Kept(s, I) # <<>> /\ Last(Kept(s, I)) = Last(s)
    <2>1. Rank(I, Len(s)) = Cardinality(I)
      BY <1>1, RankStep
    <2>2. /\ Cardinality(I) \in 1..Cardinality(I)
          /\ Kept(s, I)[Cardinality(I)] = s[Len(s)]
          /\ Len(Kept(s, I)) = Cardinality(I)
      BY <1>3, <2>1, KeptSpec
    <2>3. Kept(s, I) # <<>>
      BY <2>2
    <2>4. QED  BY <2>2, <2>3 DEF Last
  <1>4. ASSUME I = 1..Len(s)
        PROVE  Kept(s, I) = s
    <2>1. Len(Kept(s, I)) = Len(s)
      <3>1. Cardinality(1..Len(s)) = Len(s)
        <4>1. \A m \in Nat : Cardinality(1..m) = m
          BY FS_Interval
        <4>2. QED  BY <1>1, <4>1
      <3>2. QED  BY <1>4, <3>1, KeptSpec
    <2>2. \A k \in 1..Len(s) : Kept(s, I)[k] = s[k]
      BY <1>1, <1>2, <1>4
    <2>3. QED  BY <2>1, <2>2, KeptSpec, SeqEqual
  <1>5. QED  BY <1>2, <1>3, <1>4

\* Nothing was kept between the two characters at k and k + 1.
Neighbours(s, I, k) ==
    \E i, j \in I :
        /\ i < j /\ Kept(s, I)[k] = s[i] /\ Kept(s, I)[k + 1] = s[j]
        /\ \A h \in I : ~(i < h /\ h < j)

\* Characters next to each other in the end had nothing kept between them.
LEMMA KeptNext ==
  ASSUME NEW S, NEW s \in Seq(S), NEW I \in SUBSET (1..Len(s))
  PROVE  \A k \in 1..(Len(Kept(s, I)) - 1) : Neighbours(s, I, k)
  <1> TAKE k \in 1..(Len(Kept(s, I)) - 1)
  <1>1. Len(s) \in Nat /\ Len(Kept(s, I)) \in Nat /\ Len(Kept(s, I)) = Cardinality(I)
    BY KeptSpec, LenProperties
  <1>2. k \in 1..Cardinality(I) /\ k + 1 \in 1..Cardinality(I)
    BY <1>1
  <1>3. PICK i \in I : Rank(I, i) = k
    BY <1>2, KeptSpec
  <1>4. PICK j \in I : Rank(I, j) = k + 1
    BY <1>2, KeptSpec
  <1>5. i \in Nat /\ j \in Nat /\ \A h \in I : h \in Nat /\ Rank(I, h) \in Nat
    <2>1. \A h \in I : h \in Nat
      BY <1>1
    <2>2. QED  BY <1>1, <2>1, RankStep
  <1>6. i < j
    <2>1. i # j /\ ~(j < i)
      BY <1>2, <1>3, <1>4, KeptSpec
    <2>2. QED  BY <1>5, <2>1
  <1>7. ASSUME NEW h \in I, i < h, h < j
        PROVE  FALSE
    <2>1. k < Rank(I, h) /\ Rank(I, h) < k + 1
      BY <1>3, <1>4, <1>7, KeptSpec
    <2>2. QED  BY <1>5, <2>1
  <1>8. Kept(s, I)[k] = s[i] /\ Kept(s, I)[k + 1] = s[j]
    BY <1>3, <1>4, KeptSpec
  <1>9. QED  BY <1>6, <1>7, <1>8 DEF Neighbours

-----------------------------------------------------------------------------
(* The pieces of generateValidName, for any text.                          *)

\* The two texts begin with the same m characters.
SameHead(s, t, m) == m <= Len(t) /\ \A k \in 1..m : t[k] = s[k]

SameLast(s, t) == t # <<>> /\ Last(t) = Last(s)

NoHyphens(s, m) == \A k \in 1..m : s[k] # "-"

\* No two hyphens follow each other.
Apart(s) == \A k \in 1..(Len(s) - 1) : ~(s[k] = "-" /\ s[k + 1] = "-")

\* A text of characters allowed, of which there are some, and nothing for
\* Collapsed or Trimmed to change.
Tidy(s) == /\ s \in Seq(Char) /\ s # <<>> /\ Apart(s)
           /\ s[1] # "-" /\ Last(s) # "-"

\* A text is one of the characters it consists of.
LEMMA SeqElements ==
  ASSUME NEW S, NEW T, NEW s \in Seq(S), \A i \in 1..Len(s) : s[i] \in T
  PROVE  s \in Seq(T)
  <1>1. s = [i \in 1..Len(s) |-> s[i]] /\ Len(s) \in Nat
    BY LenProperties
  <1> DEFINE t == [i \in 1..Len(s) |-> s[i]]
  <1>2. t \in Seq(T)
    BY <1>1, IsASeq
  <1>3. QED  BY <1>1, <1>2

\* The ends of a text that has any.
LEMMA Nonempty ==
  ASSUME NEW S, NEW s \in Seq(S)
  PROVE  /\ Len(s) \in Nat /\ DOMAIN s = 1..Len(s)
         /\ \A i \in 1..Len(s) : s[i] \in S
         /\ s # <<>> <=> Len(s) >= 1
         /\ s # <<>> => Len(s) \in 1..Len(s) /\ 1 \in 1..Len(s)
                        /\ s[1] \in S /\ Last(s) = s[Len(s)] /\ Last(s) \in S
  <1>1. Len(s) \in Nat /\ DOMAIN s = 1..Len(s) /\ (Len(s) = 0 <=> s = <<>>)
    BY LenProperties, EmptySeq
  <1>2. \A i \in 1..Len(s) : s[i] \in S
    BY ElementOfSeq
  <1>3. s # <<>> <=> Len(s) >= 1
    BY <1>1
  <1>4. ASSUME s # <<>>
        PROVE  Len(s) \in 1..Len(s) /\ 1 \in 1..Len(s)
    BY <1>1, <1>3, <1>4
  <1>5. QED  BY <1>1, <1>2, <1>3, <1>4 DEF Last

\* Cleaned leaves characters that are allowed, and those that were it leaves
\* alone at both ends.
LEMMA CleanedText ==
  ASSUME NEW S, NEW s \in Seq(S)
  PROVE  /\ Cleaned(s) \in Seq(Char)
         /\ \A m \in 0..Len(s) : (\A k \in 1..m : s[k] \in Char) => SameHead(s, Cleaned(s), m)
         /\ s # <<>> /\ Last(s) \in Char => SameLast(s, Cleaned(s))
         /\ s \in Seq(Char) => Cleaned(s) = s
  <1> DEFINE small == [i \in DOMAIN s |-> Small(s[i])]
             I == {i \in DOMAIN s : Valid(small[i])}
             R == {Small(c) : c \in S}
  <1>1. Cleaned(s) = Kept(small, I)
    BY DEF Cleaned
  <1>2. Len(s) \in Nat /\ DOMAIN s = 1..Len(s) /\ \A i \in 1..Len(s) : s[i] \in S
    BY Nonempty
  <1>3. small \in Seq(R) /\ Len(small) = Len(s)
    <2>1. \A i \in 1..Len(s) : Small(s[i]) \in R
      BY <1>2
    <2> DEFINE t == [i \in 1..Len(s) |-> Small(s[i])]
    <2>2. t = small
      BY <1>2
    <2>3. t \in Seq(R) /\ Len(t) = Len(s)
      <3> HIDE DEF R
      <3>1. QED  BY <1>2, <2>1, IsASeq
    <2>4. QED  BY <2>2, <2>3
  <1>4. I \in SUBSET (1..Len(small))
    BY <1>2, <1>3
  <1>5. \A i \in 1..Len(s) : small[i] = Small(s[i]) /\ (i \in I <=> Small(s[i]) \in Char)
    BY <1>2 DEF Valid
  <1>6. \A c \in Char : Small(c) = c
    BY CharAssumption DEF Small
  <1> HIDE DEF small, I, R
  <1>7. Cleaned(s) \in Seq(Char)
    <2>1. ASSUME NEW k \in 1..Len(Kept(small, I))
          PROVE  Kept(small, I)[k] \in Char
      <3>1. k \in 1..Cardinality(I)
        BY <1>3, <1>4, KeptSpec
      <3>2. PICK i \in I : Rank(I, i) = k
        BY <1>3, <1>4, <3>1, KeptSpec
      <3>3. Kept(small, I)[k] = small[i]
        BY <1>3, <1>4, <3>2, KeptSpec
      <3>4. QED  BY <1>3, <1>4, <1>5, <3>3
    <2>2. Kept(small, I) \in Seq(R)
      BY <1>3, <1>4, KeptSpec
    <2>3. QED  BY <1>1, <2>1, <2>2, SeqElements
  <1>8. ASSUME NEW m \in 0..Len(s), \A k \in 1..m : s[k] \in Char
        PROVE  SameHead(s, Cleaned(s), m)
    <2>1. \A k \in 1..m : k \in 1..Len(s)
      BY <1>2
    <2>2. \A k \in 1..m : small[k] = s[k] /\ k \in I
      BY <1>5, <1>6, <1>8, <2>1
    <2>3. m \in 0..Len(small) /\ 1..m \subseteq I
      BY <1>3, <2>2
    <2>4. m <= Len(Kept(small, I)) /\ \A k \in 1..m : Kept(small, I)[k] = small[k]
      BY <1>3, <1>4, <2>3, KeptEnds
    <2>5. QED  BY <1>1, <2>2, <2>4 DEF SameHead
  <1>9. ASSUME s # <<>>, Last(s) \in Char
        PROVE  SameLast(s, Cleaned(s))
    <2>1. Len(s) \in 1..Len(s) /\ Last(s) = s[Len(s)]
      BY <1>9, Nonempty
    <2>2. small[Len(s)] = Last(s) /\ Len(s) \in I
      BY <1>5, <1>6, <1>9, <2>1
    <2>3. Kept(small, I) # <<>> /\ Last(Kept(small, I)) = Last(small)
      BY <1>3, <1>4, <2>2, KeptEnds
    <2>4. Last(small) = small[Len(small)]
      BY DEF Last
    <2>5. QED  BY <1>1, <1>3, <2>2, <2>3, <2>4 DEF SameLast
  <1>10. ASSUME s \in Seq(Char)
         PROVE  Cleaned(s) = s
    <2>1. \A i \in 1..Len(s) : s[i] \in Char
      BY <1>10, ElementOfSeq
    <2>2. I = 1..Len(small)
      BY <1>3, <1>4, <1>5, <1>6, <2>1
    <2>3. Kept(small, I) = small
      BY <1>3, <1>4, <2>2, KeptEnds
    <2>4. \A i \in 1..Len(s) : small[i] = s[i]
      BY <1>5, <1>6, <2>1
    <2>5. small = s
      BY <1>3, <2>4, SeqEqual
    <2>6. QED  BY <1>1, <2>3, <2>5
  <1>11. QED  BY <1>7, <1>8, <1>9, <1>10

\* Collapsed leaves no two hyphens next to each other, and keeps both ends if
\* they are none.
LEMMA CollapsedText ==
  ASSUME NEW s \in Seq(Char)
  PROVE  /\ Collapsed(s) \in Seq(Char) /\ Apart(Collapsed(s))
         /\ \A m \in 0..Len(s) : NoHyphens(s, m) => SameHead(s, Collapsed(s), m)
         /\ s # <<>> /\ Last(s) # "-" => SameLast(s, Collapsed(s))
         /\ Apart(s) => Collapsed(s) = s
  <1> DEFINE I == {i \in DOMAIN s : s[i] = "-" => i = 1 \/ s[i - 1] # "-"}
  <1>1. Collapsed(s) = Kept(s, I)
    BY DEF Collapsed
  <1>2. Len(s) \in Nat /\ DOMAIN s = 1..Len(s)
    BY Nonempty
  <1>3. I \in SUBSET (1..Len(s))
    BY <1>2
  <1>4. \A i \in 1..Len(s) : i \in I <=> (s[i] = "-" => i = 1 \/ s[i - 1] # "-")
    BY <1>2
  <1> HIDE DEF I
  <1>5. Collapsed(s) \in Seq(Char)
    BY <1>1, <1>3, KeptSpec
  <1>6. ASSUME NEW k \in 1..(Len(Kept(s, I)) - 1),
               Kept(s, I)[k] = "-", Kept(s, I)[k + 1] = "-"
        PROVE  FALSE
    <2>1. PICK i, j \in I : /\ i < j /\ Kept(s, I)[k] = s[i] /\ Kept(s, I)[k + 1] = s[j]
                            /\ \A h \in I : ~(i < h /\ h < j)
      <3>1. Neighbours(s, I, k)
        BY <1>3, KeptNext
      <3>2. QED  BY <3>1 DEF Neighbours
    <2>2. s[i] = "-" /\ s[j] = "-"
      BY <1>6, <2>1
    <2>3. i \in 1..Len(s) /\ j \in 1..Len(s) /\ j # 1 /\ j - 1 \in 1..Len(s)
          /\ (i = j - 1 \/ i < j - 1) /\ j - 1 < j
      BY <1>2, <1>3, <2>1
    <2>4. s[j - 1] # "-"
      BY <1>4, <2>2, <2>3
    <2>5. j - 1 \in I
      BY <1>4, <2>3, <2>4
    <2>6. QED  BY <2>1, <2>2, <2>3, <2>4, <2>5
  <1>7. ASSUME NEW m \in 0..Len(s), NoHyphens(s, m)
        PROVE  SameHead(s, Collapsed(s), m)
    <2>1. \A k \in 1..m : k \in 1..Len(s) /\ k \in I
      <3>1. \A k \in 1..m : k \in 1..Len(s)
        BY <1>2
      <3>2. QED  BY <1>4, <1>7, <3>1 DEF NoHyphens
    <2>2. 1..m \subseteq I
      BY <2>1
    <2>3. QED  BY <1>1, <1>3, <2>2, KeptEnds DEF SameHead
  <1>8. ASSUME s # <<>>, Last(s) # "-"
        PROVE  SameLast(s, Collapsed(s))
    <2>1. Len(s) \in 1..Len(s) /\ Last(s) = s[Len(s)]
      BY <1>8, Nonempty
    <2>2. Len(s) \in I
      BY <1>4, <1>8, <2>1
    <2>3. QED  BY <1>1, <1>3, <2>2, KeptEnds DEF SameLast
  <1>9. ASSUME Apart(s)
        PROVE  Collapsed(s) = s
    <2>1. ASSUME NEW i \in 1..Len(s)
          PROVE  i \in I
      <3>1. CASE i = 1
        BY <1>4, <3>1
      <3>2. CASE i # 1
        <4>1. i - 1 \in 1..(Len(s) - 1) /\ (i - 1) + 1 = i
          BY <1>2, <3>2
        <4>2. ~(s[i - 1] = "-" /\ s[(i - 1) + 1] = "-")
          BY <1>9, <4>1 DEF Apart
        <4>3. QED  BY <1>4, <4>1, <4>2, Zenon
      <3>3. QED  BY <3>1, <3>2
    <2>2. I = 1..Len(s)
      BY <1>3, <2>1
    <2>3. QED  BY <1>1, <1>3, <2>2, KeptEnds
  <1>10. Apart(Collapsed(s))
    BY <1>1, <1>6 DEF Apart
  <1>11. QED  BY <1>5, <1>7, <1>8, <1>9, <1>10

\* A stretch of a text.
LEMMA Stretch ==
  ASSUME NEW S, NEW s \in Seq(S), NEW l \in 1..Len(s), NEW r \in 1..Len(s), l <= r
  PROVE  /\ SubSeq(s, l, r) \in Seq(S) /\ Len(SubSeq(s, l, r)) = r - l + 1
         /\ \A i \in 1..(r - l + 1) : SubSeq(s, l, r)[i] = s[l + i - 1]
         /\ SubSeq(s, l, r) # <<>>
         /\ SubSeq(s, l, r)[1] = s[l] /\ Last(SubSeq(s, l, r)) = s[r]
         /\ Apart(s) => Apart(SubSeq(s, l, r))
         /\ l = 1 /\ r = Len(s) => SubSeq(s, l, r) = s
  <1> DEFINE t == SubSeq(s, l, r)
  <1>1. Len(s) \in Nat /\ l \in Nat /\ r \in Nat /\ l \in Int /\ r \in Int
        /\ l <= r /\ r <= Len(s) /\ 1 <= l /\ \A i \in l..r : i \in 1..Len(s)
    BY Nonempty
  <1>2. \A i \in l..r : s[i] \in S
    BY <1>1, ElementOfSeq
  <1>3. /\ t \in Seq(S) /\ Len(t) = r - l + 1
        /\ \A i \in 1..(r - l + 1) : t[i] = s[l + i - 1]
    BY <1>1, <1>2, SubSeqProperties
  <1> HIDE DEF t
  <1>4. t # <<>> /\ t[1] = s[l] /\ Last(t) = s[r]
    <2>1. 1 \in 1..(r - l + 1) /\ r - l + 1 \in 1..(r - l + 1) /\ r - l + 1 >= 1
          /\ l + 1 - 1 = l /\ l + (r - l + 1) - 1 = r
      BY <1>1
    <2>2. t # <<>> /\ Last(t) = t[r - l + 1]
      BY <1>3, <2>1, Nonempty
    <2>3. t[1] = s[l + 1 - 1] /\ t[r - l + 1] = s[l + (r - l + 1) - 1]
      BY <1>3, <2>1
    <2>4. QED  BY <2>1, <2>2, <2>3
  <1>5. ASSUME Apart(s)
        PROVE  Apart(t)
    <2> SUFFICES ASSUME NEW k \in 1..(Len(t) - 1)
                 PROVE  ~(t[k] = "-" /\ t[k + 1] = "-")
      BY DEF Apart
    <2>1. k \in 1..(r - l + 1) /\ k + 1 \in 1..(r - l + 1)
          /\ l + k - 1 \in 1..(Len(s) - 1) /\ l + (k + 1) - 1 = (l + k - 1) + 1
      BY <1>1, <1>3
    <2>2. t[k] = s[l + k - 1] /\ t[k + 1] = s[(l + k - 1) + 1]
      BY <1>3, <2>1
    <2>3. QED  BY <1>5, <2>1, <2>2 DEF Apart
  <1>6. ASSUME l = 1, r = Len(s)
        PROVE  t = s
    BY <1>6, SubSeqFull DEF t
  <1>7. QED  BY <1>3, <1>4, <1>5, <1>6 DEF t

\* Trimmed leaves nothing or a tidy text, and keeps both ends if they are no
\* hyphens.
LEMMA TrimmedText ==
  ASSUME NEW s \in Seq(Char), Apart(s)
  PROVE  /\ Trimmed(s) = <<>> \/ Tidy(Trimmed(s))
         /\ \A m \in 1..Len(s) : NoHyphens(s, m) => SameHead(s, Trimmed(s), m)
         /\ s # <<>> /\ Last(s) # "-" => SameLast(s, Trimmed(s))
         /\ Tidy(s) => Trimmed(s) = s
  <1> DEFINE rest == {i \in DOMAIN s : s[i] # "-"}
  <1>1. Len(s) \in Nat /\ DOMAIN s = 1..Len(s)
    BY Nonempty
  <1>2. /\ rest \in SUBSET (1..Len(s))
        /\ \A i \in 1..Len(s) : i \in rest <=> s[i] # "-"
    BY <1>1
  <1>3. Trimmed(s) = IF rest = {} THEN <<>> ELSE SubSeq(s, Min(rest), Max(rest))
    BY DEF Trimmed
  <1> HIDE DEF rest
  <1>4. CASE rest = {}
    <2>1. \A i \in 1..Len(s) : s[i] = "-"
      BY <1>2, <1>4
    <2>2. Trimmed(s) = <<>>
      BY <1>3, <1>4
    <2>3. ASSUME NEW m \in 1..Len(s), NoHyphens(s, m)  PROVE FALSE
      <3>1. 1 \in 1..m /\ 1 \in 1..Len(s)
        BY <1>1
      <3>2. QED  BY <2>1, <2>3, <3>1 DEF NoHyphens
    <2>4. ASSUME s # <<>>  PROVE Last(s) = "-" /\ s[1] = "-"
      BY <2>1, <2>4, Nonempty
    <2>5. QED  BY <2>2, <2>3, <2>4 DEF Tidy
  <1>5. CASE rest # {}
    <2> DEFINE l == Min(rest)
               r == Max(rest)
    <2>1. l \in rest /\ r \in rest /\ \A k \in rest : l <= k /\ k <= r
      BY <1>1, <1>2, <1>5, MinMax
    <2>2. Trimmed(s) = SubSeq(s, l, r)
      BY <1>3, <1>5
    <2> HIDE DEF l, r
    <2>3. l \in 1..Len(s) /\ r \in l..Len(s) /\ s[l] # "-" /\ s[r] # "-"
      <3>1. l \in 1..Len(s) /\ r \in 1..Len(s) /\ l <= r
        BY <1>2, <2>1
      <3>2. QED  BY <1>1, <1>2, <2>1, <3>1
    <2>0. l \in Nat /\ r \in Nat /\ l >= 1 /\ r <= Len(s)
      BY <1>1, <2>3
    <2>4. Tidy(Trimmed(s))
      <3>1. /\ SubSeq(s, l, r) \in Seq(Char) /\ SubSeq(s, l, r) # <<>>
            /\ SubSeq(s, l, r)[1] = s[l] /\ Last(SubSeq(s, l, r)) = s[r]
            /\ Apart(SubSeq(s, l, r))
        <4>1. r \in 1..Len(s) /\ l <= r
          BY <1>1, <2>3
        <4>2. SubSeq(s, l, r) \in Seq(Char) /\ Len(SubSeq(s, l, r)) = r - l + 1
          BY <2>3, <4>1, Stretch
        <4>3. SubSeq(s, l, r) # <<>>
          <5>1. r - l + 1 >= 1
            BY <2>0, <4>1
          <5>2. QED  BY <4>2, <5>1, Nonempty
        <4>4. SubSeq(s, l, r)[1] = s[l] /\ Last(SubSeq(s, l, r)) = s[r]
          BY <2>3, <4>1, Stretch
        <4>5. Apart(SubSeq(s, l, r))
          BY <2>3, <4>1, Stretch
        <4>6. QED  BY <4>2, <4>3, <4>4, <4>5
      <3>2. QED  BY <2>2, <2>3, <3>1 DEF Tidy
    <2>5. ASSUME NEW m \in 1..Len(s), NoHyphens(s, m)
          PROVE  SameHead(s, Trimmed(s), m)
      <3>1. \A k \in 1..m : k \in rest
        <4>1. \A k \in 1..m : k \in 1..Len(s)
          BY <1>1
        <4>2. QED  BY <1>2, <2>5, <4>1 DEF NoHyphens
      <3>2. 1 \in 1..m /\ m \in 1..m
        BY <1>1
      <3>3. l <= 1 /\ m <= r
        BY <2>1, <3>1, <3>2
      <3>4. l = 1 /\ m <= r - l + 1 /\ \A k \in 1..m : k \in 1..(r - l + 1) /\ l + k - 1 = k
        BY <1>1, <2>3, <3>3
      <3>5. QED  BY <2>2, <2>3, <3>4, Stretch DEF SameHead
    <2>6. ASSUME s # <<>>, Last(s) # "-"
          PROVE  SameLast(s, Trimmed(s)) /\ r = Len(s)
      <3>1. Len(s) \in 1..Len(s) /\ Last(s) = s[Len(s)]
        BY <2>6, Nonempty
      <3>2. Len(s) \in rest
        BY <1>2, <2>6, <3>1
      <3>3. r = Len(s)
        <4>1. Len(s) <= r
          BY <2>1, <3>2
        <4>2. \A k, m \in Nat : k <= m /\ m <= k => m = k
          OBVIOUS
        <4>3. QED  BY <1>1, <2>0, <4>1, <4>2, Zenon
      <3>4. QED  BY <2>2, <2>3, <2>4, <3>1, <3>3, Stretch DEF SameLast, Tidy
    <2>7. ASSUME Tidy(s)
          PROVE  Trimmed(s) = s
      <3>1. 1 \in 1..Len(s)
        BY <2>7, Nonempty DEF Tidy
      <3>2. 1 \in rest
        BY <1>2, <2>7, <3>1 DEF Tidy
      <3>3. l = 1 /\ r = Len(s)
        <4>1. l <= 1
          BY <2>1, <3>2
        <4>2. r = Len(s)
          BY <2>6, <2>7 DEF Tidy
        <4>3. QED  BY <2>0, <4>1, <4>2
      <3>4. QED  BY <2>2, <2>3, <3>3, Stretch
    <2>8. QED  BY <2>4, <2>5, <2>6, <2>7
  <1>6. QED  BY <1>4, <1>5

\* Two texts with a hyphen between them.
LEMMA Hyphened ==
  ASSUME NEW S, NEW a \in Seq(S), NEW b \in Seq(S), "-" \in S
  PROVE  /\ a \o <<"-">> \o b \in Seq(S)
         /\ Len(a \o <<"-">> \o b) = Len(a) + 1 + Len(b)
         /\ \A k \in 1..Len(a) : (a \o <<"-">> \o b)[k] = a[k]
         /\ (a \o <<"-">> \o b)[Len(a) + 1] = "-"
         /\ \A k \in 1..Len(b) : (a \o <<"-">> \o b)[Len(a) + 1 + k] = b[k]
  <1>1. <<"-">> \in Seq(S) /\ Len(<<"-">>) = 1 /\ <<"-">>[1] = "-"
    OBVIOUS
  <1>2. Len(a) \in Nat /\ Len(b) \in Nat
    BY LenProperties
  <1> DEFINE h == a \o <<"-">>
  <1>3. /\ h \in Seq(S) /\ Len(h) = Len(a) + 1
        /\ \A i \in 1..(Len(a) + 1) : h[i] = IF i <= Len(a) THEN a[i] ELSE <<"-">>[i - Len(a)]
    BY <1>1, ConcatProperties
  <1>4. /\ h[Len(a) + 1] = "-"
        /\ \A k \in 1..Len(a) : h[k] = a[k]
    <2>1. /\ Len(a) + 1 \in 1..(Len(a) + 1) /\ ~(Len(a) + 1 <= Len(a))
          /\ (Len(a) + 1) - Len(a) = 1
          /\ \A k \in 1..Len(a) : k \in 1..(Len(a) + 1) /\ k <= Len(a)
      BY <1>2
    <2>2. QED  BY <1>1, <1>3, <2>1
  <1> HIDE DEF h
  <1>5. /\ h \o b \in Seq(S) /\ Len(h \o b) = Len(h) + Len(b)
        /\ \A i \in 1..(Len(h) + Len(b)) :
              (h \o b)[i] = IF i <= Len(h) THEN h[i] ELSE b[i - Len(h)]
    <2>1. h \in Seq(S)
      BY <1>3
    <2>2. QED  BY <2>1, ConcatProperties, SMTT(30)
  <1>6. /\ \A k \in 1..Len(a) : k \in 1..(Len(h) + Len(b)) /\ k <= Len(h)
        /\ Len(a) + 1 \in 1..(Len(h) + Len(b)) /\ Len(a) + 1 <= Len(h)
        /\ \A k \in 1..Len(b) : /\ Len(a) + 1 + k \in 1..(Len(h) + Len(b))
                                /\ ~(Len(a) + 1 + k <= Len(h))
                                /\ (Len(a) + 1 + k) - Len(h) = k
    BY <1>2, <1>3
  <1>7. \A k \in 1..Len(a) : (h \o b)[k] = a[k]
    BY <1>4, <1>5, <1>6
  <1>8. (h \o b)[Len(a) + 1] = "-"
    BY <1>4, <1>5, <1>6
  <1>9. \A k \in 1..Len(b) : (h \o b)[Len(a) + 1 + k] = b[k]
    BY <1>5, <1>6
  <1>10. QED  BY <1>2, <1>3, <1>5, <1>7, <1>8, <1>9 DEF h

\* The words of the code, and their characters.
LEMMA Words ==
  /\ TG \in Seq(Char) /\ TG # <<>> /\ Len(TG) = 2 /\ TG[1] = "t" /\ TG[2] = "g"
  /\ Default \in Seq(Char)
  /\ LB \in Seq(Char) /\ LB # <<>> /\ Len(LB) = 6 /\ LB[1] = "k" /\ LB[2] = "8" /\ LB[3] = "s"
  /\ Tidy(TG) /\ Tidy(LB) /\ "-" \in Char
  /\ {"t", "g", "k", "s"} \subseteq Letters /\ "8" \in Digits
  /\ Letters \subseteq Char /\ Digits \subseteq Char
  /\ "-" \notin Letters /\ "-" \notin Digits /\ Letters \cap Digits = {}
  <1>1. /\ "-" \in Char /\ Letters \subseteq Char /\ Digits \subseteq Char
        /\ "-" \notin Letters /\ "-" \notin Digits /\ Letters \cap Digits = {}
    BY CharAssumption DEF Char
  <1>2. {"t", "g", "d", "e", "f", "a", "u", "l", "k", "s", "b"} \subseteq Letters
        /\ "8" \in Digits
    BY AlphabetAssumption
  <1>3. {"t", "g", "d", "e", "f", "a", "u", "l", "k", "s", "b", "8", "-"} \subseteq Char
    BY <1>1, <1>2
  <1>4. TG \in Seq(Char) /\ TG # <<>> /\ Len(TG) = 2 /\ TG[1] = "t" /\ TG[2] = "g"
    BY <1>3 DEF TG
  <1>5. Default \in Seq(Char)
    BY <1>3 DEF Default
  <1>6. LB \in Seq(Char) /\ LB # <<>> /\ Len(LB) = 6 /\ LB[1] = "k" /\ LB[2] = "8"
        /\ LB[3] = "s" /\ LB[4] = "-" /\ LB[5] = "l" /\ LB[6] = "b"
    BY <1>3 DEF LB
  <1>7. Tidy(TG)
    BY <1>4 DEF Tidy, Apart, Last
  <1>8. Tidy(LB)
    BY <1>6 DEF Tidy, Apart, Last
  <1>9. QED  BY <1>1, <1>2, <1>4, <1>5, <1>6, <1>7, <1>8

\* A text before it is cut: it begins with a letter, no two of its hyphens
\* follow each other.
Begun(s) == s \in Seq(Char) /\ s # <<>> /\ s[1] \in Letters /\ Apart(s)

\* Cut leaves a first letter and no hyphen at the end: there is only one to
\* remove.
LEMMA CutText ==
  ASSUME NEW s, Begun(s)
  PROVE  /\ Cut(s) \in Seq(Char) /\ Len(Cut(s)) \in 1..MaxName
         /\ Cut(s)[1] \in Letters /\ Last(Cut(s)) # "-"
         /\ Len(s) <= MaxName /\ Last(s) # "-" => Cut(s) = s
  <1> DEFINE t == IF Len(s) > MaxName THEN SubSeq(s, 1, MaxName) ELSE s
             r == IF Len(s) > MaxName THEN MaxName ELSE Len(s)
  <1>1. s \in Seq(Char) /\ s # <<>> /\ s[1] \in Letters /\ Apart(s)
        /\ Len(s) \in Nat /\ 1 <= Len(s) /\ 1 \in 1..Len(s)
    BY Nonempty DEF Begun
  <1>2. MaxName \in Nat /\ MaxName >= 5
    BY BoundAssumption
  <1>3. r \in Nat /\ 1 <= r /\ r <= MaxName /\ r \in 1..Len(s)
        /\ (Len(s) <= MaxName => r = Len(s) /\ t = s)
    BY <1>1, <1>2
  <1>4. t = SubSeq(s, 1, r)
    <2>1. SubSeq(s, 1, Len(s)) = s
      BY <1>1, SubSeqFull
    <2>2. QED  BY <2>1
  <1>5. Cut(s) = IF t # <<>> /\ Last(t) = "-" THEN Front(t) ELSE t
    BY DEF Cut
  <1> HIDE DEF t, r
  <1>6. t \in Seq(Char) /\ Len(t) = r - 1 + 1
    BY <1>1, <1>3, <1>4, Stretch
  <1>7. t[1] = s[1] /\ Apart(t)
    BY <1>1, <1>3, <1>4, Stretch
  <1>8. Len(t) = r
    BY <1>3, <1>6
  <1>9. t # <<>> /\ Last(t) = t[r]
    BY <1>3, <1>6, <1>8, Nonempty
  <1>10. CASE Last(t) # "-"
    BY <1>1, <1>3, <1>5, <1>6, <1>7, <1>8, <1>10
  <1>11. CASE Last(t) = "-"
    <2>1. t[1] # "-"
      BY <1>1, <1>7, Words
    <2>2. r # 1
      BY <1>9, <1>11, <2>1
    <2>3. r - 1 \in 1..Len(t) /\ 1 \in 1..Len(t) /\ 1 <= r - 1
          /\ r - 1 \in 1..(Len(t) - 1) /\ (r - 1) + 1 = r /\ r - 1 - 1 + 1 = r - 1
      BY <1>3, <1>8, <2>2
    <2>4. t[r - 1] # "-"
      BY <1>7, <1>9, <1>11, <2>3 DEF Apart
    <2>5. Cut(s) = SubSeq(t, 1, r - 1)
      BY <1>5, <1>8, <1>9, <1>11 DEF Front
    <2>6. Cut(s) \in Seq(Char) /\ Len(Cut(s)) = r - 1 - 1 + 1
      BY <1>6, <2>3, <2>5, Stretch
    <2>7. Cut(s)[1] = t[1] /\ Last(Cut(s)) = t[r - 1]
      BY <1>6, <2>3, <2>5, Stretch
    <2>8. Len(Cut(s)) \in 1..MaxName
      BY <1>2, <1>3, <2>3, <2>6
    <2>9. Len(s) <= MaxName => ~(Last(s) # "-")
      BY <1>3, <1>11
    <2>10. QED  BY <1>1, <1>7, <2>4, <2>6, <2>7, <2>8, <2>9
  <1>12. QED  BY <1>10, <1>11

\* Lengthened finds room for the prefix, and puts no hyphen at the end.
LEMMA LengthenedText ==
  ASSUME NEW s \in Seq(Char), Len(s) \in 1..MaxName, s[1] \in Letters, Last(s) # "-"
  PROVE  /\ Lengthened(s) \in Seq(Char) /\ Len(Lengthened(s)) \in 3..MaxName
         /\ Lengthened(s)[1] \in Letters /\ Last(Lengthened(s)) # "-"
         /\ Len(s) >= 3 => Lengthened(s) = s
  <1>1. Len(s) \in Nat /\ MaxName \in Nat /\ MaxName >= 5 /\ 1 <= Len(s)
    BY BoundAssumption
  <1>2. CASE Len(s) >= 3
    BY <1>1, <1>2 DEF Lengthened
  <1>3. CASE ~(Len(s) >= 3)
    <2> DEFINE t == TG \o <<"-">> \o s
    <2>1. /\ t \in Seq(Char) /\ Len(t) = 2 + 1 + Len(s)
          /\ \A k \in 1..2 : t[k] = TG[k]
          /\ \A k \in 1..Len(s) : t[2 + 1 + k] = s[k]
      <3>1. /\ t \in Seq(Char) /\ Len(t) = Len(TG) + 1 + Len(s)
            /\ \A k \in 1..Len(TG) : t[k] = TG[k]
            /\ \A k \in 1..Len(s) : t[Len(TG) + 1 + k] = s[k]
        <4>1. TG \in Seq(Char) /\ "-" \in Char
          BY Words
        <4>2. QED  BY <4>1, Hyphened
      <3>2. QED  BY <3>1, Words
    <2>2. Lengthened(s) = IF Len(t) >= 3 THEN t ELSE TG \o <<"-">> \o Default
      BY <1>3 DEF Lengthened
    <2> HIDE DEF t
    <2>3. Len(t) >= 3 /\ Len(t) \in 3..MaxName /\ Len(s) \in 1..Len(s) /\ 1 \in 1..2
          /\ Len(t) = 2 + 1 + Len(s)
      BY <1>1, <1>3, <2>1
    <2>4. t[1] = "t" /\ Last(t) = s[Len(s)]
      BY <2>1, <2>3, Words DEF Last
    <2>5. "t" \in Letters
      BY Words
    <2>6. QED  BY <1>3, <2>1, <2>2, <2>3, <2>4, <2>5 DEF Last
  <1>4. QED  BY <1>2, <1>3

\* All that is done to a text before it is cut.
Whittled(s) == Lettered(Trimmed(Collapsed(Cleaned(s))))

\* The steps before the cut, taken together.
LEMMA WhittledText ==
  ASSUME NEW S, NEW s \in Seq(S)
  PROVE  /\ Begun(Whittled(s))
         /\ \A m \in 1..Len(s) :
               (\A k \in 1..m : s[k] \in Char \ {"-"}) /\ s[1] \in Letters
               => SameHead(s, Whittled(s), m) /\ Last(Whittled(s)) # "-"
         /\ s # <<>> /\ s[1] \in Letters /\ Last(s) \in Char \ {"-"}
            => SameLast(s, Whittled(s))
         /\ Tidy(s) /\ s[1] \in Letters => Whittled(s) = s
  <1> DEFINE c == Cleaned(s)
             d == Collapsed(c)
             t == Trimmed(d)
  <1>1. c \in Seq(Char)
    BY CleanedText
  <1>2. d \in Seq(Char) /\ Apart(d)
    BY <1>1, CollapsedText
  <1>3. t = <<>> \/ Tidy(t)
    BY <1>2, TrimmedText
  <1>4. Whittled(s) = Lettered(t)
    BY DEF Whittled
  <1>5. /\ Begun(Lettered(t))
        /\ t # <<>> => Last(Lettered(t)) # "-" /\ Last(Lettered(t)) = Last(t)
        /\ t # <<>> /\ t[1] \in Letters => Lettered(t) = t
    <2> HIDE DEF t
    <2>1. CASE t # <<>> /\ t[1] \in Letters
      BY <1>3, <2>1 DEF Lettered, Begun, Tidy
    <2>2. CASE ~(t # <<>> /\ t[1] \in Letters)
      <3> DEFINE u == TG \o <<"-">> \o t
      <3>1. t \in Seq(Char)
        BY <1>3, EmptySeq DEF Tidy
      <3>2. Lettered(t) = u
        BY <2>2 DEF Lettered
      <3>3. /\ u \in Seq(Char) /\ Len(u) = 2 + 1 + Len(t)
            /\ \A k \in 1..2 : u[k] = TG[k]
            /\ u[2 + 1] = "-"
            /\ \A k \in 1..Len(t) : u[2 + 1 + k] = t[k]
        <4>1. /\ u \in Seq(Char) /\ Len(u) = Len(TG) + 1 + Len(t)
              /\ \A k \in 1..Len(TG) : u[k] = TG[k]
              /\ u[Len(TG) + 1] = "-"
              /\ \A k \in 1..Len(t) : u[Len(TG) + 1 + k] = t[k]
          <5>1. TG \in Seq(Char) /\ "-" \in Char
            BY Words
          <5>2. QED  BY <3>1, <5>1, Hyphened
        <4>2. QED  BY <4>1, Words
      <3> HIDE DEF u
      <3>4. Len(t) \in Nat /\ u # <<>> /\ u[1] = "t" /\ u[2] = "g"
        BY <3>1, <3>3, Words, Nonempty
      <3>5. ASSUME NEW k \in 1..(Len(u) - 1), u[k] = "-", u[k + 1] = "-"
            PROVE  FALSE
        <4>1. k # 1 /\ k # 2
          BY <3>4, <3>5
        <4>2. CASE k = 3
          <5>1. u[2 + 1 + 1] = t[1] /\ t # <<>>
            BY <3>1, <3>3, <3>4, <4>2, Nonempty
          <5>2. t[1] # "-"
            BY <1>3, <5>1 DEF Tidy
          <5>3. QED  BY <3>5, <4>2, <5>1, <5>2
        <4>3. CASE k # 3
          <5>1. k - 3 \in 1..(Len(t) - 1) /\ k - 3 \in 1..Len(t) /\ (k - 3) + 1 \in 1..Len(t)
                /\ k = 2 + 1 + (k - 3) /\ k + 1 = 2 + 1 + ((k - 3) + 1)
            BY <3>3, <3>4, <4>1, <4>3
          <5>2. u[k] = t[k - 3] /\ u[k + 1] = t[(k - 3) + 1]
            BY <3>3, <5>1
          <5>3. Apart(t)
            BY <1>3, <5>1 DEF Tidy, Apart
          <5>4. QED  BY <3>5, <5>1, <5>2, <5>3 DEF Apart
        <4>4. QED  BY <4>2, <4>3
      <3>6. Begun(u)
        BY <3>3, <3>4, <3>5, Words DEF Begun, Apart
      <3>7. ASSUME t # <<>>
            PROVE  Last(u) # "-" /\ Last(u) = Last(t)
        <4>1. Len(t) \in 1..Len(t) /\ Last(t) = t[Len(t)]
          BY <3>1, <3>7, Nonempty
        <4>2. Last(u) = Last(t)
          BY <3>3, <4>1 DEF Last
        <4>3. QED  BY <1>3, <3>7, <4>2 DEF Tidy
      <3>8. QED  BY <2>2, <3>2, <3>6, <3>7
    <2>3. QED  BY <2>1, <2>2
  <1> HIDE DEF t, d, c
  <1>6. ASSUME NEW m \in 1..Len(s), \A k \in 1..m : s[k] \in Char \ {"-"}, s[1] \in Letters
        PROVE  SameHead(s, Whittled(s), m) /\ Last(Whittled(s)) # "-"
    <2>1. m \in Nat /\ 1 <= m /\ 1 \in 1..m /\ m \in 0..Len(s)
      BY Nonempty
    <2>2. SameHead(s, c, m)
      BY <1>6, <2>1, CleanedText DEF c
    <2>3. m \in 0..Len(c) /\ NoHyphens(c, m)
      <3>1. \A k \in 1..m : c[k] # "-"
        BY <1>6, <2>2 DEF SameHead
      <3>2. m <= Len(c) /\ Len(c) \in Nat
        BY <1>1, <2>2, Nonempty DEF SameHead
      <3>3. QED  BY <2>1, <3>1, <3>2 DEF NoHyphens
    <2>4. SameHead(c, d, m)
      BY <1>1, <2>3, CollapsedText DEF d
    <2>5. m \in 1..Len(d) /\ NoHyphens(d, m)
      <3>1. \A k \in 1..m : d[k] # "-"
        BY <2>3, <2>4 DEF SameHead, NoHyphens
      <3>2. m <= Len(d) /\ Len(d) \in Nat
        BY <1>2, <2>4, Nonempty DEF SameHead
      <3>3. QED  BY <2>1, <3>1, <3>2 DEF NoHyphens
    <2>6. SameHead(d, t, m)
      BY <1>2, <2>5, TrimmedText DEF t
    <2>7. t # <<>> /\ t[1] = s[1]
      <3>1. t[1] = d[1] /\ d[1] = c[1] /\ c[1] = s[1]
        BY <2>1, <2>2, <2>4, <2>6 DEF SameHead
      <3>2. t \in Seq(Char)
        BY <1>3, EmptySeq DEF Tidy
      <3>3. Len(t) >= 1
        BY <2>1, <2>6, <3>2, Nonempty DEF SameHead
      <3>4. QED  BY <3>1, <3>2, <3>3, Nonempty
    <2>8. Whittled(s) = t /\ Last(Whittled(s)) # "-"
      BY <1>4, <1>5, <1>6, <2>7
    <2>9. QED  BY <2>2, <2>4, <2>6, <2>8 DEF SameHead
  <1>7. ASSUME s # <<>>, s[1] \in Letters, Last(s) \in Char \ {"-"}
        PROVE  SameLast(s, Whittled(s))
    <2>1. SameLast(s, c)
      BY <1>7, CleanedText DEF c
    <2>2. SameLast(c, d)
      BY <1>1, <1>7, <2>1, CollapsedText DEF d, SameLast
    <2>3. SameLast(d, t)
      BY <1>2, <1>7, <2>1, <2>2, TrimmedText DEF t, SameLast
    <2>4. Last(Lettered(t)) = Last(t) /\ Lettered(t) # <<>>
      BY <1>5, <2>3 DEF SameLast, Begun
    <2>5. QED  BY <1>4, <2>1, <2>2, <2>3, <2>4 DEF SameLast
  <1>8. ASSUME Tidy(s), s[1] \in Letters
        PROVE  Whittled(s) = s
    <2>1. c = s
      BY <1>8, CleanedText DEF c, Tidy
    <2>2. d = s
      BY <1>1, <1>8, <2>1, CollapsedText DEF d, Tidy
    <2>3. t = s
      BY <1>2, <1>8, <2>2, TrimmedText DEF t
    <2>4. QED  BY <1>4, <1>5, <1>8, <2>3 DEF Tidy
  <1>9. Begun(Whittled(s))
    BY <1>4, <1>5
  <1>10. QED  BY <1>6, <1>7, <1>8, <1>9

\* JoinWith keeps the beginning of the one and the end of the other.
LEMMA JoinWithText ==
  ASSUME NEW S, NEW a \in Seq(S), NEW b \in Seq(S), "-" \in S
  PROVE  /\ JoinWith(a, b) \in Seq(S)
         /\ a # <<>> => JoinWith(a, b) # <<>> /\ SameHead(a, JoinWith(a, b), Len(a))
         /\ b # <<>> => SameLast(b, JoinWith(a, b))
         /\ a # <<>> /\ b # <<>> => JoinWith(a, b) = a \o <<"-">> \o b
         /\ b = <<>> => JoinWith(a, b) = a
  <1>1. Len(a) \in Nat /\ Len(b) \in Nat
    BY Nonempty
  <1>2. CASE a = <<>>
    BY <1>2 DEF JoinWith, SameLast
  <1>3. CASE a # <<>> /\ b = <<>>
    BY <1>1, <1>3 DEF JoinWith, SameHead
  <1>4. CASE a # <<>> /\ b # <<>>
    <2> DEFINE h == a \o <<"-">> \o b
    <2>1. JoinWith(a, b) = h
      BY <1>4 DEF JoinWith
    <2>2. /\ h \in Seq(S) /\ Len(h) = Len(a) + 1 + Len(b)
          /\ \A k \in 1..Len(a) : h[k] = a[k]
          /\ \A k \in 1..Len(b) : h[Len(a) + 1 + k] = b[k]
      BY Hyphened
    <2> HIDE DEF h
    <2>3. h # <<>> /\ Len(a) <= Len(h)
      BY <1>1, <2>2, Nonempty
    <2>4. Len(b) \in 1..Len(b) /\ Last(b) = b[Len(b)]
      BY <1>4, Nonempty
    <2>5. Last(h) = Last(b)
      BY <2>2, <2>4 DEF Last
    <2>6. QED  BY <1>4, <2>1, <2>2, <2>3, <2>5 DEF SameHead, SameLast, h
  <1>5. QED  BY <1>2, <1>3, <1>4

\* What a Service's resources are named after.
LEMMA ResourceFields ==
  ASSUME NEW ns \in Namespaces, NEW svc \in Services, NEW r \in ResourcesOf(ns, svc)
  PROVE  /\ r \in Resource /\ r.ns = ns /\ r.svc = svc
         /\ \/ r.prefix = LB /\ r.suffix = <<>>
            \/ r.prefix = TG /\ \E d \in Digits : r.suffix = <<d>>
  BY DEF ResourcesOf, Resource

\* The joined text begins with the prefix and ends with the port's position,
\* whatever is between them.
LEMMA JoinedText ==
  ASSUME NEW ns \in Namespaces, NEW svc \in Services, NEW r \in ResourcesOf(ns, svc)
  PROVE  \E S : LET J == Joined(r.prefix, r.ns, r.svc, r.suffix)
                IN  /\ J \in Seq(S) /\ SameHead(r.prefix, J, Len(r.prefix))
                    /\ r.suffix # <<>> => J # <<>> /\ Last(J) = r.suffix[1]
  <1> DEFINE S == Char \cup Range(ns) \cup Range(svc)
             n == IF ns = Default THEN <<>> ELSE ns
             a == JoinWith(r.prefix, n)
             b == JoinWith(a, svc)
             J == JoinWith(b, r.suffix)
  <1>1. r.prefix \in Seq(Char) /\ r.prefix # <<>>
    BY ResourceFields, Words
  <1>2. /\ r.suffix \in Seq(Char)
        /\ r.suffix # <<>> => Last(r.suffix) = r.suffix[1]
    <2>1. CASE r.suffix = <<>>
      BY <2>1, EmptySeq
    <2>2. ASSUME NEW d \in Digits, r.suffix = <<d>>
          PROVE  r.suffix \in Seq(Char) /\ Last(r.suffix) = r.suffix[1]
      <3>1. d \in Char
        BY Words
      <3>2. QED  BY <2>2, <3>1 DEF Last
    <2>3. QED  BY <2>1, <2>2, ResourceFields
  <1>3. ns \in Seq(Range(ns)) /\ svc \in Seq(Range(svc))
    BY WordAssumption
  <1>4. Char \subseteq S /\ Range(ns) \subseteq S /\ Range(svc) \subseteq S /\ "-" \in S
    BY Words
  <1> HIDE DEF S
  <1>5. r.prefix \in Seq(S) /\ r.suffix \in Seq(S) /\ svc \in Seq(S) /\ ns \in Seq(S)
    BY <1>1, <1>2, <1>3, <1>4, SeqMonotonic
  <1>6. n \in Seq(S)
    BY <1>5, EmptySeq
  <1>7. Joined(r.prefix, r.ns, r.svc, r.suffix) = J
    BY ResourceFields DEF Joined
  <1> HIDE DEF n
  <1>8. a \in Seq(S) /\ a # <<>> /\ SameHead(r.prefix, a, Len(r.prefix))
    BY <1>1, <1>4, <1>5, <1>6, JoinWithText
  <1> HIDE DEF a
  <1>9. b \in Seq(S) /\ b # <<>> /\ SameHead(a, b, Len(a))
    BY <1>4, <1>5, <1>8, JoinWithText
  <1> HIDE DEF b
  <1>10. /\ J \in Seq(S) /\ J # <<>> /\ SameHead(b, J, Len(b))
         /\ r.suffix # <<>> => SameLast(r.suffix, J)
    BY <1>4, <1>5, <1>9, JoinWithText
  <1> HIDE DEF J
  <1>11. SameHead(r.prefix, J, Len(r.prefix))
    <2>1. Len(r.prefix) \in Nat /\ Len(a) \in Nat /\ Len(b) \in Nat /\ Len(J) \in Nat
      BY <1>5, <1>8, <1>9, <1>10, Nonempty
    <2>2. Len(r.prefix) <= Len(a) /\ Len(a) <= Len(b) /\ Len(b) <= Len(J)
      BY <1>8, <1>9, <1>10 DEF SameHead
    <2>3. ASSUME NEW k \in 1..Len(r.prefix)
          PROVE  J[k] = r.prefix[k]
      <3>1. k \in 1..Len(a) /\ k \in 1..Len(b)
        BY <2>1, <2>2
      <3>2. QED  BY <1>8, <1>9, <1>10, <3>1 DEF SameHead
    <2>4. Len(r.prefix) <= Len(J)
      BY <2>1, <2>2
    <2>5. QED  BY <2>3, <2>4 DEF SameHead
  <1>12. QED  BY <1>2, <1>7, <1>10, <1>11 DEF SameLast

UncutOf(r) == Uncut(r.prefix, r.ns, r.svc, r.suffix)

\* The name is valid; uncut, it begins as the prefix does, and it ends with
\* the port's position.
LEMMA NameText ==
  ASSUME NEW ns \in Namespaces, NEW svc \in Services, NEW r \in ResourcesOf(ns, svc)
  PROVE  /\ NameOf(r) \in Seq(Char) /\ NameOf(r)[1] \in Letters
         /\ Len(NameOf(r)) \in 3..MaxName /\ Last(NameOf(r)) # "-"
         /\ Len(UncutOf(r)) <= MaxName =>
               /\ NameOf(r) = UncutOf(r)
               /\ NameOf(r)[1] = r.prefix[1]
               /\ r.suffix # <<>> => Last(NameOf(r)) = r.suffix[1]
  <1> DEFINE J == Joined(r.prefix, r.ns, r.svc, r.suffix)
             u == Whittled(J)
  <1>1. PICK S : /\ J \in Seq(S) /\ SameHead(r.prefix, J, Len(r.prefix))
                 /\ r.suffix # <<>> => J # <<>> /\ Last(J) = r.suffix[1]
    BY JoinedText
  <1>2. UncutOf(r) = u /\ NameOf(r) = Lengthened(Cut(u))
    BY DEF UncutOf, Uncut, Whittled, NameOf, generateValidName
  <1> HIDE DEF J
  <1>3. Begun(u)
    BY <1>1, WhittledText
  <1>4. /\ Cut(u) \in Seq(Char) /\ Len(Cut(u)) \in 1..MaxName
        /\ Cut(u)[1] \in Letters /\ Last(Cut(u)) # "-"
        /\ Len(u) <= MaxName /\ Last(u) # "-" => Cut(u) = u
    BY <1>3, CutText
  <1>5. /\ NameOf(r) \in Seq(Char) /\ NameOf(r)[1] \in Letters
        /\ Len(NameOf(r)) \in 3..MaxName /\ Last(NameOf(r)) # "-"
        /\ Len(Cut(u)) >= 3 => NameOf(r) = Cut(u)
    BY <1>2, <1>4, LengthenedText
  <1>6. Len(J) \in Nat /\ u \in Seq(Char) /\ Len(u) \in Nat
    BY <1>1, <1>3, Nonempty DEF Begun
  <1>7. u[1] = r.prefix[1] /\ Last(u) # "-" /\ Len(u) >= 3
        /\ (r.suffix # <<>> => Last(u) = r.suffix[1])
    <2>1. CASE r.prefix = LB /\ r.suffix = <<>>
      <3>1. J[1] = "k" /\ J[2] = "8" /\ J[3] = "s" /\ 6 <= Len(J)
        BY <1>1, <2>1, Words DEF SameHead
      <3>2. 3 \in 1..Len(J) /\ J[1] \in Letters /\ \A k \in 1..3 : J[k] \in Char \ {"-"}
        BY <1>6, <3>1, Words
      <3>3. SameHead(J, u, 3) /\ Last(u) # "-"
        BY <1>1, <3>2, WhittledText
      <3>4. QED  BY <2>1, <3>1, <3>3, Words DEF SameHead
    <2>2. ASSUME r.prefix = TG, NEW d \in Digits, r.suffix = <<d>>
          PROVE  u[1] = r.prefix[1] /\ Last(u) # "-" /\ Len(u) >= 3 /\ Last(u) = r.suffix[1]
      <3>1. J[1] = "t" /\ J[2] = "g" /\ 2 <= Len(J)
        BY <1>1, <2>2, Words DEF SameHead
      <3>2. 2 \in 1..Len(J) /\ J[1] \in Letters /\ \A k \in 1..2 : J[k] \in Char \ {"-"}
        BY <1>6, <3>1, Words
      <3>3. SameHead(J, u, 2) /\ Last(u) # "-"
        BY <1>1, <3>2, WhittledText
      <3>4. J # <<>> /\ Last(J) = d /\ d \in Char \ {"-"}
        BY <1>1, <2>2, Words
      <3>5. SameLast(J, u)
        BY <1>1, <3>2, <3>4, WhittledText
      <3>6. u[1] = "t" /\ u[2] = "g" /\ 2 <= Len(u) /\ Last(u) = d /\ Last(u) = u[Len(u)]
        BY <3>1, <3>3, <3>4, <3>5 DEF SameHead, SameLast, Last
      <3>7. Len(u) # 2
        BY <2>2, <3>6, Words
      <3>8. QED  BY <1>6, <2>2, <3>3, <3>6, <3>7, Words
    <2>3. QED  BY <2>1, <2>2, ResourceFields
  <1>8. QED  BY <1>2, <1>4, <1>5, <1>7

-----------------------------------------------------------------------------
(* Labels: what they are joined to tells them apart, but for hyphens.      *)

\* A hyphen between tidy texts leaves a tidy one.
LEMMA TidyHyphened ==
  ASSUME NEW a, NEW b, Tidy(a), Tidy(b)
  PROVE  Tidy(a \o <<"-">> \o b) /\ (a \o <<"-">> \o b)[1] = a[1]
  <1> DEFINE h == a \o <<"-">> \o b
  <1>1. a \in Seq(Char) /\ b \in Seq(Char) /\ "-" \in Char
    BY Words DEF Tidy
  <1>2. /\ h \in Seq(Char) /\ Len(h) = Len(a) + 1 + Len(b)
        /\ \A k \in 1..Len(a) : h[k] = a[k]
        /\ h[Len(a) + 1] = "-"
        /\ \A k \in 1..Len(b) : h[Len(a) + 1 + k] = b[k]
    BY <1>1, Hyphened
  <1> HIDE DEF h
  <1>3. /\ Len(a) \in Nat /\ Len(b) \in Nat /\ Len(a) >= 1 /\ Len(b) >= 1
        /\ Last(a) = a[Len(a)] /\ Last(b) = b[Len(b)]
    BY <1>1, Nonempty DEF Tidy
  <1>4. 1 \in 1..Len(a) /\ Len(a) \in 1..Len(a) /\ Len(b) \in 1..Len(b) /\ 1 \in 1..Len(b)
    BY <1>3
  <1>5. h[1] = a[1] /\ Last(h) = Last(b) /\ h # <<>>
    BY <1>2, <1>3, <1>4, Nonempty DEF Last
  <1>6. ASSUME NEW k \in 1..(Len(h) - 1), h[k] = "-", h[k + 1] = "-"
        PROVE  FALSE
    <2>1. CASE k < Len(a)
      <3>1. k \in 1..Len(a) /\ k + 1 \in 1..Len(a) /\ k \in 1..(Len(a) - 1)
        BY <1>3, <2>1
      <3>2. a[k] = "-" /\ a[k + 1] = "-"
        BY <1>2, <1>6, <3>1
      <3>3. QED  BY <3>1, <3>2 DEF Tidy, Apart
    <2>2. CASE k = Len(a)
      BY <1>2, <1>3, <1>4, <1>6, <2>2 DEF Tidy
    <2>3. CASE k = Len(a) + 1
      <3>1. h[Len(a) + 1 + 1] = b[1]
        BY <1>2, <1>4
      <3>2. QED  BY <1>6, <2>3, <3>1 DEF Tidy
    <2>4. CASE k > Len(a) + 1
      <3> DEFINE l == k - (Len(a) + 1)
      <3>1. l \in 1..Len(b) /\ l + 1 \in 1..Len(b) /\ l \in 1..(Len(b) - 1)
            /\ k = Len(a) + 1 + l /\ k + 1 = Len(a) + 1 + (l + 1)
        BY <1>2, <1>3, <2>4
      <3> HIDE DEF l
      <3>2. h[k] = b[l] /\ h[k + 1] = b[l + 1]
        BY <1>2, <3>1
      <3>3. QED  BY <1>6, <3>1, <3>2 DEF Tidy, Apart
    <2>5. QED  BY <1>3, <2>1, <2>2, <2>3, <2>4
  <1>7. QED  BY <1>2, <1>5, <1>6 DEF Tidy, Apart, h

\* Labels are tidy.
LEMMA LabelTidy ==
  ASSUME NEW w \in Namespaces \cup Services, Label(w)
  PROVE  Tidy(w)
  <1>1. w \in Seq(Range(w))
    BY WordAssumption
  <1>2. Len(w) \in Nat /\ DOMAIN w = 1..Len(w) /\ w # <<>>
    BY <1>1, Nonempty DEF Label
  <1>3. \A i \in 1..Len(w) : w[i] \in Char
    BY <1>2 DEF Label
  <1>4. w \in Seq(Char)
    BY <1>1, <1>3, SeqElements
  <1>5. Apart(w)
    <2>1. \A k \in 1..(Len(w) - 1) : k \in 1..Len(w) /\ k + 1 \in 1..Len(w)
      BY <1>2
    <2>2. QED  BY <1>2, <2>1 DEF Label, Apart
  <1>6. QED  BY <1>2, <1>4, <1>5 DEF Tidy, Label

\* Within a namespace, the full name tells the Services apart.
LEMMA SameNamespace ==
  ASSUME NEW ns \in Namespaces, NEW svc \in Services, NEW svc2 \in Services,
         Label(ns) \/ ns = Default, Label(svc), Label(svc2),
         FullName(ns, svc) = FullName(ns, svc2)
  PROVE  svc = svc2
  <1>1. svc \in Seq(Char) /\ svc2 \in Seq(Char)
    BY LabelTidy DEF Tidy
  <1>2. CASE ns = Default
    BY <1>2 DEF FullName
  <1>3. CASE ns # Default
    <2>1. ns \in Seq(Char) /\ <<"-">> \in Seq(Char)
      BY <1>3, LabelTidy, Words DEF Tidy
    <2>2. ns \o <<"-">> \in Seq(Char)
      BY <2>1, ConcatProperties
    <2>3. (ns \o <<"-">>) \o svc = (ns \o <<"-">>) \o svc2
      BY <1>3 DEF FullName
    <2>4. QED  BY <1>1, <2>2, <2>3, ConcatSimplifications
  <1>4. QED  BY <1>2, <1>3

\* Labels are joined as they are, and nothing is done to the text.
LEMMA JoinedLabels ==
  ASSUME NEW ns \in Namespaces, NEW svc \in Services, NEW r \in ResourcesOf(ns, svc),
         Label(ns) \/ ns = Default, Label(svc)
  PROVE  UncutOf(r) =
            IF r.suffix = <<>> THEN r.prefix \o <<"-">> \o FullName(ns, svc)
            ELSE r.prefix \o <<"-">> \o FullName(ns, svc) \o <<"-">> \o r.suffix
  <1> DEFINE p == r.prefix
             x == r.suffix
             n == IF ns = Default THEN <<>> ELSE ns
             a == JoinWith(p, n)
             b == JoinWith(a, svc)
             J == JoinWith(b, x)
             M == FullName(ns, svc)
  <1>1. Tidy(p) /\ p \in Seq(Char) /\ p # <<>> /\ p[1] \in Letters
    BY ResourceFields, Words DEF Tidy
  <1>2. Tidy(svc) /\ svc \in Seq(Char) /\ svc # <<>>
    BY LabelTidy DEF Tidy
  <1>3. ns # Default => Tidy(ns) /\ ns \in Seq(Char) /\ ns # <<>>
    BY LabelTidy DEF Tidy
  <1>4. x = <<>> \/ Tidy(x)
    <2>1. ASSUME NEW d \in Digits, x = <<d>>
          PROVE  Tidy(x)
      <3>1. d \in Char /\ d # "-"
        BY Words
      <3>2. QED  BY <2>1, <3>1 DEF Tidy, Apart, Last
    <2>2. QED  BY <2>1, ResourceFields
  <1>5. x \in Seq(Char) /\ "-" \in Char /\ <<"-">> \in Seq(Char)
    <2>1. x \in Seq(Char)
      BY <1>4, EmptySeq DEF Tidy
    <2>2. "-" \in Char
      BY Words
    <2>3. QED  BY <2>1, <2>2
  <1>6. Joined(r.prefix, r.ns, r.svc, r.suffix) = J
    BY ResourceFields DEF Joined
  <1> HIDE DEF p, x
  <1>7. b = p \o <<"-">> \o M /\ Tidy(b) /\ b[1] = p[1]
    <2>1. CASE ns = Default
      <3>1. n = <<>> /\ n \in Seq(Char)
        BY <2>1, EmptySeq
      <3>2. a = p
        BY <1>1, <1>5, <3>1, JoinWithText
      <3> HIDE DEF a
      <3>3. b = p \o <<"-">> \o svc
        BY <1>1, <1>2, <1>5, <3>2, JoinWithText
      <3>4. M = svc
        BY <2>1 DEF FullName
      <3> HIDE DEF b, M
      <3>5. QED  BY <1>1, <1>2, <3>3, <3>4, TidyHyphened
    <2>2. CASE ns # Default
      <3>1. n = ns /\ ns \in Seq(Char) /\ ns # <<>>
        BY <1>3, <2>2
      <3> HIDE DEF n
      <3>2. a = p \o <<"-">> \o ns
        BY <1>1, <1>5, <3>1, JoinWithText
      <3> HIDE DEF a
      <3>3. Tidy(a) /\ a[1] = p[1]
        BY <1>1, <1>3, <2>2, <3>2, TidyHyphened
      <3>4. b = a \o <<"-">> \o svc
        <4>1. a \in Seq(Char) /\ a # <<>>
          BY <3>3 DEF Tidy
        <4>2. QED  BY <1>2, <1>5, <4>1, JoinWithText
      <3> HIDE DEF b
      <3>5. Tidy(b) /\ b[1] = p[1]
        BY <1>2, <3>3, <3>4, TidyHyphened
      <3>6. b = (p \o <<"-">>) \o (ns \o <<"-">> \o svc)
        <4>1. p \o <<"-">> \in Seq(Char)
          BY <1>1, <1>5, ConcatProperties
        <4>2. ns \o (<<"-">> \o svc) = (ns \o <<"-">>) \o svc
          BY <1>2, <1>5, <3>1, ConcatAssociative
        <4>3. <<"-">> \o svc \in Seq(Char)
          BY <1>2, <1>5, ConcatProperties
        <4>4. ((p \o <<"-">>) \o ns) \o (<<"-">> \o svc)
                 = (p \o <<"-">>) \o (ns \o (<<"-">> \o svc))
          BY <3>1, <4>1, <4>3, ConcatAssociative
        <4>5. ((p \o <<"-">>) \o ns) \in Seq(Char)
          BY <3>1, <4>1, ConcatProperties
        <4>6. (((p \o <<"-">>) \o ns) \o <<"-">>) \o svc
                 = ((p \o <<"-">>) \o ns) \o (<<"-">> \o svc)
          BY <1>2, <1>5, <4>5, ConcatAssociative
        <4>7. QED  BY <3>2, <3>4, <4>2, <4>4, <4>6
      <3>7. M = ns \o <<"-">> \o svc
        BY <2>2 DEF FullName
      <3>8. QED  BY <3>5, <3>6, <3>7
    <2>3. QED  BY <2>1, <2>2
  <1> HIDE DEF b, M, a, n
  <1>8. Tidy(J) /\ J[1] = p[1]
        /\ J = IF x = <<>> THEN b ELSE b \o <<"-">> \o x
    <2>1. b \in Seq(Char) /\ b # <<>>
      BY <1>7 DEF Tidy
    <2>2. x = <<>> => J = b
      BY <1>5, <2>1, JoinWithText
    <2>3. x # <<>> => J = b \o <<"-">> \o x
      BY <1>5, <2>1, JoinWithText
    <2> HIDE DEF J
    <2>4. x # <<>> => Tidy(J) /\ J[1] = b[1]
      BY <1>4, <1>7, <2>3, TidyHyphened
    <2>5. QED  BY <1>7, <2>2, <2>3, <2>4
  <1>9. UncutOf(r) = Whittled(J)
    BY <1>6 DEF UncutOf, Uncut, Whittled
  <1> HIDE DEF J
  <1>10. Whittled(J) = J
    BY <1>1, <1>8, WhittledText DEF Tidy
  <1>11. QED  BY <1>7, <1>8, <1>9, <1>10 DEF p, x, M

\* The first character tells a load balancer from a target group, the last
\* one the ports apart.
LEMMA SameEnds ==
  ASSUME NEW ns \in Namespaces, NEW svc \in Services, NEW r \in ResourcesOf(ns, svc),
         NEW ns2 \in Namespaces, NEW svc2 \in Services, NEW q \in ResourcesOf(ns2, svc2),
         NEW name, name[1] = r.prefix[1], name[1] = q.prefix[1],
         r.suffix # <<>> => Last(name) = r.suffix[1],
         q.suffix # <<>> => Last(name) = q.suffix[1]
  PROVE  r.prefix = q.prefix /\ r.suffix = q.suffix
  <1>1. TG[1] # LB[1]
    BY DEF TG, LB
  <1>2. r.prefix = q.prefix
    <2>1. r.prefix \in {LB, TG} /\ q.prefix \in {LB, TG}
      BY ResourceFields
    <2>2. r.prefix[1] = q.prefix[1]
      OBVIOUS
    <2>3. QED  BY <1>1, <2>1, <2>2
  <1>3. CASE r.prefix = LB
    <2>1. r.suffix = <<>> /\ q.suffix = <<>>
      <3>1. r.prefix # TG /\ q.prefix # TG
        BY <1>1, <1>2, <1>3
      <3>2. QED  BY <3>1, ResourceFields
    <2>2. QED  BY <1>2, <2>1
  <1>4. CASE r.prefix # LB
    <2>1. PICK d \in Digits : r.suffix = <<d>>
      BY <1>4, ResourceFields
    <2>2. PICK e \in Digits : q.suffix = <<e>>
      BY <1>2, <1>4, ResourceFields
    <2>3. d = e
      BY <2>1, <2>2
    <2>4. QED  BY <1>2, <2>1, <2>2, <2>3
  <1>5. QED  BY <1>3, <1>4

\* What is between the same ends is the same.
LEMMA SameMiddle ==
  ASSUME NEW ns \in Namespaces, NEW svc \in Services, NEW r \in ResourcesOf(ns, svc),
         NEW ns2 \in Namespaces, NEW svc2 \in Services, NEW q \in ResourcesOf(ns2, svc2),
         Label(ns) \/ ns = Default, Label(svc),
         Label(ns2) \/ ns2 = Default, Label(svc2),
         r.prefix = q.prefix, r.suffix = q.suffix, UncutOf(r) = UncutOf(q)
  PROVE  FullName(ns, svc) = FullName(ns2, svc2)
  <1> DEFINE p == r.prefix \o <<"-">>
             x == <<"-">> \o r.suffix
             M == FullName(ns, svc)
             N == FullName(ns2, svc2)
  <1>1. /\ UncutOf(r) = IF r.suffix = <<>> THEN p \o M ELSE (p \o M) \o <<"-">> \o r.suffix
        /\ UncutOf(q) = IF r.suffix = <<>> THEN p \o N ELSE (p \o N) \o <<"-">> \o r.suffix
    BY JoinedLabels
  <1>2. r.prefix \in Seq(Char) /\ r.suffix \in Seq(Char) /\ <<"-">> \in Seq(Char)
    <2>1. r.prefix \in Seq(Char)
      BY ResourceFields, Words
    <2>2. ASSUME NEW d \in Digits, r.suffix = <<d>>  PROVE r.suffix \in Seq(Char)
      <3>1. d \in Char
        BY Words
      <3>2. QED  BY <2>2, <3>1
    <2>3. r.suffix \in Seq(Char)
      <3>1. r.suffix = <<>> \/ \E d \in Digits : r.suffix = <<d>>
        BY ResourceFields
      <3>2. <<>> \in Seq(Char)
        BY EmptySeq
      <3>3. QED  BY <2>2, <3>1, <3>2
    <2>4. "-" \in Char
      BY Words
    <2>5. QED  BY <2>1, <2>3, <2>4
  <1>3. M \in Seq(Char)
    <2>1. svc \in Seq(Char) /\ (ns # Default => ns \in Seq(Char))
      BY LabelTidy DEF Tidy
    <2>2. QED  BY <1>2, <2>1, ConcatProperties DEF FullName
  <1>4. N \in Seq(Char)
    <2>1. svc2 \in Seq(Char) /\ (ns2 # Default => ns2 \in Seq(Char))
      BY LabelTidy DEF Tidy
    <2>2. QED  BY <1>2, <2>1, ConcatProperties DEF FullName
  <1>5. p \in Seq(Char) /\ x \in Seq(Char)
    BY <1>2, ConcatProperties
  <1> HIDE DEF M, N, p
  <1>6. p \o M \in Seq(Char) /\ p \o N \in Seq(Char)
    BY <1>3, <1>4, <1>5, ConcatProperties
  <1>7. /\ (p \o M) \o <<"-">> \o r.suffix = (p \o M) \o x
        /\ (p \o N) \o <<"-">> \o r.suffix = (p \o N) \o x
    <2>1. \A s, t, u \in Seq(Char) : (s \o t) \o u = s \o (t \o u)
      BY ConcatAssociative
    <2>2. QED  BY <1>2, <1>6, <2>1, Zenon
  <1> HIDE DEF x
  <1>8. p \o M = p \o N
    <2>1. CASE r.suffix = <<>>
      BY <1>1, <2>1
    <2>2. CASE r.suffix # <<>>
      <3>1. (p \o M) \o x = (p \o N) \o x
        BY <1>1, <1>7, <2>2
      <3>2. QED  BY <1>5, <1>6, <3>1, ConcatSimplifications
    <2>3. QED  BY <2>1, <2>2
  <1>9. M = N
    BY <1>3, <1>4, <1>5, <1>8, ConcatSimplifications
  <1>10. QED  BY <1>9 DEF M, N

-----------------------------------------------------------------------------
(* Everything named got the name that is its own.                          *)

NamesInv ==
    \A g \in given : \E ns \in Namespaces, svc \in Services :
        \E r \in ResourcesOf(ns, svc) : g = [of |-> r, name |-> NameOf(r)]

\* The inductive invariant: every name given is its resource's.
LEMMA NamesInvariant == Spec => []NamesInv
  <1>1. Init => NamesInv
    BY DEF Init, NamesInv
  <1>2. NamesInv /\ [Next]_vars => NamesInv'
    <2> SUFFICES ASSUME NamesInv, [Next]_vars
                 PROVE  NamesInv'
      OBVIOUS
    <2>1. ASSUME NEW ns \in Namespaces, NEW svc \in Services, NameResources(ns, svc)
          PROVE  NamesInv'
      <3>1. given' = given \cup {[of |-> r, name |-> NameOf(r)] : r \in ResourcesOf(ns, svc)}
        BY <2>1 DEF NameResources
      <3>2. ASSUME NEW g \in given'
            PROVE  \E ms \in Namespaces, mvc \in Services :
                      \E r \in ResourcesOf(ms, mvc) : g = [of |-> r, name |-> NameOf(r)]
        <4>1. CASE g \in given
          BY <4>1 DEF NamesInv
        <4>2. CASE g \in {[of |-> r, name |-> NameOf(r)] : r \in ResourcesOf(ns, svc)}
          BY <4>2
        <4>3. QED  BY <3>1, <4>1, <4>2
      <3>3. QED  BY <3>2 DEF NamesInv
    <2>2. CASE UNCHANGED vars
      BY <2>2 DEF vars, NamesInv
    <2>3. QED  BY <2>1, <2>2 DEF Next
  <1>3. QED  BY <1>1, <1>2, PTL DEF Spec

\* What is known of one name that was given.
LEMMA GivenText ==
  ASSUME NamesInv, NEW g \in given
  PROVE  /\ g = [of |-> g.of, name |-> g.name] /\ g.name = NameOf(g.of)
         /\ g.of.ns \in Namespaces /\ g.of.svc \in Services
         /\ g.of \in ResourcesOf(g.of.ns, g.of.svc)
         /\ Whole(g) <=> Len(UncutOf(g.of)) <= MaxName
  <1>1. PICK ns \in Namespaces, svc \in Services :
           \E r \in ResourcesOf(ns, svc) : g = [of |-> r, name |-> NameOf(r)]
    BY DEF NamesInv
  <1>2. PICK r \in ResourcesOf(ns, svc) : g = [of |-> r, name |-> NameOf(r)]
    BY <1>1
  <1>3. g.of = r /\ g.name = NameOf(r) /\ r.ns = ns /\ r.svc = svc
    BY <1>2, ResourceFields
  <1>4. Whole(g) <=> Len(UncutOf(g.of)) <= MaxName
    BY DEF Whole, UncutOf
  <1>5. QED  BY <1>2, <1>3, <1>4

\* Every name consists of the characters allowed, whatever is in the texts it
\* is made from.
THEOREM TypeCorrect == Spec => []TypeOK
  <1>1. ASSUME NamesInv  PROVE TypeOK
    <2>1. ASSUME NEW g \in given  PROVE g \in [of : Resource, name : Seq(Char)]
      <3>1. g = [of |-> g.of, name |-> g.name]
        BY <1>1, GivenText
      <3>2. g.name \in Seq(Char) /\ g.of \in Resource
        BY <1>1, GivenText, NameText, ResourceFields
      <3>3. QED  BY <3>1, <3>2, Zenon
    <2>2. QED  BY <2>1 DEF TypeOK
  <1>2. QED  BY <1>1, NamesInvariant, PTL

\* Every name keeps the rules of generateValidName's comment: its last steps
\* do not undo what its first ones did.
THEOREM NamesAreValid == Spec => []ValidNames
  <1>1. NamesInv => ValidNames
    BY GivenText, NameText DEF ValidNames
  <1>2. QED  BY <1>1, NamesInvariant, PTL

\* The load balancer and the target groups of one Service all have names of
\* their own, if none was cut.
THEOREM PortsHaveNames == Spec => []PortsApart
  <1>1. ASSUME NamesInv  PROVE PortsApart
    <2> SUFFICES ASSUME NEW g \in given, NEW h \in given,
                        g.of # h.of, g.name = h.name,
                        g.of.ns = h.of.ns, g.of.svc = h.of.svc,
                        Whole(g), Whole(h)
                 PROVE  FALSE
      BY DEF PortsApart
    <2>1. /\ g.name[1] = g.of.prefix[1]
          /\ g.of.suffix # <<>> => Last(g.name) = g.of.suffix[1]
      BY <1>1, GivenText, NameText
    <2>2. /\ h.name[1] = h.of.prefix[1]
          /\ h.of.suffix # <<>> => Last(h.name) = h.of.suffix[1]
      BY <1>1, GivenText, NameText
    <2>3. g.of.prefix = h.of.prefix /\ g.of.suffix = h.of.suffix
      BY <1>1, <2>1, <2>2, GivenText, SameEnds
    <2>4. QED  BY <1>1, <2>3, GivenText, ResourceFields DEF Resource
  <1>2. QED  BY <1>1, NamesInvariant, PTL

\* Services share no name that was not cut, neither for their load balancers nor
\* for the target groups of any two ports, unless they are of two namespaces
\* and their full names read the same.
THEOREM ServicesHaveNames == Spec => []ServicesApart
  <1>1. ASSUME NamesInv  PROVE ServicesApart
    <2> SUFFICES ASSUME NEW g \in given, NEW h \in given,
                        g.of # h.of, g.name = h.name,
                        \A r \in {g.of, h.of} :
                           (Label(r.ns) \/ r.ns = Default) /\ Label(r.svc),
                        Whole(g), Whole(h)
                 PROVE  /\ g.of.ns # h.of.ns
                        /\ FullName(g.of.ns, g.of.svc) = FullName(h.of.ns, h.of.svc)
      BY DEF ServicesApart
    <2>1. /\ g.name[1] = g.of.prefix[1]
          /\ g.of.suffix # <<>> => Last(g.name) = g.of.suffix[1]
          /\ g.name = UncutOf(g.of)
      BY <1>1, GivenText, NameText
    <2>2. /\ h.name[1] = h.of.prefix[1]
          /\ h.of.suffix # <<>> => Last(h.name) = h.of.suffix[1]
          /\ h.name = UncutOf(h.of)
      BY <1>1, GivenText, NameText
    <2>3. g.of.prefix = h.of.prefix /\ g.of.suffix = h.of.suffix
      BY <1>1, <2>1, <2>2, GivenText, SameEnds
    <2>4. FullName(g.of.ns, g.of.svc) = FullName(h.of.ns, h.of.svc)
      <3>1. /\ g.of.ns \in Namespaces /\ g.of.svc \in Services
            /\ g.of \in ResourcesOf(g.of.ns, g.of.svc)
            /\ h.of.ns \in Namespaces /\ h.of.svc \in Services
            /\ h.of \in ResourcesOf(h.of.ns, h.of.svc)
        BY <1>1, GivenText
      <3>2. UncutOf(g.of) = UncutOf(h.of)
        BY <2>1, <2>2
      <3>3. /\ Label(g.of.ns) \/ g.of.ns = Default
            /\ Label(h.of.ns) \/ h.of.ns = Default
            /\ Label(g.of.svc) /\ Label(h.of.svc)
        OBVIOUS
      <3>4. QED  BY <2>3, <3>1, <3>2, <3>3, SameMiddle
    <2>5. g.of.ns # h.of.ns
      <3> SUFFICES ASSUME g.of.ns = h.of.ns  PROVE FALSE
        OBVIOUS
      <3>1. g.of.svc = h.of.svc
        BY <1>1, <2>4, GivenText, SameNamespace
      <3>2. QED  BY <1>1, <2>3, <3>1, GivenText, ResourceFields DEF Resource
    <2>6. QED  BY <2>4, <2>5
  <1>2. QED  BY <1>1, NamesInvariant, PTL

\* The exception is real, whatever the bound: where the full names of two
\* Services read the same, so do the names of their load balancers and of the
\* target groups of their ports, cut or not.
THEOREM HyphensShareNames ==
  ASSUME NEW ns \in Namespaces, NEW svc \in Services, NEW r \in ResourcesOf(ns, svc),
         NEW ns2 \in Namespaces, NEW svc2 \in Services, NEW q \in ResourcesOf(ns2, svc2),
         Label(ns) \/ ns = Default, Label(svc),
         Label(ns2) \/ ns2 = Default, Label(svc2),
         r.prefix = q.prefix, r.suffix = q.suffix,
         FullName(ns, svc) = FullName(ns2, svc2)
  PROVE  NameOf(r) = NameOf(q)
  <1>1. UncutOf(r) =
           IF r.suffix = <<>> THEN r.prefix \o <<"-">> \o FullName(ns, svc)
           ELSE r.prefix \o <<"-">> \o FullName(ns, svc) \o <<"-">> \o r.suffix
    BY JoinedLabels
  <1>2. UncutOf(q) =
           IF q.suffix = <<>> THEN q.prefix \o <<"-">> \o FullName(ns2, svc2)
           ELSE q.prefix \o <<"-">> \o FullName(ns2, svc2) \o <<"-">> \o q.suffix
    BY JoinedLabels
  <1>3. UncutOf(r) = UncutOf(q)
    <2> DEFINE text(p, x, f) == IF x = <<>> THEN p \o <<"-">> \o f
                                ELSE p \o <<"-">> \o f \o <<"-">> \o x
    <2>1. /\ UncutOf(r) = text(r.prefix, r.suffix, FullName(ns, svc))
          /\ UncutOf(q) = text(q.prefix, q.suffix, FullName(ns2, svc2))
      BY <1>1, <1>2
    <2> HIDE DEF text
    <2>2. QED  BY <2>1
  <1>4. QED  BY <1>3 DEF NameOf, generateValidName, UncutOf
=============================================================================
