----------------------------- MODULE ComposerProofs -----------------------------
(***************************************************************************)
(* Theorems about the composer, for any text and any lengths.              *)
(*                                                                         *)
(* What recursion and counting compute is shown by induction in the form   *)
(* the provers can use, over a set of numbers and not over a formula: a    *)
(* set of naturals has a least element (LeastNumber), hence one that has 0 *)
(* and every successor has them all (AllNumbers).                          *)
(***************************************************************************)
EXTENDS Composer, FiniteSetTheorems, TLAPS

--------------------------------------------------------------------------------
(* Numbers                                                                 *)

LEMMA LeastNumber ==
    ASSUME NEW S, S \subseteq Nat, S # {}
    PROVE  \E n \in S : \A k \in S : n <= k
<1> DEFINE R == OpToRel(<, Nat)
<1>1. \A m, n \in Nat : m < n => <<m, n>> \in R
  BY DEF OpToRel
<1>2. IsWellFoundedOn(R, Nat)
  BY NatLessThanWellFounded
<1> HIDE DEF R
<1>3. PICK n \in S : \A k \in S : ~(<<k, n>> \in R)
  BY <1>2, WFMin
<1>4. \A k \in S : k \in Nat /\ n \in Nat /\ ~(k < n)
  BY <1>1, <1>3
<1> QED
  BY <1>3, <1>4

LEMMA AllNumbers ==
    ASSUME NEW S, 0 \in S, \A n \in Nat : n \in S => n + 1 \in S
    PROVE  Nat \subseteq S
<1>1. SUFFICES ASSUME Nat \ S # {} PROVE FALSE
  OBVIOUS
<1>2. PICK n \in Nat \ S : \A k \in Nat \ S : n <= k
  BY <1>1, LeastNumber
<1>3. n - 1 \in Nat /\ n - 1 \in S
  BY <1>2
<1> QED
  BY <1>2, <1>3

(* Min() and Max() do what they are named for.                             *)
LEMMA MinIsLeast ==
    ASSUME NEW S, S \subseteq Nat, S # {}
    PROVE  Min(S) \in S /\ \A k \in S : Min(S) <= k
BY LeastNumber DEF Min

LEMMA MaxIsGreatest ==
    ASSUME NEW S, S \subseteq Nat, S # {}, NEW bound \in Nat, \A k \in S : k <= bound
    PROVE  Max(S) \in S /\ \A k \in S : k <= Max(S)
<1> DEFINE B == {b \in Nat : \A k \in S : k <= b}
<1>1. PICK b \in B : \A c \in B : b <= c
  <2>1. B \subseteq Nat /\ B # {}
    OBVIOUS
  <2> HIDE DEF B
  <2> QED
    BY <2>1, LeastNumber
<1>2. b \in S
  <2>1. SUFFICES ASSUME b \notin S PROVE FALSE
    OBVIOUS
  <2>2. \A k \in S : k \in Nat /\ k < b
    BY <1>1, <2>1
  <2>3. b - 1 \in Nat /\ \A k \in S : k <= b - 1
    <3>1. PICK k \in S : k \in Nat /\ k < b
      BY <2>2
    <3>2. b \in Nat
      BY <1>1
    <3> QED
      BY <2>2, <3>1, <3>2
  <2>4. b - 1 \in B /\ b \in Nat
    BY <1>1, <2>3
  <2>5. b <= b - 1
    BY <1>1, <2>4
  <2> QED
    BY <2>4, <2>5
<1>3. \E n \in S : \A k \in S : n >= k
  BY <1>1, <1>2
<1>4. Max(S) \in S /\ \A k \in S : Max(S) >= k
  BY <1>3 DEF Max
<1> QED
  BY <1>4

--------------------------------------------------------------------------------
(* Counting                                                                *)

\* The nth of the places.
Nth(places, n) == CHOOSE i \in places : Cardinality(places \cap 1..i) = n

LEMMA PlacesFinite ==
    ASSUME NEW N \in Nat, NEW places \in SUBSET (1..N)
    PROVE  /\ IsFiniteSet(places) /\ Cardinality(places) \in Nat
           /\ \A i \in Nat : /\ IsFiniteSet(places \cap 1..i)
                             /\ Cardinality(places \cap 1..i) \in Nat
                             /\ Cardinality(places \cap 1..i) <= Cardinality(places)
<1>1. IsFiniteSet(places)
  <2>1. IsFiniteSet(1..N)
    BY FS_Interval
  <2> QED
    BY <2>1, FS_Subset
<1>2. ASSUME NEW i \in Nat
      PROVE  /\ IsFiniteSet(places \cap 1..i)
             /\ Cardinality(places \cap 1..i) \in Nat
             /\ Cardinality(places \cap 1..i) <= Cardinality(places)
  <2>1. places \cap 1..i \in SUBSET places
    OBVIOUS
  <2> QED
    BY <1>1, <2>1, FS_Subset, FS_CardinalityType
<1> QED
  BY <1>1, <1>2, FS_CardinalityType

(* Counting the places finds one for every number.                         *)
LEMMA NthPlace ==
    ASSUME NEW N \in Nat, NEW places \in SUBSET (1..N), NEW n \in 1..Cardinality(places)
    PROVE  Nth(places, n) \in places /\ Cardinality(places \cap 1..Nth(places, n)) = n
<1> DEFINE count(i) == Cardinality(places \cap 1..i)
           S == {i \in Nat : count(i) >= n}
<1>1. Cardinality(places) \in Nat /\ \A i \in Nat : count(i) \in Nat
  BY PlacesFinite
<1>2. N \in S
  <2>1. places \cap 1..N = places
    OBVIOUS
  <2> QED
    BY <1>1, <2>1
<1>3. PICK i \in S : \A k \in S : i <= k
  <2>1. S \subseteq Nat /\ S # {}
    BY <1>2
  <2> HIDE DEF S
  <2> QED
    BY <2>1, LeastNumber
<1>4. i # 0
  <2>1. places \cap 1..0 = {}
    OBVIOUS
  <2>2. count(0) = 0
    BY <2>1, FS_EmptySet
  <2> QED
    BY <1>3, <2>2
<1>5. i - 1 \in Nat /\ i \in Nat /\ count(i) >= n /\ count(i - 1) < n
  <2>1. i - 1 \in Nat /\ i \in Nat /\ i - 1 \notin S
    BY <1>3, <1>4
  <2> QED
    BY <1>1, <1>3, <2>1
<1>6. i \in places
  <2>1. SUFFICES ASSUME i \notin places PROVE FALSE
    OBVIOUS
  <2>2. places \cap 1..i = places \cap 1..(i - 1)
    BY <1>5, <2>1
  <2> QED
    BY <1>1, <1>5, <2>2
<1>7. count(i) = count(i - 1) + 1
  <2>1. places \cap 1..i = (places \cap 1..(i - 1)) \cup {i} /\ i \notin places \cap 1..(i - 1)
    BY <1>5, <1>6
  <2> QED
    BY <1>5, <2>1, PlacesFinite, FS_AddElement
<1>8. count(i) = n
  BY <1>1, <1>5, <1>7
<1> QED
  BY <1>6, <1>8 DEF Nth

--------------------------------------------------------------------------------
(* Length                                                                  *)

LEMMA LineType ==
    ASSUME NEW text \in Seq(Lines), NEW i \in DOMAIN text
    PROVE  /\ text[i] \in Lines /\ text[i].length \in Nat
           /\ text[i].option \in BOOLEAN /\ text[i].claim \in BOOLEAN
           /\ text[i].opens \in BOOLEAN /\ text[i].closes \in BOOLEAN
<1>1. text[i] \in Lines
  OBVIOUS
<1> QED
  BY <1>1 DEF Lines

\* The function by which Offset() counts.
Before(text) ==
    CHOOSE before : before =
        [n \in 0..Len(text) |-> IF n = 0 THEN 0 ELSE before[n - 1] + text[n].length + 1]

\* It is there, whatever the text.
LEMMA BeforeExists ==
    ASSUME NEW text \in Seq(Lines)
    PROVE  \E before : before =
               [n \in 0..Len(text) |-> IF n = 0 THEN 0
                                       ELSE before[n - 1] + text[n].length + 1]
<1> DEFINE Counts(before, k) ==
               before = [n \in 0..k |-> IF n = 0 THEN 0
                                        ELSE before[n - 1] + text[n].length + 1]
           S == {k \in Nat : k <= Len(text) => \E before : Counts(before, k)}
<1>1. Nat \subseteq S
  <2>1. 0 \in S
    <3>1. Counts([n \in 0..0 |-> 0], 0)
      OBVIOUS
    <3> QED
      BY <3>1
  <2>2. ASSUME NEW k \in Nat, k \in S PROVE k + 1 \in S
    <3>1. SUFFICES ASSUME k + 1 <= Len(text) PROVE \E after : Counts(after, k + 1)
      OBVIOUS
    <3>2. PICK before : Counts(before, k)
      BY <2>2, <3>1
    <3> DEFINE after == [n \in 0..(k + 1) |-> IF n = k + 1
                            THEN before[k] + text[k + 1].length + 1 ELSE before[n]]
    <3>3. ASSUME NEW n \in 0..(k + 1)
          PROVE  after[n] = IF n = 0 THEN 0 ELSE after[n - 1] + text[n].length + 1
      <4>1. CASE n = k + 1
        BY <4>1
      <4>2. CASE n # k + 1
        <5>1. n \in 0..k /\ (n # 0 => n - 1 \in 0..k)
          BY <4>2
        <5>2. before[n] = IF n = 0 THEN 0 ELSE before[n - 1] + text[n].length + 1
          BY <3>2, <5>1
        <5> QED
          BY <5>1, <5>2
      <4> QED
        BY <4>1, <4>2
    <3>4. Counts(after, k + 1)
      BY <3>3
    <3> QED
      BY <3>4
  <2> HIDE DEF S
  <2> QED
    BY <2>1, <2>2, AllNumbers
<1>2. Len(text) \in S
  BY <1>1
<1> QED
  BY <1>2

LEMMA BeforeCounts ==
    ASSUME NEW text \in Seq(Lines)
    PROVE  \A n \in 0..Len(text) :
               Before(text)[n] = IF n = 0 THEN 0
                                 ELSE Before(text)[n - 1] + text[n].length + 1
<1>1. Before(text) =
          [n \in 0..Len(text) |-> IF n = 0 THEN 0
                                  ELSE Before(text)[n - 1] + text[n].length + 1]
  BY BeforeExists DEF Before
<1> HIDE DEF Before
<1> QED
  BY <1>1

(* Where a line begins (len() of what the lines before it are joined to).  *)
LEMMA OffsetCounts ==
    ASSUME NEW text \in Seq(Lines)
    PROVE  /\ Offset(text, 1) = 0
           /\ \A i \in 1..Len(text) :
                 /\ Offset(text, i) \in Nat
                 /\ Offset(text, i + 1) = Offset(text, i) + text[i].length + 1
<1>1. \A i : Offset(text, i) = Before(text)[i - 1]
  BY DEF Offset, Before
<1> DEFINE S == {n \in Nat : n <= Len(text) => Before(text)[n] \in Nat}
<1>2. Nat \subseteq S
  <2>1. 0 \in S
    BY BeforeCounts
  <2>2. ASSUME NEW n \in Nat, n \in S PROVE n + 1 \in S
    <3>1. SUFFICES ASSUME n + 1 <= Len(text) PROVE Before(text)[n + 1] \in Nat
      OBVIOUS
    <3>2. n + 1 \in 0..Len(text) /\ n + 1 # 0 /\ (n + 1) - 1 = n /\ n + 1 \in DOMAIN text
      BY <3>1
    <3>3. Before(text)[n + 1] = Before(text)[n] + text[n + 1].length + 1
      BY <3>2, BeforeCounts
    <3>4. Before(text)[n] \in Nat
      BY <2>2, <3>1
    <3>5. text[n + 1].length \in Nat
      BY <3>2, LineType
    <3> QED
      BY <3>3, <3>4, <3>5
  <2> HIDE DEF S
  <2> QED
    BY <2>1, <2>2, AllNumbers
<1>3. Offset(text, 1) = 0
  BY <1>1, BeforeCounts
<1>4. ASSUME NEW i \in 1..Len(text)
      PROVE  /\ Offset(text, i) \in Nat
             /\ Offset(text, i + 1) = Offset(text, i) + text[i].length + 1
  <2>1. i - 1 \in Nat /\ i - 1 \in S
    BY <1>2
  <2>2. (i + 1) - 1 = i /\ i \in 0..Len(text) /\ i # 0
    OBVIOUS
  <2>3. Before(text)[i] = Before(text)[i - 1] + text[i].length + 1
    BY <2>2, BeforeCounts
  <2> QED
    BY <1>1, <2>1, <2>2, <2>3
<1> QED
  BY <1>3, <1>4

(* Where a line begins depends on the lines before it, and on no other.    *)
LEMMA OffsetLooksBack ==
    ASSUME NEW text \in Seq(Lines), NEW other \in Seq(Lines), NEW last \in Nat \ {0},
           last <= Len(text), last <= Len(other),
           \A i \in 1..(last - 1) : other[i].length = text[i].length
    PROVE  Offset(other, last) = Offset(text, last)
<1> DEFINE S == {n \in Nat : n + 1 <= last => Offset(other, n + 1) = Offset(text, n + 1)}
<1>1. 0 \in S
  BY OffsetCounts
<1>2. ASSUME NEW n \in Nat, n \in S PROVE n + 1 \in S
  <2>1. SUFFICES ASSUME n + 2 <= last
                 PROVE  Offset(other, n + 2) = Offset(text, n + 2)
    OBVIOUS
  <2>2. n + 1 \in 1..Len(text) /\ n + 1 \in 1..Len(other) /\ n + 1 \in 1..(last - 1)
    BY <2>1
  <2>3. Offset(other, n + 1) = Offset(text, n + 1)
    BY <1>2, <2>1
  <2>4. /\ Offset(text, (n + 1) + 1) = Offset(text, n + 1) + text[n + 1].length + 1
        /\ Offset(other, (n + 1) + 1) = Offset(other, n + 1) + other[n + 1].length + 1
    BY <2>2, OffsetCounts
  <2>5. (n + 1) + 1 = n + 2
    OBVIOUS
  <2> QED
    BY <2>2, <2>3, <2>4, <2>5
<1>3. Nat \subseteq S
  <2> HIDE DEF S
  <2> QED
    BY <1>1, <1>2, AllNumbers
<1>4. last - 1 \in S /\ (last - 1) + 1 = last
  BY <1>3
<1> QED
  BY <1>4

--------------------------------------------------------------------------------
(* Options and claims                                                      *)

LEMMA OptionsFinite ==
    ASSUME NEW text \in Seq(Lines)
    PROVE  /\ Options(text) \in SUBSET (1..Len(text)) /\ Len(text) \in Nat
           /\ IsFiniteSet(Options(text)) /\ Cardinality(Options(text)) \in Nat
<1>1. Options(text) \in SUBSET (1..Len(text)) /\ Len(text) \in Nat
  BY DEF Options
<1> QED
  BY <1>1, PlacesFinite

\* With the lines in gone taken out, a phrase runs over lines.
Joins(text, gone) ==
    \E i, j \in DOMAIN text \ gone : JoinedWithout(text, gone, i, j)

LEMMA ClaimForms ==
    ASSUME NEW text
    PROVE  /\ ClaimsBooking(text) <=>
                  \/ \E i \in DOMAIN text : text[i].claim
                  \/ Joins(text, {})
           /\ ClaimsOnceLimited(text) <=> Joins(text, Dropped(text))
BY DEF ClaimsBooking, ClaimsOnceLimited, Joins

\* What is left of a text has no more options than it, and no new claim.
Less(other, text) ==
    /\ other \in Seq(Lines)
    /\ Cardinality(Options(other)) <= Cardinality(Options(text))
    /\ ~ClaimsBooking(text) => ~ClaimsBooking(other)

LEMMA LessIsTransitive ==
    ASSUME NEW text \in Seq(Lines), NEW other, NEW third, Less(other, text),
           Less(third, other)
    PROVE  Less(third, text)
<1>1. other \in Seq(Lines) /\ third \in Seq(Lines)
  BY DEF Less
<1>2. /\ Cardinality(Options(text)) \in Nat /\ Cardinality(Options(other)) \in Nat
      /\ Cardinality(Options(third)) \in Nat
  BY <1>1, OptionsFinite
<1> QED
  BY <1>2 DEF Less

LEMMA SubSeqIsLess ==
    ASSUME NEW text \in Seq(Lines), NEW m \in 1..Len(text), NEW n \in m..Len(text)
    PROVE  Less(SubSeq(text, m, n), text) /\ Len(SubSeq(text, m, n)) = n - m + 1
<1> DEFINE part == SubSeq(text, m, n)
<1>1. /\ part \in Seq(Lines) /\ Len(part) = n - m + 1
      /\ \A i \in 1..Len(part) : part[i] = text[i + m - 1] /\ i + m - 1 \in 1..Len(text)
  OBVIOUS
<1> HIDE DEF part
<1>2. Cardinality(Options(part)) <= Cardinality(Options(text))
  <2> DEFINE f == [i \in Options(part) |-> i + m - 1]
  <2>1. f \in [Options(part) -> Options(text)]
    BY <1>1 DEF Options
  <2>2. \A i, j \in Options(part) : f[i] = f[j] => i = j
    BY <1>1 DEF Options
  <2>3. f \in Injection(Options(part), Options(text))
    BY <2>1, <2>2 DEF Injection, IsInjective
  <2> QED
    BY <2>3, FS_Injection, OptionsFinite
<1>3. ~ClaimsBooking(text) => ~ClaimsBooking(part)
  <2>1. ASSUME NEW i \in DOMAIN part, part[i].claim PROVE ClaimsBooking(text)
    <3>1. i + m - 1 \in DOMAIN text /\ text[i + m - 1].claim
      BY <1>1, <2>1
    <3> QED
      BY <3>1 DEF ClaimsBooking
  <2>2. ASSUME NEW i \in DOMAIN part, NEW j \in DOMAIN part, JoinedWithout(part, {}, i, j)
        PROVE  ClaimsBooking(text)
    <3>1. /\ i \in 1..Len(part) /\ j \in 1..Len(part) /\ i < j
          /\ part[i].opens /\ part[j].closes
          /\ \A k \in (i + 1)..(j - 1) : part[k].length = 0
      BY <1>1, <2>2 DEF JoinedWithout
    <3>2. /\ m \in Nat /\ Len(part) \in Nat /\ i \in Nat /\ j \in Nat
          /\ DOMAIN text = 1..Len(text)
      BY <1>1, <3>1
    <3> DEFINE lo == i + m - 1
               hi == j + m - 1
    <3>3. lo \in Int /\ hi \in Int /\ lo < hi
      BY <3>1, <3>2
    <3>4. lo \in DOMAIN text /\ text[lo].opens /\ hi \in DOMAIN text /\ text[hi].closes
      <4>1. part[i] = text[lo] /\ lo \in 1..Len(text)
        BY <1>1, <3>1
      <4>2. part[j] = text[hi] /\ hi \in 1..Len(text)
        BY <1>1, <3>1
      <4> HIDE DEF lo, hi
      <4> QED
        BY <3>1, <3>2, <4>1, <4>2
    <3>5. ASSUME NEW k \in (lo + 1)..(hi - 1) PROVE text[k].length = 0
      <4>1. k \in Int /\ lo < k /\ k < hi
        BY <3>3
      <4>2. /\ k - m + 1 \in (i + 1)..(j - 1) /\ k - m + 1 \in 1..Len(part)
            /\ (k - m + 1) + m - 1 = k
        BY <3>1, <3>2, <4>1
      <4>3. part[k - m + 1] = text[k]
        BY <1>1, <4>2
      <4> QED
        BY <3>1, <4>2, <4>3
    <3> HIDE DEF lo, hi
    <3>6. JoinedWithout(text, {}, lo, hi)
      BY <3>3, <3>4, <3>5 DEF JoinedWithout
    <3> QED
      BY <3>4, <3>6 DEF ClaimsBooking
  <2> QED
    BY <2>1, <2>2 DEF ClaimsBooking
<1> QED
  BY <1>1, <1>2, <1>3 DEF Less, part

LEMMA BlankIsLess ==
    ASSUME NEW text \in Seq(Lines)
    PROVE  Less(<<Blank>>, text) /\ <<Blank>> \in Lined
<1>1. Blank \in Lines /\ <<Blank>> \in Lined
  BY DEF Blank, Lines, Lined
<1>2. Options(<<Blank>>) = {} /\ ~ClaimsBooking(<<Blank>>)
  BY DEF Options, ClaimsBooking, JoinedWithout, Blank
<1>3. Cardinality(Options(<<Blank>>)) = 0
  BY <1>2, FS_EmptySet
<1>4. 0 <= Cardinality(Options(text))
  BY OptionsFinite
<1> QED
  BY <1>1, <1>2, <1>3, <1>4 DEF Less, Lined

(* str.strip() leaves a line, and what it leaves was there.                *)
LEMMA StripIsLess ==
    ASSUME NEW text \in Seq(Lines)
    PROVE  Strip(text) \in Lined /\ Less(Strip(text), text)
<1> DEFINE full == {i \in DOMAIN text : text[i].length > 0}
<1>1. CASE full = {}
  <2>1. Strip(text) = <<Blank>>
    BY <1>1 DEF Strip
  <2> QED
    BY <2>1, BlankIsLess
<1>2. CASE full # {}
  <2>1. Strip(text) = SubSeq(text, Min(full), Max(full))
    BY <1>2 DEF Strip
  <2>2. full \subseteq 1..Len(text) /\ full \subseteq Nat /\ Len(text) \in Nat
        /\ \A k \in full : k <= Len(text)
    OBVIOUS
  <2> HIDE DEF full
  <2>3. /\ Min(full) \in full /\ \A k \in full : Min(full) <= k
        /\ Max(full) \in full
    BY <1>2, <2>2, MinIsLeast, MaxIsGreatest
  <2>4. Min(full) \in 1..Len(text) /\ Max(full) \in Min(full)..Len(text)
    <3>1. \A lo, hi : lo \in full /\ hi \in full /\ lo <= hi =>
              lo \in 1..Len(text) /\ hi \in lo..Len(text)
      BY <2>2
    <3> QED
      BY <2>3, <3>1
  <2>5. /\ Less(Strip(text), text)
        /\ Len(Strip(text)) = Max(full) - Min(full) + 1
    BY <2>1, <2>4, SubSeqIsLess
  <2>6. Strip(text) # <<>>
    BY <2>4, <2>5
  <2> QED
    BY <2>5, <2>6 DEF Less, Lined
<1> QED
  BY <1>1, <1>2

(* The places come in order, and none is passed over.                      *)
LEMMA PlacesInOrder ==
    ASSUME NEW N \in Nat, NEW places \in SUBSET (1..N),
           NEW m \in 1..Cardinality(places), NEW n \in 1..Cardinality(places), m < n
    PROVE  /\ Nth(places, m) < Nth(places, n)
           /\ \A i \in places : Nth(places, m) < i /\ i < Nth(places, n) =>
                 \E k \in (m + 1)..(n - 1) : Nth(places, k) = i
<1> DEFINE count(i) == Cardinality(places \cap 1..i)
<1>1. /\ Cardinality(places) \in Nat
      /\ \A i \in Nat : IsFiniteSet(places \cap 1..i) /\ count(i) \in Nat
                       /\ count(i) <= Cardinality(places)
  BY PlacesFinite
<1>2. \A k \in 1..Cardinality(places) :
          Nth(places, k) \in places /\ Nth(places, k) \in Nat /\ count(Nth(places, k)) = k
  <2>1. ASSUME NEW k \in 1..Cardinality(places)
        PROVE  Nth(places, k) \in places /\ count(Nth(places, k)) = k
    BY NthPlace
  <2>2. \A i \in places : i \in Nat
    OBVIOUS
  <2> HIDE DEF count
  <2> QED
    BY <2>1, <2>2
<1>3. ASSUME NEW i \in Nat, NEW j \in Nat, i <= j PROVE count(i) <= count(j)
  <2>1. places \cap 1..i \in SUBSET (places \cap 1..j)
    BY <1>3
  <2> QED
    BY <1>1, <2>1, FS_Subset
<1>4. ASSUME NEW i \in places, NEW j \in places, i < j PROVE count(i) < count(j)
  <2>1. i \in Nat /\ j \in Nat /\ j - 1 \in Nat /\ i <= j - 1
    BY <1>4
  <2>2. places \cap 1..j = (places \cap 1..(j - 1)) \cup {j} /\ j \notin places \cap 1..(j - 1)
    BY <2>1
  <2>3. count(j) = count(j - 1) + 1
    BY <1>1, <2>1, <2>2, FS_AddElement
  <2>4. count(i) <= count(j - 1)
    BY <1>3, <2>1
  <2>5. count(i) \in Nat /\ count(j - 1) \in Nat
    BY <1>1, <2>1
  <2> HIDE DEF count
  <2> QED
    BY <2>3, <2>4, <2>5
<1> HIDE DEF count
<1>5. Nth(places, m) < Nth(places, n)
  <2>1. SUFFICES ASSUME Nth(places, n) <= Nth(places, m) PROVE FALSE
    BY <1>2
  <2>2. n <= m
    BY <1>2, <1>3, <2>1
  <2> QED
    BY <1>1, <2>2
<1>6. ASSUME NEW i \in places, Nth(places, m) < i, i < Nth(places, n)
      PROVE  \E k \in (m + 1)..(n - 1) : Nth(places, k) = i
  <2>1. i \in Nat /\ count(i) \in Nat /\ m < count(i) /\ count(i) < n
    <3>1. i \in Nat /\ count(i) \in Nat
      <4>1. i \in Nat
        OBVIOUS
      <4> QED
        BY <1>1, <4>1
    <3>2. count(Nth(places, m)) < count(i) /\ count(i) < count(Nth(places, n))
      BY <1>2, <1>4, <1>6
    <3> QED
      BY <1>2, <3>1, <3>2
  <2>2. count(i) \in (m + 1)..(n - 1) /\ count(i) \in 1..Cardinality(places)
    BY <1>1, <2>1
  <2>3. Nth(places, count(i)) = i
    <3> DEFINE j == Nth(places, count(i))
    <3>1. j \in places /\ j \in Nat /\ count(j) = count(i)
      BY <1>2, <2>2
    <3> HIDE DEF j
    <3>2. ~(j < i) /\ ~(i < j)
      BY <1>4, <2>1, <3>1
    <3>3. j = i
      BY <2>1, <3>1, <3>2
    <3> QED
      BY <3>3 DEF j
  <2> QED
    BY <2>2, <2>3
<1> QED
  BY <1>5, <1>6

(* Lines taken out of a text: each was there, options stay distinct, and a *)
(* claim they make is made on a line of the text, or across the lines that *)
(* are left out.                                                           *)
LEMMA LinesAtPlaces ==
    ASSUME NEW text \in Seq(Lines), NEW places \in SUBSET (DOMAIN text)
    PROVE  /\ LinesAt(text, places) \in Seq(Lines)
           /\ ~ClaimsBooking(text) /\ ~Joins(text, DOMAIN text \ places) =>
                 ~ClaimsBooking(LinesAt(text, places))
           /\ Cardinality(Options(LinesAt(text, places)))
                  <= Cardinality(Options(text) \cap places)
<1> DEFINE count == Cardinality(places)
           taken == LinesAt(text, places)
<1>1. Len(text) \in Nat /\ places \in SUBSET (1..Len(text)) /\ count \in Nat
  <2>1. Len(text) \in Nat /\ places \in SUBSET (1..Len(text))
    OBVIOUS
  <2> QED
    BY <2>1, PlacesFinite
<1>2. taken = [n \in 1..count |-> text[Nth(places, n)]]
  BY Zenon DEF LinesAt, Nth
<1>3. \A n \in 1..count : /\ Nth(places, n) \in places
                          /\ Cardinality(places \cap 1..Nth(places, n)) = n
  BY <1>1, NthPlace
<1> HIDE DEF count, taken
<1>4. taken \in [1..count -> Lines]
  <2>1. \A i \in places : text[i] \in Lines
    OBVIOUS
  <2> QED
    BY <1>2, <1>3, <2>1
<1>5. taken \in Seq(Lines) /\ DOMAIN taken = 1..count
  BY <1>1, <1>4
<1>6. /\ ~ClaimsBooking(text) /\ ~Joins(text, DOMAIN text \ places) =>
            ~ClaimsBooking(taken)
  <2>1. ASSUME NEW n \in DOMAIN taken, taken[n].claim PROVE ClaimsBooking(text)
    <3>1. Nth(places, n) \in DOMAIN text /\ text[Nth(places, n)].claim
      BY <1>2, <1>3, <1>5, <2>1
    <3> QED
      BY <3>1 DEF ClaimsBooking
  <2>2. ASSUME NEW m \in DOMAIN taken, NEW n \in DOMAIN taken,
               JoinedWithout(taken, {}, m, n)
        PROVE  Joins(text, DOMAIN text \ places)
    <3> DEFINE i == Nth(places, m)
               j == Nth(places, n)
               gone == DOMAIN text \ places
    <3>1. /\ m \in 1..count /\ n \in 1..count /\ m < n
          /\ taken[m].opens /\ taken[n].closes
          /\ \A k \in (m + 1)..(n - 1) : taken[k].length = 0
      BY <1>5, <2>2 DEF JoinedWithout
    <3>2. /\ i < j
          /\ \A h \in places : i < h /\ h < j =>
                \E k \in (m + 1)..(n - 1) : Nth(places, k) = h
      <4>1. Len(text) \in Nat /\ places \in SUBSET (1..Len(text))
        BY <1>1
      <4>2. m \in 1..Cardinality(places) /\ n \in 1..Cardinality(places) /\ m < n
        BY <3>1 DEF count
      <4> QED
        BY <4>1, <4>2, PlacesInOrder
    <3>3. /\ i \in DOMAIN text \ gone /\ text[i].opens
          /\ j \in DOMAIN text \ gone /\ text[j].closes
      BY <1>1, <1>2, <1>3, <3>1
    <3> HIDE DEF i, j
    <3>4. ASSUME NEW h \in (i + 1)..(j - 1) PROVE h \in gone \/ text[h].length = 0
      <4>1. i \in Nat /\ j \in Nat /\ h \in Nat /\ h \in DOMAIN text /\ i < h /\ h < j
        BY <1>1, <3>3
      <4>2. SUFFICES ASSUME h \in places PROVE text[h].length = 0
        BY <4>1
      <4>3. PICK k \in (m + 1)..(n - 1) : Nth(places, k) = h
        BY <3>2, <4>1, <4>2
      <4>4. k \in 1..count /\ taken[k] = text[h]
        BY <1>1, <1>2, <3>1, <4>3
      <4> QED
        BY <3>1, <4>3, <4>4
    <3>5. JoinedWithout(text, gone, i, j)
      BY <3>2, <3>3, <3>4 DEF JoinedWithout
    <3> HIDE DEF gone
    <3>6. Joins(text, gone)
      BY <3>3, <3>5 DEF Joins
    <3> QED
      BY <3>6 DEF gone
  <2> QED
    BY <2>1, <2>2 DEF ClaimsBooking
<1>7. Cardinality(Options(taken)) <= Cardinality(Options(text) \cap places)
  <2> DEFINE f == [n \in Options(taken) |-> Nth(places, n)]
             kept == Options(text) \cap places
  <2>1. \A n \in Options(taken) : n \in 1..count /\ Nth(places, n) \in kept
    BY <1>2, <1>3, <1>5 DEF Options
  <2>2. f \in [Options(taken) -> kept]
    BY <2>1
  <2>3. \A m, n \in Options(taken) : f[m] = f[n] => m = n
    BY <1>3, <2>1
  <2>4. f \in Injection(Options(taken), kept)
    BY <2>2, <2>3 DEF Injection, IsInjective
  <2>5. IsFiniteSet(kept)
    <3>1. kept \in SUBSET Options(text)
      OBVIOUS
    <3> QED
      BY <3>1, OptionsFinite, FS_Subset
  <2> HIDE DEF f, kept
  <2>6. Cardinality(Options(taken)) <= Cardinality(kept)
    BY <2>4, <2>5, FS_Injection
  <2> QED
    BY <2>6 DEF kept
<1> QED
  BY <1>5, <1>6, <1>7 DEF taken

--------------------------------------------------------------------------------
(* The rules                                                               *)

USE LengthsAssumption

\* The lines _limit_options() keeps.
Kept(text) == DOMAIN text \ Dropped(text)

LEMMA KeptIsCounted ==
    ASSUME NEW text \in Seq(Lines)
    PROVE  /\ Dropped(text) \in SUBSET (DOMAIN text)
           /\ \A i \in Options(text) :
                 i \in Kept(text) <=> Cardinality(Options(text) \cap 1..i) <= MaxOptions
<1>1. ASSUME NEW i \in Options(text)
      PROVE  i \in DOMAIN text /\ Cardinality(Options(text) \cap 1..i) \in Nat
  <2>1. i \in DOMAIN text /\ i \in Nat
    BY DEF Options
  <2> QED
    BY <2>1, OptionsFinite, PlacesFinite
<1>2. \A i \in Options(text) :
          i \in Dropped(text) <=> ~(Cardinality(Options(text) \cap 1..i) <= MaxOptions)
  BY <1>1 DEF Dropped
<1> QED
  BY <1>1, <1>2 DEF Kept, Dropped

(* No more options are kept than may be: the last of them was counted.     *)
LEMMA FewOptionsKept ==
    ASSUME NEW text \in Seq(Lines)
    PROVE  Cardinality(Options(text) \cap Kept(text)) <= MaxOptions
<1> DEFINE kept == Options(text) \cap Kept(text)
<1>1. /\ kept \subseteq Nat /\ Len(text) \in Nat /\ \A i \in kept : i <= Len(text)
      /\ \A i \in kept : Cardinality(Options(text) \cap 1..i) <= MaxOptions
  <2>1. \A i \in kept : Cardinality(Options(text) \cap 1..i) <= MaxOptions
    BY KeptIsCounted
  <2>2. kept \subseteq Options(text) /\ Options(text) \subseteq 1..Len(text)
        /\ Len(text) \in Nat
    BY OptionsFinite
  <2> QED
    BY <2>1, <2>2
<1>2. CASE kept = {}
  BY <1>2, FS_EmptySet
<1>3. CASE kept # {}
  <2> DEFINE last == Max(kept)
  <2>1. last \in kept /\ \A i \in kept : i <= last
    <3> HIDE DEF kept
    <3> QED
      BY <1>1, <1>3, MaxIsGreatest
  <2> HIDE DEF last
  <2>2. last \in Nat /\ kept \in SUBSET (Options(text) \cap 1..last)
    <3>1. \A i \in kept : i \in 1..Len(text)
      BY DEF Options
    <3>2. \A i \in kept : i \in 1..last
      <4> HIDE DEF kept
      <4> QED
        BY <1>1, <2>1, <3>1
    <3> QED
      BY <1>1, <2>1, <3>2
  <2>3. /\ IsFiniteSet(Options(text) \cap 1..last)
        /\ Cardinality(Options(text) \cap 1..last) \in Nat
    BY <2>2, OptionsFinite, PlacesFinite
  <2>4. Cardinality(Options(text) \cap 1..last) <= MaxOptions
    BY <1>1, <2>1
  <2> HIDE DEF kept
  <2>5. /\ Cardinality(kept) <= Cardinality(Options(text) \cap 1..last)
        /\ Cardinality(kept) \in Nat
    BY <2>2, <2>3, FS_Subset, FS_CardinalityType
  <2> QED
    BY <2>3, <2>4, <2>5 DEF kept
<1> QED
  BY <1>2, <1>3

\* What the rules after the rewrite keep true.
Fair(text) == text \in Lined /\ Cardinality(Options(text)) <= MaxOptions

LEMMA LimitOptionsFair ==
    ASSUME NEW text \in Seq(Lines)
    PROVE  /\ Fair(LimitOptions(text))
           /\ ~ClaimsBooking(text) /\ ~ClaimsOnceLimited(text) =>
                 ~ClaimsBooking(LimitOptions(text))
<1> DEFINE taken == LinesAt(text, Kept(text))
<1>1. Kept(text) \in SUBSET (DOMAIN text) /\ DOMAIN text \ Kept(text) = Dropped(text)
  BY KeptIsCounted DEF Kept
<1>2. /\ taken \in Seq(Lines)
      /\ ~ClaimsBooking(text) /\ ~ClaimsOnceLimited(text) => ~ClaimsBooking(taken)
      /\ Cardinality(Options(taken)) <= Cardinality(Options(text) \cap Kept(text))
  BY <1>1, LinesAtPlaces, ClaimForms
<1>3. LimitOptions(text) = Strip(taken)
  BY DEF LimitOptions, Kept
<1> HIDE DEF taken
<1>4. LimitOptions(text) \in Lined /\ Less(LimitOptions(text), taken)
  BY <1>2, <1>3, StripIsLess
<1>5. /\ Cardinality(Options(taken)) \in Nat
      /\ Cardinality(Options(LimitOptions(text))) \in Nat
  BY <1>2, <1>4, OptionsFinite DEF Less
<1>6. Cardinality(Options(text) \cap Kept(text)) \in Nat
  <2>1. Options(text) \cap Kept(text) \in SUBSET Options(text)
    OBVIOUS
  <2> QED
    BY <2>1, OptionsFinite, FS_Subset, FS_CardinalityType
<1> QED
  BY <1>2, <1>4, <1>5, <1>6, FewOptionsKept DEF Less, Fair

(* The prompt is no option and claims nothing.                             *)
LEMMA PromptFair ==
    ASSUME NEW text, Fair(text)
    PROVE  /\ Fair(Prompt(text))
           /\ ~ClaimsBooking(text) => ~ClaimsBooking(Prompt(text))
<1> DEFINE long == Append(text, Suffix)
<1>1. /\ text \in Seq(Lines) /\ Suffix \in Lines /\ ~Suffix.option /\ ~Suffix.claim
      /\ ~Suffix.opens /\ ~Suffix.closes
  BY DEF Fair, Lined, Suffix, Lines
<1>2. /\ long \in Lined /\ DOMAIN long = DOMAIN text \cup {Len(text) + 1}
      /\ \A i \in DOMAIN text : long[i] = text[i]
      /\ long[Len(text) + 1] = Suffix
  BY <1>1 DEF Lined
<1> HIDE DEF long
<1>3. Options(long) = Options(text)
  BY <1>1, <1>2 DEF Options
<1>4. ~ClaimsBooking(text) => ~ClaimsBooking(long)
  <2>1. ASSUME NEW i \in DOMAIN long, long[i].claim PROVE ClaimsBooking(text)
    BY <1>1, <1>2, <2>1 DEF ClaimsBooking
  <2>2. ASSUME NEW i \in DOMAIN long, NEW j \in DOMAIN long, JoinedWithout(long, {}, i, j)
        PROVE  ClaimsBooking(text)
    <3>1. /\ i \in DOMAIN text /\ j \in DOMAIN text /\ i < j
          /\ text[i].opens /\ text[j].closes
      BY <1>1, <1>2, <2>2 DEF JoinedWithout
    <3>2. ASSUME NEW k \in (i + 1)..(j - 1) PROVE text[k].length = 0
      <4>1. k \in DOMAIN text
        BY <1>1, <3>1
      <4> QED
        BY <1>2, <2>2, <4>1 DEF JoinedWithout
    <3>3. JoinedWithout(text, {}, i, j)
      BY <3>1, <3>2 DEF JoinedWithout
    <3> QED
      BY <3>1, <3>3 DEF ClaimsBooking
  <2> QED
    BY <2>1, <2>2 DEF ClaimsBooking
<1>5. Fair(long)
  BY <1>2, <1>3 DEF Fair
<1>6. Prompt(text) \in {text, long}
  BY DEF Prompt, long
<1> QED
  BY <1>4, <1>5, <1>6

(* The length of a text, and where its last line begins, are numbers.      *)
LEMMA LengthType ==
    ASSUME NEW text \in Lined
    PROVE  /\ Len(text) \in Nat \ {0} /\ TextLength(text) \in Nat
           /\ \A i \in 1..Len(text) : Offset(text, i) \in Nat
<1>1. text \in Seq(Lines) /\ Len(text) \in Nat \ {0} /\ Len(text) \in DOMAIN text
  BY DEF Lined
<1>2. text[Len(text)].length \in Nat /\ Offset(text, Len(text)) \in Nat
  BY <1>1, LineType, OffsetCounts
<1> QED
  BY <1>1, <1>2, OffsetCounts DEF TextLength

(* text[:n - 1] and the ellipsis: what is cut fits to the character.       *)
LEMMA CutFits ==
    ASSUME NEW text, Fair(text)
    PROVE  /\ Fair(Cut(text)) /\ TextLength(Cut(text)) <= TargetLength
           /\ ~ClaimsBooking(text) => ~ClaimsBooking(Cut(text))
<1> DEFINE begun == {i \in DOMAIN text : Offset(text, i) <= TargetLength - 1}
           last == Max(begun)
           left == TargetLength - 1 - Offset(text, last)
           kept == IF text[last].length < left THEN text[last].length ELSE left
           part == SubSeq(text, 1, last)
           cut  == [part EXCEPT ![last].length = kept + 1]
<1>1. text \in Seq(Lines) /\ Len(text) \in Nat \ {0} /\ DOMAIN text = 1..Len(text)
      /\ text \in Lined
  BY DEF Fair, Lined
<1>2. last \in 1..Len(text) /\ Offset(text, last) <= TargetLength - 1
  <2>1. 1 \in begun
    BY <1>1, OffsetCounts
  <2>2. begun \subseteq Nat /\ begun # {} /\ \A i \in begun : i <= Len(text)
    BY <1>1, <2>1
  <2>3. last \in begun
    <3> HIDE DEF begun
    <3> QED
      BY <1>1, <2>2, MaxIsGreatest
  <2> HIDE DEF last
  <2> QED
    BY <1>1, <2>3
<1>3. Cut(text) = cut
  BY DEF Cut
<1> HIDE DEF last
<1>4. Offset(text, last) \in Nat /\ left \in Nat /\ kept \in Nat /\ kept <= left
      /\ Offset(text, last) + (kept + 1) <= TargetLength
  <2>1. Offset(text, last) \in Nat /\ text[last].length \in Nat
    BY <1>1, <1>2, LineType, OffsetCounts
  <2> QED
    BY <1>2, <2>1
<1> HIDE DEF left, kept
<1>5. /\ Less(part, text) /\ part \in Seq(Lines) /\ Len(part) = last
      /\ \A i \in 1..last : part[i] = text[i]
  <2>1. 1 \in 1..Len(text) /\ last \in 1..Len(text)
    BY <1>1, <1>2
  <2>2. Less(part, text) /\ Len(part) = last - 1 + 1
    BY <1>1, <2>1, SubSeqIsLess
  <2> QED
    BY <1>1, <1>2, <2>2 DEF Less
<1> HIDE DEF part
<1>6. /\ cut \in Seq(Lines) /\ Len(cut) = last /\ DOMAIN cut = DOMAIN part
      /\ \A i \in 1..(last - 1) : cut[i] = part[i]
      /\ cut[last] = [part[last] EXCEPT !.length = kept + 1]
  <2>1. part[last] \in Lines /\ last \in DOMAIN part
    BY <1>2, <1>5
  <2>2. [part[last] EXCEPT !.length = kept + 1] \in Lines
    BY <1>4, <2>1 DEF Lines
  <2> QED
    BY <1>2, <1>5, <2>1, <2>2
<1>7. /\ cut[last].length = kept + 1
      /\ \A i \in DOMAIN cut : /\ cut[i].option = part[i].option /\ cut[i].claim = part[i].claim
                             /\ cut[i].opens = part[i].opens
                             /\ cut[i].closes = part[i].closes
  <2>1. part[last] \in Lines
    BY <1>2, <1>5
  <2>2. /\ cut[last].length = kept + 1 /\ cut[last].option = part[last].option
        /\ cut[last].claim = part[last].claim /\ cut[last].opens = part[last].opens
        /\ cut[last].closes = part[last].closes
    BY <1>6, <2>1 DEF Lines
  <2>3. \A i \in DOMAIN cut : i = last \/ i \in 1..(last - 1)
    BY <1>2, <1>5, <1>6
  <2> QED
    BY <1>6, <2>2, <2>3
<1> HIDE DEF cut
<1>8. TextLength(cut) <= TargetLength
  <2>1. Offset(cut, last) = Offset(text, last)
    <3>1. \A i \in 1..(last - 1) : cut[i].length = text[i].length
      BY <1>2, <1>5, <1>6
    <3>2. last \in Nat \ {0} /\ last <= Len(text) /\ last <= Len(cut)
      BY <1>2, <1>6
    <3> QED
      BY <1>1, <1>6, <3>1, <3>2, OffsetLooksBack
  <2> QED
    BY <1>4, <1>6, <1>7, <2>1 DEF TextLength
<1>9. Options(cut) = Options(part)
  BY <1>6, <1>7 DEF Options
<1>10. ~ClaimsBooking(text) => ~ClaimsBooking(cut)
  <2>1. ASSUME NEW i \in DOMAIN cut, cut[i].claim PROVE ClaimsBooking(part)
    BY <1>6, <1>7, <2>1 DEF ClaimsBooking
  <2>2. ASSUME NEW i \in DOMAIN cut, NEW j \in DOMAIN cut, JoinedWithout(cut, {}, i, j)
        PROVE  ClaimsBooking(part)
    <3>1. /\ i \in DOMAIN part /\ j \in DOMAIN part /\ i < j
          /\ part[i].opens /\ part[j].closes /\ i \in 1..last /\ j \in 1..last
      BY <1>5, <1>6, <1>7, <2>2 DEF JoinedWithout
    <3>2. ASSUME NEW k \in (i + 1)..(j - 1) PROVE part[k].length = 0
      <4>1. k \in 1..(last - 1)
        BY <1>2, <3>1
      <4> QED
        BY <1>6, <2>2, <4>1 DEF JoinedWithout
    <3>3. JoinedWithout(part, {}, i, j)
      BY <3>1, <3>2 DEF JoinedWithout
    <3> QED
      BY <3>1, <3>3 DEF ClaimsBooking
  <2>3. ClaimsBooking(cut) => ClaimsBooking(part)
    BY <2>1, <2>2 DEF ClaimsBooking
  <2> QED
    BY <1>5, <2>3 DEF Less
<1>11. Fair(cut)
  <2>1. cut \in Lined
    BY <1>2, <1>6 DEF Lined
  <2>2. /\ Cardinality(Options(part)) \in Nat /\ Cardinality(Options(text)) \in Nat
        /\ Cardinality(Options(part)) <= Cardinality(Options(text))
        /\ Cardinality(Options(text)) <= MaxOptions
    BY <1>1, <1>5, OptionsFinite DEF Less, Fair
  <2>3. Cardinality(Options(cut)) <= MaxOptions
    BY <1>9, <2>2
  <2> QED
    BY <2>1, <2>3 DEF Fair
<1> QED
  BY <1>3, <1>8, <1>10, <1>11

LEMMA ShortIsNotCut ==
    ASSUME NEW text, TextLength(text) \in Nat, TextLength(text) <= TargetLength
    PROVE  Capped(text) = text
<1>1. ~(TextLength(text) > TargetLength)
  OBVIOUS
<1> QED
  BY <1>1 DEF Capped

LEMMA CappedFits ==
    ASSUME NEW text, Fair(text)
    PROVE  /\ Fair(Capped(text)) /\ FitsSms(Capped(text))
           /\ ~ClaimsBooking(text) => ~ClaimsBooking(Capped(text))
<1>1. TextLength(text) \in Nat
  BY LengthType DEF Fair
<1>2. CASE TextLength(text) > TargetLength
  BY <1>2, CutFits DEF Capped, FitsSms, Fair
<1>3. CASE ~(TextLength(text) > TargetLength)
  BY <1>1, <1>3 DEF Capped, FitsSms, Fair
<1> QED
  BY <1>2, <1>3

--------------------------------------------------------------------------------
(* The theorems                                                            *)

(* Whatever it is given, the composer makes one SMS of it: not too long,   *)
(* with no more options than a phone shows, and never nothing              *)
(* (response_composer.py:46-68).                                           *)
THEOREM ComposeFits ==
    ASSUME NEW reply \in Lined, NEW blocked \in BOOLEAN, NEW confirm \in BOOLEAN
    PROVE  Compose(reply, blocked, confirm) \in Lined
           /\ FitsSms(Compose(reply, blocked, confirm))
<1> DEFINE source == IF blocked THEN RewrittenReply ELSE reply
           body   == LimitOptions(source)
           asked  == IF confirm THEN Prompt(body) ELSE body
<1>1. source \in Seq(Lines)
  BY RewriteAssumption DEF Lined
<1> HIDE DEF source
<1>2. Fair(body)
  BY <1>1, LimitOptionsFair
<1> HIDE DEF body
<1>3. Fair(asked)
  BY <1>2, PromptFair
<1>4. Compose(reply, blocked, confirm) = Capped(asked)
  BY DEF Compose, asked, body, source
<1> HIDE DEF asked
<1> QED
  BY <1>3, <1>4, CappedFits DEF Fair

(* Where no option is dropped, no phrase closes up.                        *)
LEMMA NothingDropped ==
    ASSUME NEW text \in Seq(Lines), Cardinality(Options(text)) <= MaxOptions
    PROVE  /\ Dropped(text) = {}
           /\ ClaimsOnceLimited(text) => ClaimsBooking(text)
<1>1. ASSUME NEW i \in Options(text) PROVE i \notin Dropped(text)
  <2>1. i \in Nat /\ Options(text) \in SUBSET (1..Len(text)) /\ Len(text) \in Nat
    BY OptionsFinite DEF Options
  <2>2. /\ Cardinality(Options(text) \cap 1..i) \in Nat /\ Cardinality(Options(text)) \in Nat
        /\ Cardinality(Options(text) \cap 1..i) <= Cardinality(Options(text))
    BY <2>1, PlacesFinite
  <2> QED
    BY <2>2 DEF Dropped
<1>2. Dropped(text) = {}
  BY <1>1 DEF Dropped
<1> QED
  BY <1>2, ClaimForms

(* The composer makes a text that claims a booking in one way only: of one *)
(* the check let pass, in which options that do not fit stood between the  *)
(* two halves of the phrase.  A text the check has blocked, or with no     *)
(* option too many, never comes out as a claim                             *)
(* (response_composer.py:46-68, 83-84, policy.py:48-59).                   *)
THEOREM ComposeClaimsNothing ==
    ASSUME NEW reply \in Lined, NEW blocked \in BOOLEAN, NEW confirm \in BOOLEAN,
           ClaimsBooking(reply) => blocked
    PROVE  /\ ClaimsBooking(Compose(reply, blocked, confirm)) =>
                  ~blocked /\ ClaimsOnceLimited(reply)
           /\ Cardinality(Options(reply)) <= MaxOptions =>
                  ~ClaimsBooking(Compose(reply, blocked, confirm))
<1> DEFINE source == IF blocked THEN RewrittenReply ELSE reply
           body   == LimitOptions(source)
           asked  == IF confirm THEN Prompt(body) ELSE body
<1>1. source \in Seq(Lines) /\ ~ClaimsBooking(source)
  BY RewriteAssumption DEF Lined
<1>2. ASSUME blocked PROVE ~ClaimsOnceLimited(source)
  <2>1. RewrittenReply \in Seq(Lines) /\ Options(RewrittenReply) = {}
        /\ ~ClaimsBooking(RewrittenReply)
    BY RewriteAssumption DEF Lined
  <2>2. Cardinality(Options(RewrittenReply)) <= MaxOptions
    BY <2>1, FS_EmptySet
  <2>3. ~ClaimsOnceLimited(RewrittenReply)
    BY <2>1, <2>2, NothingDropped
  <2> QED
    BY <1>2, <2>3
<1>3. ~blocked => source = reply
  OBVIOUS
<1> HIDE DEF source
<1>4. Fair(body) /\ (~ClaimsOnceLimited(source) => ~ClaimsBooking(body))
  BY <1>1, LimitOptionsFair
<1> HIDE DEF body
<1>5. Fair(asked) /\ (~ClaimsBooking(body) => ~ClaimsBooking(asked))
  BY <1>4, PromptFair
<1>6. Compose(reply, blocked, confirm) = Capped(asked)
  BY DEF Compose, asked, body, source
<1> HIDE DEF asked
<1>7. ClaimsBooking(Compose(reply, blocked, confirm)) => ~blocked /\ ClaimsOnceLimited(reply)
  BY <1>2, <1>3, <1>4, <1>5, <1>6, CappedFits
<1>8. ASSUME Cardinality(Options(reply)) <= MaxOptions
      PROVE  ~ClaimsBooking(Compose(reply, blocked, confirm))
  <2>1. reply \in Seq(Lines)
    BY DEF Lined
  <2>2. ClaimsOnceLimited(reply) => ClaimsBooking(reply)
    BY <1>8, <2>1, NothingDropped
  <2> QED
    BY <1>7, <2>2
<1> QED
  BY <1>7, <1>8

\* Nothing at either end for str.strip() to take.
Stripped(text) == text[1].length > 0 /\ text[Len(text)].length > 0

LEMMA EveryLine ==
    ASSUME NEW text \in Lined
    PROVE  LinesAt(text, DOMAIN text) = text
<1>1. text \in Seq(Lines) /\ Len(text) \in Nat /\ DOMAIN text = 1..Len(text)
  BY DEF Lined
<1>2. Cardinality(DOMAIN text) = Len(text)
  BY <1>1, FS_Interval
<1>3. ASSUME NEW n \in 1..Len(text) PROVE Nth(DOMAIN text, n) = n
  <2> DEFINE i == Nth(DOMAIN text, n)
  <2>1. i \in 1..Len(text) /\ Cardinality((1..Len(text)) \cap 1..i) = n
    <3>1. DOMAIN text \in SUBSET (1..Len(text)) /\ n \in 1..Cardinality(DOMAIN text)
      BY <1>1, <1>2
    <3> QED
      BY <1>1, <3>1, NthPlace
  <2> HIDE DEF i
  <2>2. (1..Len(text)) \cap 1..i = 1..i /\ i \in Int
    BY <1>1, <2>1
  <2>3. Cardinality(1..i) = i
    BY <1>1, <2>1, <2>2, FS_Interval
  <2> QED
    BY <2>1, <2>2, <2>3 DEF i
<1>4. LinesAt(text, DOMAIN text) = [n \in 1..Len(text) |-> text[Nth(DOMAIN text, n)]]
  BY <1>2, Zenon DEF LinesAt, Nth
<1> QED
  BY <1>1, <1>3, <1>4

LEMMA NothingToStrip ==
    ASSUME NEW text \in Lined, Stripped(text)
    PROVE  Strip(text) = text
<1> DEFINE full == {i \in DOMAIN text : text[i].length > 0}
<1>1. text \in Seq(Lines) /\ Len(text) \in Nat \ {0} /\ DOMAIN text = 1..Len(text)
  BY DEF Lined
<1>2. /\ 1 \in full /\ Len(text) \in full /\ full \subseteq Nat
      /\ \A i \in full : 1 <= i /\ i <= Len(text)
  BY <1>1 DEF Stripped
<1>3. Strip(text) = SubSeq(text, Min(full), Max(full))
  BY <1>2 DEF Strip
<1> HIDE DEF full
<1>4. /\ Min(full) \in full /\ \A k \in full : Min(full) <= k
      /\ Max(full) \in full /\ \A k \in full : k <= Max(full)
  BY <1>1, <1>2, MinIsLeast, MaxIsGreatest
<1>5. Min(full) = 1 /\ Max(full) = Len(text)
  <2>1. Min(full) <= 1 /\ 1 <= Min(full) /\ Min(full) \in Nat
    BY <1>2, <1>4
  <2>2. Max(full) <= Len(text) /\ Len(text) <= Max(full) /\ Max(full) \in Nat
    BY <1>2, <1>4
  <2> QED
    BY <1>1, <2>1, <2>2
<1>6. SubSeq(text, 1, Len(text)) = text
  BY <1>1
<1> QED
  BY <1>3, <1>5, <1>6

(* What fits an SMS as it is goes out as it is: the rules take nothing     *)
(* from a short reply (response_composer.py:46-68).                        *)
THEOREM ComposeKeepsWhatFits ==
    ASSUME NEW reply \in Lined, Stripped(reply), FitsSms(reply)
    PROVE  Compose(reply, FALSE, FALSE) = reply
<1>1. reply \in Seq(Lines) /\ TextLength(reply) \in Nat
  BY LengthType DEF Lined
<1>2. Kept(reply) = DOMAIN reply
  BY <1>1, NothingDropped DEF Kept, FitsSms
<1>3. LimitOptions(reply) = Strip(LinesAt(reply, Kept(reply)))
  BY DEF LimitOptions, Kept
<1>4. LimitOptions(reply) = reply
  BY <1>2, <1>3, EveryLine, NothingToStrip
<1>5. Compose(reply, FALSE, FALSE) = Capped(reply)
  BY <1>4 DEF Compose
<1> QED
  BY <1>1, <1>5, ShortIsNotCut DEF FitsSms

(* The prompt is in an SMS as a whole or not at all, and leaving it out    *)
(* changes nothing else (response_composer.py:59-68).                      *)
THEOREM PromptIsWhole ==
    ASSUME NEW reply \in Lined, NEW blocked \in BOOLEAN
    PROVE  LET asked == Compose(reply, blocked, TRUE) IN
           \/ asked[Len(asked)] = Suffix
           \/ asked = Compose(reply, blocked, FALSE)
<1> DEFINE source == IF blocked THEN RewrittenReply ELSE reply
           body   == LimitOptions(source)
<1>1. source \in Seq(Lines)
  BY RewriteAssumption DEF Lined
<1> HIDE DEF source
<1>2. Fair(body)
  BY <1>1, LimitOptionsFair
<1> HIDE DEF body
<1>3. /\ Compose(reply, blocked, TRUE) = Capped(Prompt(body))
      /\ Compose(reply, blocked, FALSE) = Capped(body)
  BY DEF Compose, body, source
<1>4. CASE TextLength(Append(body, Suffix)) <= TargetLength
  <2>1. body \in Seq(Lines) /\ Suffix \in Lines
    BY <1>2 DEF Fair, Lined, Suffix, Lines
  <2>2. Append(body, Suffix) \in Lined
    BY <2>1 DEF Lined
  <2>3. TextLength(Append(body, Suffix)) \in Nat
    BY <2>2, LengthType
  <2>4. Compose(reply, blocked, TRUE) = Append(body, Suffix)
    BY <1>3, <1>4, <2>3, ShortIsNotCut DEF Prompt
  <2>5. Append(body, Suffix)[Len(Append(body, Suffix))] = Suffix
    BY <2>1
  <2> QED
    BY <2>4, <2>5
<1>5. CASE ~(TextLength(Append(body, Suffix)) <= TargetLength)
  BY <1>3, <1>5 DEF Prompt
<1> QED
  BY <1>4, <1>5

================================================================================
