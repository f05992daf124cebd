---------------------------- MODULE GitSpecsProofs ---------------------------
(***************************************************************************)
(* parseGitDiffSpec and parseGitRawSpec accept exactly the documented      *)
(* forms, for texts of any length and any limits on object ids.            *)
(***************************************************************************)
EXTENDS GitSpecs, SequenceTheorems, WellFoundedInduction, TLAPS

-----------------------------------------------------------------------------
(***************************************************************************)
(* Occurrences of a separator.                                             *)
(***************************************************************************)

\* A set of positions has a first one.
LEMMA LeastPosition ==
  ASSUME NEW T, T \subseteq Nat, T # {}
  PROVE  \E i \in T : \A j \in T : i <= j
<1>1. PICK i \in T : \A j \in T : ~(<<j, i>> \in OpToRel(<, Nat))
  BY NatLessThanWellFounded, WFMin
<1>2. \A j \in T : ~(j < i)
  BY <1>1 DEF OpToRel
<1>3. QED
  BY <1>2

\* The characters of sep are those of s from i on.
FoundAt(s, sep, i) ==
  /\ i \in 1..Len(s) /\ i + Len(sep) - 1 <= Len(s)
  /\ \A k \in 1..Len(sep) : s[i + k - 1] = sep[k]

\* Occurs, character by character.
LEMMA OccursAt ==
  ASSUME NEW s \in Seq(Chars), NEW sep \in Seq(Chars), Len(sep) > 0, NEW i
  PROVE  i \in Occurs(s, sep) <=> FoundAt(s, sep, i)
<1> SUFFICES ASSUME i \in 1..Len(s), i + Len(sep) - 1 <= Len(s)
             PROVE  SubSeq(s, i, i + Len(sep) - 1) = sep
                      <=> \A k \in 1..Len(sep) : s[i + k - 1] = sep[k]
  BY DEF Occurs, FoundAt
<1> DEFINE j == i + Len(sep) - 1
<1>1. i \in Int /\ j \in Int /\ i <= j /\ j - i + 1 = Len(sep) /\ Len(sep) \in Nat
  BY LenProperties
<1>2. \A k \in i..j : s[k] \in Chars
  BY <1>1, ElementOfSeq, LenProperties
<1>3. /\ SubSeq(s, i, j) \in Seq(Chars) /\ Len(SubSeq(s, i, j)) = Len(sep)
      /\ \A k \in 1..Len(sep) : SubSeq(s, i, j)[k] = s[i + k - 1]
  BY <1>1, <1>2, SubSeqProperties
<1>4. ASSUME \A k \in 1..Len(sep) : s[i + k - 1] = sep[k] PROVE SubSeq(s, i, j) = sep
  BY <1>3, <1>4, SeqEqual
<1>5. QED
  BY <1>3, <1>4

\* First is the first occurrence.
LEMMA FirstIs ==
  ASSUME NEW s \in Seq(Chars), NEW sep, Contains(s, sep)
  PROVE  First(s, sep) \in Occurs(s, sep) /\ \A j \in Occurs(s, sep) : First(s, sep) <= j
<1>1. Occurs(s, sep) \subseteq Nat
  BY LenProperties DEF Occurs
<1>2. \E i \in Occurs(s, sep) : \A j \in Occurs(s, sep) : i <= j
  BY <1>1, LeastPosition DEF Contains
<1>3. QED
  BY <1>2 DEF First

\* What strings.Cut returns for a separator found at i.
CutAt(s, sep, i) ==
  /\ Contains(s, sep) /\ First(s, sep) = i
  /\ Before(s, sep) \in Seq(Chars) /\ Len(Before(s, sep)) = i - 1
  /\ \A k \in 1..(i - 1) : Before(s, sep)[k] = s[k]
  /\ After(s, sep) \in Seq(Chars) /\ Len(After(s, sep)) = Len(s) - (i + Len(sep) - 1)
  /\ \A k \in 1..(Len(s) - (i + Len(sep) - 1)) : After(s, sep)[k] = s[i + Len(sep) - 1 + k]

\* The parts around an occurrence that no other precedes.
LEMMA Cut ==
  ASSUME NEW s \in Seq(Chars), NEW sep \in Seq(Chars), Len(sep) > 0,
         NEW i \in Occurs(s, sep), \A j \in Occurs(s, sep) : i <= j
  PROVE  CutAt(s, sep, i)
<1>1. /\ i \in 1..Len(s) /\ i + Len(sep) - 1 <= Len(s) /\ Len(s) \in Nat /\ Len(sep) \in Nat
      /\ Occurs(s, sep) \subseteq Nat
  BY LenProperties DEF Occurs
<1>2. Contains(s, sep)
  BY DEF Contains
<1>3. First(s, sep) = i
  BY <1>1, <1>2, FirstIs
<1>4. \A k \in 1..Len(s) : s[k] \in Chars
  BY ElementOfSeq
<1>5. /\ SubSeq(s, 1, i - 1) \in Seq(Chars) /\ Len(SubSeq(s, 1, i - 1)) = i - 1
      /\ \A k \in 1..(i - 1) : SubSeq(s, 1, i - 1)[k] = s[k]
  <2>1. 1 \in Int /\ i - 1 \in Int /\ \A k \in 1..(i - 1) : s[k] \in Chars
    BY <1>1, <1>4
  <2>2. /\ SubSeq(s, 1, i - 1) \in Seq(Chars)
        /\ Len(SubSeq(s, 1, i - 1)) = IF 1 <= i - 1 THEN i - 1 - 1 + 1 ELSE 0
        /\ \A k \in 1..(i - 1 - 1 + 1) : SubSeq(s, 1, i - 1)[k] = s[1 + k - 1]
    BY <2>1, SubSeqProperties
  <2>3. QED
    BY <1>1, <2>2
<1>6. /\ SubSeq(s, i + Len(sep), Len(s)) \in Seq(Chars)
      /\ Len(SubSeq(s, i + Len(sep), Len(s))) = Len(s) - (i + Len(sep) - 1)
      /\ \A k \in 1..(Len(s) - (i + Len(sep) - 1)) :
           SubSeq(s, i + Len(sep), Len(s))[k] = s[i + Len(sep) - 1 + k]
  <2> DEFINE m == i + Len(sep)
             n == Len(s)
  <2>1. m \in Int /\ n \in Int /\ \A k \in m..n : s[k] \in Chars
    BY <1>1, <1>4
  <2>2. /\ SubSeq(s, m, n) \in Seq(Chars)
        /\ Len(SubSeq(s, m, n)) = IF m <= n THEN n - m + 1 ELSE 0
        /\ \A k \in 1..(n - m + 1) : SubSeq(s, m, n)[k] = s[m + k - 1]
    BY <2>1, SubSeqProperties
  <2>3. \A k \in 1..(n - m + 1) : m + k - 1 = m - 1 + k
    BY <1>1
  <2>4. QED
    BY <1>1, <2>2, <2>3
<1>7. QED
  BY <1>2, <1>3, <1>5, <1>6 DEF Before, After, CutAt

-----------------------------------------------------------------------------
(***************************************************************************)
(* Object ids, and two of them with dots between.                          *)
(***************************************************************************)

\* isGitObjectID is membership in IDs.
LEMMA ObjectIDs == ASSUME NEW s \in Seq(Chars) PROVE isGitObjectID(s) <=> s \in IDs
<1>1. Len(s) \in Nat /\ s \in [1..Len(s) -> Chars] /\ DOMAIN s = 1..Len(s)
  BY LenProperties
<1>2. ASSUME isGitObjectID(s) PROVE s \in IDs
  <2>1. Len(s) \in MinID..MaxID /\ s \in [1..Len(s) -> {"h"}]
    BY <1>1, <1>2 DEF isGitObjectID
  <2>2. QED
    BY <2>1 DEF IDs
<1>3. ASSUME s \in IDs PROVE isGitObjectID(s)
  <2>1. PICK n \in MinID..MaxID : s \in [1..n -> {"h"}]
    BY <1>3 DEF IDs
  <2>2. n \in Nat /\ n >= 1
    BY SpecsAssumption
  <2>3. DOMAIN s = 1..n /\ \A k \in 1..n : s[k] = "h"
    <3>1. ASSUME NEW D, NEW f \in [D -> {"h"}] PROVE DOMAIN f = D /\ \A k \in D : f[k] = "h"
      BY Zenon
    <3>2. QED
      BY ONLY <2>1, <3>1, Zenon
  <2>4. 1..n = 1..Len(s)
    BY <1>1, <2>3
  <2>5. n \in 1..n
    BY <2>2
  <2>6. 1 <= n /\ n <= Len(s)
    <3>1. n \in 1..Len(s)
      BY ONLY <2>4, <2>5
    <3>2. QED
      BY ONLY <3>1, <1>1, <2>2
  <2>7. Len(s) <= n
    <3>1. Len(s) \in 1..Len(s)
      BY ONLY <1>1, <2>2, <2>6
    <3>2. Len(s) \in 1..n
      BY ONLY <2>4, <3>1
    <3>3. QED
      BY ONLY <3>2, <1>1, <2>2
  <2>8. n = Len(s)
    <3>1. \A x, y \in Nat : x <= y /\ y <= x => x = y
      OBVIOUS
    <3>2. n \in Nat /\ Len(s) \in Nat
      BY ONLY <1>1, <2>2
    <3>3. n <= Len(s)
      BY ONLY <2>6
    <3>4. QED
      BY ONLY <2>7, <3>1, <3>2, <3>3
  <2>9. QED
    BY <2>3, <2>8 DEF isGitObjectID
<1>4. QED
  BY <1>2, <1>3

\* An id is a text of hex digits.
LEMMA IDIsText ==
  ASSUME NEW a \in IDs
  PROVE  a \in Seq(Chars) /\ Len(a) \in MinID..MaxID /\ Len(a) \in Nat
         /\ \A k \in 1..Len(a) : a[k] = "h"
<1>1. PICK n \in MinID..MaxID : a \in [1..n -> {"h"}]
  BY DEF IDs
<1>2. n \in Nat /\ a \in [1..n -> Chars]
  BY <1>1, SpecsAssumption DEF Chars
<1>3. a \in Seq(Chars)
  BY <1>2, SeqDef
<1>4. QED
  BY <1>3, ObjectIDs, LenProperties DEF isGitObjectID

\* The characters of s are those of the id a, of sep and of b.
Spelt(s, a, sep, b) ==
  /\ s \in Seq(Chars) /\ Len(s) = Len(a) + Len(sep) + Len(b)
  /\ \A k \in 1..Len(a) : s[k] = "h"
  /\ \A k \in 1..Len(sep) : s[Len(a) + k] = sep[k]
  /\ \A k \in 1..Len(b) : s[Len(a) + Len(sep) + k] = b[k]

\* What a text with sep between two ids looks like, character by character.
LEMMA JoinedText ==
  ASSUME NEW a \in IDs, NEW b \in IDs, NEW sep \in Seq(Chars)
  PROVE  Spelt(a \o sep \o b, a, sep, b)
<1> DEFINE t == a \o sep
           s == t \o b
<1>1. /\ a \in Seq(Chars) /\ b \in Seq(Chars) /\ Len(a) \in Nat /\ Len(b) \in Nat
      /\ Len(sep) \in Nat /\ \A k \in 1..Len(a) : a[k] = "h"
  BY IDIsText, LenProperties
<1>0. \A u, v \in Seq(Chars) :
        /\ u \o v \in Seq(Chars) /\ Len(u \o v) = Len(u) + Len(v)
        /\ \A i \in 1..Len(u) + Len(v) : (u \o v)[i] = IF i <= Len(u) THEN u[i] ELSE v[i - Len(u)]
  BY ConcatProperties
<1>2. /\ t \in Seq(Chars) /\ Len(t) = Len(a) + Len(sep)
      /\ \A i \in 1..Len(a) + Len(sep) : t[i] = IF i <= Len(a) THEN a[i] ELSE sep[i - Len(a)]
  BY <1>0, <1>1
<1> HIDE DEF t
<1>3. /\ s \in Seq(Chars) /\ Len(s) = Len(t) + Len(b)
      /\ \A i \in 1..Len(t) + Len(b) : s[i] = IF i <= Len(t) THEN t[i] ELSE b[i - Len(t)]
  BY <1>0, <1>1, <1>2
<1> HIDE DEF s
<1>4. \A k \in 1..Len(a) : s[k] = "h"
  <2> SUFFICES ASSUME NEW k \in 1..Len(a) PROVE s[k] = "h"
    OBVIOUS
  <2>1. k \in 1..Len(t) + Len(b) /\ k <= Len(t) /\ k \in 1..Len(a) + Len(sep) /\ k <= Len(a)
    BY <1>1, <1>2
  <2>2. s[k] = t[k] /\ t[k] = a[k]
    BY <1>2, <1>3, <2>1
  <2>3. QED
    BY <1>1, <2>2
<1>5. \A k \in 1..Len(sep) : s[Len(a) + k] = sep[k]
  <2> SUFFICES ASSUME NEW k \in 1..Len(sep) PROVE s[Len(a) + k] = sep[k]
    OBVIOUS
  <2> DEFINE i == Len(a) + k
  <2>1. /\ i \in 1..Len(t) + Len(b) /\ i <= Len(t) /\ i \in 1..Len(a) + Len(sep)
        /\ ~(i <= Len(a)) /\ i - Len(a) = k
    BY <1>1, <1>2
  <2>2. s[i] = t[i] /\ t[i] = sep[i - Len(a)]
    BY <1>2, <1>3, <2>1
  <2>3. QED
    BY <2>1, <2>2
<1>6. \A k \in 1..Len(b) : s[Len(a) + Len(sep) + k] = b[k]
  <2> SUFFICES ASSUME NEW k \in 1..Len(b) PROVE s[Len(a) + Len(sep) + k] = b[k]
    OBVIOUS
  <2> DEFINE i == Len(a) + Len(sep) + k
  <2>1. i \in 1..Len(t) + Len(b) /\ ~(i <= Len(t)) /\ i - Len(t) = k
    BY <1>1, <1>2
  <2>2. s[i] = b[i - Len(t)]
    BY <1>3, <2>1
  <2>3. QED
    BY <2>1, <2>2
<1>7. Len(s) = Len(a) + Len(sep) + Len(b)
  BY <1>2, <1>3
<1>8. Spelt(s, a, sep, b)
  BY <1>3, <1>4, <1>5, <1>6, <1>7 DEF Spelt
<1>9. QED
  BY <1>8 DEF s, t

\* The text is sep between two ids.
Joined(s, sep) == \E a, b \in IDs : s = a \o sep \o b

\* Cutting a text at a separator that starts with no hex digit finds two ids if
\* and only if the text is two ids with the separator between them.
LEMMA CutIsExact ==
  ASSUME NEW s \in Seq(Chars), NEW sep \in Seq(Chars), Len(sep) > 0, sep[1] # "h"
  PROVE  /\ Contains(s, sep) /\ isGitObjectID(Before(s, sep)) /\ isGitObjectID(After(s, sep))
         <=> Joined(s, sep)
<1>0. Len(s) \in Nat /\ Len(sep) \in Nat /\ 1 \in 1..Len(sep)
  BY LenProperties
<1>1. ASSUME Contains(s, sep), isGitObjectID(Before(s, sep)), isGitObjectID(After(s, sep))
      PROVE  Joined(s, sep)
  <2> DEFINE i == First(s, sep)
             a == Before(s, sep)
             b == After(s, sep)
             t == a \o sep \o b
  <2>1. i \in Occurs(s, sep) /\ \A j \in Occurs(s, sep) : i <= j
    BY <1>1, FirstIs
  <2>2. /\ i \in 1..Len(s) /\ i + Len(sep) - 1 <= Len(s)
        /\ \A k \in 1..Len(sep) : s[i + k - 1] = sep[k]
    BY <2>1, OccursAt DEF FoundAt
  <2>3. /\ a \in Seq(Chars) /\ Len(a) = i - 1
        /\ \A k \in 1..(i - 1) : a[k] = s[k]
        /\ b \in Seq(Chars) /\ Len(b) = Len(s) - (i + Len(sep) - 1)
        /\ \A k \in 1..(Len(s) - (i + Len(sep) - 1)) : b[k] = s[i + Len(sep) - 1 + k]
    <3>1. CutAt(s, sep, i)
      BY <2>1, Cut
    <3>2. QED
      BY <3>1 DEF CutAt
  <2>4. a \in IDs /\ b \in IDs
    BY <1>1, <2>3, ObjectIDs
  <2> HIDE DEF i, a, b
  <2>5. /\ t \in Seq(Chars) /\ Len(t) = Len(a) + Len(sep) + Len(b)
        /\ \A k \in 1..Len(a) : t[k] = "h"
        /\ \A k \in 1..Len(sep) : t[Len(a) + k] = sep[k]
        /\ \A k \in 1..Len(b) : t[Len(a) + Len(sep) + k] = b[k]
    <3>1. Spelt(t, a, sep, b)
      BY <2>4, JoinedText
    <3>2. QED
      BY <3>1 DEF Spelt
  <2>6. Len(t) = Len(s)
    BY <1>0, <2>2, <2>3, <2>5
  <2> HIDE DEF t
  <2>7. ASSUME NEW k \in 1..Len(s) PROVE t[k] = s[k]
    <3>1. CASE k <= i - 1
      <4>1. t[k] = "h" /\ a[k] = s[k] /\ a[k] = "h"
        <5>1. k \in 1..(i - 1) /\ k \in 1..Len(a)
          BY <2>2, <2>3, <3>1
        <5>2. a[k] = "h"
          BY <2>4, <5>1, IDIsText
        <5>3. QED
          BY <2>3, <2>5, <5>1, <5>2
      <4>2. QED
        BY <4>1
    <3>2. CASE i - 1 < k /\ k <= i - 1 + Len(sep)
      <4> DEFINE m == k - (i - 1)
      <4>1. m \in 1..Len(sep) /\ k = Len(a) + m /\ k = i + m - 1
        BY <1>0, <2>2, <2>3, <3>2
      <4> HIDE DEF m
      <4>2. t[Len(a) + m] = sep[m] /\ s[i + m - 1] = sep[m]
        BY <2>2, <2>5, <4>1
      <4>3. QED
        BY <4>1, <4>2
    <3>3. CASE i - 1 + Len(sep) < k
      <4> DEFINE m == k - (i - 1 + Len(sep))
      <4>1. /\ m \in 1..Len(b) /\ k = Len(a) + Len(sep) + m
            /\ m \in 1..(Len(s) - (i + Len(sep) - 1)) /\ k = i + Len(sep) - 1 + m
        BY <1>0, <2>2, <2>3, <3>3
      <4> HIDE DEF m
      <4>2. t[Len(a) + Len(sep) + m] = b[m] /\ b[m] = s[i + Len(sep) - 1 + m]
        BY <2>3, <2>5, <4>1
      <4>3. QED
        BY <4>1, <4>2
    <3>4. QED
      BY <1>0, <2>2, <3>1, <3>2, <3>3
  <2>8. s = t
    BY <2>5, <2>6, <2>7, SeqEqual
  <2>9. QED
    BY <2>4, <2>8 DEF Joined, t
<1>2. ASSUME Joined(s, sep)
      PROVE  /\ Contains(s, sep) /\ isGitObjectID(Before(s, sep))
             /\ isGitObjectID(After(s, sep))
  <2>1. PICK a \in IDs, b \in IDs : s = a \o sep \o b
    BY <1>2 DEF Joined
  <2>2. /\ a \in Seq(Chars) /\ Len(a) \in Nat /\ Len(a) \in MinID..MaxID
        /\ \A k \in 1..Len(a) : a[k] = "h"
        /\ b \in Seq(Chars) /\ Len(b) \in Nat /\ Len(b) \in MinID..MaxID
        /\ \A k \in 1..Len(b) : b[k] = "h"
    BY IDIsText
  <2>3. /\ Len(s) = Len(a) + Len(sep) + Len(b)
        /\ \A k \in 1..Len(a) : s[k] = "h"
        /\ \A k \in 1..Len(sep) : s[Len(a) + k] = sep[k]
        /\ \A k \in 1..Len(b) : s[Len(a) + Len(sep) + k] = b[k]
    <3>1. Spelt(s, a, sep, b)
      BY <2>1, JoinedText
    <3>2. QED
      BY <3>1 DEF Spelt
  <2> DEFINE i == Len(a) + 1
  <2>4. i \in Occurs(s, sep)
    <3>1. i \in 1..Len(s) /\ i + Len(sep) - 1 <= Len(s)
      BY <1>0, <2>2, <2>3
    <3>2. \A k \in 1..Len(sep) : i + k - 1 = Len(a) + k
      BY <1>0, <2>2
    <3>3. \A k \in 1..Len(sep) : s[i + k - 1] = sep[k]
      BY <2>3, <3>2
    <3>4. QED
      BY <3>1, <3>3, OccursAt DEF FoundAt
  <2>5. ASSUME NEW j \in Occurs(s, sep) PROVE i <= j
    <3>0. FoundAt(s, sep, j)
      BY OccursAt
    <3>1. j \in 1..Len(s) /\ s[j + 1 - 1] = sep[1]
      BY <1>0, <3>0 DEF FoundAt
    <3>2. s[j] # "h" /\ j \in Nat
      BY <1>0, <3>1
    <3>3. j \notin 1..Len(a)
      BY <2>3, <3>2
    <3>4. QED
      BY <2>2, <3>1, <3>2, <3>3
  <2>6. /\ Contains(s, sep)
        /\ Before(s, sep) \in Seq(Chars) /\ Len(Before(s, sep)) = i - 1
        /\ \A k \in 1..(i - 1) : Before(s, sep)[k] = s[k]
        /\ After(s, sep) \in Seq(Chars) /\ Len(After(s, sep)) = Len(s) - (i + Len(sep) - 1)
        /\ \A k \in 1..(Len(s) - (i + Len(sep) - 1)) : After(s, sep)[k] = s[i + Len(sep) - 1 + k]
    <3>1. CutAt(s, sep, i)
      BY <2>4, <2>5, Cut
    <3>2. QED
      BY <3>1 DEF CutAt
  <2>7. isGitObjectID(Before(s, sep))
    <3>1. Len(Before(s, sep)) = Len(a)
      BY <2>2, <2>6
    <3>2. i - 1 = Len(a)
      BY <2>2
    <3>3. \A k \in 1..Len(a) : Before(s, sep)[k] = "h"
      BY <2>3, <2>6, <3>2
    <3>4. QED
      BY <2>2, <3>1, <3>3 DEF isGitObjectID
  <2>8. isGitObjectID(After(s, sep))
    <3>1. Len(s) - (i + Len(sep) - 1) = Len(b) /\ i + Len(sep) - 1 = Len(a) + Len(sep)
      BY <1>0, <2>2, <2>3
    <3>2. Len(After(s, sep)) = Len(b)
      BY <2>6, <3>1
    <3>3. \A k \in 1..Len(b) : After(s, sep)[k] = s[Len(a) + Len(sep) + k]
      BY <2>6, <3>1
    <3>4. \A k \in 1..Len(b) : After(s, sep)[k] = "h"
      BY <2>2, <2>3, <3>3
    <3>5. QED
      BY <2>2, <3>2, <3>4 DEF isGitObjectID
  <2>9. QED
    BY <2>6, <2>7, <2>8
<1>3. QED
  BY <1>1, <1>2

\* Two ids with two dots between contain three dots nowhere.
LEMMA TwoIsNotThree ==
  ASSUME NEW s \in Seq(Chars), Joined(s, Two)
  PROVE  ~Contains(s, Three)
<1>1. /\ Two \in Seq(Chars) /\ Len(Two) = 2 /\ Three \in Seq(Chars) /\ Len(Three) = 3
      /\ Three[1] = "." /\ Three[2] = "." /\ Three[3] = "."
  BY DEF Two, Three, Chars
<1>0. Two \in Seq(Chars) /\ Three \in Seq(Chars) /\ Len(Three) > 0
  BY DEF Two, Three, Chars
<1>2. PICK a \in IDs, b \in IDs : s = a \o Two \o b
  BY DEF Joined
<1>3. /\ Len(a) \in Nat /\ Len(b) \in Nat /\ Len(s) = Len(a) + 2 + Len(b)
      /\ \A k \in 1..Len(a) : s[k] = "h"
      /\ \A k \in 1..Len(b) : s[Len(a) + 2 + k] = "h"
  <2>1. Len(a) \in Nat /\ Len(b) \in Nat /\ \A k \in 1..Len(b) : b[k] = "h"
    BY IDIsText
  <2>2. /\ Len(s) = Len(a) + Len(Two) + Len(b)
        /\ \A k \in 1..Len(a) : s[k] = "h"
        /\ \A k \in 1..Len(b) : s[Len(a) + Len(Two) + k] = b[k]
    <3>1. Spelt(s, a, Two, b)
      BY <1>0, <1>2, JoinedText
    <3>2. QED
      BY <3>1 DEF Spelt
  <2>3. QED
    BY <1>1, <2>1, <2>2
<1>4. ASSUME NEW i \in Occurs(s, Three) PROVE FALSE
  <2>1. i \in 1..Len(s) /\ i + 2 <= Len(s) /\ \A k \in 1..3 : s[i + k - 1] = Three[k]
    <3>1. /\ i \in 1..Len(s) /\ i + Len(Three) - 1 <= Len(s)
          /\ \A k \in 1..Len(Three) : s[i + k - 1] = Three[k]
      <4>1. FoundAt(s, Three, i)
        BY <1>0, <1>4, OccursAt
      <4>2. QED
        BY <4>1 DEF FoundAt
    <3>2. i + 3 - 1 = i + 2
      BY <1>3, <3>1
    <3>3. QED
      BY <1>1, <3>1, <3>2
  <2>2. s[i] = "." /\ s[i + 2] = "."
    <3>1. s[i + 1 - 1] = "." /\ s[i + 3 - 1] = "." /\ i + 1 - 1 = i /\ i + 3 - 1 = i + 2
      BY <1>1, <1>3, <2>1
    <3>2. QED
      BY <3>1
  <2>3. i > Len(a)
    BY <1>3, <2>1, <2>2
  <2>4. i + 2 - (Len(a) + 2) \in 1..Len(b) /\ i + 2 = Len(a) + 2 + (i + 2 - (Len(a) + 2))
    BY <1>3, <2>1, <2>3
  <2>5. s[i + 2] = "h"
    BY <1>3, <2>4
  <2>6. QED
    BY <2>2, <2>5
<1>5. QED
  BY <1>4 DEF Contains

-----------------------------------------------------------------------------
\* parseGitDiffSpec takes a show or compare URL for exactly the documented form
\* it has, and refuses it if it has none, whatever the length of the text.
THEOREM DiffParserIsExact ==
  ASSUME NEW spec \in [text : Seq(Chars), diff : BOOLEAN], NEW kind \in {"show", "compare"}
  PROVE  LET forms == DiffForms(spec) \cap
                        (IF kind = "show" THEN {"show"} ELSE {"dots2", "dots3"})
         IN IF forms = {} THEN parseGitDiffSpec(kind, spec) = "bad"
                          ELSE forms = {parseGitDiffSpec(kind, spec)}
<1> DEFINE s == spec.text
           forms == DiffForms(spec) \cap (IF kind = "show" THEN {"show"} ELSE {"dots2", "dots3"})
<1>1. s \in Seq(Chars) /\ spec.diff \in BOOLEAN
  OBVIOUS
<1>2. /\ Two \in Seq(Chars) /\ Len(Two) = 2 /\ Two[1] = "."
      /\ Three \in Seq(Chars) /\ Len(Three) = 3 /\ Three[1] = "." /\ Two # Three
  BY DEF Two, Three, Chars
<1>3. /\ "show" \in DiffForms(spec) <=> spec.diff /\ s \in IDs
      /\ "dots2" \in DiffForms(spec) <=> spec.diff /\ Joined(s, Two)
      /\ "dots3" \in DiffForms(spec) <=> spec.diff /\ Joined(s, Three)
  BY DEF DiffForms, Joined
<1>4. isGitObjectID(s) <=> s \in IDs
  BY <1>1, ObjectIDs
<1>5. \A sep \in {Two, Three} :
        /\ Contains(s, sep) /\ isGitObjectID(Before(s, sep)) /\ isGitObjectID(After(s, sep))
        <=> Joined(s, sep)
  BY <1>1, <1>2, CutIsExact
<1>6. Joined(s, Two) => ~Contains(s, Three)
  BY <1>1, TwoIsNotThree
<1>7. CASE ~spec.diff
  <2>1. forms = {}
    BY <1>3, <1>7
  <2>2. parseGitDiffSpec(kind, spec) = "bad"
    BY <1>7 DEF parseGitDiffSpec
  <2>3. QED
    BY <2>1, <2>2
<1>8. CASE spec.diff /\ kind = "show"
  <2>1. parseGitDiffSpec(kind, spec) = IF s \in IDs THEN "show" ELSE "bad"
    BY <1>4, <1>8 DEF parseGitDiffSpec
  <2>2. forms = IF s \in IDs THEN {"show"} ELSE {}
    BY <1>3, <1>8
  <2>3. QED
    BY <2>1, <2>2
<1>9. CASE spec.diff /\ kind = "compare"
  <2> DEFINE sep == Separator(s)
  <2>1. sep = (IF Contains(s, Three) THEN Three ELSE Two) /\ sep \in {Two, Three}
    BY DEF Separator
  <2>2. parseGitDiffSpec(kind, spec) =
          IF ~Joined(s, sep) THEN "bad" ELSE IF sep = Three THEN "dots3" ELSE "dots2"
    BY <1>5, <1>9, <2>1 DEF parseGitDiffSpec
  <2>3. CASE Contains(s, Three)
    <3>1. sep = Three /\ ~Joined(s, Two)
      BY <1>6, <2>1, <2>3
    <3>2. forms = IF Joined(s, Three) THEN {"dots3"} ELSE {}
      BY <1>3, <1>9, <3>1
    <3>3. QED
      BY <2>2, <3>1, <3>2
  <2>4. CASE ~Contains(s, Three)
    <3>1. sep = Two /\ ~Joined(s, Three) /\ sep # Three
      BY <1>2, <1>5, <2>1, <2>4
    <3>2. forms = IF Joined(s, Two) THEN {"dots2"} ELSE {}
      BY <1>3, <1>9, <3>1
    <3>3. QED
      BY <2>2, <3>1, <3>2
  <2>5. QED
    BY <2>3, <2>4
<1>10. QED
  BY <1>7, <1>8, <1>9

-----------------------------------------------------------------------------
(***************************************************************************)
(* The segments of a path.                                                 *)
(***************************************************************************)

\* w is p with a slash on either side.
Wraps(w, p) ==
  /\ w \in Seq(Chars) /\ Len(w) = Len(p) + 2
  /\ w[1] = "/" /\ w[Len(p) + 2] = "/"
  /\ \A k \in 1..Len(p) : w[k + 1] = p[k]

\* The positions strings.Split cuts at, with the two ends of the path.
Cuts(p) == {0, Len(p) + 1} \cup Occurs(p, Slash)

\* A slash, found by strings.Contains and strings.Cut.
LEMMA SlashAt ==
  ASSUME NEW s \in Seq(Chars), NEW i
  PROVE  i \in Occurs(s, Slash) <=> i \in 1..Len(s) /\ s[i] = "/"
<1>1. Slash \in Seq(Chars) /\ Len(Slash) = 1 /\ Slash[1] = "/"
  BY DEF Slash, Chars
<1>2. Len(s) \in Nat /\ Len(Slash) > 0
  BY <1>1, LenProperties
<1>3. i \in Occurs(s, Slash) <=>
        /\ i \in 1..Len(s) /\ i + Len(Slash) - 1 <= Len(s)
        /\ \A k \in 1..Len(Slash) : s[i + k - 1] = Slash[k]
  <2>1. Slash \in Seq(Chars) /\ Len(Slash) > 0
    BY <1>1, <1>2
  <2>2. i \in Occurs(s, Slash) <=> FoundAt(s, Slash, i)
    BY <2>1, OccursAt
  <2>3. QED
    BY <2>2 DEF FoundAt
<1>4. ASSUME i \in 1..Len(s)
      PROVE  /\ i + 1 - 1 <= Len(s)
             /\ (\A k \in 1..1 : s[i + k - 1] = Slash[k]) <=> s[i] = "/"
  <2>1. i + 1 - 1 = i /\ i <= Len(s)
    BY <1>2, <1>4
  <2>2. \A k \in 1..1 : k = 1
    OBVIOUS
  <2>3. 1 \in 1..1
    OBVIOUS
  <2>4. (\A k \in 1..1 : s[i + k - 1] = Slash[k]) <=> s[i + 1 - 1] = Slash[1]
    BY <2>2, <2>3
  <2>5. QED
    BY <1>1, <2>1, <2>4
<1>5. QED
  BY <1>1, <1>3, <1>4

\* The path is cut where the wrapped path has a slash.
LEMMA EndsAt ==
  ASSUME NEW p \in Seq(Chars), NEW w, Wraps(w, p), NEW e
  PROVE  e \in Cuts(p) <=> e \in 0..(Len(p) + 1) /\ w[e + 1] = "/"
<1>1. Len(p) \in Nat
  BY LenProperties
<1>2. /\ w[1] = "/" /\ w[Len(p) + 2] = "/"
      /\ \A k \in 1..Len(p) : w[k + 1] = p[k]
  BY DEF Wraps
<1>3. CASE e \in 1..Len(p)
  <2>1. e # 0 /\ e # Len(p) + 1 /\ e \in 0..(Len(p) + 1)
    BY <1>1, <1>3
  <2>2. w[e + 1] = p[e]
    BY <1>2, <1>3
  <2>3. e \in Occurs(p, Slash) <=> p[e] = "/"
    BY <1>3, SlashAt
  <2>4. QED
    BY <2>1, <2>2, <2>3 DEF Cuts
<1>4. CASE e = 0
  <2>1. 0 \in 0..(Len(p) + 1) /\ 0 + 1 = 1
    BY <1>1
  <2>2. QED
    BY <1>2, <1>4, <2>1 DEF Cuts
<1>5. CASE e = Len(p) + 1
  <2>1. Len(p) + 1 \in 0..(Len(p) + 1) /\ Len(p) + 1 + 1 = Len(p) + 2
    BY <1>1
  <2>2. QED
    BY <1>2, <1>5, <2>1 DEF Cuts
<1>6. CASE e \notin 1..Len(p) /\ e # 0 /\ e # Len(p) + 1
  <2>1. e \notin Occurs(p, Slash)
    BY <1>6, SlashAt
  <2>2. e \notin 0..(Len(p) + 1)
    BY <1>1, <1>6
  <2>3. QED
    BY <1>6, <2>1, <2>2 DEF Cuts
<1>7. QED
  BY <1>3, <1>4, <1>5, <1>6

\* A segment is what lies between two neighbouring ends.
LEMMA SegmentIs ==
  ASSUME NEW p, NEW q
  PROVE  q \in Segments(p) <=>
           \E d, e \in Cuts(p) : /\ d < e /\ q = SubSeq(p, d + 1, e - 1)
                                 /\ \A k \in Cuts(p) : k <= d \/ e <= k
<1> DEFINE E == {r \in Cuts(p) \X Cuts(p) :
                   r[1] < r[2] /\ \A k \in Cuts(p) : k <= r[1] \/ r[2] <= k}
<1>1. Segments(p) = {SubSeq(p, r[1] + 1, r[2] - 1) : r \in E}
  BY DEF Segments, Cuts
<1>2. ASSUME q \in Segments(p)
      PROVE  \E d, e \in Cuts(p) : /\ d < e /\ q = SubSeq(p, d + 1, e - 1)
                                   /\ \A k \in Cuts(p) : k <= d \/ e <= k
  <2>1. PICK r \in E : q = SubSeq(p, r[1] + 1, r[2] - 1)
    BY <1>1, <1>2
  <2>2. r[1] \in Cuts(p) /\ r[2] \in Cuts(p)
    OBVIOUS
  <2>3. QED
    BY <2>1, <2>2
<1>3. ASSUME NEW d \in Cuts(p), NEW e \in Cuts(p), d < e, q = SubSeq(p, d + 1, e - 1),
             \A k \in Cuts(p) : k <= d \/ e <= k
      PROVE  q \in Segments(p)
  <2>1. <<d, e>> \in E
    BY <1>3
  <2>2. <<d, e>>[1] = d /\ <<d, e>>[2] = e
    OBVIOUS
  <2>3. QED
    BY <1>1, <1>3, <2>1, <2>2
<1>4. QED
  BY <1>2, <1>3

\* A text without slashes is a segment of a path if and only if it occurs between
\* two slashes of the wrapped path.
LEMMA SegmentOccurs ==
  ASSUME NEW p \in Seq(Chars), NEW w, Wraps(w, p),
         NEW q \in Seq(Chars), NEW f, Wraps(f, q), \A k \in 1..Len(q) : q[k] # "/"
  PROVE  q \in Segments(p) <=> Contains(w, f)
<1>1. /\ Len(p) \in Nat /\ Len(q) \in Nat
      /\ w \in Seq(Chars) /\ Len(w) = Len(p) + 2 /\ \A k \in 1..Len(p) : w[k + 1] = p[k]
      /\ f \in Seq(Chars) /\ Len(f) = Len(q) + 2 /\ \A k \in 1..Len(q) : f[k + 1] = q[k]
      /\ f[1] = "/" /\ f[Len(q) + 2] = "/"
  BY LenProperties DEF Wraps
<1> DEFINE P == Len(p)
           Q == Len(q)
<1>2. P \in Nat /\ Q \in Nat
  BY <1>1
<1>3. \A k \in 1..P : p[k] \in Chars
  BY ElementOfSeq
<1>4. \A i : i \in Occurs(w, f) <=>
        /\ i \in 1..Len(w) /\ i + Len(f) - 1 <= Len(w)
        /\ \A k \in 1..Len(f) : w[i + k - 1] = f[k]
  <2>1. w \in Seq(Chars) /\ f \in Seq(Chars) /\ Len(f) > 0
    BY <1>1
  <2>2. \A i : i \in Occurs(w, f) <=> FoundAt(w, f, i)
    BY <2>1, OccursAt
  <2>3. QED
    BY <2>2 DEF FoundAt
<1>5. \A i : i \in Occurs(w, f) <=>
        /\ i \in 1..(P + 2) /\ i + (Q + 2) - 1 <= P + 2
        /\ \A k \in 1..(Q + 2) : w[i + k - 1] = f[k]
  BY <1>1, <1>4
<1>6. \A e : e \in Cuts(p) <=> e \in 0..(P + 1) /\ w[e + 1] = "/"
  BY EndsAt
<1>7. \A d, e \in Int : (\A k \in d..e : p[k] \in Chars) =>
        /\ SubSeq(p, d, e) \in Seq(Chars)
        /\ Len(SubSeq(p, d, e)) = IF d <= e THEN e - d + 1 ELSE 0
        /\ \A k \in 1..(e - d + 1) : SubSeq(p, d, e)[k] = p[d + k - 1]
  BY SubSeqProperties
<1>8. ASSUME q \in Segments(p) PROVE Contains(w, f)
  <2>1. PICK d \in Cuts(p), e \in Cuts(p) : d < e /\ q = SubSeq(p, d + 1, e - 1)
    BY <1>8, SegmentIs
  <2>2. d \in 0..(P + 1) /\ e \in 0..(P + 1) /\ w[d + 1] = "/" /\ w[e + 1] = "/"
    BY <1>6
  <2>3. /\ d + 1 \in Int /\ e - 1 \in Int /\ \A k \in (d + 1)..(e - 1) : k \in 1..P
    BY <1>2, <2>1, <2>2
  <2>4. \A k \in (d + 1)..(e - 1) : p[k] \in Chars
    BY <1>3, <2>3
  <2>5. /\ Q = IF d + 1 <= e - 1 THEN e - 1 - (d + 1) + 1 ELSE 0
        /\ \A k \in 1..(e - 1 - (d + 1) + 1) : q[k] = p[d + 1 + k - 1]
    BY <1>7, <2>1, <2>3, <2>4
  <2>6. Q = e - d - 1 /\ e - 1 - (d + 1) + 1 = Q
    BY <1>2, <2>1, <2>2, <2>5
  <2>7. ASSUME NEW k \in 1..(Q + 2) PROVE w[d + 1 + k - 1] = f[k]
    <3>1. CASE k = 1
      <4>1. d + 1 + 1 - 1 = d + 1
        BY <2>2
      <4>2. QED
        BY <1>1, <2>2, <3>1, <4>1
    <3>2. CASE k = Q + 2
      <4>1. d + 1 + (Q + 2) - 1 = e + 1
        BY <1>2, <2>2, <2>6
      <4>2. QED
        BY <1>1, <2>2, <3>2, <4>1
    <3>3. CASE k \in 2..(Q + 1)
      <4> DEFINE m == k - 1
                 j == d + m
      <4>1. m \in 1..Q /\ k = m + 1 /\ j \in 1..P
        BY <1>2, <2>1, <2>2, <2>6, <3>3
      <4>2. d + 1 + k - 1 = j + 1 /\ d + 1 + m - 1 = j
        BY <1>2, <2>2, <4>1
      <4> HIDE DEF m, j
      <4>3. w[j + 1] = p[j] /\ f[m + 1] = q[m]
        BY <1>1, <4>1
      <4>4. q[m] = p[d + 1 + m - 1]
        BY <2>5, <2>6, <4>1
      <4>5. QED
        BY <4>1, <4>2, <4>3, <4>4
    <3>4. QED
      BY <1>2, <3>1, <3>2, <3>3
  <2>8. d + 1 \in 1..(P + 2) /\ d + 1 + (Q + 2) - 1 <= P + 2
    BY <1>2, <2>1, <2>2, <2>6
  <2>9. d + 1 \in Occurs(w, f)
    BY <1>5, <2>7, <2>8
  <2>10. QED
    BY <2>9 DEF Contains
<1>9. ASSUME Contains(w, f) PROVE q \in Segments(p)
  <2>1. PICK i : i \in Occurs(w, f)
    BY <1>9 DEF Contains
  <2>2. /\ i \in 1..(P + 2) /\ i + (Q + 2) - 1 <= P + 2
        /\ \A k \in 1..(Q + 2) : w[i + k - 1] = f[k]
    BY <1>5, <2>1
  <2> DEFINE d == i - 1
             e == i + Q
  <2>3. d \in Cuts(p)
    <3>1. d \in 0..(P + 1) /\ d + 1 = i + 1 - 1 /\ 1 \in 1..(Q + 2)
      BY <1>2, <2>2
    <3>2. w[i + 1 - 1] = "/"
      BY <1>1, <2>2, <3>1
    <3>3. QED
      BY <1>6, <3>1, <3>2
  <2>4. e \in Cuts(p)
    <3>1. e \in 0..(P + 1) /\ e + 1 = i + (Q + 2) - 1 /\ Q + 2 \in 1..(Q + 2)
      BY <1>2, <2>2
    <3>2. w[i + (Q + 2) - 1] = "/"
      BY <1>1, <2>2, <3>1
    <3>3. QED
      BY <1>6, <3>1, <3>2
  <2>5. ASSUME NEW k \in Cuts(p) PROVE k <= d \/ e <= k
    <3> SUFFICES ASSUME ~(k <= d), ~(e <= k) PROVE FALSE
      OBVIOUS
    <3> DEFINE m == k + 1 - i
    <3>1. k \in 0..(P + 1) /\ w[k + 1] = "/"
      BY <1>6
    <3>2. m \in 1..Q /\ m + 1 \in 1..(Q + 2) /\ i + (m + 1) - 1 = k + 1
      BY <1>2, <2>2, <3>1
    <3> HIDE DEF m
    <3>3. w[i + (m + 1) - 1] = f[m + 1] /\ f[m + 1] = q[m] /\ q[m] # "/"
      BY <1>1, <2>2, <3>2
    <3>4. QED
      BY <3>1, <3>2, <3>3
  <2>6. q = SubSeq(p, i, i + Q - 1)
    <3> DEFINE g == SubSeq(p, i, i + Q - 1)
    <3>1. i \in Int /\ i + Q - 1 \in Int /\ \A k \in i..(i + Q - 1) : k \in 1..P
      BY <1>2, <2>2
    <3>2. \A k \in i..(i + Q - 1) : p[k] \in Chars
      BY <1>3, <3>1
    <3>3. /\ g \in Seq(Chars)
          /\ Len(g) = IF i <= i + Q - 1 THEN i + Q - 1 - i + 1 ELSE 0
          /\ \A k \in 1..(i + Q - 1 - i + 1) : g[k] = p[i + k - 1]
      BY <1>7, <3>1, <3>2
    <3> HIDE DEF g
    <3>4. Len(g) = Q /\ i + Q - 1 - i + 1 = Q
      BY <1>2, <2>2, <3>3
    <3>5. ASSUME NEW k \in 1..Q PROVE g[k] = q[k]
      <4> DEFINE j == i + k - 1
      <4>1. j \in 1..P /\ j + 1 = i + (k + 1) - 1 /\ k + 1 \in 1..(Q + 2)
        BY <1>2, <2>2
      <4>2. g[k] = p[j]
        BY <3>3, <3>4
      <4> HIDE DEF j
      <4>3. p[j] = w[j + 1]
        BY <1>1, <4>1
      <4>4. w[i + (k + 1) - 1] = f[k + 1] /\ f[k + 1] = q[k]
        BY <1>1, <2>2, <4>1
      <4>5. QED
        BY <4>1, <4>2, <4>3, <4>4
    <3>6. g = q
      BY <3>3, <3>4, <3>5, SeqEqual
    <3>7. QED
      BY <3>6 DEF g
  <2>7. d < e /\ d + 1 = i /\ e - 1 = i + Q - 1
    BY <1>2, <2>2
  <2>8. QED
    BY <2>3, <2>4, <2>5, <2>6, <2>7, SegmentIs
<1>10. QED
  BY <1>8, <1>9

\* What parseGitRawSpec keeps behind an object id of n characters, and what
\* RawForm looks at, differ by the slashes around.
LEMMA PathIsWrapped ==
  ASSUME NEW s \in Seq(Chars), NEW n \in Nat, n + 1 <= Len(s), s[n + 1] = "/"
  PROVE  Wraps(SubSeq(s, n + 1, Len(s)) \o Slash, SubSeq(s, n + 2, Len(s)))
<1> DEFINE L == Len(s)
           u == SubSeq(s, n + 1, L)
           p == SubSeq(s, n + 2, L)
           w == u \o Slash
<1>1. L \in Nat /\ n + 1 \in Int /\ n + 2 \in Int /\ L \in Int
  BY LenProperties
<1>2. \A k \in 1..L : s[k] \in Chars
  BY ElementOfSeq
<1>3. \A d, e \in Int : (\A k \in d..e : s[k] \in Chars) =>
        /\ SubSeq(s, d, e) \in Seq(Chars)
        /\ Len(SubSeq(s, d, e)) = IF d <= e THEN e - d + 1 ELSE 0
        /\ \A k \in 1..(e - d + 1) : SubSeq(s, d, e)[k] = s[d + k - 1]
  BY SubSeqProperties
<1>4. (\A k \in (n + 1)..L : k \in 1..L) /\ (\A k \in (n + 2)..L : k \in 1..L)
  BY <1>1
<1>5. /\ u \in Seq(Chars)
      /\ Len(u) = IF n + 1 <= L THEN L - (n + 1) + 1 ELSE 0
      /\ \A k \in 1..(L - (n + 1) + 1) : u[k] = s[n + 1 + k - 1]
  BY <1>1, <1>2, <1>3, <1>4
<1>6. /\ p \in Seq(Chars)
      /\ Len(p) = IF n + 2 <= L THEN L - (n + 2) + 1 ELSE 0
      /\ \A k \in 1..(L - (n + 2) + 1) : p[k] = s[n + 2 + k - 1]
  BY <1>1, <1>2, <1>3, <1>4
<1>7. Slash \in Seq(Chars) /\ Len(Slash) = 1 /\ Slash[1] = "/"
  BY DEF Slash, Chars
<1>8. /\ w \in Seq(Chars) /\ Len(w) = Len(u) + Len(Slash)
      /\ \A k \in 1..Len(u) + Len(Slash) :
           w[k] = IF k <= Len(u) THEN u[k] ELSE Slash[k - Len(u)]
  <2>1. u \in Seq(Chars) /\ Slash \in Seq(Chars)
    BY <1>5, <1>7
  <2> HIDE DEF u
  <2>2. QED
    BY <2>1, ConcatProperties
<1> HIDE DEF L, u, p, w
<1>9. /\ Len(u) = Len(p) + 1 /\ Len(p) \in Nat /\ Len(w) = Len(p) + 2
      /\ L - (n + 1) + 1 = Len(u) /\ L - (n + 2) + 1 = Len(p)
  BY <1>1, <1>5, <1>6, <1>7, <1>8 DEF L
<1>10. w[1] = "/"
  <2>1. 1 \in 1..Len(u) + Len(Slash) /\ 1 <= Len(u) /\ 1 \in 1..Len(u) /\ n + 1 + 1 - 1 = n + 1
    BY <1>7, <1>9
  <2>2. w[1] = u[1] /\ u[1] = s[n + 1 + 1 - 1]
    BY <1>5, <1>8, <1>9, <2>1
  <2>3. QED
    BY <2>1, <2>2
<1>11. w[Len(p) + 2] = "/"
  <2>1. /\ Len(p) + 2 \in 1..Len(u) + Len(Slash) /\ ~(Len(p) + 2 <= Len(u))
        /\ Len(p) + 2 - Len(u) = 1
    BY <1>7, <1>9
  <2>2. w[Len(p) + 2] = Slash[Len(p) + 2 - Len(u)]
    BY <1>8, <2>1
  <2>3. QED
    BY <1>7, <2>1, <2>2
<1>12. ASSUME NEW k \in 1..Len(p) PROVE w[k + 1] = p[k]
  <2>1. /\ k + 1 \in 1..Len(u) + Len(Slash) /\ k + 1 <= Len(u) /\ k + 1 \in 1..Len(u)
        /\ n + 1 + (k + 1) - 1 = n + 2 + k - 1
    BY <1>7, <1>9
  <2>2. w[k + 1] = u[k + 1] /\ u[k + 1] = s[n + 1 + (k + 1) - 1] /\ p[k] = s[n + 2 + k - 1]
    BY <1>5, <1>6, <1>8, <1>9, <2>1
  <2>3. QED
    BY <2>1, <2>2
<1>13. Wraps(w, p)
  BY <1>8, <1>9, <1>10, <1>11, <1>12 DEF Wraps
<1>14. QED
  BY <1>13 DEF w, u, p, L

\* The three kinds of segment that parseGitRawSpec refuses, between slashes.
LEMMA BadSegments ==
  ASSUME NEW p \in Seq(Chars), NEW w, Wraps(w, p)
  PROVE  (\A g \in Segments(p) : g \notin {<<>>, <<".">>, Two}) <=>
         (\A bad \in {<<"/", "/">>, <<"/", ".", "/">>, <<"/", ".", ".", "/">>} :
            ~Contains(w, bad))
<1>1. <<>> \in Segments(p) <=> Contains(w, <<"/", "/">>)
  <2>1. <<>> \in Seq(Chars) /\ \A k \in 1..Len(<<>>) : <<>>[k] # "/"
    OBVIOUS
  <2>2. Wraps(<<"/", "/">>, <<>>)
    BY DEF Wraps, Chars
  <2>3. QED
    BY <2>1, <2>2, SegmentOccurs
<1>2. <<".">> \in Segments(p) <=> Contains(w, <<"/", ".", "/">>)
  <2>1. <<".">> \in Seq(Chars) /\ \A k \in 1..Len(<<".">>) : <<".">>[k] # "/"
    BY DEF Chars
  <2>2. Wraps(<<"/", ".", "/">>, <<".">>)
    BY DEF Wraps, Chars
  <2>3. QED
    BY <2>1, <2>2, SegmentOccurs
<1>3. Two \in Segments(p) <=> Contains(w, <<"/", ".", ".", "/">>)
  <2>1. Two \in Seq(Chars) /\ \A k \in 1..Len(Two) : Two[k] # "/"
    BY DEF Chars, Two
  <2>2. Wraps(<<"/", ".", ".", "/">>, Two)
    BY DEF Wraps, Chars, Two
  <2>3. QED
    BY <2>1, <2>2, SegmentOccurs
<1>4. QED
  BY <1>1, <1>2, <1>3

\* parseGitRawSpec takes a raw URL if and only if it is an object id, a slash and
\* a path without empty, "." or ".." segments, whatever the length of the text.
THEOREM RawParserIsExact ==
  ASSUME NEW spec \in [text : Seq(Chars), diff : {FALSE}]
  PROVE  parseGitRawSpec(spec) = IF RawForm(spec) THEN "raw" ELSE "bad"
<1> DEFINE s == spec.text
           Path(n) == SubSeq(s, n + 1, Len(s)) \o Slash
           Clean(w) == \A bad \in {<<"/", "/">>, <<"/", ".", "/">>, <<"/", ".", ".", "/">>} :
                         ~Contains(w, bad)
           ok == /\ Contains(s, Slash)
                 /\ isGitObjectID(Before(s, Slash))
                 /\ After(s, Slash) # <<>>
                 /\ \A g \in Segments(After(s, Slash)) : g \notin {<<>>, <<".">>, Two}
<1>1. s \in Seq(Chars) /\ Len(s) \in Nat
  BY LenProperties
<1>2. Slash \in Seq(Chars) /\ Len(Slash) = 1 /\ Len(Slash) > 0
  BY DEF Slash, Chars
<1>3. RawForm(spec) <=> \E n \in MinID..MaxID :
        /\ Len(s) > n + 1 /\ SubSeq(s, 1, n) \in IDs /\ Path(n)[1] = "/" /\ Clean(Path(n))
  BY DEF RawForm
<1>4. parseGitRawSpec(spec) = IF ok THEN "raw" ELSE "bad"
  BY DEF parseGitRawSpec
<1> HIDE DEF s, Clean
\* Cutting at a slash that only hex digits precede.
<1>5. ASSUME NEW n \in Nat, n + 1 \in Occurs(s, Slash), \A j \in Occurs(s, Slash) : n + 1 <= j
      PROVE  /\ Contains(s, Slash) /\ Before(s, Slash) = SubSeq(s, 1, n)
             /\ Before(s, Slash) \in Seq(Chars) /\ Len(Before(s, Slash)) = n
             /\ After(s, Slash) = SubSeq(s, n + 2, Len(s))
             /\ After(s, Slash) # <<>> <=> Len(s) > n + 1
             /\ Path(n)[1] = "/"
             /\ Clean(Path(n)) <=>
                  \A g \in Segments(After(s, Slash)) : g \notin {<<>>, <<".">>, Two}
  <2>1. n + 1 \in 1..Len(s) /\ s[n + 1] = "/"
    BY <1>1, <1>5, SlashAt
  <2>2. /\ Contains(s, Slash) /\ First(s, Slash) = n + 1
        /\ Before(s, Slash) \in Seq(Chars) /\ Len(Before(s, Slash)) = n + 1 - 1
        /\ After(s, Slash) \in Seq(Chars)
        /\ Len(After(s, Slash)) = Len(s) - (n + 1 + Len(Slash) - 1)
    <3>1. s \in Seq(Chars) /\ Slash \in Seq(Chars) /\ Len(Slash) > 0
      BY <1>1, <1>2
    <3>2. CutAt(s, Slash, n + 1)
      BY <1>5, <3>1, Cut
    <3>3. QED
      BY <3>2 DEF CutAt
  <2>3. n + 1 - 1 = n /\ n + 1 + Len(Slash) = n + 2 /\ n + 1 + Len(Slash) - 1 = n + 1
    BY <1>2
  <2>4. Before(s, Slash) = SubSeq(s, 1, n) /\ After(s, Slash) = SubSeq(s, n + 2, Len(s))
    BY <2>2, <2>3 DEF Before, After
  <2>5. After(s, Slash) # <<>> <=> Len(s) > n + 1
    <3>1. After(s, Slash) # <<>> <=> Len(After(s, Slash)) # 0
      BY <2>2, EmptySeq
    <3>2. Len(After(s, Slash)) = Len(s) - (n + 1)
      BY <2>2, <2>3
    <3>3. QED
      BY <1>1, <3>1, <3>2
  <2>6. Wraps(Path(n), After(s, Slash))
    <3>1. n + 1 <= Len(s)
      BY <1>1, <2>1
    <3>2. QED
      BY <1>1, <2>1, <2>4, <3>1, PathIsWrapped
  <2>7. Path(n)[1] = "/"
    BY <2>6 DEF Wraps
  <2>8. Clean(Path(n)) <=>
          \A g \in Segments(After(s, Slash)) : g \notin {<<>>, <<".">>, Two}
    BY <2>2, <2>6, BadSegments DEF Clean
  <2>9. QED
    BY <2>2, <2>3, <2>4, <2>5, <2>7, <2>8
<1>6. ASSUME ok PROVE RawForm(spec)
  <2> DEFINE n == First(s, Slash) - 1
  <2>1. First(s, Slash) \in Occurs(s, Slash) /\ \A j \in Occurs(s, Slash) : First(s, Slash) <= j
    BY <1>1, <1>6, FirstIs
  <2>2. First(s, Slash) \in 1..Len(s)
    BY <1>1, <2>1, SlashAt
  <2>3. n \in Nat /\ n + 1 = First(s, Slash)
    BY <1>1, <2>2
  <2> HIDE DEF n
  <2>4. n + 1 \in Occurs(s, Slash) /\ \A j \in Occurs(s, Slash) : n + 1 <= j
    BY <2>1, <2>3
  <2>5. /\ Before(s, Slash) = SubSeq(s, 1, n)
        /\ Before(s, Slash) \in Seq(Chars) /\ Len(Before(s, Slash)) = n
        /\ Len(s) > n + 1 /\ Path(n)[1] = "/" /\ Clean(Path(n))
    BY <1>5, <1>6, <2>3, <2>4
  <2>6. SubSeq(s, 1, n) \in IDs
    BY <1>6, <2>5, ObjectIDs
  <2>7. n \in MinID..MaxID
    BY <1>6, <2>5 DEF isGitObjectID
  <2>8. QED
    BY <1>3, <2>5, <2>6, <2>7
<1>7. ASSUME RawForm(spec) PROVE ok
  <2>1. PICK n \in MinID..MaxID :
          /\ Len(s) > n + 1 /\ SubSeq(s, 1, n) \in IDs /\ Path(n)[1] = "/" /\ Clean(Path(n))
    BY <1>3, <1>7
  <2>2. n \in Nat /\ n + 1 \in 1..Len(s)
    BY <1>1, <2>1, SpecsAssumption
  <2>3. \A d, e \in Int : (\A k \in d..e : s[k] \in Chars) =>
          /\ SubSeq(s, d, e) \in Seq(Chars)
          /\ Len(SubSeq(s, d, e)) = IF d <= e THEN e - d + 1 ELSE 0
          /\ \A k \in 1..(e - d + 1) : SubSeq(s, d, e)[k] = s[d + k - 1]
    BY <1>1, SubSeqProperties
  <2>4. \A k \in 1..Len(s) : s[k] \in Chars
    BY <1>1, ElementOfSeq
  <2>5. ASSUME NEW k \in 1..n PROVE s[k] = "h"
    <3> DEFINE b == SubSeq(s, 1, n)
    <3>1. 1 \in Int /\ n \in Int /\ \A j \in 1..n : j \in 1..Len(s)
      BY <1>1, <2>2
    <3>2. \A j \in 1..n : s[j] \in Chars
      BY <2>4, <3>1
    <3>3. /\ Len(b) = IF 1 <= n THEN n - 1 + 1 ELSE 0
          /\ \A j \in 1..(n - 1 + 1) : b[j] = s[1 + j - 1]
      BY <2>3, <3>1, <3>2
    <3>4. n - 1 + 1 = n /\ 1 <= n /\ 1 + k - 1 = k
      BY <2>2
    <3>5. Len(b) = n /\ b[k] = s[k]
      BY <3>3, <3>4
    <3>6. b[k] = "h"
      <4>1. \A j \in 1..Len(b) : b[j] = "h"
        BY <2>1, IDIsText
      <4>2. QED
        BY <3>5, <4>1
    <3>7. QED
      BY <3>5, <3>6
  <2>6. s[n + 1] = "/"
    <3> DEFINE u == SubSeq(s, n + 1, Len(s))
    <3>1. n + 1 \in Int /\ Len(s) \in Int /\ \A j \in (n + 1)..Len(s) : j \in 1..Len(s)
      BY <1>1, <2>2
    <3>2. \A j \in (n + 1)..Len(s) : s[j] \in Chars
      BY <2>4, <3>1
    <3>3. /\ u \in Seq(Chars)
          /\ Len(u) = IF n + 1 <= Len(s) THEN Len(s) - (n + 1) + 1 ELSE 0
          /\ \A j \in 1..(Len(s) - (n + 1) + 1) : u[j] = s[n + 1 + j - 1]
      BY <2>3, <3>1, <3>2
    <3>4. Len(u) >= 1 /\ Len(u) \in Nat /\ 1 \in 1..(Len(s) - (n + 1) + 1) /\ n + 1 + 1 - 1 = n + 1
      BY <1>1, <2>2, <3>3
    <3>5. u[1] = s[n + 1]
      BY <3>3, <3>4
    <3> HIDE DEF u
    <3>6. \A j \in 1..Len(u) + Len(Slash) :
            (u \o Slash)[j] = IF j <= Len(u) THEN u[j] ELSE Slash[j - Len(u)]
      BY <1>2, <3>3, ConcatProperties
    <3>7. (u \o Slash)[1] = u[1]
      BY <1>2, <3>4, <3>6
    <3>8. QED
      BY <2>1, <3>5, <3>7 DEF u
  <2>7. n + 1 \in Occurs(s, Slash)
    BY <1>1, <2>2, <2>6, SlashAt
  <2>8. ASSUME NEW j \in Occurs(s, Slash) PROVE n + 1 <= j
    <3>1. j \in 1..Len(s) /\ s[j] = "/"
      BY <1>1, SlashAt
    <3>2. j \notin 1..n
      BY <2>5, <3>1
    <3>3. QED
      BY <1>1, <2>2, <3>1, <3>2
  <2>9. /\ Contains(s, Slash) /\ Before(s, Slash) = SubSeq(s, 1, n)
        /\ Before(s, Slash) \in Seq(Chars)
        /\ After(s, Slash) # <<>> <=> Len(s) > n + 1
        /\ Clean(Path(n)) <=>
             \A g \in Segments(After(s, Slash)) : g \notin {<<>>, <<".">>, Two}
    BY <1>5, <2>2, <2>7, <2>8
  <2>10. isGitObjectID(Before(s, Slash))
    BY <2>1, <2>9, ObjectIDs
  <2>11. QED
    BY <2>1, <2>9, <2>10
<1>8. QED
  BY <1>4, <1>6, <1>7
=============================================================================
