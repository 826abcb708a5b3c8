-------------------------- MODULE ExecStreamProofs ---------------------------
(***************************************************************************)
(* What the SDK hands to its caller is what the command wrote, for every   *)
(* alphabet, every set of chunks, any number of them and every point at    *)
(* which the connection breaks.  First what Text and Split compute, by     *)
(* induction on the characters; then the invariant, which looks ahead: it  *)
(* follows the client over the lines that are still on the way.            *)
(***************************************************************************)
EXTENDS ExecStream, TLAPS, WellFoundedInduction, SequenceTheorems

-----------------------------------------------------------------------------
(* Induction and recursion.                                                *)

(* A set of naturals that is not empty has a least element.                *)
LEMMA LeastNat ==
    ASSUME NEW S \in SUBSET Nat, S # {}
    PROVE  \E i \in S : \A j \in S : i <= j
<1> DEFINE R == {p \in Nat \X Nat : p[1] < p[2]}
<1>1. IsWellFoundedOn(R, Nat)
  BY NatLessThanWellFounded, Zenon DEF OpToRel
<1> HIDE DEF R
<1>2. PICK x \in S : \A y \in S : <<y, x>> \notin R
  BY <1>1, WFMin
<1>3. ASSUME NEW y \in S PROVE x <= y
  <2>1. x \in Nat /\ y \in Nat
    OBVIOUS
  <2>2. <<y, x>> \in Nat \X Nat /\ <<y, x>>[1] = y /\ <<y, x>>[2] = x
    BY <2>1
  <2>3. ~(y < x)
    BY <1>2, <2>2 DEF R
  <2> QED
    BY <2>1, <2>3
<1> QED
  BY <1>3

(* A set that has 0 and, with each k below n, k + 1, has all of 0..n.      *)
LEMMA UpTo ==
    ASSUME NEW n \in Nat, NEW S, 0 \in S,
           \A k \in 0..n : k < n /\ k \in S => k + 1 \in S
    PROVE  \A k \in 0..n : k \in S
<1> DEFINE Bad == {k \in 0..n : k \notin S}
<1> SUFFICES ASSUME Bad # {} PROVE FALSE
  OBVIOUS
<1>1. PICK m \in Bad : \A j \in Bad : m <= j
  <2>1. Bad \in SUBSET Nat
    OBVIOUS
  <2> HIDE DEF Bad
  <2> QED
    BY <2>1, LeastNat
<1>2. m \in 0..n /\ m # 0 /\ m \notin S
  BY <1>1
<1>3. m - 1 \in 0..n /\ m - 1 < n /\ m - 1 \notin Bad
  BY <1>1, <1>2
<1>4. m - 1 \in S
  BY <1>3
<1>5. (m - 1) + 1 \in S
  BY <1>3, <1>4
<1> QED
  BY <1>2, <1>5

(* g satisfies the recursion that starts with t0 and goes on with f.       *)
Solves(g, n, t0, f) == g[0] = t0 /\ \A k \in 1..n : g[k] = f[<<k, g[k - 1]>>]

(* A recursion over 1..n, its step given as a function, has a solution.    *)
LEMMA RecursionExists ==
    ASSUME NEW n \in Nat, NEW T, NEW t0 \in T, NEW f \in [(1..n) \X T -> T]
    PROVE  \E g \in [0..n -> T] : Solves(g, n, t0, f)
<1> DEFINE Upto(g, m) == g[0] = t0 /\ \A k \in 1..m : g[k] = f[<<k, g[k - 1]>>]
           S == {m \in 0..n : \E g \in [0..m -> T] : Upto(g, m)}
<1>1. 0 \in S
  <2> DEFINE h == [k \in 0..0 |-> t0]
  <2>1. h \in [0..0 -> T] /\ h[0] = t0 /\ 0 \in 0..n /\ 1..0 = {}
    OBVIOUS
  <2> HIDE DEF h
  <2>2. Upto(h, 0)
    BY <2>1
  <2> QED
    BY <2>1, <2>2
<1>2. ASSUME NEW m \in 0..n, m < n, m \in S PROVE m + 1 \in S
  <2>1. PICK g \in [0..m -> T] : Upto(g, m)
    BY <1>2
  <2> DEFINE v == f[<<m + 1, g[m]>>]
             h == [k \in 0..(m + 1) |-> IF k <= m THEN g[k] ELSE v]
  <2>2. m + 1 \in 1..n /\ m + 1 \in 0..n /\ g[m] \in T
    BY <1>2
  <2>3. v \in T
    <3>1. <<m + 1, g[m]>> \in (1..n) \X T
      BY <2>2
    <3> QED
      BY <3>1
  <2> HIDE DEF v
  <2>4. h \in [0..(m + 1) -> T]
    BY <2>3
  <2>5. h[0] = t0
    BY <2>1
  <2>6. ASSUME NEW k \in 1..(m + 1) PROVE h[k] = f[<<k, h[k - 1]>>]
    <3>1. CASE k <= m
      BY <2>1, <3>1
    <3>2. CASE k = m + 1
      BY <3>2 DEF v
    <3> QED
      BY <3>1, <3>2
  <2> QED
    BY <2>2, <2>4, <2>5, <2>6
<1>3. \A m \in 0..n : m \in S
  <2> HIDE DEF S
  <2> QED
    BY <1>1, <1>2, UpTo
<1> QED
  BY <1>3 DEF Solves

-----------------------------------------------------------------------------
(* Text: what the writers get apart from line breaks.                      *)

(* The recursion that defines TextTo.                                      *)
LEMMA TextToFacts ==
    ASSUME NEW A, NEW s \in Seq(A)
    PROVE  /\ TextTo(s) \in [0..Len(s) -> Seq(A)]
           /\ TextTo(s)[0] = <<>>
           /\ \A k \in 1..Len(s) :
                 TextTo(s)[k] = IF s[k] \in {NL, CR} THEN TextTo(s)[k - 1]
                                ELSE Append(TextTo(s)[k - 1], s[k])
<1> DEFINE n == Len(s)
           f == [p \in (1..n) \X Seq(A) |->
                   IF s[p[1]] \in {NL, CR} THEN p[2] ELSE Append(p[2], s[p[1]])]
           Body(g) == [k \in 0..n |-> IF k = 0 THEN <<>>
                                      ELSE IF s[k] \in {NL, CR} THEN g[k - 1]
                                      ELSE Append(g[k - 1], s[k])]
<1>1. n \in Nat /\ <<>> \in Seq(A)
  OBVIOUS
<1>2. f \in [(1..n) \X Seq(A) -> Seq(A)]
  <2>1. ASSUME NEW k \in 1..n, NEW t \in Seq(A)
        PROVE  (IF s[k] \in {NL, CR} THEN t ELSE Append(t, s[k])) \in Seq(A)
    OBVIOUS
  <2> QED
    BY <2>1
<1>3. \A k \in 1..n : \A t \in Seq(A) :
         f[<<k, t>>] = IF s[k] \in {NL, CR} THEN t ELSE Append(t, s[k])
  OBVIOUS
<1> HIDE DEF f
<1>4. PICK g \in [0..n -> Seq(A)] : g[0] = <<>> /\ \A k \in 1..n : g[k] = f[<<k, g[k - 1]>>]
  <2> DEFINE T == Seq(A)
             t0 == <<>>
  <2>1. n \in Nat /\ t0 \in T /\ f \in [(1..n) \X T -> T]
    BY <1>1, <1>2
  <2> HIDE DEF n, T, t0
  <2>2. \E g \in [0..n -> T] : Solves(g, n, t0, f)
    BY <2>1, RecursionExists
  <2> QED
    BY <2>2 DEF T, t0, Solves
<1>5. ASSUME NEW k \in 1..n
      PROVE  g[k] = IF s[k] \in {NL, CR} THEN g[k - 1] ELSE Append(g[k - 1], s[k])
  <2>1. k - 1 \in 0..n
    BY <1>1
  <2> QED
    BY <1>3, <1>4, <2>1
<1>6. g = Body(g)
  <2>1. \A k \in 0..n : k = 0 \/ k \in 1..n
    BY <1>1
  <2>2. \A k \in 1..n : k # 0
    BY <1>1
  <2>3. \A k \in 0..n : g[k] = Body(g)[k]
    BY <1>4, <1>5, <2>1, <2>2, Zenon
  <2>4. g = [k \in 0..n |-> g[k]]
    BY <1>4, Zenon
  <2> QED
    BY <2>3, <2>4, Zenon
<1>7. TextTo(s) = CHOOSE t : t = Body(t)
  BY DEF TextTo
<1>8. TextTo(s) = Body(TextTo(s))
  <2> HIDE DEF Body
  <2> QED
    BY <1>6, <1>7
<1> DEFINE u == TextTo(s)
<1>9. u = Body(u)
  BY <1>8
<1> HIDE DEF u
<1>10. u[0] = <<>>
  BY <1>1, <1>9
<1>11. ASSUME NEW k \in 1..n
       PROVE  u[k] = IF s[k] \in {NL, CR} THEN u[k - 1] ELSE Append(u[k - 1], s[k])
  <2>1. k \in 0..n /\ k # 0
    BY <1>1
  <2>2. u[k] = Body(u)[k]
    BY <1>9, Zenon
  <2> QED
    BY <2>1, <2>2, Zenon
<1>12. DOMAIN u = 0..n
  BY <1>9
<1>13. \A k \in 0..n : u[k] \in Seq(A)
  <2> DEFINE S == {k \in 0..n : u[k] \in Seq(A)}
  <2>1. 0 \in S
    <3>1. 0 \in 0..n
      BY <1>1
    <3> QED
      BY <1>1, <1>10, <3>1, Zenon
  <2>2. ASSUME NEW k \in 0..n, k < n, k \in S PROVE k + 1 \in S
    <3>1. k + 1 \in 1..n /\ k + 1 \in 0..n /\ (k + 1) - 1 = k
      BY <1>1, <2>2
    <3>2. u[k] \in Seq(A) /\ s[k + 1] \in A
      BY <2>2, <3>1
    <3>3. u[k + 1] = IF s[k + 1] \in {NL, CR} THEN u[k] ELSE Append(u[k], s[k + 1])
      BY <1>11, <3>1
    <3>4. u[k + 1] \in Seq(A)
      BY <3>2, <3>3
    <3> QED
      BY <3>1, <3>4, Zenon
  <2>3. \A k \in 0..n : k \in S
    <3> HIDE DEF S, n
    <3> QED
      BY <1>1, <2>1, <2>2, UpTo
  <2> QED
    BY <2>3
<1>14. u = [k \in 0..n |-> u[k]]
  BY <1>9
<1> QED
  BY <1>10, <1>11, <1>13, <1>14 DEF u

(* Text returns a sequence over the same characters.                       *)
LEMMA TextType ==
    ASSUME NEW A, NEW s \in Seq(A)
    PROVE  Text(s) \in Seq(A)
<1>1. Len(s) \in 0..Len(s)
  OBVIOUS
<1> QED
  BY <1>1, TextToFacts DEF Text

(* Nothing has no text.                                                    *)
LEMMA TextEmpty == Text(<<>>) = <<>>
<1>1. <<>> \in Seq({}) /\ Len(<<>>) = 0
  OBVIOUS
<1> QED
  BY <1>1, TextToFacts DEF Text

(* One more character is one more of the text, or none.                    *)
LEMMA TextAppend ==
    ASSUME NEW A, NEW s \in Seq(A), NEW c \in A
    PROVE  Text(Append(s, c)) = IF c \in {NL, CR} THEN Text(s) ELSE Append(Text(s), c)
<1> DEFINE n == Len(s)
           a == Append(s, c)
           S == {k \in 0..n : TextTo(a)[k] = TextTo(s)[k]}
<1>1. n \in Nat /\ a \in Seq(A) /\ Len(a) = n + 1 /\ a[n + 1] = c
      /\ \A k \in 1..n : a[k] = s[k]
  OBVIOUS
<1> HIDE DEF a
<1>2. 0 \in S
  <2>1. TextTo(a)[0] = TextTo(s)[0]
    BY <1>1, TextToFacts
  <2> QED
    BY <1>1, <2>1
<1>3. ASSUME NEW k \in 0..n, k < n, k \in S PROVE k + 1 \in S
  <2>1. k + 1 \in 1..n /\ k + 1 \in 0..n /\ (k + 1) - 1 = k /\ k + 1 \in 1..Len(a)
    BY <1>1, <1>3
  <2>2. TextTo(s)[k + 1] = IF s[k + 1] \in {NL, CR} THEN TextTo(s)[k]
                           ELSE Append(TextTo(s)[k], s[k + 1])
    BY <2>1, TextToFacts
  <2>3. TextTo(a)[k + 1] = IF a[k + 1] \in {NL, CR} THEN TextTo(a)[k]
                           ELSE Append(TextTo(a)[k], a[k + 1])
    BY <1>1, <2>1, TextToFacts
  <2> QED
    BY <1>1, <1>3, <2>1, <2>2, <2>3
<1>4. \A k \in 0..n : k \in S
  <2> HIDE DEF S, n
  <2> QED
    BY <1>1, <1>2, <1>3, UpTo
<1>5. TextTo(a)[n] = Text(s)
  BY <1>1, <1>4 DEF Text
<1>6. n + 1 \in 1..Len(a) /\ (n + 1) - 1 = n
  BY <1>1
<1>7. TextTo(a)[n + 1] = IF a[n + 1] \in {NL, CR} THEN TextTo(a)[n]
                         ELSE Append(TextTo(a)[n], a[n + 1])
  BY <1>1, <1>6, TextToFacts
<1>8. Text(a) = TextTo(a)[n + 1]
  BY <1>1 DEF Text
<1> QED
  BY <1>1, <1>5, <1>7, <1>8 DEF a

(* A sequence with a character more is one concatenated with it.           *)
LEMMA ConcatAppend ==
    ASSUME NEW A, NEW s \in Seq(A), NEW t \in Seq(A), NEW c \in A
    PROVE  s \o Append(t, c) = Append(s \o t, c)
<1>1. Append(t, c) = t \o <<c>> /\ Append(s \o t, c) = (s \o t) \o <<c>>
  BY AppendIsConcat, ConcatProperties
<1> QED
  BY <1>1, ConcatAssociative

(* The text of a concatenation.                                            *)
LEMMA TextConcat ==
    ASSUME NEW A, NEW s \in Seq(A), NEW t \in Seq(A)
    PROVE  Text(s \o t) = Text(s) \o Text(t)
<1> DEFINE n == Len(t)
           S == {k \in 0..n : Text(s \o SubSeq(t, 1, k)) = Text(s) \o Text(SubSeq(t, 1, k))}
<1>1. n \in Nat
  OBVIOUS
<1>2. 0 \in S
  <2>1. SubSeq(t, 1, 0) = <<>> /\ s \o <<>> = s
    OBVIOUS
  <2>2. Text(s) \o <<>> = Text(s)
    BY TextType
  <2>3. 0 \in 0..n
    BY <1>1
  <2> QED
    BY <2>1, <2>2, <2>3, TextEmpty
<1>3. ASSUME NEW k \in 0..n, k < n, k \in S PROVE k + 1 \in S
  <2> DEFINE p == SubSeq(t, 1, k)
             q == SubSeq(t, 1, k + 1)
             c == t[k + 1]
  <2>1. k + 1 \in 0..n /\ c \in A /\ p \in Seq(A)
    BY <1>1, <1>3
  <2>2. q = Append(p, c)
    BY <1>1, <1>3
  <2>3. Text(s \o p) = Text(s) \o Text(p)
    BY <1>3
  <2>4. k + 1 \in S <=> Text(s \o q) = Text(s) \o Text(q)
    BY <2>1
  <2> HIDE DEF p, q, c, S
  <2>5. s \o q = Append(s \o p, c) /\ s \o p \in Seq(A)
    BY <2>1, <2>2, ConcatAppend, ConcatProperties
  <2>6. Text(s \o q) = IF c \in {NL, CR} THEN Text(s \o p) ELSE Append(Text(s \o p), c)
    BY <2>1, <2>5, TextAppend
  <2>7. Text(q) = IF c \in {NL, CR} THEN Text(p) ELSE Append(Text(p), c)
    BY <2>1, <2>2, TextAppend
  <2>8. Text(s) \in Seq(A) /\ Text(p) \in Seq(A)
    BY <2>1, TextType
  <2>9. Text(s) \o Append(Text(p), c) = Append(Text(s) \o Text(p), c)
    BY <2>1, <2>8, ConcatAppend
  <2> QED
    BY <2>3, <2>4, <2>6, <2>7, <2>9
<1>4. \A k \in 0..n : k \in S
  <2> HIDE DEF S, n
  <2> QED
    BY <1>1, <1>2, <1>3, UpTo
<1>5. SubSeq(t, 1, n) = t /\ n \in 0..n
  BY <1>1
<1> QED
  BY <1>4, <1>5

(* A sequence is its first i elements and the others.                      *)
LEMMA CutAt ==
    ASSUME NEW A, NEW s \in Seq(A), NEW i \in 0..Len(s)
    PROVE  /\ SubSeq(s, 1, i) \in Seq(A) /\ SubSeq(s, i + 1, Len(s)) \in Seq(A)
           /\ s = SubSeq(s, 1, i) \o SubSeq(s, i + 1, Len(s))
<1>1. 1 \in 1..(Len(s) + 1) /\ i \in (1 - 1)..Len(s) /\ Len(s) \in i..Len(s)
  OBVIOUS
<1>2. SubSeq(s, 1, i) \o SubSeq(s, i + 1, Len(s)) = SubSeq(s, 1, Len(s))
  BY <1>1, ConcatAdjacentSubSeq
<1>3. SubSeq(s, 1, Len(s)) = s
  BY SubSeqFull
<1>4. SubSeq(s, 1, i) \in Seq(A)
  OBVIOUS
<1>5. SubSeq(s, i + 1, Len(s)) \in Seq(A)
  OBVIOUS
<1> QED
  BY <1>2, <1>3, <1>4, <1>5

(* Line breaks alone have no text.                                         *)
LEMMA TextOfBreaks ==
    ASSUME NEW A, NEW s \in Seq(A), \A i \in 1..Len(s) : s[i] \in {NL, CR}
    PROVE  Text(s) = <<>>
<1> DEFINE n == Len(s)
           S == {k \in 0..n : TextTo(s)[k] = <<>>}
<1>1. n \in Nat
  OBVIOUS
<1>2. 0 \in S
  BY <1>1, TextToFacts
<1>3. ASSUME NEW k \in 0..n, k < n, k \in S PROVE k + 1 \in S
  <2>1. k + 1 \in 0..n /\ k + 1 \in 1..n /\ (k + 1) - 1 = k
    BY <1>1, <1>3
  <2>2. TextTo(s)[k + 1] = TextTo(s)[k]
    BY <2>1, TextToFacts
  <2> QED
    BY <1>3, <2>1, <2>2
<1>4. \A k \in 0..n : k \in S
  <2> HIDE DEF S, n
  <2> QED
    BY <1>1, <1>2, <1>3, UpTo
<1> QED
  BY <1>1, <1>4 DEF Text

(* A set of naturals up to n that is not empty has a greatest element.     *)
LEMMA GreatestUpTo ==
    ASSUME NEW n \in Nat, NEW S \in SUBSET (1..n), S # {}
    PROVE  \E i \in S : \A j \in S : j <= i
<1> DEFINE R == {k \in Nat : \E i \in S : k = n - i}
<1>1. R \in SUBSET Nat /\ R # {}
  <2>1. PICK i \in S : TRUE
    OBVIOUS
  <2>2. n - i \in R
    BY <2>1
  <2> QED
    BY <2>2
<1>2. PICK m \in R : \A j \in R : m <= j
  <2> HIDE DEF R
  <2> QED
    BY <1>1, LeastNat
<1>3. PICK i \in S : m = n - i
  BY <1>2
<1>4. ASSUME NEW j \in S PROVE j <= i
  <2>1. n - j \in R
    OBVIOUS
  <2>2. m <= n - j
    BY <1>2, <2>1
  <2> QED
    BY <1>3, <2>2
<1> QED
  BY <1>4

(* TrimRight returns the first characters, and what it cuts is CR only.    *)
LEMMA TrimRightFacts ==
    ASSUME NEW A, NEW s \in Seq(A)
    PROVE  \E i \in 0..Len(s) : /\ TrimRight(s) = SubSeq(s, 1, i)
                                /\ \A j \in (i + 1)..Len(s) : s[j] = CR
<1> DEFINE keep == {i \in 1..Len(s) : s[i] # CR}
           last == CHOOSE i \in keep : \A j \in keep : j <= i
<1>1. CASE keep = {}
  <2>1. TrimRight(s) = <<>>
    BY <1>1 DEF TrimRight
  <2>2. SubSeq(s, 1, 0) = <<>> /\ 0 \in 0..Len(s)
    OBVIOUS
  <2>3. \A j \in (0 + 1)..Len(s) : s[j] = CR
    BY <1>1
  <2> QED
    BY <2>1, <2>2, <2>3
<1>2. CASE keep # {}
  <2>1. TrimRight(s) = SubSeq(s, 1, last)
    BY <1>2 DEF TrimRight
  <2>2. keep \in SUBSET (1..Len(s)) /\ Len(s) \in Nat
    OBVIOUS
  <2>3. last \in keep /\ \A j \in keep : j <= last
    <3>1. \E i \in keep : \A j \in keep : j <= i
      <4> HIDE DEF keep
      <4> QED
        BY <1>2, <2>2, GreatestUpTo
    <3> HIDE DEF keep
    <3> QED
      BY <3>1
  <2>4. last \in 0..Len(s)
    BY <2>2, <2>3
  <2> HIDE DEF last
  <2>5. \A j \in (last + 1)..Len(s) : s[j] = CR
    BY <2>3, <2>4
  <2> QED
    BY <2>1, <2>4, <2>5
<1> QED
  BY <1>1, <1>2

(* TrimRight returns a sequence over the same characters, with the same    *)
(* text.                                                                   *)
LEMMA TrimRightText ==
    ASSUME NEW A, NEW s \in Seq(A)
    PROVE  TrimRight(s) \in Seq(A) /\ Text(TrimRight(s)) = Text(s)
<1>1. PICK i \in 0..Len(s) : /\ TrimRight(s) = SubSeq(s, 1, i)
                             /\ \A j \in (i + 1)..Len(s) : s[j] = CR
  BY TrimRightFacts
<1> DEFINE p == SubSeq(s, 1, i)
           r == SubSeq(s, i + 1, Len(s))
<1>2. p \in Seq(A) /\ r \in Seq(A) /\ Len(r) = Len(s) - i
  OBVIOUS
<1>3. s = p \o r
  BY CutAt
<1>4. \A j \in 1..Len(r) : r[j] \in {NL, CR}
  <2> SUFFICES ASSUME NEW j \in 1..Len(r) PROVE r[j] = CR
    OBVIOUS
  <2>1. i + j \in (i + 1)..Len(s)
    BY <1>2
  <2>2. r[j] = s[i + j]
    BY <1>2
  <2> QED
    BY <1>1, <2>1, <2>2
<1> HIDE DEF p, r
<1>5. Text(r) = <<>>
  BY <1>2, <1>4, TextOfBreaks
<1>6. Text(s) = Text(p) \o Text(r)
  BY <1>2, <1>3, TextConcat
<1>7. Text(p) \o <<>> = Text(p)
  BY <1>2, TextType
<1> QED
  BY <1>1, <1>2, <1>5, <1>6, <1>7 DEF p

-----------------------------------------------------------------------------
(* Prefixes.                                                               *)

(* IsPrefix, element by element.                                           *)
LEMMA PrefixFacts ==
    ASSUME NEW A, NEW s \in Seq(A), NEW t \in Seq(A)
    PROVE  IsPrefix(s, t) <=> Len(s) <= Len(t) /\ \A i \in 1..Len(s) : s[i] = t[i]
<1>1. SubSeq(s, 1, Len(s)) = s
  BY SubSeqFull
<1>2. ASSUME Len(s) <= Len(t)
      PROVE  /\ SubSeq(t, 1, Len(s)) \in Seq(A) /\ Len(SubSeq(t, 1, Len(s))) = Len(s)
             /\ \A i \in 1..Len(s) : SubSeq(t, 1, Len(s))[i] = t[i]
  BY <1>2
<1>3. ASSUME IsPrefix(s, t) PROVE Len(s) <= Len(t) /\ \A i \in 1..Len(s) : s[i] = t[i]
  BY <1>1, <1>2, <1>3 DEF IsPrefix
<1>4. ASSUME Len(s) <= Len(t), \A i \in 1..Len(s) : s[i] = t[i] PROVE IsPrefix(s, t)
  <2>1. s = SubSeq(t, 1, Len(s))
    BY <1>2, <1>4, SeqEqual
  <2> QED
    BY <1>1, <1>4, <2>1 DEF IsPrefix
<1> QED
  BY <1>3, <1>4

(* A sequence is a prefix of itself and of what is appended to it.         *)
LEMMA PrefixConcat ==
    ASSUME NEW A, NEW s \in Seq(A), NEW t \in Seq(A)
    PROVE  IsPrefix(s, s) /\ IsPrefix(s, s \o t)
<1>1. s \o t \in Seq(A) /\ Len(s) <= Len(s \o t) /\ \A i \in 1..Len(s) : (s \o t)[i] = s[i]
  OBVIOUS
<1>2. IsPrefix(s, s)
  BY PrefixFacts
<1>3. IsPrefix(s, s \o t)
  <2> DEFINE u == s \o t
  <2>1. u \in Seq(A) /\ Len(s) <= Len(u) /\ \A i \in 1..Len(s) : s[i] = u[i]
    BY <1>1
  <2> HIDE DEF u
  <2>2. IsPrefix(s, u)
    BY <2>1, PrefixFacts
  <2> QED
    BY <2>2 DEF u
<1> QED
  BY <1>2, <1>3

(* Prefixes of prefixes are prefixes.                                      *)
LEMMA PrefixTransitive ==
    ASSUME NEW A, NEW s \in Seq(A), NEW t \in Seq(A), NEW u \in Seq(A),
           IsPrefix(s, t), IsPrefix(t, u)
    PROVE  IsPrefix(s, u)
<1>1. Len(s) <= Len(t) /\ \A i \in 1..Len(s) : s[i] = t[i]
  BY PrefixFacts
<1>2. Len(t) <= Len(u) /\ \A i \in 1..Len(t) : t[i] = u[i]
  BY PrefixFacts
<1>3. Len(s) <= Len(u) /\ \A i \in 1..Len(s) : s[i] = u[i]
  BY <1>1, <1>2
<1> QED
  BY <1>3, PrefixFacts

(* The same before two sequences keeps one a prefix of the other.          *)
LEMMA PrefixAfter ==
    ASSUME NEW A, NEW s \in Seq(A), NEW t \in Seq(A), NEW u \in Seq(A), IsPrefix(t, u)
    PROVE  IsPrefix(s \o t, s \o u)
<1>1. Len(t) <= Len(u) /\ \A i \in 1..Len(t) : t[i] = u[i]
  BY PrefixFacts
<1> DEFINE a == s \o t
           b == s \o u
<1>2. /\ a \in Seq(A) /\ b \in Seq(A)
      /\ Len(a) = Len(s) + Len(t) /\ Len(b) = Len(s) + Len(u)
  OBVIOUS
<1>3. ASSUME NEW i \in 1..Len(a) PROVE a[i] = b[i]
  BY <1>1, <1>2
<1> HIDE DEF a, b
<1>4. Len(a) <= Len(b)
  BY <1>1, <1>2
<1>5. IsPrefix(a, b)
  BY <1>2, <1>3, <1>4, PrefixFacts
<1> QED
  BY <1>5 DEF a, b

(* The first characters of a line have a prefix of its text.               *)
LEMMA TextOfCut ==
    ASSUME NEW A, NEW s \in Seq(A), NEW i \in 0..Len(s)
    PROVE  SubSeq(s, 1, i) \in Seq(A) /\ IsPrefix(Text(SubSeq(s, 1, i)), Text(s))
<1> DEFINE p == SubSeq(s, 1, i)
           r == SubSeq(s, i + 1, Len(s))
<1>1. p \in Seq(A) /\ r \in Seq(A) /\ s = p \o r
  BY CutAt
<1> HIDE DEF p, r
<1>2. Text(s) = Text(p) \o Text(r)
  BY <1>1, TextConcat
<1>3. Text(p) \in Seq(A) /\ Text(r) \in Seq(A)
  BY <1>1, TextType
<1>4. IsPrefix(Text(p), Text(s))
  BY <1>2, <1>3, PrefixConcat
<1> QED
  BY <1>1, <1>4 DEF p

-----------------------------------------------------------------------------
(* Split, and what parseSSE makes of its lines.                            *)

(* At least one line of characters of A.                                   *)
Lines(A) == {ls \in Seq(Seq(A)) : Len(ls) >= 1}

(* The next lines when the character c follows the lines ls.               *)
Grown(ls, c) == IF c = NL THEN Append(ls, <<>>)
                ELSE [ls EXCEPT ![Len(ls)] = Append(@, c)]

(* Lines grow to lines.                                                    *)
LEMMA GrownType ==
    ASSUME NEW A, NEW ls \in Lines(A), NEW c \in A
    PROVE  Grown(ls, c) \in Lines(A)
<1>1. ls \in Seq(Seq(A)) /\ Len(ls) \in 1..Len(ls) /\ Len(ls) >= 1
  BY DEF Lines
<1>2. CASE c = NL
  <2>1. <<>> \in Seq(A)
    OBVIOUS
  <2> DEFINE T == Seq(A)
             e == <<>>
             a == Append(ls, e)
  <2>2. a \in Seq(T) /\ Len(a) = Len(ls) + 1
    <3>1. ls \in Seq(T) /\ e \in T
      BY <1>1, <2>1
    <3> HIDE DEF T, e
    <3> QED
      BY <3>1
  <2>3. Grown(ls, c) = a
    BY <1>2 DEF Grown
  <2> HIDE DEF a
  <2> QED
    BY <1>1, <2>2, <2>3 DEF Lines
<1>3. CASE c # NL
  <2> DEFINE T == Seq(A)
             e == Append(ls[Len(ls)], c)
             a == [ls EXCEPT ![Len(ls)] = e]
  <2>1. ls[Len(ls)] \in Seq(A)
    BY <1>1
  <2>2. e \in Seq(A)
    BY <2>1
  <2>3. a \in Seq(T) /\ Len(a) = Len(ls)
    <3>1. ls \in Seq(T) /\ e \in T
      BY <1>1, <2>2
    <3> HIDE DEF T, e
    <3> QED
      BY <1>1, <3>1, ExceptSeq
  <2>4. Grown(ls, c) = a
    BY <1>3 DEF Grown
  <2> HIDE DEF a
  <2> QED
    BY <1>1, <2>3, <2>4 DEF Lines
<1> QED
  BY <1>2, <1>3

(* The recursion that defines SplitTo.                                     *)
LEMMA SplitToFacts ==
    ASSUME NEW A, NEW s \in Seq(A)
    PROVE  /\ SplitTo(s)[0] = << <<>> >>
           /\ \A k \in 0..Len(s) : SplitTo(s)[k] \in Lines(A)
           /\ \A k \in 1..Len(s) : SplitTo(s)[k] = Grown(SplitTo(s)[k - 1], s[k])
<1> DEFINE n == Len(s)
           T == Lines(A)
           t0 == << <<>> >>
           f == [p \in (1..n) \X T |-> Grown(p[2], s[p[1]])]
           Body(g) == [k \in 0..n |-> IF k = 0 THEN t0 ELSE Grown(g[k - 1], s[k])]
<1>1. n \in Nat /\ t0 \in T
  <2>1. <<>> \in Seq(A)
    OBVIOUS
  <2> DEFINE e == <<>>
             X == Seq(A)
  <2>2. <<e>> \in Seq(X) /\ Len(<<e>>) >= 1
    <3>1. e \in X
      BY <2>1
    <3> HIDE DEF e, X
    <3> QED
      BY <3>1
  <2> QED
    BY <2>2 DEF Lines
<1>2. \A k \in 1..n : \A t \in T : Grown(t, s[k]) \in T
  <2>1. \A k \in 1..n : s[k] \in A
    OBVIOUS
  <2> QED
    BY <2>1, GrownType
<1> HIDE DEF T, t0
<1>3. f \in [(1..n) \X T -> T]
  BY <1>2
<1>4. \A k \in 1..n : \A t \in T : f[<<k, t>>] = Grown(t, s[k])
  OBVIOUS
<1> HIDE DEF f
<1>5. PICK g \in [0..n -> T] : Solves(g, n, t0, f)
  <2> HIDE DEF n
  <2> QED
    BY <1>1, <1>3, RecursionExists
<1>6. g[0] = t0 /\ \A k \in 1..n : g[k] = Grown(g[k - 1], s[k])
  <2>1. \A k \in 1..n : k - 1 \in 0..n
    BY <1>1
  <2> QED
    BY <1>4, <1>5, <2>1 DEF Solves
<1>7. g = Body(g)
  <2>1. \A k \in 0..n : k = 0 \/ k \in 1..n
    BY <1>1
  <2>2. \A k \in 1..n : k # 0
    BY <1>1
  <2>3. \A k \in 0..n : g[k] = Body(g)[k]
    BY <1>6, <2>1, <2>2, Zenon
  <2>4. g = [k \in 0..n |-> g[k]]
    BY <1>5, Zenon
  <2> QED
    BY <2>3, <2>4, Zenon
<1>8. SplitTo(s) = CHOOSE t : t = Body(t)
  BY DEF SplitTo, Grown, t0
<1>9. SplitTo(s) = Body(SplitTo(s))
  <2> HIDE DEF Body
  <2> QED
    BY <1>7, <1>8
<1> DEFINE u == SplitTo(s)
<1>10. u = Body(u)
  BY <1>9
<1> HIDE DEF u
<1>11. u[0] = t0 /\ \A k \in 1..n : u[k] = Grown(u[k - 1], s[k])
  <2>1. \A k \in 0..n : u[k] = Body(u)[k]
    BY <1>10, Zenon
  <2>2. 0 \in 0..n /\ \A k \in 1..n : k \in 0..n /\ k # 0
    BY <1>1
  <2> QED
    BY <2>1, <2>2, Zenon
<1>12. \A k \in 0..n : u[k] \in T
  <2> DEFINE S == {k \in 0..n : u[k] \in T}
  <2>1. 0 \in S
    BY <1>1, <1>11
  <2>2. ASSUME NEW k \in 0..n, k < n, k \in S PROVE k + 1 \in S
    <3>1. k + 1 \in 1..n /\ k + 1 \in 0..n /\ (k + 1) - 1 = k
      BY <1>1, <2>2
    <3>2. u[k] \in T /\ u[k + 1] = Grown(u[k], s[k + 1])
      BY <1>11, <2>2, <3>1
    <3>3. u[k + 1] \in T
      BY <1>2, <3>1, <3>2
    <3> QED
      BY <3>1, <3>3, Zenon
  <2>3. \A k \in 0..n : k \in S
    <3> HIDE DEF S, n
    <3> QED
      BY <1>1, <2>1, <2>2, UpTo
  <2> QED
    BY <2>3
<1> QED
  BY <1>11, <1>12, Zenon DEF u, T, t0

(* What parseSSE's data builder holds when it held d and reads a data      *)
(* line, as ReadLine has it.                                               *)
Joined(d, text) == IF d = <<>> THEN TrimRight(text) ELSE d \o <<NL>> \o TrimRight(text)

(* d[j] is what the data builder holds after the first j of the lines.     *)
Joins(d, lines) == d[0] = <<>> /\ \A j \in 1..Len(lines) : d[j] = Joined(d[j - 1], lines[j])

(* The builder takes up the text of the line.                              *)
LEMMA JoinedText ==
    ASSUME NEW A, NL \in A, NEW d \in Seq(A), NEW text \in Seq(A)
    PROVE  Joined(d, text) \in Seq(A) /\ Text(Joined(d, text)) = Text(d) \o Text(text)
<1> DEFINE t == TrimRight(text)
<1>1. t \in Seq(A) /\ Text(t) = Text(text)
  BY TrimRightText
<1>2. Text(t) \in Seq(A) /\ Text(d) \in Seq(A)
  BY <1>1, TextType
<1> HIDE DEF t
<1>3. CASE d = <<>>
  <2>1. Joined(d, text) = t
    BY <1>3 DEF Joined, t
  <2>2. <<>> \o Text(t) = Text(t)
    BY <1>2
  <2> QED
    BY <1>1, <1>3, <2>1, <2>2, TextEmpty
<1>4. CASE d # <<>>
  <2> DEFINE e == Append(d, NL)
  <2>1. e = d \o <<NL>> /\ e \in Seq(A)
    BY AppendIsConcat
  <2>2. Joined(d, text) = e \o t
    BY <1>4, <2>1 DEF Joined, t
  <2>3. Text(e) = Text(d)
    BY TextAppend
  <2> HIDE DEF e
  <2>4. e \o t \in Seq(A) /\ Text(e \o t) = Text(e) \o Text(t)
    BY <1>1, <2>1, TextConcat, ConcatProperties
  <2> QED
    BY <1>1, <2>2, <2>3, <2>4
<1> QED
  BY <1>3, <1>4

(* A line that TrimRight leaves as it is.                                  *)
Uncut(line) == \A i \in 1..Len(line) : line[i] # CR

(* The builder's contents after some of the lines of a chunk's first k     *)
(* characters: they follow from each other, each has a prefix of the text, *)
(* and the last has all of it; of plain output the last has everything.    *)
Builds(d, lines, chars) ==
    /\ Joins(d, lines)
    /\ Text(d[Len(lines)]) = Text(chars)
    /\ \A j \in 0..Len(lines) : IsPrefix(Text(d[j]), Text(chars))
    /\ Plain(chars) => d[Len(lines)] = chars /\ Uncut(lines[Len(lines)])

(* TrimRight cuts nothing of a line without CR.                            *)
LEMMA TrimRightUncut ==
    ASSUME NEW A, NEW s \in Seq(A), Uncut(s)
    PROVE  TrimRight(s) = s
<1>1. PICK i \in 0..Len(s) : /\ TrimRight(s) = SubSeq(s, 1, i)
                             /\ \A j \in (i + 1)..Len(s) : s[j] = CR
  BY TrimRightFacts
<1>2. i = Len(s)
  <2> SUFFICES ASSUME i # Len(s) PROVE FALSE
    OBVIOUS
  <2>1. Len(s) \in (i + 1)..Len(s) /\ Len(s) \in 1..Len(s)
    OBVIOUS
  <2> QED
    BY <1>1, <2>1 DEF Uncut
<1> QED
  BY <1>1, <1>2, SubSeqFull

(* What comes before a character of plain output is plain.                 *)
LEMMA PlainBefore ==
    ASSUME NEW A, NEW p \in Seq(A), NEW c \in A, Plain(Append(p, c))
    PROVE  Plain(p) /\ c # CR /\ (c = NL => p # <<>>)
<1> DEFINE a == Append(p, c)
<1>1. /\ a \in Seq(A) /\ Len(a) = Len(p) + 1 /\ a[Len(p) + 1] = c /\ a # <<>>
      /\ \A i \in 1..Len(p) : a[i] = p[i]
  BY AppendProperties
<1>2. Len(p) \in Nat /\ (p = <<>> <=> Len(p) = 0)
  OBVIOUS
<1>3. Uncut(a) /\ a[1] # NL
  BY <1>1 DEF Plain, Uncut
<1> HIDE DEF a
<1>4. c # CR
  <2>1. Len(p) + 1 \in 1..Len(a)
    BY <1>1, <1>2
  <2> QED
    BY <1>1, <1>3, <2>1 DEF Uncut
<1>5. Uncut(p)
  <2>1. \A i \in 1..Len(p) : i \in 1..Len(a)
    BY <1>1, <1>2
  <2> QED
    BY <1>1, <1>3, <2>1 DEF Uncut
<1>6. p # <<>> => p[1] # NL
  <2>1. p # <<>> => 1 \in 1..Len(p)
    BY <1>2
  <2> QED
    BY <1>1, <1>3, <2>1
<1>7. p = <<>> => c # NL
  BY <1>1, <1>2, <1>3
<1> QED
  BY <1>4, <1>5, <1>6, <1>7 DEF Plain, Uncut

(* No characters: one empty line.                                          *)
LEMMA BuildsNothing ==
    ASSUME NEW A, NL \in A
    PROVE  \E d \in [0..1 -> Seq(A)] : Builds(d, << <<>> >>, <<>>)
<1> DEFINE e == Joined(<<>>, <<>>)
           d == [j \in 0..1 |-> IF j = 0 THEN <<>> ELSE e]
           ls == << <<>> >>
<1>1. <<>> \in Seq(A) /\ <<>> \o <<>> = <<>>
  OBVIOUS
<1>2. e \in Seq(A) /\ Text(e) = <<>>
  <2>1. e \in Seq(A) /\ Text(e) = Text(<<>>) \o Text(<<>>)
    <3> DEFINE n == <<>>
    <3>1. n \in Seq(A)
      BY <1>1
    <3> HIDE DEF n
    <3>2. Joined(n, n) \in Seq(A) /\ Text(Joined(n, n)) = Text(n) \o Text(n)
      BY <3>1, JoinedText
    <3> QED
      BY <3>2 DEF n
  <2> QED
    BY <1>1, <2>1, TextEmpty
<1>3. Len(ls) = 1 /\ ls[1] = <<>>
  OBVIOUS
<1> HIDE DEF e, ls
<1>4. d \in [0..1 -> Seq(A)] /\ d[0] = <<>> /\ d[1] = e
  BY <1>1, <1>2
<1> HIDE DEF d
<1>5. Joins(d, ls)
  <2>1. \A j \in 1..Len(ls) : j = 1 /\ j - 1 = 0
    BY <1>3
  <2> QED
    BY <1>3, <1>4, <2>1 DEF Joins, e
<1>6. \A j \in 0..1 : Text(d[j]) = <<>>
  <2>1. \A j \in 0..1 : j = 0 \/ j = 1
    OBVIOUS
  <2> QED
    BY <1>2, <1>4, <2>1, TextEmpty
<1>7. IsPrefix(<<>>, <<>>)
  BY <1>1, PrefixConcat
<1>8. e = <<>> /\ Uncut(<<>>)
  <2>1. Uncut(<<>>)
    BY DEF Uncut
  <2>2. TrimRight(<<>>) = <<>>
    BY <1>1, <2>1, TrimRightUncut
  <2> QED
    BY <2>1, <2>2 DEF e, Joined
<1>9. Builds(d, ls, <<>>)
  BY <1>3, <1>4, <1>5, <1>6, <1>7, <1>8, TextEmpty DEF Builds
<1> QED
  BY <1>4, <1>9 DEF ls

(* A line break more: one line more, with nothing in it.                   *)
LEMMA BuildsBreak ==
    ASSUME NEW A, NL \in A, NEW ls \in Lines(A), NEW p \in Seq(A),
           \E d \in [0..Len(ls) -> Seq(A)] : Builds(d, ls, p)
    PROVE  \E d \in [0..Len(Grown(ls, NL)) -> Seq(A)] :
              Builds(d, Grown(ls, NL), Append(p, NL))
<1>1. PICK d \in [0..Len(ls) -> Seq(A)] : Builds(d, ls, p)
  OBVIOUS
<1> DEFINE m == Len(ls)
           gs == Grown(ls, NL)
           e == Joined(d[m], <<>>)
           h == [j \in 0..(m + 1) |-> IF j <= m THEN d[j] ELSE e]
<1>2. m \in Nat /\ m >= 1 /\ ls \in Seq(Seq(A))
  BY DEF Lines
<1>3. gs = Append(ls, <<>>)
  BY DEF Grown
<1>4. <<>> \in Seq(A)
  OBVIOUS
<1>5. Len(gs) = m + 1 /\ gs[m + 1] = <<>> /\ \A j \in 1..m : gs[j] = ls[j]
  <2> DEFINE T == Seq(A)
             n == <<>>
  <2>1. ls \in Seq(T) /\ n \in T
    BY <1>2, <1>4
  <2> HIDE DEF T, n
  <2>2. /\ Len(Append(ls, n)) = m + 1 /\ Append(ls, n)[m + 1] = n
        /\ \A j \in 1..m : Append(ls, n)[j] = ls[j]
    BY <2>1
  <2> QED
    BY <1>3, <2>2 DEF n
<1> HIDE DEF gs
<1>6. d[m] \in Seq(A)
  <2>1. m \in 0..m
    BY <1>2
  <2> QED
    BY <1>1, <2>1, Zenon
<1>7. e \in Seq(A) /\ Text(e) = Text(p)
  <2>1. e \in Seq(A) /\ Text(e) = Text(d[m]) \o Text(<<>>)
    BY <1>4, <1>6, JoinedText
  <2>2. Text(d[m]) = Text(p)
    BY <1>1 DEF Builds
  <2>3. Text(p) \in Seq(A)
    BY TextType
  <2>4. Text(p) \o <<>> = Text(p)
    BY <2>3
  <2> QED
    BY <2>1, <2>2, <2>4, TextEmpty
<1>8. Text(Append(p, NL)) = Text(p)
  BY TextAppend
<1> DEFINE w == e
<1>9. w \in Seq(A) /\ w = e /\ Text(w) = Text(p)
  BY <1>7
<1> HIDE DEF w
<1>10. h \in [0..(m + 1) -> Seq(A)] /\ h[m + 1] = e /\ \A j \in 0..m : h[j] = d[j]
  BY <1>2, <1>9
<1> HIDE DEF h
<1>11. Joins(h, gs)
  <2>1. h[0] = <<>>
    BY <1>1, <1>2, <1>10 DEF Builds, Joins
  <2>2. ASSUME NEW j \in 1..Len(gs) PROVE h[j] = Joined(h[j - 1], gs[j])
    <3>1. CASE j = m + 1
      <4>1. j - 1 = m /\ m \in 0..m
        BY <1>2, <3>1
      <4> QED
        BY <1>5, <1>10, <3>1, <4>1
    <3>2. CASE j # m + 1
      <4>1. j \in 1..m /\ j \in 0..m /\ j - 1 \in 0..m
        BY <1>2, <1>5, <3>2
      <4>2. d[j] = Joined(d[j - 1], ls[j])
        BY <1>1, <4>1 DEF Builds, Joins
      <4> QED
        BY <1>5, <1>10, <4>1, <4>2
    <3> QED
      BY <3>1, <3>2
  <2> QED
    BY <2>1, <2>2 DEF Joins
<1>12. Text(h[Len(gs)]) = Text(Append(p, NL))
  BY <1>5, <1>7, <1>8, <1>10
<1>13. ASSUME NEW j \in 0..Len(gs) PROVE IsPrefix(Text(h[j]), Text(Append(p, NL)))
  <2>1. CASE j = m + 1
    <3>1. Text(p) \in Seq(A)
      BY TextType
    <3>2. IsPrefix(Text(p), Text(p))
      BY <3>1, PrefixConcat
    <3> QED
      BY <1>7, <1>8, <1>10, <2>1, <3>2
  <2>2. CASE j # m + 1
    <3>1. j \in 0..m
      BY <1>2, <1>5, <2>2
    <3>2. IsPrefix(Text(d[j]), Text(p))
      BY <1>1, <3>1 DEF Builds
    <3> QED
      BY <1>8, <1>10, <3>1, <3>2
  <2> QED
    BY <2>1, <2>2
<1>14. ASSUME Plain(Append(p, NL)) PROVE h[Len(gs)] = Append(p, NL) /\ Uncut(gs[Len(gs)])
  <2>1. Plain(p) /\ p # <<>>
    BY <1>14, PlainBefore
  <2>2. d[m] = p
    BY <1>1, <2>1 DEF Builds
  <2>3. Uncut(<<>>)
    BY DEF Uncut
  <2>4. TrimRight(<<>>) = <<>>
    BY <1>4, <2>3, TrimRightUncut
  <2>5. e = (p \o <<NL>>) \o <<>>
    BY <2>1, <2>2, <2>4 DEF Joined
  <2>6. Append(p, NL) = p \o <<NL>> /\ Append(p, NL) \in Seq(A)
    BY AppendIsConcat
  <2>7. Append(p, NL) \o <<>> = Append(p, NL)
    BY <2>6, ConcatEmptySeq
  <2> QED
    BY <1>5, <1>10, <2>3, <2>5, <2>6, <2>7
<1>15. Builds(h, gs, Append(p, NL))
  BY <1>11, <1>12, <1>13, <1>14 DEF Builds
<1>16. h \in [0..Len(gs) -> Seq(A)]
  BY <1>5, <1>10
<1> QED
  BY <1>15, <1>16 DEF gs

(* Another character more: it is appended to the last line.                *)
LEMMA BuildsChar ==
    ASSUME NEW A, NL \in A, NEW ls \in Lines(A), NEW p \in Seq(A), NEW c \in A, c # NL,
           \E d \in [0..Len(ls) -> Seq(A)] : Builds(d, ls, p)
    PROVE  \E d \in [0..Len(Grown(ls, c)) -> Seq(A)] :
              Builds(d, Grown(ls, c), Append(p, c))
<1>1. PICK d \in [0..Len(ls) -> Seq(A)] : Builds(d, ls, p)
  OBVIOUS
<1> DEFINE m == Len(ls)
           gs == Grown(ls, c)
           l == ls[m]
           e == Joined(d[m - 1], Append(l, c))
           h == [j \in 0..m |-> IF j < m THEN d[j] ELSE e]
<1>2. m \in Nat /\ m >= 1 /\ ls \in Seq(Seq(A))
  BY DEF Lines
<1>3. m \in 0..m /\ m - 1 \in 0..m /\ m \in 1..m
  BY <1>2
<1>4. l \in Seq(A) /\ Append(l, c) \in Seq(A)
  <2>1. l \in Seq(A)
    BY <1>2, <1>3, ElementOfSeq
  <2> HIDE DEF l
  <2> QED
    BY <2>1
<1>5. Len(gs) = m /\ gs[m] = Append(l, c) /\ \A j \in 1..m : j # m => gs[j] = ls[j]
  <2> DEFINE T == Seq(A)
             a == Append(l, c)
  <2>1. ls \in Seq(T) /\ a \in T
    BY <1>2, <1>4
  <2>2. gs = [ls EXCEPT ![m] = a]
    BY DEF Grown
  <2> HIDE DEF T, a, gs
  <2>3. /\ Len([ls EXCEPT ![m] = a]) = m
        /\ \A j \in 1..m : [ls EXCEPT ![m] = a][j] = IF j = m THEN a ELSE ls[j]
    BY <1>3, <2>1, ExceptSeq
  <2> QED
    BY <1>3, <2>2, <2>3 DEF a
<1>6. d[m] \in Seq(A) /\ d[m - 1] \in Seq(A)
  BY <1>1, <1>3, Zenon
<1>7. Text(p) \in Seq(A) /\ Text(d[m - 1]) \in Seq(A) /\ Text(l) \in Seq(A)
  BY <1>4, <1>6, TextType
<1>8. Text(p) = Text(d[m - 1]) \o Text(l)
  <2>1. Text(d[m]) = Text(p) /\ d[m] = Joined(d[m - 1], l)
    BY <1>1, <1>3 DEF Builds, Joins
  <2>2. Text(Joined(d[m - 1], l)) = Text(d[m - 1]) \o Text(l)
    BY <1>4, <1>6, JoinedText
  <2> QED
    BY <2>1, <2>2
<1>9. e \in Seq(A) /\ Text(e) = Text(d[m - 1]) \o Text(Append(l, c))
  BY <1>4, <1>6, JoinedText
<1> HIDE DEF l, e, gs
<1>10. Text(e) = Text(Append(p, c))
  <2>1. Text(Append(l, c)) = IF c \in {NL, CR} THEN Text(l) ELSE Append(Text(l), c)
    BY <1>4, TextAppend
  <2>2. Text(Append(p, c)) = IF c \in {NL, CR} THEN Text(p) ELSE Append(Text(p), c)
    BY TextAppend
  <2>3. Text(d[m - 1]) \o Append(Text(l), c) = Append(Text(d[m - 1]) \o Text(l), c)
    BY <1>7, ConcatAppend
  <2> QED
    BY <1>8, <1>9, <2>1, <2>2, <2>3
<1>11. Append(p, c) \in Seq(A) /\ Text(Append(p, c)) \in Seq(A)
  <2>1. Append(p, c) \in Seq(A)
    OBVIOUS
  <2> QED
    BY <2>1, TextType
<1>12. IsPrefix(Text(p), Text(Append(p, c)))
  <2>1. Append(p, c) = p \o <<c>> /\ <<c>> \in Seq(A)
    BY AppendIsConcat
  <2> DEFINE b == <<c>>
  <2> HIDE DEF b
  <2>2. Text(p \o b) = Text(p) \o Text(b) /\ Text(b) \in Seq(A)
    BY <2>1, TextConcat, TextType DEF b
  <2>3. IsPrefix(Text(p), Text(p \o b))
    BY <1>7, <2>2, PrefixConcat
  <2> QED
    BY <2>1, <2>3 DEF b
<1>13. h \in [0..m -> Seq(A)] /\ h[m] = e /\ \A j \in 0..m : j # m => h[j] = d[j]
  <2>1. \A j \in 0..m : d[j] \in Seq(A)
    BY <1>1, Zenon
  <2>2. \A j \in 0..m : j # m => j < m
    BY <1>2
  <2>3. ~(m < m)
    BY <1>2
  <2>4. \A j \in 0..m : h[j] = IF j < m THEN d[j] ELSE e
    BY Zenon
  <2>5. h \in [0..m -> Seq(A)]
    BY <1>9, <2>1, Zenon
  <2> QED
    BY <1>3, <2>2, <2>3, <2>4, <2>5, Zenon
<1> HIDE DEF h
<1>14. Joins(h, gs)
  <2>1. h[0] = <<>>
    <3>1. 0 \in 0..m /\ 0 # m
      BY <1>2
    <3> QED
      BY <1>1, <1>13, <3>1 DEF Builds, Joins
  <2>2. ASSUME NEW j \in 1..Len(gs) PROVE h[j] = Joined(h[j - 1], gs[j])
    <3>1. CASE j = m
      <4>1. h[m - 1] = d[m - 1]
        BY <1>2, <1>3, <1>13
      <4> QED
        BY <1>5, <1>13, <3>1, <4>1 DEF e
    <3>2. CASE j # m
      <4>1. j \in 1..m /\ j \in 0..m /\ j - 1 \in 0..m /\ j - 1 # m
        BY <1>2, <1>5, <3>2
      <4>2. d[j] = Joined(d[j - 1], ls[j])
        BY <1>1, <4>1 DEF Builds, Joins
      <4> QED
        BY <1>5, <1>13, <3>2, <4>1, <4>2
    <3> QED
      BY <3>1, <3>2
  <2> QED
    BY <2>1, <2>2 DEF Joins
<1>15. ASSUME NEW j \in 0..Len(gs) PROVE IsPrefix(Text(h[j]), Text(Append(p, c)))
  <2>1. CASE j = m
    <3>1. IsPrefix(Text(Append(p, c)), Text(Append(p, c)))
      BY <1>11, PrefixConcat
    <3> QED
      BY <1>10, <1>13, <2>1, <3>1
  <2>2. CASE j # m
    <3>1. j \in 0..m
      BY <1>5
    <3>2. IsPrefix(Text(d[j]), Text(p)) /\ Text(d[j]) \in Seq(A)
      <4>1. d[j] \in Seq(A)
        BY <1>1, <3>1, Zenon
      <4> QED
        BY <1>1, <3>1, <4>1, TextType DEF Builds
    <3>3. IsPrefix(Text(d[j]), Text(Append(p, c)))
      BY <1>7, <1>11, <1>12, <3>2, PrefixTransitive
    <3> QED
      BY <1>13, <2>2, <3>1, <3>3
  <2> QED
    BY <2>1, <2>2
<1>16. ASSUME Plain(Append(p, c)) PROVE h[Len(gs)] = Append(p, c) /\ Uncut(gs[Len(gs)])
  <2> DEFINE b == d[m - 1]
             a == Append(l, c)
  <2>1. Plain(p) /\ c # CR
    BY <1>16, PlainBefore
  <2>2. d[m] = p /\ Uncut(l) /\ p = Joined(b, l)
    BY <1>1, <1>3, <2>1 DEF Builds, Joins, l
  <2>3. Uncut(a)
    <3>1. /\ Len(a) = Len(l) + 1 /\ a[Len(l) + 1] = c /\ Len(l) \in Nat
          /\ \A i \in 1..Len(l) : a[i] = l[i]
      BY <1>4, AppendProperties
    <3>2. \A i \in 1..Len(a) : i \in 1..Len(l) \/ i = Len(l) + 1
      BY <3>1
    <3> HIDE DEF a
    <3> QED
      BY <2>1, <2>2, <3>1, <3>2 DEF Uncut
  <2>4. TrimRight(l) = l /\ TrimRight(a) = a
    BY <1>4, <2>2, <2>3, TrimRightUncut
  <2>5. e = Append(p, c)
    <3>1. CASE b = <<>>
      BY <2>2, <2>4, <3>1 DEF Joined, e
    <3>2. CASE b # <<>>
      <4> DEFINE f == b \o <<NL>>
      <4>1. f \in Seq(A)
        BY <1>6
      <4>2. p = f \o l /\ e = f \o a
        BY <2>2, <2>4, <3>2 DEF Joined, e
      <4> HIDE DEF f
      <4> QED
        BY <1>4, <4>1, <4>2, ConcatAppend
    <3> QED
      BY <3>1, <3>2
  <2> QED
    BY <1>5, <1>13, <2>3, <2>5
<1>17. Builds(h, gs, Append(p, c))
  BY <1>5, <1>10, <1>13, <1>14, <1>15, <1>16 DEF Builds
<1>18. h \in [0..Len(gs) -> Seq(A)]
  BY <1>5, <1>13
<1> QED
  BY <1>17, <1>18 DEF gs

(* Split returns lines out of which parseSSE builds the chunk's text.      *)
LEMMA SplitBuilds ==
    ASSUME NEW A, NL \in A, NEW s \in Seq(A)
    PROVE  /\ Split(s) \in Lines(A)
           /\ \E d \in [0..Len(Split(s)) -> Seq(A)] : Builds(d, Split(s), s)
<1> DEFINE n == Len(s)
           L(k) == SplitTo(s)[k]
           P(k) == SubSeq(s, 1, k)
           S == {k \in 0..n : \E d \in [0..Len(L(k)) -> Seq(A)] : Builds(d, L(k), P(k))}
<1>1. n \in Nat /\ 0 \in 0..n /\ n \in 0..n
  OBVIOUS
<1>2. \A k \in 0..n : L(k) \in Lines(A)
  BY SplitToFacts
<1>3. 0 \in S
  <2>1. L(0) = << <<>> >> /\ P(0) = <<>>
    BY SplitToFacts
  <2>2. Len(<< <<>> >>) = 1
    OBVIOUS
  <2> QED
    BY <1>1, <2>1, <2>2, BuildsNothing, Zenon
<1>4. ASSUME NEW k \in 0..n, k < n, k \in S PROVE k + 1 \in S
  <2> DEFINE ls == L(k)
             p == P(k)
             c == s[k + 1]
  <2>1. k + 1 \in 0..n /\ k + 1 \in 1..n /\ (k + 1) - 1 = k
    BY <1>1, <1>4
  <2>2. ls \in Lines(A) /\ p \in Seq(A) /\ c \in A
    <3>1. p \in Seq(A) /\ c \in A
      BY <1>4, <2>1
    <3> QED
      BY <1>2, <3>1
  <2>3. L(k + 1) = Grown(ls, c)
    BY <2>1, SplitToFacts
  <2>4. P(k + 1) = Append(p, c)
    BY <1>1, <1>4
  <2>5. \E d \in [0..Len(ls) -> Seq(A)] : Builds(d, ls, p)
    BY <1>4, Zenon
  <2> HIDE DEF L, P, ls, p, c
  <2>6. \E d \in [0..Len(Grown(ls, c)) -> Seq(A)] : Builds(d, Grown(ls, c), Append(p, c))
    <3>1. CASE c = NL
      BY <2>2, <2>5, <3>1, BuildsBreak
    <3>2. CASE c # NL
      BY <2>2, <2>5, <3>2, BuildsChar
    <3> QED
      BY <3>1, <3>2
  <2> QED
    BY <2>1, <2>3, <2>4, <2>6, Zenon
<1>5. \A k \in 0..n : k \in S
  <2> HIDE DEF S, n
  <2> QED
    BY <1>1, <1>3, <1>4, UpTo
<1>6. L(n) = Split(s) /\ P(n) = s
  BY DEF Split
<1>7. \E d \in [0..Len(L(n)) -> Seq(A)] : Builds(d, L(n), P(n))
  BY <1>1, <1>5, Zenon
<1>8. L(n) \in Lines(A)
  BY <1>1, <1>2
<1> HIDE DEF L, P
<1> QED
  BY <1>6, <1>7, <1>8

-----------------------------------------------------------------------------
(* The client, followed over the lines on the way.                         *)

AllChars == Chars \cup {Json}

(* The state of parseSSE: its builders, and what it has written.           *)
Reader == [event : {"", "?", "exit", "error"} \cup Streams, data : Seq(AllChars),
           got : [Streams -> Seq(Chars)]]
Now == [event |-> event, data |-> data, got |-> got]

(* What the writers have once the event begun is flushed.                  *)
Delivered(c) == IF c.event \in Streams THEN [c.got EXCEPT ![c.event] = @ \o c.data] ELSE c.got

(* The state after one line, as ReadLine has it.                           *)
Reads(c, line) ==
    IF line.field = "" THEN [event |-> "", data |-> <<>>, got |-> Delivered(c)]
    ELSE IF line.field = "event"
         THEN [c EXCEPT !.event = IF c.event = "" THEN line.name ELSE "?"]
         ELSE [c EXCEPT !.data = Joined(c.data, line.text)]

(* The state c2 follows c by a line that the encoding allows there: events *)
(* begin between two events and nowhere else, and the data of an event of  *)
(* a stream are output of the command.                                     *)
Takes(c, line, c2) ==
    /\ c2 = Reads(c, line)
    /\ (line.field = "event") <=> (c.event = "")
    /\ line.field = "data" /\ c.event \in Streams => line.text \in Seq(Chars)

(* st[i] is the client's state after the first i of the lines w.           *)
Follows(st, w, c) == st[0] = c /\ \A i \in 1..Len(w) : Takes(st[i - 1], w[i], st[i])

(* All of the text is with the caller, and all of plain output.            *)
Complete(c, wr, pl) ==
    /\ \A s \in Streams : Text(c.got[s]) = Text(wr[s])
    /\ pl => c.got = wr

(* Between two events, and nothing is missing.                             *)
Idle(c, wr, pl) == c.event = "" /\ Complete(c, wr, pl)

(* A state of the client that fits what the server has done: it has        *)
(* nothing but a prefix of the text, and reads an exit only at its end.    *)
Sound(c, wr, cl, sv, pl) ==
    /\ c.event = "" => c.data = <<>>
    /\ c.event \in Streams => c.data \in Seq(Chars)
    /\ \A s \in Streams : /\ IsPrefix(Text(c.got[s]), Text(wr[s]))
                          /\ IsPrefix(Text(Delivered(c)[s]), Text(wr[s]))
    /\ c.event = "exit" => cl = "ExecStream" /\ sv = "done" /\ Complete(c, wr, pl)

(* Whatever the client reads next of what is on the way, it stays sound,   *)
(* and as long as the connection has not broken nothing is missing at the  *)
(* end.                                                                    *)
Ahead(w, c, wr, cl, sv, cn, pl) ==
    \E st \in [0..Len(w) -> Reader] :
       /\ Follows(st, w, c)
       /\ \A i \in 0..Len(w) : Sound(st[i], wr, cl, sv, pl)
       /\ cn \in {"open", "end"} => Idle(st[Len(w)], wr, pl)

(* What an answer means, with what keeps it true.                          *)
OkStays ==
    result = "ok" =>
        /\ call = "LogsStream" => conn \in {"end", "eof", "cut"} /\ wire = <<>>
        /\ call = "ExecStream" \/ conn = "end" =>
              server = "done" /\ Complete(Now, written, plain)

LogsOnlyCopy == call = "LogsStream" => server \in {"copy", "done"}

(* The body ends with the handler.                                         *)
EndIsDone == conn = "end" => server = "done"

(* The inductive invariant.                                                *)
IInv ==
    /\ TypeOK /\ LogsOnlyCopy /\ EndIsDone /\ OkStays
    /\ Ahead(wire, Now, written, call, server, conn, plain)

(* The bound on the chunks.                                                *)
LEMMA MaxChunksNat == MaxChunks \in Nat
BY StreamAssumption, Zenon

(* Facts about the alphabet.                                               *)
LEMMA CharFacts ==
    /\ NL \in Chars /\ NL \in AllChars /\ Json \in AllChars /\ Chars \subseteq AllChars
    /\ Chunks \subseteq Seq(Chars)
    /\ \A s \in Seq(Chars) : s \in Seq(AllChars)
<1>1. NL \in Chars /\ NL \in AllChars /\ Json \in AllChars /\ Chars \subseteq AllChars
  <2>1. NL \in Chars
    <3> DEFINE X == UNION {Range(c) : c \in Chunks}
    <3>1. Chars = X \cup {NL}
      BY DEF Chars
    <3> HIDE DEF X
    <3> QED
      BY <3>1
  <2> QED
    BY <2>1 DEF AllChars
<1>2. \A s \in Seq(Chars) : s \in Seq(AllChars)
  BY <1>1, SeqMonotonic
<1>3. ASSUME NEW c \in Chunks PROVE c \in Seq(Chars)
  <2> DEFINE U == UNION {Range(d) : d \in Chunks}
  <2>1. c \in Seq(U)
    BY StreamAssumption
  <2>2. U \subseteq Chars
    BY DEF Chars
  <2> HIDE DEF U
  <2> QED
    BY <2>1, <2>2, SeqMonotonic
<1> QED
  BY <1>1, <1>2, <1>3

(* Fields of a state of the client.                                        *)
LEMMA ReaderFacts ==
    ASSUME NEW c \in Reader
    PROVE  /\ c.event \in {"", "?", "exit", "error"} \cup Streams
           /\ c.data \in Seq(AllChars) /\ c.got \in [Streams -> Seq(Chars)]
           /\ c = [event |-> c.event, data |-> c.data, got |-> c.got]
BY DEF Reader

(* What a flush writes is output of the command, on its stream.            *)
LEMMA DeliveredFacts ==
    ASSUME NEW c \in Reader, c.event \in Streams => c.data \in Seq(Chars)
    PROVE  /\ Delivered(c) \in [Streams -> Seq(Chars)]
           /\ \A s \in Streams : Delivered(c)[s] = IF c.event = s THEN c.got[s] \o c.data
                                                   ELSE c.got[s]
<1>1. c.got \in [Streams -> Seq(Chars)]
  BY ReaderFacts
<1>2. CASE c.event \in Streams
  <2> DEFINE g == c.got
             e == c.event
             v == g[e] \o c.data
  <2>1. v \in Seq(Chars) /\ g \in [Streams -> Seq(Chars)] /\ e \in Streams
    BY <1>1, <1>2
  <2>2. Delivered(c) = [g EXCEPT ![e] = v]
    BY <1>2 DEF Delivered
  <2> HIDE DEF v
  <2>3. /\ [g EXCEPT ![e] = v] \in [Streams -> Seq(Chars)]
        /\ \A s \in Streams : [g EXCEPT ![e] = v][s] = IF e = s THEN v ELSE g[s]
    <3> HIDE DEF g, e
    <3> QED
      BY <2>1
  <2> QED
    BY <2>2, <2>3 DEF v
<1>3. CASE c.event \notin Streams
  BY <1>1, <1>3 DEF Delivered
<1> QED
  BY <1>2, <1>3

(* More of the command's output, or a next step of a server that has not   *)
(* ended, takes nothing away from a sound state.                           *)
LEMMA SoundGrows ==
    ASSUME NEW c \in Reader, NEW wr \in [Streams -> Seq(Chars)],
           NEW wr2 \in [Streams -> Seq(Chars)], NEW cl, NEW sv, NEW sv2,
           NEW pl, NEW pl2, pl2 => pl,
           Sound(c, wr, cl, sv, pl), sv # "done" \/ (sv2 = sv /\ wr2 = wr),
           \A s \in Streams : IsPrefix(Text(wr[s]), Text(wr2[s]))
    PROVE  Sound(c, wr2, cl, sv2, pl2)
<1>1. c.got \in [Streams -> Seq(Chars)]
  BY ReaderFacts
<1>2. Delivered(c) \in [Streams -> Seq(Chars)]
  BY DeliveredFacts DEF Sound
<1>3. ASSUME NEW s \in Streams
      PROVE  /\ IsPrefix(Text(c.got[s]), Text(wr2[s]))
             /\ IsPrefix(Text(Delivered(c)[s]), Text(wr2[s]))
  <2>1. /\ Text(c.got[s]) \in Seq(Chars) /\ Text(Delivered(c)[s]) \in Seq(Chars)
        /\ Text(wr[s]) \in Seq(Chars) /\ Text(wr2[s]) \in Seq(Chars)
    <3>1. c.got[s] \in Seq(Chars) /\ Delivered(c)[s] \in Seq(Chars)
          /\ wr[s] \in Seq(Chars) /\ wr2[s] \in Seq(Chars)
      BY <1>1, <1>2, Zenon
    <3> QED
      BY <3>1, TextType
  <2>2. IsPrefix(Text(c.got[s]), Text(wr[s])) /\ IsPrefix(Text(Delivered(c)[s]), Text(wr[s]))
    BY DEF Sound
  <2> QED
    BY <2>1, <2>2, PrefixTransitive
<1>4. c.event = "exit" => cl = "ExecStream" /\ sv2 = "done" /\ Complete(c, wr2, pl2)
  BY DEF Sound, Complete
<1>5. (c.event = "" => c.data = <<>>) /\ (c.event \in Streams => c.data \in Seq(Chars))
  BY DEF Sound
<1> QED
  BY <1>3, <1>4, <1>5, Zenon DEF Sound

(* The text only grows.                                                    *)
LEMMA TextGrows ==
    ASSUME NEW wr \in [Streams -> Seq(Chars)], NEW s \in Streams, NEW chunk \in Seq(Chars)
    PROVE  LET wr2 == [wr EXCEPT ![s] = @ \o chunk]
           IN  /\ wr2 \in [Streams -> Seq(Chars)]
               /\ Text(wr2[s]) = Text(wr[s]) \o Text(chunk)
               /\ \A t \in Streams : t # s => wr2[t] = wr[t]
               /\ \A t \in Streams : IsPrefix(Text(wr[t]), Text(wr2[t]))
<1> DEFINE v == wr[s] \o chunk
           wr2 == [wr EXCEPT ![s] = v]
<1>1. wr[s] \in Seq(Chars) /\ v \in Seq(Chars)
  OBVIOUS
<1>2. Text(v) = Text(wr[s]) \o Text(chunk)
  BY <1>1, TextConcat
<1> HIDE DEF v
<1>3. wr2 \in [Streams -> Seq(Chars)] /\ wr2[s] = v /\ \A t \in Streams : t # s => wr2[t] = wr[t]
  BY <1>1
<1> HIDE DEF wr2
<1>4. ASSUME NEW t \in Streams PROVE IsPrefix(Text(wr[t]), Text(wr2[t]))
  <2>1. wr[t] \in Seq(Chars)
    OBVIOUS
  <2>2. Text(wr[t]) \in Seq(Chars) /\ Text(chunk) \in Seq(Chars)
    BY <2>1, TextType
  <2>3. IsPrefix(Text(wr[t]), Text(wr[t])) /\ IsPrefix(Text(wr[t]), Text(wr[t]) \o Text(chunk))
    BY <2>2, PrefixConcat
  <2> QED
    BY <1>2, <1>3, <2>3
<1> QED
  BY <1>2, <1>3, <1>4 DEF wr2, v

(* Nothing new on the way: a server that goes on, or one that writes to a  *)
(* connection that is no longer open.                                      *)
LEMMA AheadStays ==
    ASSUME NEW w \in Seq(Line), NEW c, NEW wr \in [Streams -> Seq(Chars)],
           NEW wr2 \in [Streams -> Seq(Chars)], NEW cl, NEW sv, NEW sv2, NEW cn, NEW cn2,
           NEW pl, NEW pl2, pl2 => pl,
           Ahead(w, c, wr, cl, sv, cn, pl), sv # "done" \/ (sv2 = sv /\ wr2 = wr),
           cn2 \in {"open", "end"} => cn \in {"open", "end"} /\ wr2 = wr,
           \A s \in Streams : IsPrefix(Text(wr[s]), Text(wr2[s]))
    PROVE  Ahead(w, c, wr2, cl, sv2, cn2, pl2)
<1>1. PICK st \in [0..Len(w) -> Reader] :
         /\ Follows(st, w, c)
         /\ \A i \in 0..Len(w) : Sound(st[i], wr, cl, sv, pl)
         /\ cn \in {"open", "end"} => Idle(st[Len(w)], wr, pl)
  BY Zenon DEF Ahead
<1>2. ASSUME NEW i \in 0..Len(w) PROVE Sound(st[i], wr2, cl, sv2, pl2)
  <2>1. st[i] \in Reader /\ Sound(st[i], wr, cl, sv, pl)
    BY <1>1
  <2> QED
    BY <2>1, SoundGrows
<1>3. cn2 \in {"open", "end"} => Idle(st[Len(w)], wr2, pl2)
  BY <1>1 DEF Idle, Complete
<1> QED
  BY <1>1, <1>2, <1>3, Zenon DEF Ahead

(* The lines of one event after those on the way, as Send has them.        *)
Sent(w, name, text) ==
    w \o <<Event(name)>> \o [i \in 1..Len(Split(text)) |-> Data(Split(text)[i])] \o <<Blank>>

EventNames == {"exit", "error"} \cup Streams

(* The lines on the way after Send, one by one.                            *)
LEMMA SentFacts ==
    ASSUME NEW w \in Seq(Line), NEW name \in EventNames, NEW text,
           Split(text) \in Lines(AllChars)
    PROVE  LET n == Len(Split(text))
               m == Len(w)
               w2 == Sent(w, name, text)
           IN  /\ w2 \in Seq(Line) /\ Len(w2) = m + n + 2
               /\ \A i \in 1..m : w2[i] = w[i]
               /\ w2[m + 1] = Event(name)
               /\ \A j \in 1..n : w2[m + 1 + j] = Data(Split(text)[j])
               /\ w2[m + n + 2] = Blank
<1> DEFINE ls == Split(text)
           n == Len(ls)
           m == Len(w)
           ds == [i \in 1..n |-> Data(ls[i])]
           e == Event(name)
           b == Blank
<1>1. n \in Nat /\ m \in Nat
  BY DEF Lines
<1>2. e \in Line /\ b \in Line
  <2>1. <<>> \in Seq(Chars \cup {Json})
    OBVIOUS
  <2> QED
    BY <2>1 DEF Event, Blank, Line, EventNames
<1>3. \A i \in 1..n : Data(ls[i]) \in Line
  <2>1. \A i \in 1..n : ls[i] \in Seq(AllChars)
    <3> DEFINE T == Seq(AllChars)
    <3>1. ls \in Seq(T)
      BY DEF Lines
    <3> HIDE DEF T, ls
    <3>2. \A i \in 1..n : ls[i] \in T
      BY <3>1
    <3> QED
      BY <3>2 DEF T
  <2> QED
    BY <2>1 DEF Data, Line, AllChars
<1> HIDE DEF ls, e, b
<1>4. ds \in Seq(Line) /\ Len(ds) = n /\ \A i \in 1..n : ds[i] = Data(ls[i])
  BY <1>1, <1>3
<1> HIDE DEF ds
<1> DEFINE w1 == w \o <<e>>
           w2 == w1 \o ds
           w3 == w2 \o <<b>>
<1>5. /\ w1 \in Seq(Line) /\ Len(w1) = m + 1 /\ w1[m + 1] = e
      /\ \A i \in 1..m : w1[i] = w[i]
  BY <1>1, <1>2
<1> HIDE DEF w1
<1>6. /\ w2 \in Seq(Line) /\ Len(w2) = m + 1 + n
      /\ \A i \in 1..(m + 1) : w2[i] = w1[i]
      /\ \A j \in 1..n : w2[m + 1 + j] = ds[j]
  <2>1. /\ w2 \in Seq(Line) /\ Len(w2) = Len(w1) + Len(ds)
        /\ \A i \in 1..(Len(w1) + Len(ds)) :
              w2[i] = IF i <= Len(w1) THEN w1[i] ELSE ds[i - Len(w1)]
    BY <1>4, <1>5, ConcatProperties, ZenonT(30)
  <2> HIDE DEF w2, n, m
  <2>2. \A i \in 1..(m + 1) : i \in 1..(Len(w1) + Len(ds)) /\ i <= Len(w1)
    BY <1>1, <1>4, <1>5
  <2>3. ASSUME NEW j \in 1..n PROVE w2[m + 1 + j] = ds[j]
    <3>1. /\ m + 1 + j \in 1..(Len(w1) + Len(ds)) /\ ~(m + 1 + j <= Len(w1))
          /\ (m + 1 + j) - Len(w1) = j
      BY <1>1, <1>4, <1>5
    <3> QED
      BY <2>1, <3>1
  <2> QED
    BY <1>4, <1>5, <2>1, <2>2, <2>3
<1> HIDE DEF w2
<1>7. /\ w3 \in Seq(Line) /\ Len(w3) = m + n + 2 /\ w3[m + n + 2] = b
      /\ \A i \in 1..(m + 1 + n) : w3[i] = w2[i]
  <2> HIDE DEF n, m
  <2>1. w3 = Append(w2, b)
    BY <1>2, <1>6, AppendIsConcat
  <2>2. Len(w2) + 1 = m + n + 2
    BY <1>1, <1>6
  <2> QED
    BY <1>2, <1>6, <2>1, <2>2, AppendProperties
<1> HIDE DEF w3
<1>8. Sent(w, name, text) = w3
  BY DEF Sent, w1, w2, w3, e, b, ds, ls
<1>9. \A i \in 1..m : w3[i] = w[i]
  <2>1. \A i \in 1..m : i \in 1..(m + 1) /\ i \in 1..(m + 1 + n)
    BY <1>1
  <2> QED
    BY <1>5, <1>6, <1>7, <2>1
<1>10. w3[m + 1] = e
  <2>1. m + 1 \in 1..(m + 1) /\ m + 1 \in 1..(m + 1 + n)
    BY <1>1
  <2> QED
    BY <1>5, <1>6, <1>7, <2>1
<1>11. \A j \in 1..n : w3[m + 1 + j] = Data(ls[j])
  <2>1. \A j \in 1..n : m + 1 + j \in 1..(m + 1 + n)
    BY <1>1
  <2> QED
    BY <1>4, <1>6, <1>7, <2>1
<1> QED
  BY <1>7, <1>8, <1>9, <1>10, <1>11 DEF e, b, ls

(* What the command has written once it wrote the data of the event.       *)
Written(wr, name, text) ==
    IF name \in Streams THEN [wr EXCEPT ![name] = @ \o text] ELSE wr

(* An event's data are output of the command, or the JSON of its end.      *)
DataOf(name) == IF name \in Streams THEN Chars ELSE AllChars

(* What the command has written is longer by the data, on the event's      *)
(* stream.                                                                 *)
LEMMA WrittenFacts ==
    ASSUME NEW wr \in [Streams -> Seq(Chars)], NEW name \in EventNames,
           NEW text \in Seq(DataOf(name))
    PROVE  LET wr2 == Written(wr, name, text)
           IN  /\ wr2 \in [Streams -> Seq(Chars)]
               /\ name \in Streams => Text(wr2[name]) = Text(wr[name]) \o Text(text)
               /\ \A t \in Streams : t # name => wr2[t] = wr[t]
               /\ \A t \in Streams : IsPrefix(Text(wr[t]), Text(wr2[t]))
<1>1. CASE name \in Streams
  <2>1. text \in Seq(Chars)
    BY <1>1 DEF DataOf
  <2> DEFINE wr2 == [wr EXCEPT ![name] = @ \o text]
  <2>2. /\ wr2 \in [Streams -> Seq(Chars)]
        /\ Text(wr2[name]) = Text(wr[name]) \o Text(text)
        /\ \A t \in Streams : t # name => wr2[t] = wr[t]
        /\ \A t \in Streams : IsPrefix(Text(wr[t]), Text(wr2[t]))
    BY <1>1, <2>1, TextGrows
  <2>3. Written(wr, name, text) = wr2
    BY <1>1 DEF Written
  <2> HIDE DEF wr2
  <2> QED
    BY <2>2, <2>3
<1>2. CASE name \notin Streams
  <2>1. Written(wr, name, text) = wr
    BY <1>2 DEF Written
  <2>2. \A t \in Streams : IsPrefix(Text(wr[t]), Text(wr[t]))
    <3>1. \A t \in Streams : wr[t] \in Seq(Chars)
      OBVIOUS
    <3> QED
      BY <3>1, TextType, PrefixConcat
  <2> QED
    BY <1>2, <2>1, <2>2
<1> QED
  BY <1>1, <1>2

(* In the middle of an event the client is sound, whatever part of the     *)
(* data it has.                                                            *)
LEMMA MiddleSound ==
    ASSUME NEW wr \in [Streams -> Seq(Chars)], NEW name \in EventNames,
           NEW text \in Seq(DataOf(name)), NEW g \in [Streams -> Seq(Chars)],
           \A s \in Streams : Text(g[s]) = Text(wr[s]),
           NEW pl2, pl2 => g = wr,
           NEW dd \in Seq(DataOf(name)), IsPrefix(Text(dd), Text(text)),
           NEW cl, NEW sv, name = "exit" => cl = "ExecStream" /\ sv = "done"
    PROVE  LET r == [event |-> name, data |-> dd, got |-> g]
               wr2 == Written(wr, name, text)
           IN  /\ r \in Reader /\ Sound(r, wr2, cl, sv, pl2)
               /\ Delivered(r) \in [Streams -> Seq(Chars)]
               /\ Text(dd) = Text(text) =>
                     \A s \in Streams : Text(Delivered(r)[s]) = Text(wr2[s])
               /\ pl2 /\ (name \in Streams => dd = text) => Delivered(r) = wr2
<1> DEFINE r == [event |-> name, data |-> dd, got |-> g]
           wr2 == Written(wr, name, text)
<1>1. dd \in Seq(AllChars) /\ (name \in Streams => dd \in Seq(Chars))
  BY CharFacts DEF DataOf
<1>2. r \in Reader /\ r.event = name /\ r.data = dd /\ r.got = g
  BY <1>1 DEF Reader, EventNames
<1>3. /\ wr2 \in [Streams -> Seq(Chars)]
      /\ name \in Streams => Text(wr2[name]) = Text(wr[name]) \o Text(text)
      /\ \A t \in Streams : t # name => wr2[t] = wr[t]
      /\ \A t \in Streams : IsPrefix(Text(wr[t]), Text(wr2[t]))
  BY WrittenFacts
<1> HIDE DEF r, wr2
<1>4. /\ Delivered(r) \in [Streams -> Seq(Chars)]
      /\ \A s \in Streams : Delivered(r)[s] = IF name = s THEN g[s] \o dd ELSE g[s]
  BY <1>1, <1>2, DeliveredFacts
<1>5. ASSUME NEW s \in Streams
      PROVE  /\ IsPrefix(Text(g[s]), Text(wr2[s]))
             /\ IsPrefix(Text(Delivered(r)[s]), Text(wr2[s]))
             /\ Text(dd) = Text(text) => Text(Delivered(r)[s]) = Text(wr2[s])
  <2>1. g[s] \in Seq(Chars) /\ wr[s] \in Seq(Chars) /\ Text(g[s]) = Text(wr[s])
    OBVIOUS
  <2>2. IsPrefix(Text(g[s]), Text(wr2[s]))
    BY <1>3, <2>1
  <2>3. CASE s = name
    <3>1. dd \in Seq(Chars) /\ text \in Seq(Chars)
      BY <2>3 DEF DataOf
    <3>2. Delivered(r)[s] = g[s] \o dd
      BY <1>4, <2>3
    <3>3. Text(g[s] \o dd) = Text(g[s]) \o Text(dd)
      BY <2>1, <3>1, TextConcat
    <3>4. Text(wr2[s]) = Text(g[s]) \o Text(text)
      BY <1>3, <2>1, <2>3
    <3>5. Text(g[s]) \in Seq(Chars) /\ Text(dd) \in Seq(Chars) /\ Text(text) \in Seq(Chars)
      BY <2>1, <3>1, TextType
    <3>6. IsPrefix(Text(g[s]) \o Text(dd), Text(g[s]) \o Text(text))
      BY <3>5, PrefixAfter
    <3> QED
      BY <2>2, <3>2, <3>3, <3>4, <3>6
  <2>4. CASE s # name
    <3>1. Delivered(r)[s] = g[s] /\ wr2[s] = wr[s]
      BY <1>3, <1>4, <2>4
    <3> QED
      BY <2>1, <2>2, <3>1
  <2> QED
    BY <2>3, <2>4
<1>6. Sound(r, wr2, cl, sv, pl2)
  <2>1. (r.event = "" => r.data = <<>>) /\ (r.event \in Streams => r.data \in Seq(Chars))
    BY <1>1, <1>2 DEF EventNames, Streams
  <2>2. ASSUME r.event = "exit" PROVE cl = "ExecStream" /\ sv = "done" /\ Complete(r, wr2, pl2)
    <3>1. name = "exit" /\ name \notin Streams
      BY <1>2, <2>2 DEF Streams
    <3>2. wr2 = wr
      BY <3>1 DEF Written, wr2
    <3> QED
      BY <1>2, <3>1, <3>2 DEF Complete
  <2>3. \A s \in Streams : /\ IsPrefix(Text(r.got[s]), Text(wr2[s]))
                           /\ IsPrefix(Text(Delivered(r)[s]), Text(wr2[s]))
    BY <1>2, <1>5
  <2> QED
    BY <2>1, <2>2, <2>3 DEF Sound
<1>7. Text(dd) = Text(text) => \A s \in Streams : Text(Delivered(r)[s]) = Text(wr2[s])
  BY <1>5
<1>8. pl2 /\ (name \in Streams => dd = text) => Delivered(r) = wr2
  BY <1>2 DEF Delivered, Written, wr2
<1> QED
  BY <1>2, <1>4, <1>6, <1>7, <1>8 DEF r, wr2

(* After the blank line the client is between two events, and nothing is   *)
(* missing.                                                                *)
LEMMA EndSound ==
    ASSUME NEW wr \in [Streams -> Seq(Chars)], NEW g \in [Streams -> Seq(Chars)],
           \A s \in Streams : IsPrefix(Text(g[s]), Text(wr[s])), NEW cl, NEW sv,
           NEW pl
    PROVE  LET r == [event |-> "", data |-> <<>>, got |-> g]
           IN  r \in Reader /\ Sound(r, wr, cl, sv, pl)
<1> DEFINE r == [event |-> "", data |-> <<>>, got |-> g]
<1>1. <<>> \in Seq(AllChars)
  OBVIOUS
<1>2. r \in Reader /\ r.event = "" /\ r.data = <<>> /\ r.got = g
  BY <1>1 DEF Reader
<1> HIDE DEF r
<1>3. Delivered(r) = g
  BY <1>2 DEF Delivered, Streams
<1>4. Sound(r, wr, cl, sv, pl)
  BY <1>2, <1>3 DEF Sound, Streams
<1> QED
  BY <1>2, <1>4 DEF r

(* Lines over the command's characters are lines over all of them.         *)
LEMMA LinesMonotonic ==
    ASSUME NEW name \in EventNames, NEW ls \in Lines(DataOf(name))
    PROVE  ls \in Lines(AllChars)
<1> DEFINE T == Seq(DataOf(name))
           U == Seq(AllChars)
<1>1. T \subseteq U
  BY CharFacts DEF DataOf
<1>2. ls \in Seq(T) /\ Len(ls) >= 1
  BY DEF Lines
<1>3. ls \in Seq(U)
  <2> HIDE DEF T, U
  <2> QED
    BY <1>1, <1>2, SeqMonotonic
<1> QED
  BY <1>2, <1>3 DEF Lines

(* The client reads the line that begins an event.                         *)
LEMMA ReadsEvent ==
    ASSUME NEW g, NEW d, NEW name
    PROVE  /\ Event(name).field = "event"
           /\ Reads([event |-> "", data |-> d, got |-> g], Event(name))
                = [event |-> name, data |-> d, got |-> g]
<1>1. Event(name).field = "event" /\ Event(name).name = name
  BY DEF Event
<1> QED
  BY <1>1 DEF Reads

(* The client reads a line of data.                                        *)
LEMMA ReadsData ==
    ASSUME NEW g, NEW d, NEW name, NEW text
    PROVE  /\ Data(text).field = "data"
           /\ Reads([event |-> name, data |-> d, got |-> g], Data(text))
                = [event |-> name, data |-> Joined(d, text), got |-> g]
<1>1. Data(text).field = "data" /\ Data(text).text = text
  BY DEF Data
<1> QED
  BY <1>1 DEF Reads

(* The client reads a blank line.                                          *)
LEMMA ReadsBlank ==
    ASSUME NEW c
    PROVE  /\ Blank.field = ""
           /\ Reads(c, Blank) = [event |-> "", data |-> <<>>, got |-> Delivered(c)]
<1>1. Blank.field = ""
  BY DEF Blank
<1> QED
  BY <1>1 DEF Reads

(* An event is sent on an open connection.                                 *)
LEMMA SendAhead ==
    ASSUME NEW w \in Seq(Line), NEW c, NEW wr \in [Streams -> Seq(Chars)],
           NEW name \in EventNames, NEW text \in Seq(DataOf(name)),
           NEW cl, NEW sv, NEW sv2, NEW cn2, NEW pl, NEW pl2,
           Ahead(w, c, wr, cl, sv, "open", pl), sv # "done",
           pl2 => pl, pl2 /\ name \in Streams => Plain(text),
           name = "exit" => cl = "ExecStream" /\ sv2 = "done"
    PROVE  /\ Sent(w, name, text) \in Seq(Line)
           /\ Ahead(Sent(w, name, text), c, Written(wr, name, text), cl, sv2, cn2, pl2)
<1> DEFINE m == Len(w)
           ls == Split(text)
           n == Len(ls)
           A == DataOf(name)
           w2 == Sent(w, name, text)
           wr2 == Written(wr, name, text)
<1>1. PICK st \in [0..m -> Reader] :
         /\ Follows(st, w, c)
         /\ \A i \in 0..m : Sound(st[i], wr, cl, sv, pl)
         /\ Idle(st[m], wr, pl)
  BY Zenon DEF Ahead
<1>2. NL \in A
  BY CharFacts DEF DataOf
<1>3. ls \in Lines(A) /\ \E d \in [0..n -> Seq(A)] : Builds(d, ls, text)
  <2> HIDE DEF A
  <2> QED
    BY <1>2, SplitBuilds DEF A
<1>4. PICK d \in [0..n -> Seq(A)] : Builds(d, ls, text)
  BY <1>3
<1>5. m \in Nat /\ n \in Nat /\ n >= 1
  BY <1>3 DEF Lines
<1>6. /\ w2 \in Seq(Line) /\ Len(w2) = m + n + 2
      /\ \A i \in 1..m : w2[i] = w[i]
      /\ w2[m + 1] = Event(name)
      /\ \A j \in 1..n : w2[m + 1 + j] = Data(ls[j])
      /\ w2[m + n + 2] = Blank
  <2>1. ls \in Lines(AllChars)
    BY <1>3, LinesMonotonic
  <2> QED
    BY <2>1, SentFacts
<1> DEFINE q == st[m]
           g == q.got
           mid(j) == [event |-> name, data |-> d[j], got |-> g]
           fin == [event |-> "", data |-> <<>>, got |-> Delivered(mid(n))]
           st2 == [i \in 0..(m + n + 2) |-> IF i <= m THEN st[i]
                                            ELSE IF i <= m + 1 + n THEN mid(i - (m + 1))
                                            ELSE fin]
<1> HIDE DEF m, n, ls, w2, A
<1>7. m \in 0..m /\ q \in Reader /\ Sound(q, wr, cl, sv, pl) /\ Idle(q, wr, pl)
  BY <1>1, <1>5
<1>8. /\ q.event = "" /\ q.data = <<>> /\ g \in [Streams -> Seq(Chars)]
      /\ q = [event |-> "", data |-> <<>>, got |-> g]
      /\ (\A s \in Streams : Text(g[s]) = Text(wr[s])) /\ (pl2 => g = wr)
  BY <1>7, ReaderFacts DEF Sound, Idle, Complete
<1> HIDE DEF q, g
<1>9. d[0] = <<>> /\ \A j \in 1..n : d[j] = Joined(d[j - 1], ls[j])
  BY <1>4 DEF Builds, Joins, n
<1>10. ASSUME NEW j \in 0..n
       PROVE  mid(j) \in Reader /\ Sound(mid(j), wr2, cl, sv2, pl2)
  <2>1. d[j] \in Seq(A) /\ IsPrefix(Text(d[j]), Text(text))
    BY <1>4 DEF Builds, n
  <2> QED
    BY <1>8, <2>1, MiddleSound, ZenonT(60) DEF A
<1>11. /\ Delivered(mid(n)) \in [Streams -> Seq(Chars)]
       /\ \A s \in Streams : Text(Delivered(mid(n))[s]) = Text(wr2[s])
       /\ pl2 => Delivered(mid(n)) = wr2
  <2>1. n \in 0..n
    BY <1>5
  <2>2. d[n] \in Seq(A) /\ IsPrefix(Text(d[n]), Text(text)) /\ Text(d[n]) = Text(text)
    BY <1>4, <2>1 DEF Builds, n
  <2>3. pl2 => (name \in Streams => d[n] = text)
    BY <1>4 DEF Builds, n
  <2> DEFINE dn == d[n]
             r == [event |-> name, data |-> dn, got |-> g]
  <2>4. /\ dn \in Seq(DataOf(name)) /\ IsPrefix(Text(dn), Text(text)) /\ Text(dn) = Text(text)
        /\ pl2 => (name \in Streams => dn = text)
    BY <2>2, <2>3 DEF A
  <2> HIDE DEF dn
  <2>5. /\ Delivered(r) \in [Streams -> Seq(Chars)]
        /\ Text(dn) = Text(text) => \A s \in Streams : Text(Delivered(r)[s]) = Text(wr2[s])
        /\ pl2 /\ (name \in Streams => dn = text) => Delivered(r) = wr2
    <3>1. Delivered(r) \in [Streams -> Seq(Chars)]
      BY <1>8, <2>4, MiddleSound
    <3>2. Text(dn) = Text(text) => \A s \in Streams : Text(Delivered(r)[s]) = Text(wr2[s])
      BY <1>8, <2>4, MiddleSound, ZenonT(90)
    <3>3. pl2 /\ (name \in Streams => dn = text) => Delivered(r) = wr2
      BY <1>8 DEF Delivered, Written
    <3> QED
      BY <3>1, <3>2, <3>3
  <2>6. mid(n) = r
    BY DEF dn
  <2> HIDE DEF r
  <2> QED
    BY <2>4, <2>5, <2>6
<1>12. wr2 \in [Streams -> Seq(Chars)] /\ \A t \in Streams : IsPrefix(Text(wr[t]), Text(wr2[t]))
  BY WrittenFacts
<1> HIDE DEF wr2
<1>13. fin \in Reader /\ Sound(fin, wr2, cl, sv2, pl2) /\ Idle(fin, wr2, pl2)
  <2> DEFINE h == Delivered(mid(n))
  <2>1. /\ h \in [Streams -> Seq(Chars)] /\ \A s \in Streams : Text(h[s]) = Text(wr2[s])
        /\ pl2 => h = wr2
    BY <1>11
  <2> HIDE DEF h
  <2>2. \A s \in Streams : IsPrefix(Text(h[s]), Text(wr2[s]))
    <3>1. \A s \in Streams : h[s] \in Seq(Chars)
      BY <2>1
    <3>2. \A s \in Streams : IsPrefix(Text(h[s]), Text(h[s]))
      BY <3>1, TextType, PrefixConcat
    <3> QED
      BY <2>1, <3>2
  <2> DEFINE r == [event |-> "", data |-> <<>>, got |-> h]
  <2>3. r \in Reader /\ Sound(r, wr2, cl, sv2, pl2)
    BY <1>12, <2>1, <2>2, EndSound
  <2>4. Idle(r, wr2, pl2)
    BY <2>1 DEF Idle, Complete
  <2> QED
    BY <2>3, <2>4 DEF h
<1> DEFINE M(j) == mid(j)
<1>14. /\ Reads(q, Event(name)) = M(0)
       /\ \A j \in 1..n : Reads(M(j - 1), Data(ls[j])) = M(j)
       /\ Reads(M(n), Blank) = fin
  <2>1. Reads(q, Event(name)) = M(0)
    <3>1. Reads([event |-> "", data |-> <<>>, got |-> g], Event(name))
            = [event |-> name, data |-> <<>>, got |-> g]
      BY ReadsEvent, Zenon
    <3> QED
      BY <1>8, <1>9, <3>1
  <2>2. ASSUME NEW j \in 1..n PROVE Reads(M(j - 1), Data(ls[j])) = M(j)
    <3>1. Reads(M(j - 1), Data(ls[j])) = [event |-> name, data |-> Joined(d[j - 1], ls[j]), got |-> g]
      <4> DEFINE e == d[j - 1]
                 l == ls[j]
      <4> HIDE DEF e, l
      <4>1. Reads([event |-> name, data |-> e, got |-> g], Data(l))
              = [event |-> name, data |-> Joined(e, l), got |-> g]
        BY ReadsData
      <4> QED
        BY <4>1 DEF e, l
    <3> QED
      BY <1>9, <3>1
  <2>3. Reads(M(n), Blank) = fin
    BY ReadsBlank, Zenon
  <2> QED
    BY <2>1, <2>2, <2>3
<1>15. /\ Event(name).field = "event" /\ \A j \in 1..n : Data(ls[j]).field = "data"
       /\ Blank.field = "" /\ \A j : M(j).event # ""
  BY ReadsEvent, ReadsData, ReadsBlank DEF EventNames, Streams
<1>16. \A j \in 0..n : M(j) \in Reader /\ Sound(M(j), wr2, cl, sv2, pl2)
  BY <1>10
<1> HIDE DEF M, fin
<1>17. /\ \A i \in 0..m : st2[i] = st[i]
       /\ \A j \in 0..n : st2[m + 1 + j] = M(j)
       /\ st2[m + n + 2] = fin
  <2>1. \A i \in 0..m : i \in 0..(m + n + 2) /\ i <= m
    BY <1>5
  <2>2. \A j \in 0..n : /\ m + 1 + j \in 0..(m + n + 2) /\ ~(m + 1 + j <= m)
                        /\ m + 1 + j <= m + 1 + n /\ (m + 1 + j) - (m + 1) = j
    BY <1>5
  <2>3. m + n + 2 \in 0..(m + n + 2) /\ ~(m + n + 2 <= m) /\ ~(m + n + 2 <= m + 1 + n)
    BY <1>5
  <2> QED
    BY <2>1, <2>2, <2>3, Zenon DEF M
<1>18. \A i \in 0..(m + n + 2) : i \in 0..m \/ (\E j \in 0..n : i = m + 1 + j) \/ i = m + n + 2
  <2> SUFFICES ASSUME NEW i \in 0..(m + n + 2), i \notin 0..m, i # m + n + 2
               PROVE  \E j \in 0..n : i = m + 1 + j
    OBVIOUS
  <2>1. i - (m + 1) \in 0..n /\ i = m + 1 + (i - (m + 1))
    BY <1>5
  <2> QED
    BY <2>1
<1>19. \A i \in 0..(m + n + 2) : st2[i] \in Reader /\ Sound(st2[i], wr2, cl, sv2, pl2)
  <2>1. ASSUME NEW i \in 0..m PROVE st[i] \in Reader /\ Sound(st[i], wr2, cl, sv2, pl2)
    <3>1. st[i] \in Reader /\ Sound(st[i], wr, cl, sv, pl)
      BY <1>1
    <3> QED
      BY <1>12, <3>1, SoundGrows
  <2>2. ASSUME NEW i \in 0..(m + n + 2)
        PROVE  st2[i] \in Reader /\ Sound(st2[i], wr2, cl, sv2, pl2)
    <3> HIDE DEF st2
    <3>1. CASE i \in 0..m
      BY <1>17, <2>1, <3>1
    <3>2. CASE \E j \in 0..n : i = m + 1 + j
      BY <1>16, <1>17, <3>2
    <3>3. CASE i = m + n + 2
      BY <1>13, <1>17, <3>3
    <3> QED
      BY <1>18, <3>1, <3>2, <3>3
  <2> QED
    BY <2>2
<1>20. st2 \in [0..(m + n + 2) -> Reader]
  BY <1>19, Zenon
<1> HIDE DEF st2
<1>21. Follows(st2, w2, c)
  <2>1. st2[0] = c
    <3>1. 0 \in 0..m
      BY <1>5
    <3> QED
      BY <1>1, <1>17, <3>1 DEF Follows
  <2>2. ASSUME NEW i \in 1..m PROVE Takes(st2[i - 1], w2[i], st2[i])
    <3>1. i \in 0..m /\ i - 1 \in 0..m
      BY <1>5
    <3> QED
      BY <1>1, <1>6, <1>17, <3>1 DEF Follows, m
  <2>3. Takes(st2[m], w2[m + 1], st2[m + 1])
    <3>1. st2[m + 1] = M(0)
      <4>1. 0 \in 0..n /\ m + 1 + 0 = m + 1
        BY <1>5
      <4> QED
        BY <1>17, <4>1
    <3>2. st2[m] = q
      BY <1>7, <1>17 DEF q
    <3> QED
      BY <1>6, <1>8, <1>14, <1>15, <3>1, <3>2 DEF Takes
  <2>4. ASSUME NEW j \in 1..n PROVE Takes(st2[m + j], w2[m + 1 + j], st2[m + 1 + j])
    <3>1. j \in 0..n /\ j - 1 \in 0..n /\ m + 1 + (j - 1) = m + j
      BY <1>5
    <3>2. st2[m + 1 + j] = M(j) /\ st2[m + j] = M(j - 1)
      BY <1>17, <3>1
    <3>3. w2[m + 1 + j] = Data(ls[j])
      BY <1>6
    <3>4. Data(ls[j]).field = "data" /\ M(j - 1).event # ""
      BY <1>15
    <3>5. Reads(M(j - 1), Data(ls[j])) = M(j)
      BY <1>14
    <3>6. M(j - 1).event \in Streams => Data(ls[j]).text \in Seq(Chars)
      <4>1. M(j - 1).event = name /\ Data(ls[j]).text = ls[j]
        BY DEF M, Data
      <4>2. ls[j] \in Seq(A)
        <5> DEFINE T == Seq(A)
        <5>1. ls \in Seq(T) /\ j \in 1..Len(ls)
          BY <1>3 DEF Lines, n
        <5> HIDE DEF T
        <5>2. ls[j] \in T
          BY <5>1, ElementOfSeq
        <5> QED
          BY <5>2 DEF T
      <4> QED
        BY <4>1, <4>2 DEF A, DataOf
    <3> QED
      BY <3>2, <3>3, <3>4, <3>5, <3>6 DEF Takes
  <2>5. Takes(st2[m + n + 1], w2[m + n + 2], st2[m + n + 2])
    <3>1. n \in 0..n /\ m + 1 + n = m + n + 1
      BY <1>5
    <3>2. st2[m + n + 1] = M(n)
      BY <1>17, <3>1
    <3> QED
      BY <1>6, <1>14, <1>15, <1>17, <3>2 DEF Takes
  <2>6. ASSUME NEW i \in 1..(m + n + 2) PROVE Takes(st2[i - 1], w2[i], st2[i])
    <3>1. CASE i \in 1..m
      BY <2>2, <3>1
    <3>2. CASE i = m + 1
      <4>1. i - 1 = m
        BY <1>5, <3>2
      <4> QED
        BY <2>3, <3>2, <4>1
    <3>3. CASE i = m + n + 2
      <4>1. i - 1 = m + n + 1
        BY <1>5, <3>3
      <4> QED
        BY <2>5, <3>3, <4>1
    <3>4. CASE i \notin 1..(m + 1) /\ i # m + n + 2
      <4> DEFINE j == i - (m + 1)
      <4>1. j \in 1..n /\ i = m + 1 + j /\ i - 1 = m + j
        BY <1>5, <3>4
      <4> HIDE DEF j
      <4> QED
        BY <2>4, <4>1
    <3>5. i \in 1..m \/ i = m + 1 \/ i = m + n + 2 \/ (i \notin 1..(m + 1) /\ i # m + n + 2)
      BY <1>5
    <3> QED
      BY <3>1, <3>2, <3>3, <3>4, <3>5
  <2> QED
    BY <1>6, <2>1, <2>6 DEF Follows
<1>22. Idle(st2[m + n + 2], wr2, pl2)
  BY <1>13, <1>17
<1>23. Ahead(w2, c, wr2, cl, sv2, cn2, pl2)
  BY <1>6, <1>19, <1>20, <1>21, <1>22, Zenon DEF Ahead
<1> QED
  BY <1>6, <1>23 DEF w2, wr2

(* A line that arrives in part is one the encoding allows, and leaves the  *)
(* client sound.                                                           *)
LEMMA PartialSound ==
    ASSUME NEW p \in Reader, NEW line \in Line, NEW c2 \in Reader, Takes(p, line, c2),
           NEW wr \in [Streams -> Seq(Chars)], NEW cl, NEW sv, NEW pl,
           Sound(p, wr, cl, sv, pl), Sound(c2, wr, cl, sv, pl),
           NEW l, <<l>> \in Partial(line)
    PROVE  l \in Line /\ Takes(p, l, Reads(p, l)) /\ Reads(p, l) \in Reader
           /\ Sound(Reads(p, l), wr, cl, sv, pl)
<1> DEFINE r == Reads(p, l)
<1>1. /\ p.event \in {"", "?", "exit", "error"} \cup Streams
      /\ p.data \in Seq(AllChars) /\ p.got \in [Streams -> Seq(Chars)]
      /\ p = [event |-> p.event, data |-> p.data, got |-> p.got]
  BY ReaderFacts
<1>2. line.field \in {"", "event", "data"} /\ line.text \in Seq(AllChars)
  BY DEF Line, AllChars
<1>3. \/ line.field = "event" /\ l = Event("?")
      \/ line.field = "data" /\ \E k \in 0..Len(line.text) : l = Data(SubSeq(line.text, 1, k))
  BY DEF Partial
<1>4. CASE line.field = "event" /\ l = Event("?")
  <2>1. l.field = "event" /\ l.name = "?" /\ l \in Line
    <3>1. <<>> \in Seq(Chars \cup {Json})
      OBVIOUS
    <3> QED
      BY <1>4, <3>1 DEF Event, Line
  <2>2. p.event = ""
    BY <1>4 DEF Takes
  <2> DEFINE x == [event |-> "?", data |-> p.data, got |-> p.got]
  <2>3. r = x
    BY <1>1, <2>1, <2>2 DEF Reads
  <2>4. x \in Reader /\ x.event = "?" /\ x.got = p.got
    BY <1>1 DEF Reader
  <2> HIDE DEF x
  <2>5. Delivered(x) = p.got
    BY <2>4 DEF Delivered, Streams
  <2>6. Sound(x, wr, cl, sv, pl)
    BY <2>4, <2>5 DEF Sound, Streams
  <2>7. Takes(p, l, r)
    BY <2>1, <2>2 DEF Takes
  <2> QED
    BY <2>1, <2>3, <2>4, <2>6, <2>7
<1>5. ASSUME line.field = "data", NEW k \in 0..Len(line.text),
             l = Data(SubSeq(line.text, 1, k))
      PROVE  l \in Line /\ Takes(p, l, r) /\ r \in Reader /\ Sound(r, wr, cl, sv, pl)
  <2> DEFINE t == SubSeq(line.text, 1, k)
             e == Joined(p.data, t)
             f == Joined(p.data, line.text)
             x == [event |-> p.event, data |-> e, got |-> p.got]
             y == [event |-> p.event, data |-> f, got |-> p.got]
  <2>1. l.field = "data" /\ l.text = t
    BY <1>5 DEF Data
  <2>2. t \in Seq(AllChars) /\ (line.text \in Seq(Chars) => t \in Seq(Chars))
    BY <1>2, <1>5, TextOfCut
  <2>3. l \in Line
    BY <1>5, <2>2 DEF Data, Line, AllChars
  <2>4. p.event # "" /\ (p.event \in Streams => line.text \in Seq(Chars))
    BY <1>5 DEF Takes
  <2>5. r = x
    BY <1>1, <2>1 DEF Reads
  <2>6. c2 = y
    BY <1>1, <1>5 DEF Reads, Takes
  <2>7. Takes(p, l, r)
    BY <2>1, <2>2, <2>4 DEF Takes
  <2>8. e \in Seq(AllChars)
    BY <1>1, <2>2, CharFacts, JoinedText
  <2>9. x \in Reader /\ x.event = p.event /\ x.data = e /\ x.got = p.got
    BY <1>1, <2>8 DEF Reader
  <2>10. y.event = p.event /\ y.data = f /\ y.got = p.got /\ y \in Reader
    BY <2>6
  <2>11. Sound(y, wr, cl, sv, pl)
    BY <2>6
  <2> HIDE DEF x, y, t, e, f
  <2>12. CASE p.event \notin Streams
    <3>1. Delivered(x) = p.got
      BY <2>9, <2>12 DEF Delivered
    <3>2. \A s \in Streams : IsPrefix(Text(p.got[s]), Text(wr[s]))
      BY DEF Sound
    <3>3. p.event = "exit" => cl = "ExecStream" /\ sv = "done" /\ Complete(x, wr, pl)
      BY <2>9 DEF Sound, Complete
    <3>4. Sound(x, wr, cl, sv, pl)
      BY <2>4, <2>9, <2>12, <3>1, <3>2, <3>3 DEF Sound
    <3> QED
      BY <2>3, <2>5, <2>7, <2>9, <3>4
  <2>13. CASE p.event \in Streams
    <3> DEFINE s0 == p.event
               g == p.got[s0]
               u == line.text
    <3>1. p.data \in Seq(Chars) /\ u \in Seq(Chars) /\ t \in Seq(Chars)
      BY <2>2, <2>4, <2>13 DEF Sound
    <3>2. /\ e \in Seq(Chars) /\ Text(e) = Text(p.data) \o Text(t)
          /\ f \in Seq(Chars) /\ Text(f) = Text(p.data) \o Text(u)
      BY <3>1, CharFacts, JoinedText DEF e, f
    <3>3. g \in Seq(Chars) /\ s0 \in Streams
      BY <1>1, <2>13
    <3>4. IsPrefix(Text(t), Text(u))
      BY <1>5, <3>1, TextOfCut DEF t
    <3> HIDE DEF s0, g, u
    <3>5. /\ Text(g) \in Seq(Chars) /\ Text(t) \in Seq(Chars) /\ Text(u) \in Seq(Chars)
          /\ Text(p.data) \in Seq(Chars) /\ Text(e) \in Seq(Chars) /\ Text(f) \in Seq(Chars)
      BY <3>1, <3>2, <3>3, TextType
    <3>6. IsPrefix(Text(e), Text(f))
      BY <3>2, <3>4, <3>5, PrefixAfter
    <3>7. IsPrefix(Text(g) \o Text(e), Text(g) \o Text(f))
      BY <3>5, <3>6, PrefixAfter
    <3>8. Text(g \o e) = Text(g) \o Text(e) /\ Text(g \o f) = Text(g) \o Text(f)
      BY <3>2, <3>3, TextConcat
    <3>9. /\ g \o e \in Seq(Chars) /\ g \o f \in Seq(Chars)
      BY <3>2, <3>3, ConcatProperties
    <3>10. /\ Text(g \o e) \in Seq(Chars) /\ Text(g \o f) \in Seq(Chars)
           /\ wr[s0] \in Seq(Chars) /\ Text(wr[s0]) \in Seq(Chars)
      <4>1. wr[s0] \in Seq(Chars)
        BY <3>3
      <4> QED
        BY <3>9, <4>1, TextType
    <3>11. \A s \in Streams : Delivered(x)[s] = IF s0 = s THEN p.got[s] \o e ELSE p.got[s]
      BY <2>9, <3>2, DeliveredFacts DEF s0
    <3>12. \A s \in Streams : Delivered(y)[s] = IF s0 = s THEN p.got[s] \o f ELSE p.got[s]
      BY <2>10, <3>2, DeliveredFacts DEF s0
    <3>13. IsPrefix(Text(g \o f), Text(wr[s0]))
      <4>1. IsPrefix(Text(Delivered(y)[s0]), Text(wr[s0]))
        BY <2>11, <3>3 DEF Sound
      <4> QED
        BY <3>3, <3>12, <4>1 DEF g
    <3>14. IsPrefix(Text(g \o e), Text(wr[s0]))
      BY <3>7, <3>8, <3>10, <3>13, PrefixTransitive
    <3>15. ASSUME NEW s \in Streams
           PROVE  /\ IsPrefix(Text(x.got[s]), Text(wr[s]))
                  /\ IsPrefix(Text(Delivered(x)[s]), Text(wr[s]))
      <4>1. IsPrefix(Text(p.got[s]), Text(wr[s]))
        BY DEF Sound
      <4>2. CASE s = s0
        BY <2>9, <3>11, <3>14, <4>1, <4>2 DEF g
      <4>3. CASE s # s0
        BY <2>9, <3>11, <4>1, <4>3
      <4> QED
        BY <4>2, <4>3
    <3>16. x.event # "" /\ x.event # "exit" /\ x.data \in Seq(Chars)
      BY <2>9, <2>13, <3>2 DEF Streams
    <3>17. Sound(x, wr, cl, sv, pl)
      BY <3>15, <3>16 DEF Sound
    <3> QED
      BY <2>3, <2>5, <2>7, <2>9, <3>17
  <2> QED
    BY <2>12, <2>13
<1> QED
  BY <1>3, <1>4, <1>5

(* The first lines on the way, followed as before.                         *)
LEMMA FollowsFirst ==
    ASSUME NEW w \in Seq(Line), NEW st, NEW c, Follows(st, w, c), NEW w2 \in Seq(Line),
           NEW k \in 0..Len(w), k <= Len(w2), \A i \in 1..k : w2[i] = w[i],
           NEW st2, \A i \in 0..k : st2[i] = st[i]
    PROVE  st2[0] = c /\ \A i \in 1..k : Takes(st2[i - 1], w2[i], st2[i])
<1>1. 0 \in 0..k /\ \A i \in 1..k : i \in 1..Len(w) /\ i \in 0..k /\ i - 1 \in 0..k
  OBVIOUS
<1> QED
  BY <1>1 DEF Follows

(* The connection breaks: of the lines on the way the first arrive, and    *)
(* perhaps a part of the next.                                             *)
LEMMA BreakAhead ==
    ASSUME NEW w \in Seq(Line), NEW c, NEW wr \in [Streams -> Seq(Chars)],
           NEW cl, NEW sv, NEW cn, NEW cn2 \in {"eof", "cut", "error"}, NEW pl,
           Ahead(w, c, wr, cl, sv, cn, pl),
           NEW k \in 1..Len(w), NEW rest \in Partial(w[k])
    PROVE  /\ SubSeq(w, 1, k - 1) \o rest \in Seq(Line)
           /\ Ahead(SubSeq(w, 1, k - 1) \o rest, c, wr, cl, sv, cn2, pl)
<1> DEFINE h == SubSeq(w, 1, k - 1)
           w2 == h \o rest
<1> SUFFICES w2 \in Seq(Line) /\ Ahead(w2, c, wr, cl, sv, cn2, pl)
  OBVIOUS
<1>1. PICK st \in [0..Len(w) -> Reader] :
         /\ Follows(st, w, c)
         /\ \A i \in 0..Len(w) : Sound(st[i], wr, cl, sv, pl)
  BY Zenon DEF Ahead
<1>2. /\ k \in Nat /\ k >= 1 /\ k - 1 \in 0..Len(w) /\ k \in 0..Len(w)
      /\ \A i \in 0..(k - 1) : i \in 0..Len(w)
  OBVIOUS
<1>3. h \in Seq(Line) /\ Len(h) = k - 1 /\ \A i \in 1..(k - 1) : h[i] = w[i]
  OBVIOUS
<1> HIDE DEF h
<1>4. CASE rest = <<>>
  <2>1. w2 = h
    BY <1>3, <1>4
  <2> DEFINE st2 == [i \in 0..(k - 1) |-> st[i]]
  <2>2. st2 \in [0..(k - 1) -> Reader] /\ \A i \in 0..(k - 1) : st2[i] = st[i]
    BY <1>1, <1>2
  <2> HIDE DEF st2
  <2>3. Follows(st2, h, c)
    <3>1. k - 1 <= Len(h)
      BY <1>2, <1>3
    <3>2. st2[0] = c /\ \A i \in 1..(k - 1) : Takes(st2[i - 1], h[i], st2[i])
      <4> DEFINE j == k - 1
      <4>1. j \in 0..Len(w) /\ j <= Len(h) /\ \A i \in 1..j : h[i] = w[i]
        BY <1>2, <1>3, <3>1
      <4>2. \A i \in 0..j : st2[i] = st[i]
        BY <2>2
      <4>3. 0 \in 0..j /\ \A i \in 1..j : i \in 1..Len(w) /\ i \in 0..j /\ i - 1 \in 0..j
        BY <1>2
      <4> HIDE DEF j
      <4>4. st2[0] = c
        BY <1>1, <4>2, <4>3 DEF Follows
      <4>5. \A i \in 1..j : Takes(st2[i - 1], h[i], st2[i])
        BY <1>1, <4>1, <4>2, <4>3 DEF Follows
      <4> QED
        BY <4>4, <4>5 DEF j
    <3> QED
      BY <1>3, <3>2 DEF Follows
  <2>4. \A i \in 0..(k - 1) : Sound(st2[i], wr, cl, sv, pl)
    BY <1>1, <1>2, <2>2
  <2>5. Ahead(h, c, wr, cl, sv, cn2, pl)
    BY <1>3, <2>2, <2>3, <2>4 DEF Ahead
  <2> QED
    BY <1>3, <2>1, <2>5
<1>5. ASSUME NEW l, rest = <<l>> PROVE w2 \in Seq(Line) /\ Ahead(w2, c, wr, cl, sv, cn2, pl)
  <2> DEFINE p == st[k - 1]
             r == Reads(p, l)
  <2>1. p \in Reader /\ Sound(p, wr, cl, sv, pl) /\ st[k] \in Reader /\ Sound(st[k], wr, cl, sv, pl)
    BY <1>1, <1>2
  <2>2. w[k] \in Line /\ Takes(p, w[k], st[k])
    BY <1>1 DEF Follows
  <2>3. l \in Line /\ Takes(p, l, r) /\ r \in Reader /\ Sound(r, wr, cl, sv, pl)
    <3>1. <<l>> \in Partial(w[k])
      BY <1>5
    <3> HIDE DEF p
    <3> QED
      BY <2>1, <2>2, <3>1, PartialSound
  <2>4. w2 = Append(h, l)
    BY <1>3, <1>5, <2>3, AppendIsConcat
  <2>5. w2 \in Seq(Line) /\ Len(w2) = k /\ w2[k] = l /\ \A i \in 1..(k - 1) : w2[i] = h[i]
    BY <1>2, <1>3, <2>3, <2>4, AppendProperties
  <2> DEFINE st2 == [i \in 0..k |-> IF i < k THEN st[i] ELSE r]
  <2> HIDE DEF w2, r
  <2>6. \A i \in 0..k : i \in 0..(k - 1) \/ i = k
    BY <1>2
  <2>7. st2[k] = r /\ \A i \in 0..(k - 1) : st2[i] = st[i]
    BY <1>2
  <2>8. st2 \in [0..k -> Reader]
    BY <1>1, <1>2, <2>3
  <2> HIDE DEF st2
  <2>9. Follows(st2, w2, c)
    <3>1. k - 1 <= Len(w2)
      BY <1>2, <2>5
    <3>2. st2[0] = c /\ \A i \in 1..(k - 1) : Takes(st2[i - 1], w2[i], st2[i])
      BY <1>1, <1>2, <1>3, <2>5, <2>7, <3>1, FollowsFirst
    <3>3. Takes(st2[k - 1], w2[k], st2[k])
      <4>1. k - 1 \in 0..(k - 1)
        BY <1>2
      <4> QED
        BY <2>3, <2>5, <2>7, <4>1
    <3>4. \A i \in 1..k : i \in 1..(k - 1) \/ i = k
      BY <1>2
    <3> QED
      BY <2>5, <3>2, <3>3, <3>4 DEF Follows
  <2>10. \A i \in 0..k : Sound(st2[i], wr, cl, sv, pl)
    BY <1>1, <1>2, <2>3, <2>6, <2>7
  <2>11. Ahead(w2, c, wr, cl, sv, cn2, pl)
    BY <2>5, <2>8, <2>9, <2>10 DEF Ahead
  <2> QED
    BY <2>5, <2>11
<1>6. rest = <<>> \/ \E l : rest = <<l>>
  BY DEF Partial
<1> QED
  BY <1>4, <1>5, <1>6

(* The client reads the first line.                                        *)
LEMMA ReadAhead ==
    ASSUME NEW w \in Seq(Line), w # <<>>, NEW c, NEW wr, NEW cl, NEW sv, NEW cn,
           NEW pl, Ahead(w, c, wr, cl, sv, cn, pl)
    PROVE  /\ Tail(w) \in Seq(Line) /\ Head(w) \in Line
           /\ Sound(c, wr, cl, sv, pl) /\ Takes(c, Head(w), Reads(c, Head(w)))
           /\ Reads(c, Head(w)) \in Reader
           /\ Ahead(Tail(w), Reads(c, Head(w)), wr, cl, sv, cn, pl)
<1> DEFINE m == Len(w)
           w2 == Tail(w)
           r == Reads(c, Head(w))
<1>1. PICK st \in [0..m -> Reader] :
         /\ Follows(st, w, c)
         /\ \A i \in 0..m : Sound(st[i], wr, cl, sv, pl)
         /\ cn \in {"open", "end"} => Idle(st[m], wr, pl)
  BY Zenon DEF Ahead
<1>2. /\ m \in Nat /\ m >= 1 /\ w2 \in Seq(Line) /\ Len(w2) = m - 1 /\ Head(w) = w[1]
      /\ Head(w) \in Line
      /\ \A i \in 1..(m - 1) : w2[i] = w[i + 1]
  BY HeadTailProperties
<1>3. 0 \in 0..m /\ 1 \in 1..m /\ 1 \in 0..m /\ 1 - 1 = 0
  BY <1>2
<1>4. st[0] = c /\ Takes(c, Head(w), st[1]) /\ st[1] = r
  BY <1>1, <1>2, <1>3 DEF Follows, Takes
<1>5. Sound(c, wr, cl, sv, pl) /\ r \in Reader
  BY <1>1, <1>3, <1>4
<1> DEFINE st2 == [i \in 0..(m - 1) |-> st[i + 1]]
<1> HIDE DEF m, w2, r
<1>6. \A i \in 0..(m - 1) : i + 1 \in 0..m
  BY <1>2
<1>7. st2 \in [0..(m - 1) -> Reader] /\ \A i \in 0..(m - 1) : st2[i] = st[i + 1]
  BY <1>1, <1>6
<1> HIDE DEF st2
<1>8. Follows(st2, w2, r)
  <2>1. st2[0] = r
    <3>1. 0 \in 0..(m - 1) /\ 0 + 1 = 1
      BY <1>2
    <3> QED
      BY <1>4, <1>7, <3>1
  <2>2. ASSUME NEW i \in 1..(m - 1) PROVE Takes(st2[i - 1], w2[i], st2[i])
    <3>1. /\ i \in 0..(m - 1) /\ i - 1 \in 0..(m - 1) /\ i + 1 \in 1..m
          /\ (i - 1) + 1 = i /\ (i + 1) - 1 = i
      BY <1>2
    <3>2. Takes(st[i], w[i + 1], st[i + 1])
      BY <1>1, <3>1 DEF Follows, m
    <3> QED
      BY <1>2, <1>7, <3>1, <3>2
  <2> QED
    BY <1>2, <2>1, <2>2 DEF Follows
<1>9. \A i \in 0..(m - 1) : Sound(st2[i], wr, cl, sv, pl)
  BY <1>1, <1>6, <1>7
<1>10. cn \in {"open", "end"} => Idle(st2[m - 1], wr, pl)
  <2>1. m - 1 \in 0..(m - 1) /\ (m - 1) + 1 = m
    BY <1>2
  <2> QED
    BY <1>1, <1>7, <2>1
<1>11. Ahead(w2, r, wr, cl, sv, cn, pl)
  BY <1>2, <1>7, <1>8, <1>9, <1>10 DEF Ahead
<1> QED
  BY <1>2, <1>4, <1>5, <1>11 DEF w2, r

(* Nothing is on the way: all that counts is the state of the client.      *)
LEMMA AheadOfNothing ==
    ASSUME NEW c \in Reader, NEW wr, NEW cl, NEW sv, NEW cn, NEW pl
    PROVE  Ahead(<<>>, c, wr, cl, sv, cn, pl)
              <=> Sound(c, wr, cl, sv, pl) /\ (cn \in {"open", "end"} => Idle(c, wr, pl))
<1>1. Len(<<>>) = 0 /\ 0 \in 0..0 /\ (\A i \in 0..0 : i = 0) /\ 1..0 = {}
  OBVIOUS
<1>2. ASSUME Ahead(<<>>, c, wr, cl, sv, cn, pl)
      PROVE  Sound(c, wr, cl, sv, pl) /\ (cn \in {"open", "end"} => Idle(c, wr, pl))
  <2>1. PICK st \in [0..0 -> Reader] :
           /\ Follows(st, <<>>, c)
           /\ \A i \in 0..0 : Sound(st[i], wr, cl, sv, pl)
           /\ cn \in {"open", "end"} => Idle(st[0], wr, pl)
    BY <1>1, <1>2 DEF Ahead
  <2> QED
    BY <1>1, <2>1 DEF Follows
<1>3. ASSUME Sound(c, wr, cl, sv, pl), cn \in {"open", "end"} => Idle(c, wr, pl)
      PROVE  Ahead(<<>>, c, wr, cl, sv, cn, pl)
  <2> DEFINE st == [i \in 0..0 |-> c]
  <2>1. st \in [0..0 -> Reader] /\ st[0] = c
    OBVIOUS
  <2> HIDE DEF st
  <2>2. Follows(st, <<>>, c)
    BY <1>1, <2>1 DEF Follows
  <2>3. \A i \in 0..0 : Sound(st[i], wr, cl, sv, pl)
    BY <1>1, <1>3, <2>1
  <2> QED
    BY <1>1, <1>3, <2>1, <2>2, <2>3 DEF Ahead
<1> QED
  BY <1>2, <1>3

-----------------------------------------------------------------------------
(* The invariant is inductive.                                             *)

(* Types of the state, and what the invariant says of it.                  *)
LEMMA StateFacts ==
    ASSUME IInv
    PROVE  /\ Now \in Reader /\ wire \in Seq(Line) /\ written \in [Streams -> Seq(Chars)]
           /\ \A s \in Streams : IsPrefix(Text(written[s]), Text(written[s]))
           /\ Now.event = event /\ Now.data = data /\ Now.got = got
           /\ Ahead(wire, Now, written, call, server, conn, plain)
           /\ plain \in BOOLEAN /\ EndIsDone
<1>1. /\ wire \in Seq(Line) /\ written \in [Streams -> Seq(Chars)]
      /\ got \in [Streams -> Seq(Chars)] /\ data \in Seq(AllChars)
      /\ event \in {"", "?", "exit", "error"} \cup Streams
  BY Zenon DEF IInv, TypeOK, AllChars
<1>2. Now \in Reader /\ Now.event = event /\ Now.data = data /\ Now.got = got
  BY <1>1 DEF Now, Reader
<1>3. \A s \in Streams : written[s] \in Seq(Chars)
  BY <1>1
<1>4. \A s \in Streams : IsPrefix(Text(written[s]), Text(written[s]))
  BY <1>3, TextType, PrefixConcat
<1> QED
  BY <1>1, <1>2, <1>4, Zenon DEF IInv, TypeOK

(* The initial states: nothing written, nothing on the way.                *)
LEMMA InitIInv == Init => IInv
<1> SUFFICES ASSUME Init PROVE IInv
  OBVIOUS
<1>1. /\ written = Nothing /\ wire = <<>> /\ conn = "open" /\ event = "" /\ data = <<>>
      /\ got = Nothing /\ result = "none" /\ chunks = 0 /\ plain = TRUE
      /\ call \in {"ExecStream", "LogsStream"} /\ server \in {"create", "copy"}
      /\ call = "LogsStream" => server = "copy"
  BY DEF Init
<1>2. Nothing \in [Streams -> Seq(Chars)] /\ \A s \in Streams : Nothing[s] = <<>>
  <2>1. <<>> \in Seq(Chars)
    OBVIOUS
  <2> QED
    BY <2>1 DEF Nothing
<1>3. TypeOK
  <2>1. chunks \in 0..MaxChunks
    <3>1. chunks = 0
      BY <1>1, Zenon
    <3> QED
      BY <3>1, MaxChunksNat
  <2>2. wire \in Seq(Line) /\ data \in Seq(Chars \cup {Json})
    <3>1. <<>> \in Seq(Line) /\ <<>> \in Seq(Chars \cup {Json})
      OBVIOUS
    <3> QED
      BY <1>1, <3>1, Zenon
  <2> QED
    BY <1>1, <1>2, <2>1, <2>2 DEF TypeOK
<1>4. LogsOnlyCopy /\ EndIsDone /\ OkStays
  BY <1>1 DEF LogsOnlyCopy, EndIsDone, OkStays
<1>5. Ahead(wire, Now, written, call, server, conn, plain)
  <2> DEFINE r == [event |-> "", data |-> <<>>, got |-> Nothing]
  <2>1. IsPrefix(Text(<<>>), Text(<<>>))
    <3>1. <<>> \in Seq(Chars)
      OBVIOUS
    <3> QED
      BY <3>1, TextEmpty, PrefixConcat
  <2>2. \A s \in Streams : IsPrefix(Text(Nothing[s]), Text(Nothing[s]))
    BY <1>2, <2>1
  <2>3. r \in Reader /\ Sound(r, Nothing, call, server, plain)
    BY <1>1, <1>2, <2>2, EndSound, Zenon
  <2>4. Idle(r, Nothing, plain)
    BY DEF Idle, Complete
  <2>5. Now = r
    BY <1>1 DEF Now
  <2> HIDE DEF r
  <2>6. Ahead(<<>>, r, Nothing, call, server, conn, plain)
    BY <1>1, <2>3, <2>4, AheadOfNothing, Zenon
  <2> QED
    BY <1>1, <2>5, <2>6
<1> QED
  BY <1>3, <1>4, <1>5 DEF IInv

(* Send: the event follows the lines on the way, or is lost.               *)
LEMMA SendKeeps ==
    ASSUME IInv, NEW name \in EventNames, NEW text \in Seq(DataOf(name)), Send(name, text),
           server # "done", Now' = Now, call' = call,
           written' = Written(written, name, text),
           plain' => plain, plain' /\ name \in Streams => Plain(text),
           conn' \in {"open", "end"} => conn = "open",
           name = "exit" => call = "ExecStream" /\ server' = "done"
    PROVE  /\ wire' \in Seq(Line) /\ written' \in [Streams -> Seq(Chars)]
           /\ Ahead(wire', Now', written', call', server', conn', plain')
           /\ conn # "open" => wire' = wire
<1>1. /\ Now \in Reader /\ wire \in Seq(Line) /\ written \in [Streams -> Seq(Chars)]
      /\ Ahead(wire, Now, written, call, server, conn, plain)
  BY StateFacts
<1>2. wire' = IF conn # "open" THEN wire ELSE Sent(wire, name, text)
  BY Zenon DEF Send, Sent
<1> DEFINE wr2 == Written(written, name, text)
<1>3. wr2 \in [Streams -> Seq(Chars)] /\ \A t \in Streams : IsPrefix(Text(written[t]), Text(wr2[t]))
  BY <1>1, WrittenFacts
<1> HIDE DEF wr2
<1>4. CASE conn = "open"
  <2>1. /\ Sent(wire, name, text) \in Seq(Line)
        /\ Ahead(Sent(wire, name, text), Now, wr2, call, server', conn', plain')
    BY <1>1, <1>4, SendAhead DEF wr2
  <2> QED
    BY <1>2, <1>3, <1>4, <2>1 DEF wr2
<1>5. CASE conn # "open"
  <2>1. Ahead(wire, Now, wr2, call, server', conn', plain')
    BY <1>1, <1>3, <1>5, AheadStays
  <2> QED
    BY <1>1, <1>2, <1>3, <1>5, <2>1 DEF wr2
<1> QED
  BY <1>4, <1>5

(* The event that ends an exec: exit or error.                             *)
LEMMA EndKeeps ==
    ASSUME IInv, NEW name \in {"exit", "error"}, Send(name, <<Json>>),
           call = "ExecStream", server # "done", Return,
           UNCHANGED <<call, written, chunks, plain, clientVars>>
    PROVE  IInv'
<1>1. /\ call' = call /\ written' = written /\ chunks' = chunks /\ plain' = plain
      /\ event' = event /\ data' = data /\ got' = got /\ result' = result
  BY DEF clientVars
<1>2. Now' = Now
  BY <1>1 DEF Now
<1>3. name \in EventNames /\ name \notin Streams /\ <<Json>> \in Seq(DataOf(name))
  <2>1. <<Json>> \in Seq(AllChars)
    BY CharFacts
  <2> QED
    BY <2>1 DEF EventNames, Streams, DataOf
<1>4. written' = Written(written, name, <<Json>>)
  BY <1>1, <1>3 DEF Written
<1>5. /\ server' = "done" /\ conn' = IF conn = "open" THEN "end" ELSE conn
      /\ conn # "end" /\ plain \in BOOLEAN
  BY StateFacts DEF Return, EndIsDone
<1>6. /\ wire' \in Seq(Line) /\ written' \in [Streams -> Seq(Chars)]
      /\ Ahead(wire', Now', written', call', server', conn', plain')
  <2>1. plain' => plain
    BY <1>1
  <2>2. call' = call /\ server' = "done" /\ (conn' \in {"open", "end"} => conn = "open")
    BY <1>1, <1>5
  <2> QED
    BY <1>2, <1>3, <1>4, <2>1, <2>2, SendKeeps
<1>7. TypeOK'
  BY <1>1, <1>5, <1>6 DEF IInv, TypeOK
<1>8. LogsOnlyCopy' /\ EndIsDone' /\ OkStays'
  BY <1>1, <1>2, <1>5 DEF IInv, LogsOnlyCopy, EndIsDone, OkStays
<1> QED
  BY <1>6, <1>7, <1>8 DEF IInv

(* The exec fails, before or after some of the output.                     *)
LEMMA ExecFailsKeeps == ASSUME IInv, ExecFails PROVE IInv'
BY EndKeeps DEF ExecFails

(* The command has ended, and its exit code is sent.                       *)
LEMMA ExecReturnsKeeps == ASSUME IInv, ExecReturns PROVE IInv'
<1>1. call = "ExecStream"
  BY DEF ExecReturns, IInv, TypeOK, LogsOnlyCopy
<1> QED
  BY <1>1, EndKeeps DEF ExecReturns

(* A step of the server that sends nothing.                                *)
LEMMA SilentKeeps ==
    ASSUME IInv, server # "done", server' \in {"attach", "copy", "inspect", "done"},
           call = "LogsStream" => server' \in {"copy", "done"},
           conn' = conn \/ (conn = "open" /\ conn' = "end" /\ server' = "done"),
           UNCHANGED <<call, written, chunks, plain, wire, clientVars>>
    PROVE  IInv'
<1>1. /\ call' = call /\ written' = written /\ chunks' = chunks /\ wire' = wire
      /\ plain' = plain
      /\ event' = event /\ data' = data /\ got' = got /\ result' = result
  BY DEF clientVars
<1>2. Now' = Now
  BY <1>1 DEF Now
<1>3. Ahead(wire, Now, written, call, server', conn', plain)
  BY StateFacts, AheadStays
<1>4. TypeOK'
  BY <1>1 DEF IInv, TypeOK
<1>5. LogsOnlyCopy' /\ EndIsDone'
  BY <1>1 DEF IInv, LogsOnlyCopy, EndIsDone
<1>6. OkStays'
  <2>1. result = "ok" => conn' = conn /\ call = "LogsStream" /\ conn # "end"
    BY DEF IInv, TypeOK, EndIsDone, OkStays
  <2> QED
    BY <1>1, <2>1 DEF IInv, OkStays
<1> QED
  BY <1>1, <1>2, <1>3, <1>4, <1>5, <1>6 DEF IInv

(* Runtime.Exec goes on to its next call.                                  *)
LEMMA ExecProceedsKeeps == ASSUME IInv, ExecProceeds PROVE IInv'
BY SilentKeeps DEF ExecProceeds

(* The handler of a log returns.                                           *)
LEMMA LogsEndKeeps == ASSUME IInv, LogsEnd PROVE IInv'
BY SilentKeeps DEF LogsEnd, Return

(* A chunk of output.                                                      *)
LEMMA CopyKeeps ==
    ASSUME IInv, NEW s \in Streams, NEW c \in Chunks, Copy(s, c)
    PROVE  IInv'
<1>1. /\ call' = call /\ server' = server /\ conn' = conn /\ server = "copy"
      /\ event' = event /\ data' = data /\ got' = got /\ result' = result
      /\ chunks' = chunks + 1 /\ chunks < MaxChunks /\ plain' = (plain /\ Plain(c))
      /\ Send(s, c) /\ written' = [written EXCEPT ![s] = @ \o c]
  BY DEF Copy, clientVars
<1>2. Now' = Now
  BY <1>1 DEF Now
<1>3. s \in EventNames /\ s # "exit" /\ c \in Seq(DataOf(s))
  BY CharFacts DEF EventNames, Streams, DataOf
<1>4. /\ written' = Written(written, s, c) /\ conn # "end"
      /\ plain' \in BOOLEAN /\ (plain' => plain /\ Plain(c))
  BY <1>1, StateFacts DEF Written, EndIsDone
<1>5. /\ wire' \in Seq(Line) /\ written' \in [Streams -> Seq(Chars)]
      /\ Ahead(wire', Now', written', call', server', conn', plain')
      /\ conn # "open" => wire' = wire
  BY <1>1, <1>2, <1>3, <1>4, SendKeeps
<1>6. TypeOK'
  <2>1. chunks' \in 0..MaxChunks
    <3>1. chunks \in 0..MaxChunks
      BY DEF IInv, TypeOK
    <3> QED
      BY <1>1, <3>1, MaxChunksNat
  <2> QED
    BY <1>1, <1>4, <1>5, <2>1 DEF IInv, TypeOK
<1>7. LogsOnlyCopy' /\ EndIsDone' /\ OkStays'
  BY <1>1, <1>4, <1>5 DEF IInv, LogsOnlyCopy, EndIsDone, OkStays
<1> QED
  BY <1>5, <1>6, <1>7 DEF IInv

(* The connection breaks.                                                  *)
LEMMA BreakKeeps == ASSUME IInv, Break PROVE IInv'
<1>1. /\ call' = call /\ server' = server /\ written' = written /\ chunks' = chunks
      /\ plain' = plain
      /\ event' = event /\ data' = data /\ got' = got /\ result' = result
      /\ conn' \in {"eof", "cut", "error"}
      /\ conn = "open" \/ (conn = "end" /\ wire # <<>>)
  BY DEF Break, serverVars, clientVars
<1>2. Now' = Now
  BY <1>1 DEF Now
<1>3. /\ wire \in Seq(Line) /\ written \in [Streams -> Seq(Chars)] /\ plain \in BOOLEAN
      /\ Ahead(wire, Now, written, call, server, conn, plain)
      /\ \A s \in Streams : IsPrefix(Text(written[s]), Text(written[s]))
  BY StateFacts
<1>4. wire' \in Seq(Line) /\ Ahead(wire', Now, written, call, server, conn', plain)
  <2>1. CASE wire' = wire
    <3>1. Ahead(wire, Now, written, call, server, conn', plain)
      BY <1>1, <1>3, AheadStays
    <3> QED
      BY <1>3, <2>1, <3>1
  <2>2. ASSUME NEW k \in 1..Len(wire), NEW rest \in Partial(wire[k]),
               wire' = SubSeq(wire, 1, k - 1) \o rest
        PROVE  wire' \in Seq(Line) /\ Ahead(wire', Now, written, call, server, conn', plain)
    <3>1. /\ SubSeq(wire, 1, k - 1) \o rest \in Seq(Line)
          /\ Ahead(SubSeq(wire, 1, k - 1) \o rest, Now, written, call, server, conn', plain)
      BY <1>1, <1>3, BreakAhead
    <3> QED
      BY <2>2, <3>1
  <2> QED
    BY <2>1, <2>2 DEF Break
<1>5. TypeOK'
  BY <1>1, <1>4 DEF IInv, TypeOK
<1>6. LogsOnlyCopy' /\ EndIsDone' /\ OkStays'
  BY <1>1, <1>2 DEF IInv, LogsOnlyCopy, EndIsDone, OkStays
<1> QED
  BY <1>1, <1>2, <1>4, <1>5, <1>6 DEF IInv

(* flush hands over the event that was begun.                              *)
LEMMA FlushFacts ==
    ASSUME IInv, NEW otherwise, flush(otherwise)
    PROVE  /\ Now' = [event |-> "", data |-> <<>>, got |-> Delivered(Now)]
           /\ result' = "ok" => event = "exit" \/ otherwise = "ok"
           /\ result' \in {"ok", "error", otherwise}
           /\ event = "exit" => got' = got
<1>1. got' = Delivered(Now)
  BY DEF flush, Delivered, Now
<1>2. event' = "" /\ data' = <<>>
  BY DEF flush
<1>3. Now' = [event |-> "", data |-> <<>>, got |-> Delivered(Now)]
  BY <1>1, <1>2 DEF Now
<1>4. /\ result' = "ok" => event = "exit" \/ otherwise = "ok"
      /\ result' \in {"ok", "error", otherwise}
      /\ event = "exit" => got' = got
  BY DEF flush, Streams
<1> QED
  BY <1>3, <1>4

(* The client reads a line.                                                *)
LEMMA ReadLineKeeps == ASSUME IInv, ReadLine PROVE IInv'
<1>1. /\ call' = call /\ server' = server /\ written' = written /\ chunks' = chunks
      /\ plain' = plain
      /\ conn' = conn /\ result = "none" /\ wire # <<>> /\ wire' = Tail(wire)
  BY DEF ReadLine, serverVars
<1>2. /\ wire \in Seq(Line) /\ Ahead(wire, Now, written, call, server, conn, plain)
      /\ Now.event = event /\ Now.data = data /\ Now.got = got /\ plain \in BOOLEAN
  BY StateFacts
<1> DEFINE l == Head(wire)
           r == Reads(Now, l)
<1>3. /\ Tail(wire) \in Seq(Line) /\ l \in Line /\ Sound(Now, written, call, server, plain)
      /\ r \in Reader /\ Ahead(Tail(wire), r, written, call, server, conn, plain)
  BY <1>1, <1>2, ReadAhead
<1> HIDE DEF l, r
<1>4. Now' = r /\ result' \in {"none", "ok", "error"}
      /\ (result' = "ok" => event = "exit" /\ got' = got)
  <2>1. CASE l.field = "" /\ flush("none")
    <3>1. r = [event |-> "", data |-> <<>>, got |-> Delivered(Now)]
      BY <2>1 DEF r, Reads
    <3>2. /\ Now' = [event |-> "", data |-> <<>>, got |-> Delivered(Now)]
          /\ result' = "ok" => event = "exit" \/ "none" = "ok"
          /\ result' \in {"ok", "error", "none"}
          /\ event = "exit" => got' = got
      BY <2>1, FlushFacts
    <3> QED
      BY <3>1, <3>2
  <2>2. CASE /\ l.field = "event"
             /\ event' = IF event = "" THEN l.name ELSE "?"
             /\ UNCHANGED <<data, got, result>>
    <3>1. r = [Now EXCEPT !.event = IF Now.event = "" THEN l.name ELSE "?"]
      BY <2>2 DEF r, Reads
    <3>2. r = [event |-> event', data |-> data, got |-> got]
      BY <1>2, <2>2, <3>1 DEF Now
    <3> QED
      BY <1>1, <2>2, <3>2 DEF Now
  <2>3. CASE /\ l.field = "data"
             /\ data' = IF data = <<>> THEN TrimRight(l.text)
                        ELSE data \o <<NL>> \o TrimRight(l.text)
             /\ UNCHANGED <<event, got, result>>
    <3>1. r = [Now EXCEPT !.data = Joined(Now.data, l.text)]
      BY <2>3 DEF r, Reads
    <3>2. data' = Joined(data, l.text)
      BY <2>3 DEF Joined
    <3>3. r = [event |-> event, data |-> data', got |-> got]
      BY <1>2, <3>1, <3>2 DEF Now
    <3> QED
      BY <1>1, <2>3, <3>3 DEF Now
  <2> QED
    BY <2>1, <2>2, <2>3 DEF ReadLine, l
<1>5. /\ event' \in {"", "?", "exit", "error"} \cup Streams /\ data' \in Seq(AllChars)
      /\ got' \in [Streams -> Seq(Chars)]
  <2>1. r.event = event' /\ r.data = data' /\ r.got = got'
    BY <1>4 DEF Now
  <2> QED
    BY <1>3, <2>1, ReaderFacts
<1>6. TypeOK'
  BY <1>1, <1>3, <1>4, <1>5 DEF IInv, TypeOK, AllChars
<1>7. LogsOnlyCopy' /\ EndIsDone'
  BY <1>1 DEF IInv, LogsOnlyCopy, EndIsDone
<1>8. OkStays'
  <2> SUFFICES ASSUME result' = "ok"
               PROVE  call = "ExecStream" /\ server = "done" /\ Complete(Now', written, plain)
    BY <1>1 DEF OkStays
  <2>1. call = "ExecStream" /\ server = "done" /\ Complete(Now, written, plain)
    BY <1>2, <1>3, <1>4 DEF Sound
  <2>2. Now'.got = Now.got
    BY <1>2, <1>4 DEF Now
  <2> QED
    BY <2>1, <2>2 DEF Complete
<1> QED
  BY <1>1, <1>3, <1>4, <1>6, <1>7, <1>8 DEF IInv

(* The end of the body.                                                    *)
LEMMA ReadEOFKeeps == ASSUME IInv, ReadEOF PROVE IInv'
<1>1. /\ call' = call /\ server' = server /\ written' = written /\ chunks' = chunks
      /\ plain' = plain
      /\ conn' = conn /\ wire' = wire /\ result = "none" /\ wire = <<>>
      /\ conn \in {"end", "eof"} /\ flush(UnexpectedEOF)
  BY DEF ReadEOF, serverVars
<1>2. /\ wire \in Seq(Line) /\ Ahead(wire, Now, written, call, server, conn, plain)
      /\ Now \in Reader /\ written \in [Streams -> Seq(Chars)] /\ plain \in BOOLEAN
      /\ Now.event = event /\ Now.data = data /\ Now.got = got /\ EndIsDone
  BY StateFacts
<1>3. Sound(Now, written, call, server, plain) /\ (conn = "end" => Idle(Now, written, plain))
  BY <1>1, <1>2, AheadOfNothing
<1> DEFINE r == [event |-> "", data |-> <<>>, got |-> Delivered(Now)]
<1>4. /\ Now' = r /\ result' \in {"ok", "error", UnexpectedEOF}
      /\ result' = "ok" => event = "exit" \/ UnexpectedEOF = "ok"
      /\ event = "exit" => got' = got
  BY <1>1, FlushFacts
<1>5. r \in Reader /\ Sound(r, written, call, server, plain)
  <2>1. Delivered(Now) \in [Streams -> Seq(Chars)]
    BY <1>2, <1>3, DeliveredFacts DEF Sound
  <2>2. \A s \in Streams : IsPrefix(Text(Delivered(Now)[s]), Text(written[s]))
    BY <1>3 DEF Sound
  <2> QED
    BY <1>2, <2>1, <2>2, EndSound
<1> HIDE DEF r
<1>6. conn = "end" => server = "done" /\ r.got = got /\ Complete(r, written, plain)
  <2>1. conn = "end" => Now.event = "" /\ Complete(Now, written, plain)
    BY <1>3 DEF Idle
  <2>2. conn = "end" => Delivered(Now) = Now.got
    BY <2>1 DEF Delivered, Streams
  <2> QED
    BY <1>2, <2>1, <2>2 DEF r, Complete, EndIsDone
<1>7. Ahead(wire', Now', written', call', server', conn', plain')
  <2>1. r.event = ""
    BY DEF r
  <2>2. conn \in {"open", "end"} => Idle(r, written, plain)
    BY <1>1, <1>6, <2>1 DEF Idle
  <2>3. Ahead(<<>>, r, written, call, server, conn, plain)
    BY <1>2, <1>5, <2>2, AheadOfNothing
  <2> QED
    BY <1>1, <1>4, <2>3
<1>8. /\ event' \in {"", "?", "exit", "error"} \cup Streams /\ data' \in Seq(AllChars)
      /\ got' \in [Streams -> Seq(Chars)]
  <2>1. r.event = event' /\ r.data = data' /\ r.got = got'
    BY <1>4 DEF Now
  <2> QED
    BY <1>5, <2>1, ReaderFacts
<1>9. UnexpectedEOF \in {"ok", "error"} /\ (UnexpectedEOF = "ok" <=> call = "LogsStream")
  BY DEF UnexpectedEOF
<1>10. TypeOK'
  BY <1>1, <1>2, <1>4, <1>8, <1>9 DEF IInv, TypeOK, AllChars
<1>11. LogsOnlyCopy' /\ EndIsDone'
  BY <1>1 DEF IInv, LogsOnlyCopy, EndIsDone
<1>12. OkStays'
  <2>1. ASSUME result' = "ok", event = "exit"
        PROVE  call = "ExecStream" /\ server = "done" /\ Complete(Now', written, plain)
    <3>1. call = "ExecStream" /\ server = "done" /\ Complete(Now, written, plain)
      BY <1>2, <1>3, <2>1 DEF Sound
    <3>2. Now'.got = Now.got
      BY <1>2, <1>4, <2>1 DEF Now
    <3> QED
      BY <3>1, <3>2 DEF Complete
  <2>2. ASSUME conn = "end" PROVE server = "done" /\ Complete(Now', written, plain)
    BY <1>4, <1>6, <2>2
  <2>3. call \in {"ExecStream", "LogsStream"}
    BY DEF IInv, TypeOK
  <2> QED
    BY <1>1, <1>4, <1>9, <2>1, <2>2, <2>3 DEF OkStays
<1> QED
  BY <1>7, <1>10, <1>11, <1>12 DEF IInv

(* An error of the connection.                                             *)
LEMMA ReadErrorKeeps == ASSUME IInv, ReadError PROVE IInv'
<1>1. /\ call' = call /\ server' = server /\ written' = written /\ chunks' = chunks
      /\ plain' = plain
      /\ conn' = conn /\ wire' = wire /\ event' = event /\ data' = data /\ got' = got
      /\ wire = <<>> /\ conn \in {"cut", "error"} /\ result' \in {"ok", "error"}
      /\ result' = "ok" => conn = "cut" /\ call = "LogsStream"
  BY DEF ReadError, UnexpectedEOF, serverVars
<1>2. Now' = Now
  BY <1>1 DEF Now
<1>3. TypeOK' /\ LogsOnlyCopy' /\ EndIsDone' /\ OkStays'
  BY <1>1 DEF IInv, TypeOK, LogsOnlyCopy, EndIsDone, OkStays
<1> QED
  BY <1>1, <1>2, <1>3 DEF IInv

(* Every step keeps the invariant.                                         *)
LEMMA NextIInv == IInv /\ [Next]_vars => IInv'
<1> SUFFICES ASSUME IInv, [Next]_vars PROVE IInv'
  OBVIOUS
<1>1. CASE UNCHANGED vars
  <2>1. /\ call' = call /\ server' = server /\ written' = written /\ chunks' = chunks
      /\ plain' = plain
        /\ conn' = conn /\ wire' = wire /\ event' = event /\ data' = data /\ got' = got
        /\ result' = result
    BY <1>1 DEF vars, serverVars, clientVars
  <2>2. Now' = Now
    BY <2>1 DEF Now
  <2> QED
    BY <2>1, <2>2 DEF IInv, TypeOK, LogsOnlyCopy, EndIsDone, OkStays
<1>2. CASE Server
  BY <1>2, ExecFailsKeeps, ExecProceedsKeeps, ExecReturnsKeeps, CopyKeeps DEF Server
<1>3. CASE LogsEnd
  BY <1>3, LogsEndKeeps
<1>4. CASE Break
  BY <1>4, BreakKeeps
<1>5. CASE Client
  BY <1>5, ReadLineKeeps, ReadEOFKeeps, ReadErrorKeeps DEF Client
<1> QED
  BY <1>1, <1>2, <1>3, <1>4, <1>5 DEF Next

(* IInv holds in every reachable state.                                    *)
LEMMA Invariance == Spec => []IInv
BY InitIInv, NextIInv, PTL DEF Spec

-----------------------------------------------------------------------------
(* The theorems.                                                           *)

(* Type correctness, for every set of chunks and every number of them.     *)
THEOREM ExecStreamTypeCorrect == Spec => []TypeOK
<1>1. IInv => TypeOK
  BY DEF IInv
<1> QED
  BY <1>1, Invariance, PTL

(* handleExecStream's encoding and parseSSE: at every moment, wherever the *)
(* connection breaks, the caller's writers have a prefix of the text the   *)
(* command wrote to that stream.                                           *)
THEOREM ExecStreamOutputIsPrefix == Spec => []OutputIsPrefix
<1>1. IInv => OutputIsPrefix
  <2> SUFFICES ASSUME IInv PROVE OutputIsPrefix
    OBVIOUS
  <2>1. /\ Now.got = got /\ Ahead(wire, Now, written, call, server, conn, plain)
    BY StateFacts
  <2>2. Sound(Now, written, call, server, plain)
    <3>1. 0 \in 0..Len(wire)
      BY StateFacts
    <3> QED
      BY <2>1, <3>1 DEF Ahead, Follows
  <2> QED
    BY <2>1, <2>2 DEF Sound, OutputIsPrefix
<1> QED
  BY <1>1, Invariance, PTL

(* ExecStream returns an exit code only when the command has ended and its *)
(* output has been delivered: all of its text, and every character of      *)
(* plain output.  The same holds of LogsStream's nil when the connection   *)
(* did not break; when it did, only an end of the body and                 *)
(* io.ErrUnexpectedEOF become nil.                                         *)
THEOREM ExecStreamOkIsComplete == Spec => []OkIsComplete
<1>1. IInv => OkIsComplete
  <2> SUFFICES ASSUME IInv PROVE OkIsComplete
    OBVIOUS
  <2>1. Now.got = got
    BY StateFacts
  <2> QED
    BY <2>1 DEF IInv, OkStays, OkIsComplete, Complete
<1> QED
  BY <1>1, Invariance, PTL

(* parseSSE has nothing left of an event when the next one begins: flush's *)
(* reset and the blank line of sseWriter.send keep events apart, however   *)
(* the connection breaks.                                                  *)
THEOREM ExecStreamEventsApart == Spec => []EventsApart
<1>1. IInv => EventsApart
  <2> SUFFICES ASSUME IInv, wire # <<>>, Head(wire).field = "event"
               PROVE  event = "" /\ data = <<>>
    BY DEF EventsApart
  <2>1. /\ wire \in Seq(Line) /\ Ahead(wire, Now, written, call, server, conn, plain)
        /\ Now.event = event /\ Now.data = data
    BY StateFacts
  <2>2. /\ Sound(Now, written, call, server, plain)
        /\ Takes(Now, Head(wire), Reads(Now, Head(wire)))
    BY <2>1, ReadAhead, StateFacts, Zenon
  <2> QED
    BY <2>1, <2>2 DEF Sound, Takes
<1> QED
  BY <1>1, Invariance, PTL

=============================================================================
