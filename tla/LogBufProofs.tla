---------------------------- MODULE LogBufProofs -----------------------------
(***************************************************************************)
(* The log buffer is exact and its followers miss nothing, for every cap,  *)
(* every size of chunks and channels and every number of writes.  What the *)
(* eviction needs about sums is proved by induction on the entries, stated *)
(* with sets: no operator has to be instantiated.                          *)
(***************************************************************************)
EXTENDS LogBuf, TLAPS, WellFoundedInduction, SequenceTheorems

-----------------------------------------------------------------------------
(* Induction.                                                              *)

(* A set of naturals that is not empty has a least element.                *)
LEMMA LeastNat ==
    ASSUME NEW S \in SUBSET Nat, S # {}
    PROVE  \E i \in S : \A j \in S : i <= j
<1> DEFINE R == {p \in Nat \X Nat : p[1] < p[2]}
<1>1. IsWellFoundedOn(R, Nat)
  BY NatLessThanWellFounded, Zenon DEF OpToRel
<1> HIDE DEF R
<1>2. PICK x \in S : \A y \in S : <<y, x>> \notin R
  BY <1>1, WFMin
<1>3. ASSUME NEW y \in S PROVE x <= y
  <2>1. x \in Nat /\ y \in Nat
    OBVIOUS
  <2>2. <<y, x>> \in Nat \X Nat /\ <<y, x>>[1] = y /\ <<y, x>>[2] = x
    BY <2>1
  <2>3. ~(y < x)
    BY <1>2, <2>2 DEF R
  <2> QED
    BY <2>1, <2>3
<1> QED
  BY <1>3

(* A set that has 0 and, with each k below n, k + 1, has all of 0..n.      *)
LEMMA UpTo ==
    ASSUME NEW n \in Nat, NEW S, 0 \in S,
           \A k \in 0..n : k < n /\ k \in S => k + 1 \in S
    PROVE  \A k \in 0..n : k \in S
<1> DEFINE Bad == {k \in 0..n : k \notin S}
<1> SUFFICES ASSUME Bad # {} PROVE FALSE
  OBVIOUS
<1>1. PICK m \in Bad : \A j \in Bad : m <= j
  <2>1. Bad \in SUBSET Nat
    OBVIOUS
  <2> HIDE DEF Bad
  <2> QED
    BY <2>1, LeastNat
<1>2. m \in 0..n /\ m # 0 /\ m \notin S
  BY <1>1
<1>3. m - 1 \in 0..n /\ m - 1 < n /\ m - 1 \notin Bad
  BY <1>1, <1>2
<1>4. m - 1 \in S
  BY <1>3
<1>5. (m - 1) + 1 \in S
  BY <1>3, <1>4
<1> QED
  BY <1>2, <1>5

-----------------------------------------------------------------------------
(* The sums of the eviction loop.                                          *)

(* The size of an entry is a natural number.                               *)
LEMMA EntryFacts ==
    ASSUME NEW es \in Seq(Entry)
    PROVE  \A k \in 1..Len(es) : es[k] \in Entry /\ es[k].size \in Nat
<1>1. \A k \in 1..Len(es) : es[k] \in Entry
  OBVIOUS
<1>2. \A e \in Entry : e.size \in Nat
  BY LogBufAssumption DEF Entry
<1> QED
  BY <1>1, <1>2

(* There is a function that satisfies the recursion of SizeTo.             *)
LEMMA SumExists ==
    ASSUME NEW es \in Seq(Entry)
    PROVE  \E g : g = [k \in 0..Len(es) |-> IF k = 0 THEN 0 ELSE g[k - 1] + es[k].size]
<1> DEFINE N == Len(es)
           Step(g, m) == \A k \in 0..m : g[k] = IF k = 0 THEN 0 ELSE g[k - 1] + es[k].size
           S == {m \in 0..N : \E g \in [0..m -> Nat] : Step(g, m)}
<1>1. N \in Nat
  OBVIOUS
<1>2. \A k \in 1..N : es[k].size \in Nat
  BY EntryFacts
<1>3. 0 \in S
  <2>1. [k \in 0..0 |-> 0] \in [0..0 -> Nat]
    OBVIOUS
  <2>2. Step([k \in 0..0 |-> 0], 0)
    OBVIOUS
  <2>3. \E g \in [0..0 -> Nat] : Step(g, 0)
    BY <2>1, <2>2
  <2>4. 0 \in 0..N
    BY <1>1
  <2> QED
    BY <2>3, <2>4
<1>4. ASSUME NEW m \in 0..N, m < N, m \in S PROVE m + 1 \in S
  <2>1. PICK g \in [0..m -> Nat] : Step(g, m)
    BY <1>4
  <2> DEFINE h == [k \in 0..(m + 1) |-> IF k <= m THEN g[k] ELSE g[m] + es[m + 1].size]
  <2>2. m + 1 \in 0..N /\ m + 1 \in 1..N
    BY <1>1, <1>4
  <2>3. h \in [0..(m + 1) -> Nat]
    BY <1>2, <2>2
  <2>4. Step(h, m + 1)
    <3> SUFFICES ASSUME NEW k \in 0..(m + 1)
                 PROVE  h[k] = IF k = 0 THEN 0 ELSE h[k - 1] + es[k].size
      OBVIOUS
    <3>1. CASE k <= m
      BY <2>1, <3>1
    <3>2. CASE k = m + 1
      BY <3>2
    <3> QED
      BY <3>1, <3>2
  <2> QED
    BY <2>2, <2>3, <2>4
<1>5. N \in S
  <2>1. \A m \in 0..N : m \in S
    <3> HIDE DEF S, N
    <3> QED
      BY <1>1, <1>3, <1>4, UpTo
  <2>2. N \in 0..N
    BY <1>1
  <2> QED
    BY <2>1, <2>2
<1>6. PICK g \in [0..N -> Nat] : Step(g, N)
  BY <1>5
<1>7. g = [k \in 0..N |-> IF k = 0 THEN 0 ELSE g[k - 1] + es[k].size]
  BY <1>6
<1> QED
  BY <1>7

(* So SizeTo satisfies it, and its values are naturals.                    *)
LEMMA SizeToFacts ==
    ASSUME NEW es \in Seq(Entry)
    PROVE  /\ SizeTo(es) \in [0..Len(es) -> Nat]
           /\ SizeTo(es)[0] = 0
           /\ \A k \in 1..Len(es) : SizeTo(es)[k] = SizeTo(es)[k - 1] + es[k].size
<1> DEFINE N == Len(es)
           s == SizeTo(es)
<1>1. N \in Nat
  OBVIOUS
<1>2. \A k \in 1..N : es[k].size \in Nat
  BY EntryFacts
<1>3. s = [k \in 0..N |-> IF k = 0 THEN 0 ELSE s[k - 1] + es[k].size]
  BY SumExists DEF SizeTo
<1> HIDE DEF s, N
<1>4. s[0] = 0 /\ \A k \in 1..N : s[k] = s[k - 1] + es[k].size
  BY <1>1, <1>3
<1>5. \A k \in 0..N : s[k] \in Nat
  <2> DEFINE S == {k \in 0..N : s[k] \in Nat}
  <2>1. 0 \in S
    BY <1>1, <1>4
  <2>2. ASSUME NEW k \in 0..N, k < N, k \in S PROVE k + 1 \in S
    <3>1. k + 1 \in 1..N /\ (k + 1) - 1 = k
      BY <1>1, <2>2
    <3>2. s[k + 1] = s[k] + es[k + 1].size
      BY <1>4, <3>1
    <3> QED
      BY <1>2, <2>2, <3>1, <3>2
  <2>3. \A k \in 0..N : k \in S
    <3> HIDE DEF S
    <3> QED
      BY <1>1, <2>1, <2>2, UpTo
  <2> QED
    BY <2>3
<1>6. s \in [0..N -> Nat]
  BY <1>3, <1>5
<1> QED
  BY <1>4, <1>6 DEF s, N

(* Two buffers with the same sizes up to n have the same sums up to n.     *)
LEMMA SizeToShift ==
    ASSUME NEW es \in Seq(Entry), NEW t \in Seq(Entry), NEW d \in Nat, NEW n \in Nat,
           n <= Len(t), d + n <= Len(es),
           \A i \in 1..n : t[i].size = es[d + i].size
    PROVE  \A k \in 0..n : SizeTo(t)[k] = SizeTo(es)[d + k] - SizeTo(es)[d]
<1> DEFINE a == SizeTo(t)
           b == SizeTo(es)
           S == {k \in 0..n : a[k] = b[d + k] - b[d]}
<1>1. Len(t) \in Nat /\ Len(es) \in Nat
  OBVIOUS
<1>2. /\ a \in [0..Len(t) -> Nat] /\ a[0] = 0
      /\ \A k \in 1..Len(t) : a[k] = a[k - 1] + t[k].size
  BY SizeToFacts
<1>3. /\ b \in [0..Len(es) -> Nat]
      /\ \A k \in 1..Len(es) : b[k] = b[k - 1] + es[k].size
  BY SizeToFacts
<1>4. /\ \A k \in 1..Len(es) : es[k].size \in Nat
      /\ \A k \in 1..Len(t) : t[k].size \in Nat
  BY EntryFacts
<1> HIDE DEF a, b
<1>5. ASSUME NEW k \in 0..n PROVE b[d + k] \in Nat
  <2>1. d + k \in 0..Len(es)
    BY <1>1
  <2> QED
    BY <1>3, <2>1
<1>6. b[d] \in Nat
  <2>1. d \in 0..Len(es)
    BY <1>1
  <2> QED
    BY <1>3, <2>1
<1>7. 0 \in S
  BY <1>2, <1>6
<1>8. ASSUME NEW k \in 0..n, k < n, k \in S PROVE k + 1 \in S
  <2>1. k + 1 \in 1..Len(t) /\ (k + 1) - 1 = k /\ k + 1 \in 1..n
    BY <1>1, <1>8
  <2>2. a[k + 1] = a[k] + t[k + 1].size
    BY <1>2, <2>1
  <2>3. d + (k + 1) \in 1..Len(es) /\ (d + (k + 1)) - 1 = d + k
    BY <1>1, <1>8
  <2>4. b[d + (k + 1)] = b[d + k] + es[d + (k + 1)].size
    BY <1>3, <2>3
  <2>5. t[k + 1].size = es[d + (k + 1)].size /\ es[d + (k + 1)].size \in Nat
    BY <1>4, <2>1, <2>3
  <2>6. a[k] = b[d + k] - b[d] /\ b[d + k] \in Nat
    BY <1>5, <1>8
  <2> QED
    BY <1>6, <2>1, <2>2, <2>4, <2>5, <2>6, SMTT(30)
<1>9. \A k \in 0..n : k \in S
  <2> HIDE DEF S
  <2> QED
    BY <1>7, <1>8, UpTo
<1> QED
  BY <1>9 DEF a, b

(* A chunk that is appended adds its size.                                 *)
LEMMA SizeOfAppend ==
    ASSUME NEW es \in Seq(Entry), NEW e \in Entry
    PROVE  Append(es, e) \in Seq(Entry) /\ Size(Append(es, e)) = Size(es) + e.size
<1> DEFINE t == Append(es, e)
           n == Len(es)
<1>1. /\ t \in Seq(Entry) /\ Len(t) = n + 1 /\ n \in Nat /\ t[n + 1] = e
      /\ \A i \in 1..n : t[i] = es[i]
  OBVIOUS
<1> HIDE DEF t
<1>2. SizeTo(t)[n] = SizeTo(es)[0 + n] - SizeTo(es)[0]
  <2>1. \A i \in 1..n : t[i].size = es[0 + i].size
    BY <1>1
  <2>2. 0 \in Nat /\ n <= Len(t) /\ 0 + n <= Len(es)
    BY <1>1
  <2> HIDE DEF n
  <2>3. \A k \in 0..n : SizeTo(t)[k] = SizeTo(es)[0 + k] - SizeTo(es)[0]
    BY <1>1, <2>1, <2>2, SizeToShift
  <2> QED
    BY <1>1, <2>3
<1>3. SizeTo(es)[0] = 0 /\ SizeTo(es)[n] \in Nat
  BY <1>1, SizeToFacts
<1>4. SizeTo(t)[n + 1] = SizeTo(t)[n] + e.size
  <2>1. n + 1 \in 1..Len(t) /\ (n + 1) - 1 = n
    BY <1>1
  <2> QED
    BY <1>1, <2>1, SizeToFacts
<1> QED
  BY <1>1, <1>2, <1>3, <1>4 DEF Size, t

(* What is left after the first k entries are gone.                        *)
LEMMA SizeOfSuffix ==
    ASSUME NEW es \in Seq(Entry), NEW k \in 0..Len(es)
    PROVE  LET t == SubSeq(es, k + 1, Len(es))
           IN  /\ t \in Seq(Entry) /\ Len(t) = Len(es) - k
               /\ \A i \in 1..Len(t) : t[i] = es[k + i]
               /\ Size(t) = Size(es) - SizeTo(es)[k]
<1> DEFINE t == SubSeq(es, k + 1, Len(es))
           n == Len(es) - k
<1>1. Len(es) \in Nat /\ n \in Nat /\ k \in Nat /\ k + n = Len(es)
  OBVIOUS
<1>2. t \in Seq(Entry) /\ Len(t) = n /\ \A i \in 1..n : t[i] = es[k + i]
  <2>1. k + 1 \in Int /\ Len(es) \in Int /\ \A i \in (k + 1)..Len(es) : es[i] \in Entry
    BY <1>1
  <2>2. /\ t \in Seq(Entry)
        /\ Len(t) = IF k + 1 <= Len(es) THEN Len(es) - (k + 1) + 1 ELSE 0
        /\ \A i \in 1..(Len(es) - (k + 1) + 1) : t[i] = es[(k + 1) + i - 1]
    BY <2>1, SubSeqProperties
  <2>3. Len(es) - (k + 1) + 1 = n /\ \A i \in 1..n : (k + 1) + i - 1 = k + i
    BY <1>1
  <2> HIDE DEF t, n
  <2>4. Len(t) = n
    <3>1. CASE k + 1 <= Len(es)
      BY <2>2, <2>3, <3>1
    <3>2. CASE ~(k + 1 <= Len(es))
      <4>1. n = 0
        BY <1>1, <3>2
      <4>2. Len(t) = 0
        BY <2>2, <3>2
      <4> QED
        BY <4>1, <4>2
    <3> QED
      BY <3>1, <3>2
  <2>5. ASSUME NEW i \in 1..n PROVE t[i] = es[k + i]
    <3>1. (k + 1) + i - 1 = k + i /\ i \in 1..(Len(es) - (k + 1) + 1)
      BY <2>3
    <3>2. t[i] = es[(k + 1) + i - 1]
      BY <2>2, <3>1
    <3> QED
      BY <3>1, <3>2
  <2> QED
    BY <2>2, <2>4, <2>5
<1> HIDE DEF t
<1>3. \A j \in 0..n : SizeTo(t)[j] = SizeTo(es)[k + j] - SizeTo(es)[k]
  <2>1. n <= Len(t) /\ k + n <= Len(es) /\ \A i \in 1..n : t[i].size = es[k + i].size
    BY <1>1, <1>2
  <2> HIDE DEF n
  <2> QED
    BY <1>1, <1>2, <2>1, SizeToShift, ZenonT(30)
<1>4. Size(t) = Size(es) - SizeTo(es)[k]
  BY <1>1, <1>2, <1>3 DEF Size
<1> QED
  BY <1>2, <1>4 DEF t

(* write's loop ends: it evicts the fewest entries that bring the buffer   *)
(* below the cap, or all of them.                                          *)
LEMMA EvictedFacts ==
    ASSUME NEW es \in Seq(Entry), NEW total \in Int, MaxBytes \in Int
    PROVE  LET k == Evicted(es, total)
           IN  /\ k \in 0..Len(es)
               /\ total - SizeTo(es)[k] <= MaxBytes \/ k = Len(es)
               /\ \A j \in 0..(k - 1) : total - SizeTo(es)[j] > MaxBytes
<1> DEFINE b == SizeTo(es)
           S == {k \in 0..Len(es) : total - b[k] <= MaxBytes \/ k = Len(es)}
<1>1. Len(es) \in Nat /\ b \in [0..Len(es) -> Nat]
  BY SizeToFacts
<1>2. PICK k \in S : \A j \in S : k <= j
  <2>1. S \in SUBSET Nat /\ Len(es) \in S
    BY <1>1
  <2> HIDE DEF S
  <2> QED
    BY <2>1, LeastNat
<1> HIDE DEF b
<1>3. k \in 0..Len(es) /\ (total - b[k] <= MaxBytes \/ k = Len(es))
  BY <1>2
<1>4. ASSUME NEW j \in 0..(k - 1) PROVE total - b[j] > MaxBytes
  <2>1. j \in 0..Len(es) /\ j < k
    BY <1>1, <1>3
  <2>2. j \notin S
    BY <1>2, <1>3, <2>1
  <2>3. b[j] \in Nat
    BY <1>1, <2>1
  <2> QED
    BY <2>1, <2>2, <2>3
<1>5. \E m \in 0..Len(es) :
         /\ total - SizeTo(es)[m] <= MaxBytes \/ m = Len(es)
         /\ \A j \in 0..(m - 1) : total - SizeTo(es)[j] > MaxBytes
  BY <1>3, <1>4 DEF b
<1> QED
  BY <1>5 DEF Evicted

-----------------------------------------------------------------------------
(* The inductive invariant.                                                *)

(* Without a buffer nothing is written.                                    *)
NoCaptureNoWrite == ~Captures => writes = 0

(* A channel is registered from Subscribe to cancel.                       *)
Registered ==
    \A f \in Followers :
        /\ f \in subs => pc[f] \in {"subscribed", "snapshot", "live"}
        /\ f \in closed => pc[f] = "done"
        /\ pc[f] \in {"subscribed", "snapshot", "live"} /\ Captures => f \in subs

(* From the snapshot on, every chunk after it is sent, queued or dropped.  *)
GapIsCovered ==
    \A f \in Followers : pc[f] \in {"snapshot", "live"} =>
        \A n \in (edge[f] + 1)..writes :
            n \in sent[f] \/ n \in dropped[f] \/ \E i \in 1..Len(queue[f]) : queue[f][i] = n

IInv ==
    /\ TypeOK
    /\ writes <= MaxWrites
    /\ BufferIsExact
    /\ NoCaptureNoWrite
    /\ Registered
    /\ GapIsCovered

LEMMA InitIInv == Init => IInv
<1> SUFFICES ASSUME Init PROVE IInv
  OBVIOUS
<1>1. TypeOK /\ writes = 0 /\ entries = <<>> /\ Len(entries) = 0
  BY LogBufAssumption DEF Init, TypeOK, writes
<1>2. BufferIsExact
  <2>1. Size(<<>>) = 0
    <3>1. <<>> \in Seq(Entry) /\ Len(<<>>) = 0
      OBVIOUS
    <3> QED
      BY <3>1, SizeToFacts DEF Size
  <2>2. Captures => 0 <= MaxBytes
    <3>1. MaxBytes \in Int
      BY <1>1, LogBufAssumption DEF TypeOK, MaxBytes, logCap, envInt
    <3> QED
      BY <3>1 DEF Captures
  <2> QED
    BY <1>1, <2>1, <2>2 DEF Init, BufferIsExact
<1>3. writes <= MaxWrites /\ NoCaptureNoWrite /\ Registered /\ GapIsCovered
  BY <1>1, LogBufAssumption DEF Init, NoCaptureNoWrite, Registered, GapIsCovered
<1> QED
  BY <1>1, <1>2, <1>3 DEF IInv

(* A write keeps the buffer exact: what the loop evicts leaves the longest *)
(* run of chunks that fits.                                                *)
LEMMA WriteBuffer ==
    ASSUME IInv, NEW size \in Sizes, Write(size)
    PROVE  /\ entries' \in Seq(Entry) /\ bytes' \in Nat /\ written' \in Seq(Sizes)
           /\ writes' = writes + 1 /\ writes' <= MaxWrites
           /\ BufferIsExact'
<1> DEFINE n == writes + 1
           e == [n |-> n, size |-> size]
           es == Append(entries, e)
           k == Evicted(es, bytes + size)
           first == writes - Len(entries)
<1>1. /\ written \in Seq(Sizes) /\ entries \in Seq(Entry) /\ bytes \in Nat /\ size \in Nat
      /\ writes \in Nat /\ Len(entries) \in Nat /\ MaxWrites \in Nat /\ MaxBytes \in Int
      /\ MaxBytes > 0 /\ writes < MaxWrites
  BY LogBufAssumption
     DEF IInv, TypeOK, Write, writes, Captures, MaxBytes, logCap, envInt
<1>2. e \in Entry /\ e.size = size /\ e.n = n
  BY <1>1 DEF Entry
<1>3. /\ written' \in Seq(Sizes) /\ Len(written') = n /\ written'[n] = size
      /\ \A i \in 1..writes : written'[i] = written[i]
  BY <1>1 DEF Write, writes
<1>4. /\ \A i \in 1..Len(entries) : entries[i] = [n |-> first + i, size |-> written[first + i]]
      /\ bytes = Size(entries)
      /\ first > 0 => bytes + written[first] > MaxBytes
  BY DEF IInv, BufferIsExact
<1>5. first \in Nat /\ first + Len(entries) = writes
  <2>1. CASE Len(entries) = 0
    BY <1>1, <2>1
  <2>2. CASE Len(entries) > 0
    <3>1. 1 \in 1..Len(entries) /\ entries[1] \in Entry
      BY <1>1, <2>2
    <3>2. entries[1].n = first + 1
      <4> HIDE DEF first
      <4>1. entries[1] = [n |-> first + 1, size |-> written[first + 1]]
        BY <1>4, <3>1
      <4> QED
        BY <4>1
    <3>3. entries[1].n \in 1..MaxWrites
      BY <3>1 DEF Entry
    <3> QED
      BY <1>1, <3>2, <3>3
  <2> QED
    BY <1>1, <2>1, <2>2
<1>6. /\ es \in Seq(Entry) /\ Len(es) = Len(entries) + 1 /\ es[Len(entries) + 1] = e
      /\ \A i \in 1..Len(entries) : es[i] = entries[i]
  BY <1>1, <1>2
<1>7. Size(es) = bytes + size
  BY <1>1, <1>2, <1>4, SizeOfAppend
<1> HIDE DEF e, es
<1>8. \A i \in 1..Len(es) : es[i] = [n |-> first + i, size |-> written'[first + i]]
  <2> SUFFICES ASSUME NEW i \in 1..Len(es)
               PROVE  es[i] = [n |-> first + i, size |-> written'[first + i]]
    OBVIOUS
  <2>1. CASE i \in 1..Len(entries)
    <3>1. first + i \in 1..writes
      BY <1>1, <1>5, <2>1
    <3> QED
      BY <1>3, <1>4, <1>6, <2>1, <3>1
  <2>2. CASE i = Len(entries) + 1
    <3>1. first + i = n
      BY <1>1, <1>5, <2>2
    <3> QED
      BY <1>3, <1>6, <2>2, <3>1 DEF e
  <2> QED
    BY <1>1, <1>6, <2>1, <2>2
<1>9. /\ k \in 0..Len(es)
      /\ (bytes + size) - SizeTo(es)[k] <= MaxBytes \/ k = Len(es)
      /\ \A j \in 0..(k - 1) : (bytes + size) - SizeTo(es)[j] > MaxBytes
  <2>1. bytes + size \in Int
    BY <1>1
  <2> QED
    BY <1>1, <1>6, <2>1, EvictedFacts
<1>10. /\ entries' = SubSeq(es, k + 1, Len(es)) /\ SizeTo(es)[k] \in Nat
       /\ bytes' = (bytes + size) - SizeTo(es)[k]
  <2>1. SizeTo(es)[k] \in Nat
    BY <1>6, <1>9, SizeToFacts
  <2>2. entries' = SubSeq(es, k + 1, Len(es)) /\ bytes' = bytes + size - SizeTo(es)[k]
    BY DEF Write, es, e
  <2> QED
    BY <1>1, <2>1, <2>2
<1> HIDE DEF k
<1>11. /\ entries' \in Seq(Entry) /\ Len(entries') = Len(es) - k
       /\ \A i \in 1..Len(entries') : entries'[i] = es[k + i]
       /\ Size(entries') = Size(es) - SizeTo(es)[k]
  BY <1>6, <1>9, <1>10, SizeOfSuffix
<1>12. bytes' = Size(entries')
  BY <1>7, <1>10, <1>11
<1>13. bytes' \in Nat
  <2>1. Len(entries') \in 0..Len(entries') /\ entries' \in Seq(Entry)
    BY <1>11
  <2> QED
    BY <1>12, <2>1, SizeToFacts DEF Size
<1>14. writes' = n /\ MaxBytes' = MaxBytes /\ Captures' = Captures
  BY <1>3 DEF Write, writes, MaxBytes, Captures
<1>15. writes' - Len(entries') = first + k
  BY <1>1, <1>5, <1>6, <1>9, <1>11, <1>14
<1>16. \A i \in 1..Len(entries') :
          entries'[i] = [n |-> (first + k) + i, size |-> written'[(first + k) + i]]
  <2> SUFFICES ASSUME NEW i \in 1..Len(entries')
               PROVE  entries'[i] = [n |-> (first + k) + i, size |-> written'[(first + k) + i]]
    OBVIOUS
  <2>1. k + i \in 1..Len(es) /\ first + (k + i) = (first + k) + i
    BY <1>1, <1>5, <1>6, <1>9, <1>11
  <2> QED
    BY <1>8, <1>11, <2>1
<1>17. bytes' <= MaxBytes
  <2>1. CASE k = Len(es)
    <3>1. bytes' = (bytes + size) - Size(es)
      BY <1>10, <2>1 DEF Size
    <3> QED
      BY <1>1, <1>7, <3>1
  <2>2. CASE k # Len(es)
    BY <1>9, <1>10, <2>2
  <2> QED
    BY <2>1, <2>2
<1>18. first + k > 0 => bytes' + written'[first + k] > MaxBytes
  <2>1. CASE k = 0
    <3>1. SizeTo(es)[k] = 0
      BY <1>6, <2>1, SizeToFacts
    <3>2. bytes' = bytes + size /\ first + k = first
      BY <1>1, <1>5, <1>10, <2>1, <3>1
    <3>3. ASSUME first > 0 PROVE written'[first] = written[first] /\ written[first] \in Nat
      <4>1. first \in 1..writes /\ written[first] \in Sizes
        BY <1>1, <1>5, <3>3 DEF writes
      <4> QED
        BY <1>1, <1>3, <4>1, LogBufAssumption DEF writes
    <3> QED
      BY <1>1, <1>4, <3>2, <3>3, SMTT(30)
  <2>2. CASE k > 0
    <3>1. k \in 1..Len(es) /\ k - 1 \in 0..(k - 1) /\ k - 1 \in 0..Len(es)
      BY <1>6, <1>9, <2>2
    <3>2. /\ SizeTo(es)[k] = SizeTo(es)[k - 1] + es[k].size
          /\ SizeTo(es)[k] \in Nat /\ SizeTo(es)[k - 1] \in Nat
      BY <1>6, <1>9, <3>1, SizeToFacts
    <3>3. es[k].size = written'[first + k] /\ es[k].size \in Nat
      BY <1>6, <1>8, <3>1, EntryFacts
    <3>4. (bytes + size) - SizeTo(es)[k - 1] > MaxBytes
      BY <1>9, <3>1
    <3> DEFINE w == written'[first + k]
    <3>5. w \in Nat /\ SizeTo(es)[k] = SizeTo(es)[k - 1] + w
      BY <3>2, <3>3
    <3> HIDE DEF w
    <3>6. bytes' + w > MaxBytes
      BY <1>1, <1>10, <3>2, <3>4, <3>5, SMTT(30)
    <3> QED
      BY <3>6 DEF w
  <2> QED
    BY <1>9, <2>1, <2>2
<1>19. BufferIsExact'
  BY <1>12, <1>14, <1>15, <1>16, <1>17, <1>18 DEF BufferIsExact
<1> QED
  BY <1>1, <1>3, <1>11, <1>13, <1>14, <1>19

(* Head and tail of a channel: nothing is lost between them.               *)
LEMMA TakeFacts ==
    ASSUME NEW q \in Seq(1..MaxWrites), q # <<>>
    PROVE  /\ Head(q) \in 1..MaxWrites /\ Tail(q) \in Seq(1..MaxWrites)
           /\ Len(Tail(q)) <= Len(q)
           /\ \A i \in 1..Len(q) :
                 q[i] = Head(q) \/ \E j \in 1..Len(Tail(q)) : Tail(q)[j] = q[i]
<1>1. /\ Len(q) \in Nat \ {0} /\ Head(q) = q[1] /\ q[1] \in 1..MaxWrites
      /\ Tail(q) \in Seq(1..MaxWrites) /\ Len(Tail(q)) = Len(q) - 1
      /\ \A j \in 1..(Len(q) - 1) : Tail(q)[j] = q[j + 1]
  <2>1. Len(q) \in Nat \ {0}
    BY EmptySeq
  <2>2. Head(q) = q[1] /\ Head(q) \in 1..MaxWrites
    <3>1. Head(q) = q[1]
      BY <2>1
    <3> QED
      BY <3>1, HeadTailProperties
  <2>3. /\ Tail(q) \in Seq(1..MaxWrites) /\ Len(Tail(q)) = Len(q) - 1
        /\ \A j \in 1..Len(Tail(q)) : Tail(q)[j] = q[j + 1]
    BY HeadTailProperties
  <2> QED
    BY <2>1, <2>2, <2>3
<1>2. ASSUME NEW i \in 1..Len(q), i # 1 PROVE \E j \in 1..Len(Tail(q)) : Tail(q)[j] = q[i]
  <2>1. i - 1 \in 1..(Len(q) - 1) /\ (i - 1) + 1 = i
    BY <1>1, <1>2
  <2> QED
    BY <1>1, <2>1
<1> QED
  BY <1>1, <1>2

LEMMA NextIInv == IInv /\ [Next]_vars => IInv'
<1> SUFFICES ASSUME IInv, [Next]_vars PROVE IInv'
  OBVIOUS
<1>t. TypeOK
  BY DEF IInv
<1>w. writes \in Nat /\ writes <= MaxWrites /\ MaxWrites \in Nat
  BY LogBufAssumption DEF IInv, TypeOK, writes
<1>1. ASSUME NEW size \in Sizes, Write(size) PROVE IInv'
  <2>1. /\ entries' \in Seq(Entry) /\ bytes' \in Nat /\ written' \in Seq(Sizes)
        /\ writes' = writes + 1 /\ writes' <= MaxWrites /\ BufferIsExact'
    BY <1>1, WriteBuffer
  <2>2. writes + 1 \in 1..MaxWrites
    BY <1>w, <2>1
  <2>3. /\ queue' \in [Followers -> Seq(1..MaxWrites)]
        /\ \A f \in Followers : Len(queue'[f]) <= ChanCap
    <3>1. \A f \in Followers :
             /\ queue[f] \in Seq(1..MaxWrites) /\ Len(queue[f]) \in Nat
             /\ Append(queue[f], writes + 1) \in Seq(1..MaxWrites)
             /\ Len(Append(queue[f], writes + 1)) = Len(queue[f]) + 1
      BY <1>t, <2>2 DEF TypeOK
    <3>2. \A f \in Followers :
             \/ queue'[f] = queue[f]
             \/ queue'[f] = Append(queue[f], writes + 1) /\ ~(Len(queue[f]) >= ChanCap)
      BY <1>1, <1>t DEF TypeOK, Write, Offer
    <3>3. queue' = [f \in Followers |-> queue'[f]]
      BY <1>1 DEF Write, Offer
    <3>4. queue' \in [Followers -> Seq(1..MaxWrites)]
      BY <3>1, <3>2, <3>3
    <3>5. ASSUME NEW f \in Followers PROVE Len(queue'[f]) <= ChanCap
      <4>1. Len(queue[f]) <= ChanCap /\ Len(queue[f]) \in Nat /\ ChanCap \in Nat
        BY <1>t, <3>1, LogBufAssumption DEF TypeOK
      <4> QED
        BY <3>1, <3>2, <4>1
    <3> QED
      BY <3>4, <3>5
  <2>4. dropped' \in [Followers -> SUBSET (1..MaxWrites)]
    BY <1>1, <1>t, <2>2 DEF TypeOK, Write, Offer
  <2>5. TypeOK'
    BY <1>1, <1>t, <2>1, <2>3, <2>4 DEF TypeOK, Write
  <2>6. Captures /\ Captures'
    BY <1>1 DEF Write, Captures, MaxBytes
  <2>7. NoCaptureNoWrite' /\ Registered'
    BY <1>1, <2>6 DEF IInv, NoCaptureNoWrite, Registered, Write
  <2>8. GapIsCovered'
    <3> SUFFICES ASSUME NEW f \in Followers, pc[f] \in {"snapshot", "live"},
                        NEW n \in (edge[f] + 1)..(writes + 1)
                 PROVE  n \in sent[f] \/ n \in dropped'[f]
                        \/ \E i \in 1..Len(queue'[f]) : queue'[f][i] = n
      BY <1>1, <2>1 DEF GapIsCovered, Write
    <3>1. f \in subs
      BY <2>6 DEF IInv, Registered
    <3>2. CASE n = writes + 1
      <4>1. queue[f] \in Seq(1..MaxWrites)
        BY <1>t DEF TypeOK
      <4>2. CASE Len(queue[f]) >= ChanCap
        <5>1. n \in dropped'[f]
          BY <1>1, <3>1, <3>2, <4>2 DEF Write, Offer
        <5> QED
          BY <5>1
      <4>3. CASE ~(Len(queue[f]) >= ChanCap)
        <5>1. queue'[f] = Append(queue[f], n)
          BY <1>1, <3>1, <3>2, <4>3 DEF Write, Offer
        <5>2. /\ Len(queue'[f]) \in 1..Len(queue'[f])
              /\ queue'[f][Len(queue'[f])] = n
          BY <4>1, <5>1
        <5> QED
          BY <5>2
      <4> QED
        BY <4>2, <4>3
    <3>3. CASE n # writes + 1
      <4>1. n \in (edge[f] + 1)..writes
        BY <1>t, <1>w, <3>3 DEF TypeOK
      <4>2. n \in sent[f] \/ n \in dropped[f]
            \/ \E i \in 1..Len(queue[f]) : queue[f][i] = n
        BY <4>1 DEF IInv, GapIsCovered
      <4>3. dropped[f] \subseteq dropped'[f]
        BY <1>1 DEF Write, Offer
      <4>4. \A i \in 1..Len(queue[f]) :
               i \in 1..Len(queue'[f]) /\ queue'[f][i] = queue[f][i]
        BY <1>1, <1>t DEF Write, Offer, TypeOK
      <4> QED
        BY <4>2, <4>3, <4>4
    <3> QED
      BY <3>2, <3>3
  <2> QED
    BY <2>1, <2>5, <2>7, <2>8 DEF IInv
<1>2. ASSUME UNCHANGED bufVars
      PROVE  writes' = writes /\ Captures' = Captures /\ BufferIsExact' /\ NoCaptureNoWrite'
  BY <1>2 DEF bufVars, writes, Captures, MaxBytes, IInv, BufferIsExact, NoCaptureNoWrite
<1>3. ASSUME NEW f \in Followers, Subscribe(f) PROVE IInv'
  <2>1. TypeOK'
    BY <1>3, <1>t DEF TypeOK, Subscribe, Goto, bufVars
  <2>2. Registered'
    BY <1>2, <1>3, <1>t DEF IInv, Registered, TypeOK, Subscribe, Goto
  <2>3. GapIsCovered'
    <3>1. CASE Captures
      BY <1>2, <1>3, <1>t, <3>1 DEF IInv, GapIsCovered, TypeOK, Subscribe, Goto
    <3>2. CASE ~Captures
      BY <1>2, <1>3, <1>t, <1>w, <3>2
         DEF IInv, GapIsCovered, NoCaptureNoWrite, TypeOK, Subscribe, Goto
    <3> QED
      BY <3>1, <3>2
  <2> QED
    BY <1>2, <1>3, <2>1, <2>2, <2>3 DEF IInv, Subscribe
<1>4. ASSUME NEW f \in Followers, Snapshot(f) PROVE IInv'
  <2>1. PICK es \in tailLines(entries) : snap' = [snap EXCEPT ![f] = es]
    BY <1>4 DEF Snapshot
  <2>2. es \in Seq(Entry)
    <3>1. CASE es = entries
      BY <1>t, <3>1 DEF TypeOK
    <3>2. ASSUME NEW k \in 1..Len(entries), es = SubSeq(entries, k, Len(entries))
          PROVE  es \in Seq(Entry)
      <4>1. /\ k \in Int /\ Len(entries) \in Int
            /\ \A i \in k..Len(entries) : entries[i] \in Entry
        BY <1>t DEF TypeOK
      <4> QED
        BY <3>2, <4>1, SubSeqProperties
    <3> QED
      BY <2>1, <3>1, <3>2 DEF tailLines
  <2>3. TypeOK'
    BY <1>4, <1>t, <1>w, <2>1, <2>2 DEF TypeOK, Snapshot, Goto, bufVars
  <2>4. Registered'
    BY <1>2, <1>4, <1>t DEF IInv, Registered, TypeOK, Snapshot, Goto
  <2>5. GapIsCovered'
    BY <1>2, <1>4, <1>t, <1>w DEF IInv, GapIsCovered, TypeOK, Snapshot, Goto
  <2> QED
    BY <1>2, <1>4, <2>3, <2>4, <2>5 DEF IInv, Snapshot
<1>5. ASSUME NEW f \in Followers, EmitSnapshot(f) PROVE IInv'
  <2>1. Numbers(snap[f]) \subseteq 1..MaxWrites
    <3>1. \A i \in 1..Len(snap[f]) : snap[f][i] \in Entry
      BY <1>t DEF TypeOK
    <3>2. \A e \in Entry : e.n \in 1..MaxWrites
      BY DEF Entry
    <3> QED
      BY <3>1, <3>2 DEF Numbers
  <2>2. TypeOK'
    <3>1. <<>> \in Seq(Entry)
      OBVIOUS
    <3> QED
      BY <1>5, <1>t, <2>1, <3>1 DEF TypeOK, EmitSnapshot, Goto, bufVars
  <2>3. Registered'
    BY <1>2, <1>5, <1>t DEF IInv, Registered, TypeOK, EmitSnapshot, Goto
  <2>4. GapIsCovered'
    BY <1>2, <1>5, <1>t DEF IInv, GapIsCovered, TypeOK, EmitSnapshot, Goto
  <2> QED
    BY <1>2, <1>5, <2>2, <2>3, <2>4 DEF IInv, EmitSnapshot
<1>6. ASSUME NEW f \in Followers, EmitLive(f) PROVE IInv'
  <2>1. queue[f] \in Seq(1..MaxWrites) /\ queue[f] # <<>>
    BY <1>6, <1>t DEF TypeOK, EmitLive
  <2>2. /\ Head(queue[f]) \in 1..MaxWrites /\ Tail(queue[f]) \in Seq(1..MaxWrites)
        /\ Len(Tail(queue[f])) <= Len(queue[f])
        /\ \A i \in 1..Len(queue[f]) :
              \/ queue[f][i] = Head(queue[f])
              \/ \E j \in 1..Len(Tail(queue[f])) : Tail(queue[f])[j] = queue[f][i]
    BY <2>1, TakeFacts
  <2>3. TypeOK'
    <3>1. /\ queue' \in [Followers -> Seq(1..MaxWrites)]
          /\ sent' \in [Followers -> SUBSET (1..MaxWrites)]
      BY <1>6, <1>t, <2>2 DEF TypeOK, EmitLive
    <3>2. ASSUME NEW g \in Followers PROVE Len(queue'[g]) <= ChanCap
      <4>1. Len(queue[g]) \in Nat /\ Len(queue'[g]) \in Nat /\ Len(queue[g]) <= ChanCap
        BY <1>t, <3>1 DEF TypeOK
      <4>2. Len(queue'[g]) <= Len(queue[g])
        BY <1>6, <1>t, <2>2, <4>1 DEF TypeOK, EmitLive
      <4> QED
        BY <4>1, <4>2, LogBufAssumption
    <3> QED
      BY <1>6, <1>t, <3>1, <3>2 DEF TypeOK, EmitLive, bufVars
  <2>4. Registered'
    BY <1>2, <1>6 DEF IInv, Registered, EmitLive
  <2>5. GapIsCovered'
    <3> SUFFICES ASSUME NEW g \in Followers, pc[g] \in {"snapshot", "live"},
                        NEW n \in (edge[g] + 1)..writes
                 PROVE  n \in sent'[g] \/ n \in dropped[g]
                        \/ \E i \in 1..Len(queue'[g]) : queue'[g][i] = n
      BY <1>2, <1>6 DEF GapIsCovered, EmitLive
    <3>1. n \in sent[g] \/ n \in dropped[g] \/ \E i \in 1..Len(queue[g]) : queue[g][i] = n
      BY DEF IInv, GapIsCovered
    <3>2. CASE g = f
      <4>1. sent'[f] = sent[f] \cup {Head(queue[f])} /\ queue'[f] = Tail(queue[f])
        BY <1>6, <1>t DEF EmitLive, TypeOK
      <4> QED
        BY <2>2, <3>1, <3>2, <4>1
    <3>3. CASE g # f
      <4>1. sent'[g] = sent[g] /\ queue'[g] = queue[g]
        BY <1>6, <1>t, <3>3 DEF EmitLive, TypeOK
      <4> QED
        BY <3>1, <4>1
    <3> QED
      BY <3>2, <3>3
  <2> QED
    BY <1>2, <1>6, <2>3, <2>4, <2>5 DEF IInv, EmitLive
<1>7. ASSUME NEW f \in Followers, Cancel(f) PROVE IInv'
  <2>1. TypeOK'
    BY <1>7, <1>t DEF TypeOK, Cancel, Goto, bufVars
  <2>2. Registered'
    BY <1>2, <1>7, <1>t DEF IInv, Registered, TypeOK, Cancel, Goto
  <2>3. GapIsCovered'
    BY <1>2, <1>7, <1>t DEF IInv, GapIsCovered, TypeOK, Cancel, Goto
  <2> QED
    BY <1>2, <1>7, <2>1, <2>2, <2>3 DEF IInv, Cancel
<1>8. CASE UNCHANGED vars
  <2>1. TypeOK' /\ Registered' /\ GapIsCovered'
    BY <1>2, <1>8 DEF vars, bufVars, IInv, TypeOK, Registered, GapIsCovered
  <2> QED
    BY <1>2, <1>8, <2>1 DEF IInv, vars
<1> QED
  BY <1>1, <1>3, <1>4, <1>5, <1>6, <1>7, <1>8 DEF Next, Follow

-----------------------------------------------------------------------------
(* Every reachable state of the buffer and its followers satisfies the     *)
(* inductive invariant.                                                    *)
THEOREM LogBufInductive == Spec => []IInv
BY InitIInv, NextIInv, PTL DEF Spec

(* The variables of LogBuf keep their types; no channel holds more than    *)
(* ChanCap chunks.                                                         *)
THEOREM LogBufTypeCorrect == Spec => []TypeOK
<1>1. IInv => TypeOK
  BY DEF IInv
<1> QED
  BY <1>1, LogBufInductive, PTL

(* write's running byte count does not drift and the buffer is the longest *)
(* run of the newest chunks that fits, whatever is written.                *)
THEOREM LogBufExact == Spec => []BufferIsExact
<1>1. IInv => BufferIsExact
  BY DEF IInv
<1> QED
  BY <1>1, LogBufInductive, PTL

(* Subscribing before the snapshot, as Manager.Logs does, loses no chunk   *)
(* that lands between the two or later, full channels apart.               *)
THEOREM LogBufFollowerMissesNothing == Spec => []FollowerMissesNothing
<1>1. IInv => FollowerMissesNothing
  BY DEF IInv, GapIsCovered, FollowerMissesNothing
<1> QED
  BY <1>1, LogBufInductive, PTL

(* No write meets a channel that cancel has closed.                        *)
THEOREM LogBufNoSendOnClosed == Spec => []NoSendOnClosed
<1>1. IInv => NoSendOnClosed
  BY DEF IInv, TypeOK, Registered, NoSendOnClosed
<1> QED
  BY <1>1, LogBufInductive, PTL
=============================================================================
