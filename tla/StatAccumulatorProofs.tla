----------------------- MODULE StatAccumulatorProofs ------------------------
(***************************************************************************)
(* Proofs about StatAccumulator, for every capacity, every samples and any *)
(* number of them: with one thread a report says what its window does,     *)
(* percentiles included, each sample is in one report, and the duration is *)
(* the time between flushes.                                               *)
(***************************************************************************)
EXTENDS StatAccumulator, FiniteSetTheorems, FunctionTheorems, TLAPS

(* The extremes of a window, or what they are reset to.                    *)
Extremes(w, least, most) ==
    /\ least \in Int /\ most \in Int
    /\ w = <<>> => least = Largest /\ most = -Largest
    /\ w # <<>> => /\ \A i \in 1..Len(w) : least <= w[i] /\ w[i] <= most
                   /\ \E i \in 1..Len(w) : w[i] = least
                   /\ \E i \in 1..Len(w) : w[i] = most

(* The records keep their fields.                                         *)
Shaped == DOMAIN updater = {"pc", "x", "reg"} /\ DOMAIN stats = DOMAIN Blank

(* One thread is in one of the two calls, and what update() has counted    *)
(* and not yet folded in is its argument, the newest sample.               *)
Alone ==
    /\ updater.pc \in {"idle", "loaded", "counted", "ranged", "indexed"}
    /\ updater.pc # "idle" => flusher = "idle"
    /\ flusher \in {"idle", "range", "percentiles", "reset", "reset range", "reset ring"}
    /\ updater.x \in Values /\ added \in Seq(Values) /\ lastWindow \in Seq(Values)
    /\ updater.pc # "idle" => added # <<>> /\ added[Len(added)] = updater.x

Before(w) == SubSeq(w, 1, Len(w) - 1)

(* The fields say what was added since the last reset.                     *)
Gathered ==
    /\ updater.pc = "loaded" => updater.reg = Len(added) - 1
    /\ updater.pc # "loaded" /\ flusher \notin {"reset range", "reset ring"} => count = Len(added)
    /\ flusher \in {"reset range", "reset ring"} => count = 0
    /\ updater.pc \in {"loaded", "counted"} => Extremes(Before(added), low, high)
    /\ updater.pc \notin {"loaded", "counted"} /\ flusher # "reset ring" => Extremes(added, low, high)
    /\ flusher = "reset ring" => Extremes(<<>>, low, high)

(* A report, complete or not, says the same of its window.                 *)
ReportOn(w) == stats.count = Len(w) /\ (w # <<>> => Extremes(w, stats.low, stats.high))
Reporting ==
    /\ flusher = "range" => stats.count = Len(added)
    /\ flusher \in {"percentiles", "reset", "reset range", "reset ring"} => ReportOn(added)
    /\ flusher = "idle" => ReportOn(lastWindow)

(* Every sample was reported or is in the window.                          *)
Counted == reported + Len(added) = total /\ reported \in Nat /\ total \in Nat

Says == Alone /\ Gathered /\ Reporting /\ Counted

(* The index counts the samples of the window that were put into the ring, *)
(* and each of the newest ones is in its slot.                             *)
Stored == IF updater.pc = "idle" THEN Len(added) ELSE Len(added) - 1
Kept ==
    /\ Cap > 0 => /\ DOMAIN ring = 0..(Cap - 1)
                  /\ writeIdx = IF updater.pc = "indexed" THEN Stored + 1 ELSE Stored
                  /\ updater.pc = "indexed" => updater.reg = Stored
                  /\ \A i \in 1..Stored : Stored - Cap < i => ring[Slot(i - 1)] = added[i]
    /\ Cap = 0 => updater.pc \notin {"ranged", "indexed"}

(* The percentiles of a report are those of the newest samples.            *)
PercentilesOn(w) ==
    Newest(w) # <<>> =>
        \A i \in 1..3 : Ranked(Newest(w), Index(<<5, 50, 95>>[i], Len(Newest(w))), stats.pct[i])
Sampled ==
    /\ flusher = "percentiles" => Cap > 0 /\ added # <<>>
    /\ flusher \in {"reset", "reset range", "reset ring"} => PercentilesOn(added)
    /\ flusher = "idle" => PercentilesOn(lastWindow)

IInv == Shaped /\ Says /\ Kept /\ Sampled

-----------------------------------------------------------------------------
(* Windows.                                                                *)

(* A window without its newest sample.                                     *)
LEMMA BeforeFacts ==
    ASSUME NEW w \in Seq(Values), w # <<>>
    PROVE  /\ Len(w) \in Nat \ {0}
           /\ Before(w) \in Seq(Values) /\ Len(Before(w)) = Len(w) - 1
           /\ \A i \in 1..(Len(w) - 1) : Before(w)[i] = w[i]
           /\ (Before(w) = <<>> <=> Len(w) = 1)
           /\ w[Len(w)] \in Values
<1>1. Len(w) \in Nat \ {0} /\ \A i \in 1..Len(w) : w[i] \in Values
  OBVIOUS
<1>2. /\ Before(w) \in Seq(Values) /\ Len(Before(w)) = Len(w) - 1
      /\ \A i \in 1..(Len(w) - 1) : Before(w)[i] = w[i]
  <2>1. Before(w) = [i \in 1..(Len(w) - 1) |-> w[i]]
    BY <1>1 DEF Before
  <2>2. \A i \in 1..(Len(w) - 1) : i \in 1..Len(w)
    BY <1>1
  <2>3. Len(w) - 1 \in Nat /\ Before(w) \in [1..(Len(w) - 1) -> Values]
    BY <1>1, <2>1, <2>2
  <2>4. Before(w) \in Seq(Values) /\ Len(Before(w)) = Len(w) - 1
    BY <2>3
  <2>5. QED
    BY <2>1, <2>4
<1>3. Before(w) = <<>> <=> Len(Before(w)) = 0
  <2>1. \A s \in Seq(Values) : s = <<>> <=> Len(s) = 0
    OBVIOUS
  <2>2. QED
    BY <1>2, <2>1
<1>4. QED
  BY <1>1, <1>2, <1>3, SMT

LEMMA BeforeAppended ==
    ASSUME NEW w \in Seq(Values), NEW x \in Values
    PROVE  /\ Append(w, x) \in Seq(Values) /\ Append(w, x) # <<>>
           /\ Len(Append(w, x)) = Len(w) + 1
           /\ Append(w, x)[Len(Append(w, x))] = x
           /\ Before(Append(w, x)) = w
  BY DEF Before

LEMMA LargestFacts == Largest \in Nat
  BY AccumulatorAssumption

(* Samples are numbers between the extremes of a reset.                    *)
LEMMA ValuesAreBounded == \A x \in Values : x \in Int /\ -Largest <= x /\ x <= Largest
  BY AccumulatorAssumption

(* Folding the newest sample in gives the extremes of the whole window.    *)
LEMMA Widened ==
    ASSUME NEW w \in Seq(Values), w # <<>>, NEW least, NEW most,
           Extremes(Before(w), least, most)
    PROVE  LET x == w[Len(w)]
           IN  Extremes(w, Smaller(least, x), IF x > most THEN x ELSE most)
<1> DEFINE n == Len(w)
           x == w[n]
           b == Before(w)
           lo == Smaller(least, x)
           hi == IF x > most THEN x ELSE most
<1>1. /\ n \in Nat \ {0} /\ Len(b) = n - 1 /\ (b = <<>> <=> n = 1)
      /\ \A i \in 1..(n - 1) : b[i] = w[i]
      /\ \A i \in 1..n : w[i] \in Values
  BY BeforeFacts
<1>2. \A i \in 1..n : w[i] \in Int /\ -Largest <= w[i] /\ w[i] <= Largest
  BY <1>1, ValuesAreBounded
<1>3. least \in Int /\ most \in Int /\ x \in Int /\ n \in 1..n
  BY <1>1, <1>2 DEF Extremes
<1>4. CASE b = <<>>
  <2>1. n = 1 /\ least = Largest /\ most = -Largest
    BY <1>1, <1>4 DEF Extremes
  <2>2. lo = x /\ hi = x
    BY <1>2, <1>3, <2>1, LargestFacts DEF Smaller
  <2>3. QED
    BY <1>3, <2>1, <2>2 DEF Extremes
<1>5. CASE b # <<>>
  <2>1. /\ \A i \in 1..(n - 1) : least <= w[i] /\ w[i] <= most
        /\ \E i \in 1..(n - 1) : w[i] = least
        /\ \E i \in 1..(n - 1) : w[i] = most
    BY <1>1, <1>5 DEF Extremes
  <2>2. lo \in Int /\ lo <= least /\ lo <= x /\ (lo = least \/ lo = x)
    BY <1>3 DEF Smaller
  <2>3. hi \in Int /\ most <= hi /\ x <= hi /\ (hi = most \/ hi = x)
    BY <1>3
  <2> HIDE DEF lo, hi
  <2>4. \A i \in 1..n : lo <= w[i] /\ w[i] <= hi
    BY <1>1, <1>2, <1>3, <2>1, <2>2, <2>3
  <2>5. \E i \in 1..n : w[i] = lo
    BY <1>1, <1>3, <2>1, <2>2
  <2>6. \E i \in 1..n : w[i] = hi
    BY <1>1, <1>3, <2>1, <2>3
  <2>7. QED
    BY <2>2, <2>3, <2>4, <2>5, <2>6 DEF Extremes, lo, hi
<1>6. QED
  BY <1>4, <1>5

(* The extremes of no sample are what a reset sets.                        *)
LEMMA NoExtremes == Extremes(<<>>, Largest, -Largest)
  BY LargestFacts DEF Extremes

-----------------------------------------------------------------------------
(* Sorting.  No induction is needed: ranks are a permutation.              *)

(* What a permutation is.                                                  *)
LEMMA PermutationFacts ==
    ASSUME NEW D, NEW f \in Bijection(D, D)
    PROVE  /\ f \in [D -> D]
           /\ \A i, j \in D : f[i] = f[j] => i = j
           /\ \A k \in D : \E i \in D : f[i] = k
  BY DEF Bijection, Injection, Surjection, IsInjective

(* And what its inverse is.                                                *)
LEMMA InverseFacts ==
    ASSUME NEW D, NEW f \in Bijection(D, D)
    PROVE  LET h == Inverse(f, D, D)
           IN  /\ h \in Bijection(D, D)
               /\ \A i \in D : h[i] \in D /\ f[i] \in D /\ h[f[i]] = i /\ f[h[i]] = i
<1> DEFINE h == Inverse(f, D, D)
<1>1. h \in Bijection(D, D) /\ \A i \in D : h[f[i]] = i
  BY Fun_BijInverse
<1> HIDE DEF h
<1>2. /\ f \in [D -> D] /\ h \in [D -> D]
      /\ \A k \in D : \E i \in D : f[i] = k
  BY <1>1, PermutationFacts
<1>3. QED
  BY <1>1, <1>2 DEF h

(* The rank of an element among all of them, ties broken by place, is a    *)
(* permutation, and its inverse sorts.                                     *)
LEMMA SortExists ==
    ASSUME NEW n \in Nat, NEW s \in [1..n -> Int]
    PROVE  \E t \in Arrangements(s) : Ascending(t)
<1> DEFINE D == 1..n
           Upto(i) == {j \in D : s[j] < s[i] \/ (s[j] = s[i] /\ j <= i)}
           rank == [i \in D |-> Cardinality(Upto(i))]
<1>1. IsFiniteSet(D) /\ Cardinality(D) = n
  BY FS_Interval
<1>2. ASSUME NEW i \in D
      PROVE  IsFiniteSet(Upto(i)) /\ Cardinality(Upto(i)) \in D
  <2>1. Upto(i) \in SUBSET D /\ i \in Upto(i)
    OBVIOUS
  <2>2. IsFiniteSet(Upto(i)) /\ Cardinality(Upto(i)) <= n /\ Upto(i) # {}
    BY <1>1, <2>1, FS_Subset
  <2>3. Cardinality(Upto(i)) \in Nat /\ Cardinality(Upto(i)) # 0
    BY <2>2, FS_CardinalityType, FS_EmptySet
  <2>4. QED
    BY <2>2, <2>3
<1>3. ASSUME NEW i \in D, NEW j \in D, i # j, j \in Upto(i)
      PROVE  rank[j] < rank[i]
  <2>1. Upto(j) \in SUBSET Upto(i) /\ i \in Upto(i) /\ i \notin Upto(j)
    <3>1. s[i] \in Int /\ s[j] \in Int /\ (s[j] < s[i] \/ (s[j] = s[i] /\ j < i))
      BY <1>3
    <3>2. ASSUME NEW k \in Upto(j) PROVE k \in Upto(i)
      <4>1. k \in D /\ s[k] \in Int /\ (s[k] < s[j] \/ (s[k] = s[j] /\ k <= j))
        OBVIOUS
      <4>2. QED
        BY <3>1, <4>1
    <3>3. QED
      BY <3>1, <3>2
  <2>2. IsFiniteSet(Upto(i)) /\ Cardinality(Upto(i)) \in D /\ Cardinality(Upto(j)) \in D
    BY <1>2
  <2>3. Upto(i) # Upto(j)
    BY <2>1
  <2> HIDE DEF Upto
  <2>4. Cardinality(Upto(j)) <= Cardinality(Upto(i)) /\ Cardinality(Upto(i)) # Cardinality(Upto(j))
    BY <2>1, <2>2, <2>3, FS_Subset
  <2>5. QED
    BY <2>2, <2>4
<1>4. rank \in Bijection(D, D)
  <2>1. rank \in [D -> D]
    BY <1>2
  <2>2. ASSUME NEW i \in D, NEW j \in D, i # j PROVE rank[i] # rank[j]
    <3>1. j \in Upto(i) \/ i \in Upto(j)
      BY <2>2
    <3>2. rank[i] \in Int /\ rank[j] \in Int
      BY <2>1
    <3> HIDE DEF rank, Upto
    <3>3. QED
      BY <1>3, <2>2, <3>1, <3>2
  <2> HIDE DEF rank
  <2>3. rank \in Injection(D, D)
    BY <2>1, <2>2, Fun_IsInj
  <2>4. rank \in Surjection(D, D)
    BY <1>1, <2>3, FS_Injection
  <2>5. QED
    BY <2>3, <2>4, Fun_IsBij
<1> DEFINE p == Inverse(rank, D, D)
           t == [i \in D |-> s[p[i]]]
<1>5. p \in Bijection(D, D) /\ \A k \in D : p[k] \in D /\ rank[p[k]] = k
  <2> HIDE DEF rank
  <2>1. QED
    BY <1>4, InverseFacts
<1>7. ASSUME NEW i \in D, NEW j \in D, i < j PROVE t[i] <= t[j]
  <2>1. p[i] \in D /\ p[j] \in D /\ rank[p[i]] = i /\ rank[p[j]] = j
    BY <1>5
  <2>2. p[j] \in Upto(p[i]) /\ p[i] # p[j] => j < i
    <3> HIDE DEF p, rank, Upto
    <3>1. QED
      BY <1>3, <2>1
  <2> HIDE DEF p, rank
  <2>3. ~(s[p[j]] < s[p[i]])
    BY <1>7, <2>1, <2>2
  <2>4. QED
    BY <2>1, <2>3
<1>8. t \in Arrangements(s) /\ DOMAIN t = D
  <2> HIDE DEF p, rank
  <2>1. DOMAIN s = D
    OBVIOUS
  <2>2. QED
    BY <1>5, <2>1 DEF Arrangements
<1>9. QED
  <2> HIDE DEF t
  <2>1. Ascending(t)
    BY <1>7, <1>8 DEF Ascending
  <2>2. QED
    BY <1>8, <2>1

LEMMA SortedIsArranged ==
    ASSUME NEW n \in Nat, NEW s \in [1..n -> Int]
    PROVE  /\ Ascending(Sorted(s))
           /\ \E p \in Bijection(1..n, 1..n) : Sorted(s) = [i \in 1..n |-> s[p[i]]]
<1>1. Sorted(s) \in Arrangements(s) /\ Ascending(Sorted(s))
  BY SortExists DEF Sorted
<1>2. DOMAIN s = 1..n
  OBVIOUS
<1>3. QED
  BY <1>1, <1>2 DEF Arrangements

(* What is at place k + 1 of the sorted slots has rank k in any other      *)
(* arrangement of them: its first k places are all that can be less, and   *)
(* none of its first k + 1 is greater.                                     *)
LEMMA SortedIsRanked ==
    ASSUME NEW n \in Nat, NEW s \in [1..n -> Int], NEW g \in Bijection(1..n, 1..n),
           NEW w, DOMAIN w = 1..n, \A i \in 1..n : w[i] = s[g[i]],
           NEW k \in 0..(n - 1)
    PROVE  Ranked(w, k, Sorted(s)[k + 1])
<1> DEFINE D == 1..n
           t == Sorted(s)
           v == t[k + 1]
           less == {i \in D : w[i] < v}
           upto == {i \in D : w[i] <= v}
<1>1. s \in [D -> Int] /\ g \in Bijection(D, D) /\ DOMAIN w = D /\ k + 1 \in D
  OBVIOUS
<1>2. \A i \in D : w[i] = s[g[i]]
  OBVIOUS
<1>3. PICK p \in Bijection(D, D) : t = [i \in D |-> s[p[i]]]
  BY SortedIsArranged
<1> DEFINE q == Inverse(p, D, D)
           h == Inverse(g, D, D)
<1>4. \A i \in D : q[i] \in D /\ p[i] \in D /\ q[p[i]] = i /\ p[q[i]] = i
  <2>1. p \in Bijection(D, D)
    OBVIOUS
  <2> HIDE DEF D
  <2>2. QED
    BY <2>1, InverseFacts
<1>5. \A i \in D : h[i] \in D /\ g[i] \in D /\ h[g[i]] = i /\ g[h[i]] = i
  <2> HIDE DEF D
  <2>1. QED
    BY <1>1, InverseFacts
<1>6. /\ \A i \in D : t[i] = s[p[i]] /\ t[i] \in Int
      /\ \A i, j \in D : i < j => t[i] <= t[j]
  <2>1. Ascending(t)
    BY SortedIsArranged
  <2>2. DOMAIN t = D /\ \A i \in D : t[i] = s[p[i]]
    BY <1>3
  <2> HIDE DEF t
  <2>3. QED
    BY <1>4, <2>1, <2>2 DEF Ascending
<1>7. k + 1 \in D /\ v \in Int
  <2> HIDE DEF t, D
  <2>1. QED
    BY <1>1, <1>6
<1> HIDE DEF t, v, q, h, D
<1>8. Cardinality(less) <= k
  <2> DEFINE f == [i \in less |-> q[g[i]]]
  <2>1. ASSUME NEW i \in less PROVE q[g[i]] \in 1..k
    <3>1. i \in D /\ w[i] < v
      OBVIOUS
    <3>2. g[i] \in D /\ q[g[i]] \in D /\ p[q[g[i]]] = g[i]
      BY <1>4, <1>5, <3>1
    <3>3. t[q[g[i]]] = w[i] /\ w[i] \in Int
      BY <1>2, <1>6, <3>1, <3>2
    <3>4. ~(k + 1 < q[g[i]]) /\ q[g[i]] # k + 1
      BY <1>6, <1>7, <3>1, <3>2, <3>3 DEF v
    <3>5. QED
      BY <3>2, <3>4 DEF D
  <2>2. \A i, j \in less : q[g[i]] = q[g[j]] => i = j
    BY <1>4, <1>5
  <2>3. f \in Injection(less, 1..k)
    <3>1. f \in [less -> 1..k]
      BY <2>1
    <3>2. QED
      BY <2>2, <3>1, Fun_IsInj
  <2>4. IsFiniteSet(1..k) /\ Cardinality(1..k) = k
    BY FS_Interval
  <2> HIDE DEF f, less
  <2>5. QED
    BY <2>3, <2>4, FS_Injection
<1>9. k < Cardinality(upto)
  <2> DEFINE f == [j \in 1..(k + 1) |-> h[p[j]]]
  <2>1. ASSUME NEW j \in 1..(k + 1) PROVE j \in D /\ h[p[j]] \in upto
    <3>1. j \in D /\ j \in Int /\ j <= k + 1
      BY DEF D
    <3>2. p[j] \in D /\ h[p[j]] \in D /\ g[h[p[j]]] = p[j]
      BY <1>4, <1>5, <3>1
    <3>3. w[h[p[j]]] = s[p[j]] /\ t[j] = s[p[j]]
      <4>1. t[j] = s[p[j]]
        BY <1>6, <3>1
      <4>2. QED
        BY <1>2, <3>2, <4>1
    <3>4. t[j] <= v
      BY <1>6, <1>7, <3>1 DEF v
    <3>5. QED
      BY <3>1, <3>2, <3>3, <3>4
  <2>2. \A i, j \in 1..(k + 1) : h[p[i]] = h[p[j]] => i = j
    BY <1>4, <1>5, <2>1
  <2>3. f \in Injection(1..(k + 1), upto)
    <3>1. f \in [1..(k + 1) -> upto]
      BY <2>1
    <3>2. QED
      BY <2>2, <3>1, Fun_IsInj
  <2>4. Cardinality(1..(k + 1)) = k + 1
    BY FS_Interval
  <2>5. IsFiniteSet(upto)
    <3>1. IsFiniteSet(D) /\ upto \in SUBSET D
      BY FS_Interval DEF D
    <3>2. QED
      BY <3>1, FS_Subset
  <2>6. Cardinality(upto) \in Nat
    BY <2>5, FS_CardinalityType
  <2> HIDE DEF f, upto
  <2>7. QED
    BY <2>3, <2>4, <2>5, <2>6, FS_Injection
<1>10. QED
  BY <1>8, <1>9 DEF Ranked, v, t, D

-----------------------------------------------------------------------------
(* The ring.                                                               *)

(* A slot is one of the ring's.                                            *)
LEMMA SlotFacts ==
    ASSUME Cap > 0, NEW i \in Nat
    PROVE  Slot(i) \in 0..(Cap - 1)
  BY AccumulatorAssumption DEF Slot

(* Samples less than the capacity apart are in different slots.            *)
LEMMA SlotsDiffer ==
    ASSUME NEW i \in Nat, NEW j \in Nat, i < j, j - i < Cap
    PROVE  Slot(i) # Slot(j)
<1>1. Cap \in Nat /\ Cap > 0
  BY AccumulatorAssumption
<1> DEFINE a == i \div Cap
           b == j \div Cap
<1>2. a \in Int /\ b \in Int /\ i = Cap * a + Slot(i) /\ j = Cap * b + Slot(j) /\ Slot(i) \in Int /\ Slot(j) \in Int
  BY <1>1 DEF Slot
<1> HIDE DEF a, b
<1>3. Slot(i) = Slot(j) => j - i = Cap * (b - a)
  BY <1>1, <1>2
<1>4. \A d \in Int : d >= 1 => Cap * d >= Cap
  BY <1>1
<1>5. \A d \in Int : d <= 0 => Cap * d <= 0
  BY <1>1
<1>6. b - a \in Int
  BY <1>2
<1>7. QED
  BY <1>1, <1>3, <1>4, <1>5, <1>6
(* A quantile's index is one of the sorted slots.                          *)
LEMMA IndexBounds ==
    ASSUME NEW percent \in 0..100, NEW n \in Nat \ {0}
    PROVE  Index(percent, n) \in 0..(n - 1)
<1>1. percent * (n - 1) \in Nat /\ percent * (n - 1) <= 100 * (n - 1)
  <2>1. \A a \in Nat : percent * a \in Nat /\ percent * a <= 100 * a
    OBVIOUS
  <2>2. QED
    BY <2>1
<1>2. \A a, b \in Nat : a <= 100 * b => a \div 100 \in 0..b
  OBVIOUS
<1>3. QED
  BY <1>1, <1>2 DEF Index

(* The newest samples of a window, one by one.                             *)
LEMMA NewestFacts ==
    ASSUME NEW w \in Seq(Values)
    PROVE  LET n == Smaller(Len(w), Cap)
           IN  /\ n \in Nat /\ n <= Len(w) /\ n <= Cap
               /\ DOMAIN Newest(w) = 1..n /\ Len(Newest(w)) = n
               /\ \A j \in 1..n : Newest(w)[j] = w[Len(w) - n + j]
               /\ Newest(w) = <<>> <=> n = 0
               /\ n = 0 <=> w = <<>> \/ Cap = 0
<1> DEFINE n == Smaller(Len(w), Cap)
           v == Newest(w)
<1>1. Cap \in Nat /\ Len(w) \in Nat /\ \A i \in 1..Len(w) : w[i] \in Values
  BY AccumulatorAssumption
<1>2. n \in Nat /\ n <= Len(w) /\ n <= Cap /\ (n = Len(w) \/ n = Cap)
  BY <1>1 DEF Smaller
<1>3. v \in Seq(Values) /\ Len(v) = n /\ \A j \in 1..n : v[j] = w[Len(w) - n + j]
  <2>1. CASE Len(w) <= Cap
    <3>1. v = w /\ n = Len(w)
      BY <1>1, <2>1 DEF Newest, Smaller
    <3>2. \A j \in 1..n : Len(w) - n + j = j
      BY <1>1, <3>1
    <3>3. QED
      BY <3>1, <3>2
  <2>2. CASE ~(Len(w) <= Cap)
    <3>1. v = SubSeq(w, Len(w) - Cap + 1, Len(w)) /\ n = Cap
      BY <1>1, <2>2 DEF Newest, Smaller
    <3>2. v = [j \in 1..Cap |-> w[Len(w) - Cap + j]]
      BY <1>1, <2>2, <3>1
    <3>3. \A j \in 1..Cap : Len(w) - Cap + j \in 1..Len(w)
      BY <1>1, <2>2
    <3>4. v \in [1..Cap -> Values]
      BY <1>1, <3>2, <3>3
    <3>5. v \in Seq(Values) /\ Len(v) = Cap
      BY <1>1, <3>4
    <3>6. QED
      BY <3>1, <3>2, <3>5
  <2>3. QED
    BY <2>1, <2>2
<1>4. DOMAIN v = 1..n /\ (v = <<>> <=> Len(v) = 0) /\ (w = <<>> <=> Len(w) = 0)
  <2> HIDE DEF v, n
  <2>1. QED
    BY <1>3
<1>5. QED
  BY <1>1, <1>2, <1>3, <1>4

(* Between two calls of update() the slots in use are a rearrangement of   *)
(* the newest samples, so sorting them finds their ranks.                  *)
LEMMA SlotsAreNewest ==
    ASSUME Alone, Kept, updater.pc = "idle", Cap > 0, added # <<>>
    PROVE  LET n == InUse
               s == [i \in 1..n |-> ring[i - 1]]
           IN  /\ n \in Nat \ {0} /\ Len(Newest(added)) = n
               /\ \A k \in 0..(n - 1) : Ranked(Newest(added), k, Sorted(s)[k + 1])
<1> DEFINE n == InUse
           D == 1..n
           s == [i \in 1..n |-> ring[i - 1]]
           m == Len(added)
           place(j) == m - n + j - 1
           g == [j \in D |-> Slot(place(j)) + 1]
<1>1. /\ Cap \in Nat \ {0} /\ m \in Nat /\ added \in Seq(Values)
      /\ \A i \in 1..m : added[i] \in Int
  <2>1. added \in Seq(Values)
    BY DEF Alone
  <2>2. Cap \in Nat \ {0}
    BY AccumulatorAssumption
  <2>3. m \in Nat /\ \A i \in 1..m : added[i] \in Values
    BY <2>1
  <2>4. QED
    BY <2>1, <2>2, <2>3, ValuesAreBounded
<1>2. /\ writeIdx = m
      /\ \A i \in 1..m : m - Cap < i => ring[Slot(i - 1)] = added[i]
  BY <1>1 DEF Kept, Stored
<1>3. n = Smaller(m, Cap)
  BY <1>2 DEF InUse
<1>4. /\ n \in Nat \ {0} /\ n <= m /\ n <= Cap /\ (n = m \/ n = Cap)
      /\ DOMAIN Newest(added) = D /\ Len(Newest(added)) = n
      /\ \A j \in D : Newest(added)[j] = added[m - n + j]
  <2>1. n = m \/ n = Cap
    BY <1>3 DEF Smaller
  <2> HIDE DEF n
  <2>2. QED
    BY <1>1, <1>3, <2>1, NewestFacts
<1> HIDE DEF n, m
<1>5. ASSUME NEW j \in D
      PROVE  /\ place(j) \in Nat /\ place(j) + 1 \in 1..m /\ m - Cap < place(j) + 1
             /\ Slot(place(j)) + 1 \in D
  <2>1. place(j) \in Nat /\ place(j) + 1 \in 1..m /\ m - Cap < place(j) + 1
    BY <1>1, <1>4
  <2>2. Slot(place(j)) \in 0..(Cap - 1)
    BY <1>1, <2>1, SlotFacts
  <2>3. CASE n = Cap
    BY <1>1, <2>1, <2>2, <2>3
  <2>4. CASE n = m /\ n # Cap
    <3>1. place(j) = j - 1 /\ place(j) \in 0..(Cap - 1)
      BY <1>1, <1>4, <2>4
    <3>2. Slot(place(j)) = place(j)
      <4>1. \A a \in 0..(Cap - 1) : a % Cap = a
        BY <1>1
      <4>2. QED
        BY <3>1, <4>1 DEF Slot
    <3>3. QED
      BY <3>1, <3>2, <2>1
  <2>5. QED
    BY <1>4, <2>1, <2>3, <2>4
<1>6. ASSUME NEW i \in D, NEW j \in D, i < j
      PROVE  Slot(place(i)) # Slot(place(j))
  <2>1. /\ place(i) \in Nat /\ place(j) \in Nat
        /\ place(i) < place(j) /\ place(j) - place(i) < Cap
    BY <1>1, <1>4, <1>5, <1>6
  <2> HIDE DEF place
  <2>2. QED
    BY <2>1, SlotsDiffer
<1>7. g \in Bijection(D, D)
  <2>1. g \in [D -> D]
    BY <1>5
  <2>2. \A i, j \in D : g[i] = g[j] => i = j
    <3>1. \A i, j \in D : Slot(place(i)) + 1 = Slot(place(j)) + 1 => Slot(place(i)) = Slot(place(j))
      <4>1. \A i \in D : Slot(place(i)) \in Int
        BY <1>1, <1>5, SlotFacts
      <4> HIDE DEF place
      <4>2. QED
        BY <4>1
    <3> HIDE DEF place
    <3>2. \A i, j \in D : i < j \/ j < i \/ i = j
      BY <1>4
    <3>3. QED
      BY <1>6, <3>1, <3>2
  <2>3. IsFiniteSet(D)
    BY <1>4, FS_Interval
  <2> HIDE DEF g
  <2>4. g \in Injection(D, D)
    BY <2>1, <2>2, Fun_IsInj
  <2>5. g \in Surjection(D, D)
    BY <2>3, <2>4, FS_Injection
  <2>6. QED
    BY <2>4, <2>5, Fun_IsBij
<1>8. ASSUME NEW j \in D
      PROVE  /\ g[j] \in D /\ s[g[j]] = Newest(added)[j] /\ s[g[j]] \in Int
  <2>1. g[j] \in D /\ g[j] - 1 = Slot(place(j))
    <3>1. place(j) \in Nat /\ Slot(place(j)) + 1 \in D
      BY <1>5
    <3>2. g[j] = Slot(place(j)) + 1
      OBVIOUS
    <3> HIDE DEF place, g
    <3>3. Slot(place(j)) \in Int
      BY <1>1, <3>1, SlotFacts
    <3>4. QED
      BY <3>1, <3>2, <3>3
  <2>2. s[g[j]] = ring[Slot(place(j))]
    BY <2>1
  <2>3. ring[Slot(place(j))] = added[m - n + j]
    <3>1. place(j) + 1 = m - n + j /\ (place(j) + 1) - 1 = place(j)
      BY <1>1, <1>4
    <3> HIDE DEF place
    <3>2. QED
      BY <1>2, <1>5, <3>1
  <2>4. added[m - n + j] \in Int
    BY <1>1, <1>4
  <2>5. QED
    BY <1>4, <2>1, <2>2, <2>3, <2>4
<1> HIDE DEF g
<1>9. s \in [D -> Int]
  <2>1. \A i \in D : \E j \in D : g[j] = i
    BY <1>7, PermutationFacts
  <2>2. \A i \in D : s[i] \in Int
    BY <1>8, <2>1
  <2>3. s = [i \in D |-> s[i]]
    OBVIOUS
  <2> HIDE DEF s, D
  <2>4. QED
    BY <2>2, <2>3
<1>10. ASSUME NEW k \in 0..(n - 1) PROVE Ranked(Newest(added), k, Sorted(s)[k + 1])
  <2> DEFINE v == Newest(added)
  <2>1. /\ n \in Nat /\ s \in [1..n -> Int] /\ g \in Bijection(1..n, 1..n)
        /\ DOMAIN v = 1..n /\ k \in 0..(n - 1)
    BY <1>4, <1>7, <1>9
  <2>2. \A i \in 1..n : v[i] = s[g[i]]
    BY <1>8
  <2> HIDE DEF s, v
  <2>3. QED
    BY <2>1, <2>2, SortedIsRanked DEF v
<1>11. QED
  BY <1>4, <1>10 DEF n

-----------------------------------------------------------------------------
(* The invariant.                                                          *)

LEMMA ShapedInit == Init => Shaped
  BY DEF Init, Shaped

LEMMA ShapedStep ==
    ASSUME Shaped, [Next]_vars
    PROVE  Shaped'
<1>1. DOMAIN updater' = {"pc", "x", "reg"}
  BY DEF Shaped, Next, vars, UpdateStep, FlushStep, BeginUpdate, StoreCount, Widen, AdvanceIndex,
         StoreSample, BeginFlush, ReportRange, ReportPercentiles, Reset, ResetRange, ResetRing, Tick
<1>2. DOMAIN stats' = DOMAIN Blank
  BY DEF Shaped, Next, vars, UpdateStep, FlushStep, BeginUpdate, StoreCount, Widen, AdvanceIndex,
         StoreSample, BeginFlush, ReportRange, ReportPercentiles, Reset, ResetRange, ResetRing, Tick
<1>3. QED
  BY <1>1, <1>2 DEF Shaped

LEMMA SaysInit == Init => Says
<1> SUFFICES ASSUME Init PROVE Says
  OBVIOUS
<1>1. updater.pc = "idle" /\ updater.x \in Values
  BY AccumulatorAssumption DEF Init
<1>2. /\ flusher = "idle" /\ count = 0 /\ low = Largest /\ high = -Largest
      /\ stats.count = 0
      /\ added = <<>> /\ lastWindow = <<>> /\ total = 0 /\ reported = 0
  BY DEF Init, Blank
<1>3. <<>> \in Seq(Values) /\ Len(<<>>) = 0
  OBVIOUS
<1>4. Alone
  BY <1>1, <1>2, <1>3 DEF Alone
<1>5. Gathered
  BY <1>1, <1>2, <1>3, NoExtremes DEF Gathered
<1>6. Reporting
  BY <1>2, <1>3 DEF Reporting, ReportOn
<1>7. Counted
  BY <1>2, <1>3 DEF Counted
<1>8. QED
  BY <1>4, <1>5, <1>6, <1>7 DEF Says

(* update() joins a sample to the window and then to the fields.           *)
LEMMA SaysUpdate ==
    ASSUME ~TwoThreads, Shaped, Says, UpdateStep
    PROVE  Says'
<1>1. ASSUME NEW x \in Values, BeginUpdate(x) PROVE Says'
  <2>1. /\ updater.pc = "idle" /\ flusher = "idle"
        /\ updater'.pc = "loaded" /\ updater'.x = x /\ updater'.reg = count
        /\ added' = Append(added, x) /\ total' = total + 1
        /\ UNCHANGED <<flusher, count, low, high, stats, lastWindow, reported>>
    BY <1>1 DEF BeginUpdate, fields
  <2>2. /\ added \in Seq(Values) /\ lastWindow \in Seq(Values)
        /\ count = Len(added) /\ Extremes(added, low, high) /\ ReportOn(lastWindow)
        /\ reported + Len(added) = total /\ reported \in Nat /\ total \in Nat
    BY <2>1 DEF Says, Alone, Gathered, Reporting, Counted
  <2>3. /\ added' \in Seq(Values) /\ added' # <<>> /\ Len(added') = Len(added) + 1
        /\ added'[Len(added')] = x /\ Before(added') = added
    BY <2>1, <2>2, BeforeAppended
  <2>4. Len(added) \in Nat
    BY <2>2
  <2>5. Alone'
    BY <2>1, <2>2, <2>3 DEF Alone
  <2>6. Gathered'
    <3>1. updater'.reg = Len(added') - 1
      BY <2>1, <2>2, <2>3, <2>4
    <3>2. Extremes(Before(added'), low', high')
      BY <2>1, <2>2, <2>3
    <3>3. QED
      BY <2>1, <3>1, <3>2 DEF Gathered
  <2>7. Reporting'
    BY <2>1, <2>2 DEF Reporting, ReportOn
  <2>8. Counted'
    BY <2>1, <2>2, <2>3, <2>4 DEF Counted
  <2>9. QED
    BY <2>5, <2>6, <2>7, <2>8 DEF Says
<1>2. CASE StoreCount
  <2>1. /\ updater.pc = "loaded" /\ count' = updater.reg + 1
        /\ updater'.pc = "counted" /\ updater'.x = updater.x
        /\ UNCHANGED <<flusher, low, high, stats, added, lastWindow, total, reported>>
    BY <1>2 DEF StoreCount, history
  <2>2. QED
    BY <2>1 DEF Says, Alone, Gathered, Reporting, ReportOn, Counted
<1>3. CASE Widen
  <2>1. /\ updater.pc = "counted"
        /\ low' = Smaller(low, updater.x)
        /\ high' = IF updater.x > high THEN updater.x ELSE high
        /\ updater'.pc \in {"ranged", "idle"} /\ updater'.x = updater.x
        /\ UNCHANGED <<flusher, count, stats, added, lastWindow, total, reported>>
    BY <1>3 DEF Widen, history
  <2>2. flusher = "idle" /\ added # <<>> /\ added \in Seq(Values) /\ added[Len(added)] = updater.x
    BY <2>1 DEF Says, Alone
  <2>3. Extremes(added', low', high')
    <3>1. Extremes(Before(added), low, high)
      BY <2>1 DEF Says, Gathered
    <3>2. QED
      BY <2>1, <2>2, <3>1, Widened
  <2>4. Gathered'
    BY <2>1, <2>2, <2>3 DEF Says, Gathered
  <2>5. QED
    BY <2>1, <2>4 DEF Says, Alone, Reporting, ReportOn, Counted
<1>4. CASE AdvanceIndex
  <2>1. /\ updater.pc = "ranged" /\ updater'.pc = "indexed" /\ updater'.x = updater.x
        /\ UNCHANGED <<flusher, count, low, high, stats, added, lastWindow, total, reported>>
    BY <1>4 DEF AdvanceIndex, history
  <2>2. QED
    BY <2>1 DEF Says, Alone, Gathered, Reporting, ReportOn, Counted
<1>5. CASE StoreSample
  <2>1. /\ updater.pc = "indexed" /\ updater'.pc = "idle" /\ updater'.x = updater.x
        /\ UNCHANGED <<flusher, count, low, high, stats, added, lastWindow, total, reported>>
    BY <1>5 DEF StoreSample, history
  <2>2. QED
    BY <2>1 DEF Says, Alone, Gathered, Reporting, ReportOn, Counted
<1>6. QED
  BY <1>1, <1>2, <1>3, <1>4, <1>5 DEF UpdateStep

(* flush() says of the window what the fields say and empties both.        *)
LEMMA SaysFlush ==
    ASSUME ~TwoThreads, Shaped, Says, FlushStep
    PROVE  Says'
<1>1. CASE BeginFlush
  <2>1. /\ updater.pc = "idle" /\ flusher = "idle" /\ flusher' = "range"
        /\ stats'.count = count
        /\ UNCHANGED <<updater, count, low, high, added, lastWindow, total, reported>>
    BY <1>1 DEF BeginFlush, fields, history, Blank
  <2>2. QED
    BY <2>1 DEF Says, Alone, Gathered, Reporting, Counted
<1>2. CASE ReportRange
  <2>1. /\ flusher = "range" /\ flusher' \in {"percentiles", "reset"}
        /\ UNCHANGED <<updater, count, low, high, added, lastWindow, total, reported>>
    BY <1>2 DEF ReportRange, fields, history
  <2>2. updater.pc = "idle" /\ stats.count = Len(added) /\ count = Len(added) /\ Extremes(added, low, high)
    BY <2>1 DEF Says, Alone, Gathered, Reporting
  <2>3. ReportOn(added)'
    BY <1>2, <2>1, <2>2 DEF ReportRange, ReportOn, Shaped, Blank
  <2>4. QED
    BY <2>1, <2>2, <2>3 DEF Says, Alone, Gathered, Reporting, Counted
<1>3. CASE ReportPercentiles
  <2>1. /\ flusher = "percentiles" /\ flusher' = "reset"
        /\ stats' = [stats EXCEPT !.pct = stats'.pct]
        /\ UNCHANGED <<updater, count, low, high, added, lastWindow, total, reported>>
    BY <1>3 DEF ReportPercentiles, fields, history
  <2>2. stats'.count = stats.count /\ stats'.low = stats.low /\ stats'.high = stats.high
    BY <2>1 DEF Shaped, Blank
  <2>3. QED
    BY <2>1, <2>2 DEF Says, Alone, Gathered, Reporting, ReportOn, Counted
<1>4. CASE Reset
  <2>1. /\ flusher = "reset" /\ flusher' = "reset range" /\ count' = 0
        /\ UNCHANGED <<updater, low, high, stats, added, lastWindow, total, reported>>
    BY <1>4 DEF Reset, AfterReset, history
  <2>2. QED
    BY <2>1 DEF Says, Alone, Gathered, Reporting, ReportOn, Counted
<1>5. CASE ResetRange
  <2>1. /\ flusher = "reset range" /\ flusher' = "reset ring"
        /\ low' = Largest /\ high' = -Largest
        /\ UNCHANGED <<updater, count, stats, added, lastWindow, total, reported>>
    BY <1>5 DEF ResetRange, history
  <2>2. updater.pc = "idle"
    BY <2>1 DEF Says, Alone
  <2>3. Gathered'
    BY <2>1, <2>2, NoExtremes DEF Says, Gathered
  <2>4. QED
    BY <2>1, <2>2, <2>3 DEF Says, Alone, Reporting, ReportOn, Counted
<1>6. CASE ResetRing
  <2>1. /\ flusher = "reset ring" /\ flusher' = "idle"
        /\ reported' = reported + stats.count
        /\ lastWindow' = added /\ added' = <<>>
        /\ UNCHANGED <<updater, count, low, high, stats, total>>
    BY <1>6 DEF ResetRing
  <2>2. /\ updater.pc = "idle" /\ updater.x \in Values /\ count = 0 /\ added \in Seq(Values)
        /\ Extremes(<<>>, low, high) /\ ReportOn(added)
        /\ reported + Len(added) = total /\ reported \in Nat /\ total \in Nat
    BY <2>1 DEF Says, Alone, Gathered, Reporting, Counted
  <2>3. <<>> \in Seq(Values) /\ Len(<<>>) = 0 /\ Len(added) \in Nat
    BY <2>2
  <2>4. Alone'
    BY <2>1, <2>2, <2>3 DEF Alone
  <2>5. Gathered'
    <3>1. count' = Len(added') /\ Extremes(added', low', high') /\ updater'.pc = "idle"
      BY <2>1, <2>2, <2>3
    <3>2. QED
      BY <2>1, <3>1 DEF Gathered
  <2>6. Reporting'
    BY <2>1, <2>2 DEF Reporting, ReportOn
  <2>7. Counted'
    <3>1. stats.count = Len(added)
      BY <2>2 DEF ReportOn
    <3>2. Len(added') = 0 /\ reported' = reported + Len(added) /\ total' = total
      BY <2>1, <2>3, <3>1
    <3>3. QED
      BY <2>2, <2>3, <3>2 DEF Counted
  <2>8. QED
    BY <2>4, <2>5, <2>6, <2>7 DEF Says
<1>7. QED
  BY <1>1, <1>2, <1>3, <1>4, <1>5, <1>6 DEF FlushStep

(* Each sample is put into its slot before update() ends; those it         *)
(* overwrites are as old as the ring is long.                              *)
LEMMA KeptStep ==
    ASSUME ~TwoThreads, Shaped, Alone, Kept, [Next]_vars
    PROVE  Kept'
<1>0. Cap \in Nat
  BY AccumulatorAssumption
<1>1. ASSUME NEW x \in Values, BeginUpdate(x) PROVE Kept'
  <2>1. /\ updater.pc = "idle" /\ updater'.pc = "loaded" /\ added' = Append(added, x)
        /\ ring' = ring /\ writeIdx' = writeIdx
    BY <1>1 DEF BeginUpdate, fields
  <2>2. added \in Seq(Values)
    BY DEF Alone
  <2>3. /\ Stored \in Nat /\ Stored' = Stored
        /\ \A i \in 1..Stored : added'[i] = added[i]
    BY <2>1, <2>2 DEF Stored
  <2>4. QED
    BY <2>1, <2>3 DEF Kept, Slot
<1>2. ASSUME StoreCount \/ Widen PROVE Kept'
  <2>1. /\ updater.pc \in {"loaded", "counted"}
        /\ Cap > 0 => updater'.pc \in {"counted", "ranged"}
        /\ Cap = 0 => updater'.pc \in {"counted", "idle"}
        /\ UNCHANGED <<added, ring, writeIdx>>
    <3>1. CASE StoreCount
      BY <3>1 DEF StoreCount, history, Shaped
    <3>2. CASE Widen
      BY <1>0, <3>2 DEF Widen, history, Shaped
    <3>3. QED
      BY <1>2, <3>1, <3>2
  <2>2. Cap > 0 => Stored' = Stored
    BY <2>1 DEF Stored
  <2>3. QED
    BY <2>1, <2>2 DEF Kept, Slot
<1>3. CASE AdvanceIndex
  <2>1. /\ updater.pc = "ranged" /\ updater'.pc = "indexed" /\ updater'.reg = writeIdx
        /\ writeIdx' = writeIdx + 1 /\ UNCHANGED <<added, ring>>
    BY <1>3 DEF AdvanceIndex, history
  <2>2. Stored' = Stored
    BY <2>1 DEF Stored
  <2>3. Cap > 0
    BY <1>0, <2>1 DEF Kept
  <2>4. QED
    BY <2>1, <2>2, <2>3 DEF Kept, Slot
<1>4. CASE StoreSample
  <2>1. /\ updater.pc = "indexed" /\ updater'.pc = "idle"
        /\ UNCHANGED <<added, writeIdx>>
        /\ ring' = [i \in DOMAIN ring \union {Slot(updater.reg)} |->
                        IF i = Slot(updater.reg) THEN updater.x ELSE ring[i]]
    BY <1>4 DEF StoreSample, history
  <2>2. /\ added \in Seq(Values) /\ added # <<>> /\ added[Len(added)] = updater.x
    BY <2>1 DEF Alone
  <2>3. /\ Cap > 0 /\ DOMAIN ring = 0..(Cap - 1) /\ writeIdx = Stored + 1 /\ updater.reg = Stored
        /\ \A i \in 1..Stored : Stored - Cap < i => ring[Slot(i - 1)] = added[i]
    BY <1>0, <2>1 DEF Kept
  <2>4. Stored = Len(added) - 1 /\ Stored \in Nat /\ Stored' = Stored + 1
    BY <2>1, <2>2 DEF Stored
  <2>5. Slot(Stored) \in 0..(Cap - 1) /\ DOMAIN ring' = 0..(Cap - 1)
    BY <2>1, <2>3, <2>4, SlotFacts
  <2>6. ASSUME NEW i \in 1..(Stored + 1), Stored + 1 - Cap < i
        PROVE  ring'[Slot(i - 1)] = added[i]
    <3>1. Slot(i - 1) \in 0..(Cap - 1)
      <4>1. i - 1 \in Nat
        BY <2>4
      <4>2. QED
        BY <2>3, <4>1, SlotFacts
    <3>2. CASE i = Stored + 1
      <4>1. i - 1 = Stored /\ i = Len(added)
        BY <2>4, <3>2
      <4>2. QED
        BY <2>1, <2>2, <2>3, <2>5, <4>1
    <3>3. CASE i # Stored + 1
      <4>1. i \in 1..Stored /\ Stored - Cap < i /\ i - 1 \in Nat /\ i - 1 < Stored /\ Stored - (i - 1) < Cap
        BY <1>0, <2>4, <2>6, <3>3
      <4>2. Slot(i - 1) # Slot(Stored)
        BY <2>4, <4>1, SlotsDiffer
      <4>3. QED
        BY <2>1, <2>3, <2>5, <3>1, <4>1, <4>2
    <3>4. QED
      BY <3>2, <3>3
  <2>7. \A i \in 1..Stored' : Stored' - Cap < i => ring'[Slot(i - 1)] = added'[i]
    <3>1. 1..Stored' = 1..(Stored + 1) /\ Stored' - Cap = Stored + 1 - Cap /\ added' = added
      BY <1>0, <2>1, <2>4
    <3>2. QED
      BY <2>6, <3>1
  <2>8. QED
    BY <1>0, <2>1, <2>3, <2>4, <2>5, <2>7 DEF Kept, Slot
<1>5. CASE ResetRing
  <2>1. updater.pc = "idle"
    BY <1>5 DEF ResetRing, Alone
  <2>2. updater' = updater /\ ring' = ring /\ writeIdx' = 0 /\ added' = <<>>
    BY <1>5 DEF ResetRing
  <2>3. Stored' = 0
    BY <2>1, <2>2 DEF Stored
  <2>4. QED
    BY <2>1, <2>2, <2>3 DEF Kept, Slot
<1>6. ASSUME UNCHANGED <<updater, ring, writeIdx, added>> PROVE Kept'
  BY <1>6 DEF Kept, Stored, Slot
<1>7. BeginFlush \/ ReportRange \/ ReportPercentiles \/ Reset \/ ResetRange \/ Tick
          => UNCHANGED <<updater, ring, writeIdx, added>>
  BY DEF BeginFlush, ReportRange, ReportPercentiles, Reset, ResetRange, Tick, fields, history
<1>8. UNCHANGED vars => UNCHANGED <<updater, ring, writeIdx, added>>
  BY DEF vars
<1>9. QED
  BY <1>1, <1>2, <1>3, <1>4, <1>5, <1>6, <1>7, <1>8 DEF Next, UpdateStep, FlushStep

(* The percentiles are read from the slots of the newest samples.          *)
LEMMA SampledStep ==
    ASSUME ~TwoThreads, Shaped, Alone, Kept, Sampled, [Next]_vars
    PROVE  Sampled'
<1>0. Cap \in Nat /\ added \in Seq(Values)
  BY AccumulatorAssumption DEF Alone
<1>1. ASSUME flusher' = flusher, stats' = stats, lastWindow' = lastWindow,
             flusher = "idle" \/ added' = added
      PROVE  Sampled'
  BY <1>1 DEF Sampled, PercentilesOn
<1>2. UpdateStep => Sampled'
  <2>1. UpdateStep => UNCHANGED <<flusher, stats, lastWindow>> /\ (flusher = "idle" \/ added' = added)
    BY DEF UpdateStep, BeginUpdate, StoreCount, Widen, AdvanceIndex, StoreSample, fields, history
  <2>2. QED
    BY <1>1, <2>1
<1>3. Tick \/ UNCHANGED vars => Sampled'
  <2>1. Tick \/ UNCHANGED vars => UNCHANGED <<flusher, stats, lastWindow, added>>
    BY DEF Tick, fields, history, vars
  <2>2. QED
    BY <1>1, <2>1
<1>4. BeginFlush => Sampled'
  BY DEF BeginFlush, Sampled
<1>5. CASE ReportRange
  <2>1. /\ flusher = "range" /\ UNCHANGED <<added, lastWindow>>
        /\ flusher' = IF Cap > 0 /\ writeIdx > 0 THEN "percentiles" ELSE "reset"
    BY <1>5 DEF ReportRange, history
  <2>2. updater.pc = "idle"
    BY <2>1 DEF Alone
  <2>3. Cap > 0 => writeIdx = Len(added)
    BY <2>2 DEF Kept, Stored
  <2>4. added = <<>> <=> Len(added) = 0
    BY <1>0
  <2>5. CASE Cap > 0 /\ writeIdx > 0
    BY <1>0, <2>1, <2>3, <2>4, <2>5 DEF Sampled
  <2>6. CASE ~(Cap > 0 /\ writeIdx > 0)
    <3>1. Cap = 0 \/ added = <<>>
      <4>1. Len(added) \in Nat
        BY <1>0
      <4>2. QED
        BY <1>0, <2>3, <2>4, <2>6, <4>1
    <3>2. Newest(added) = <<>>
      BY <1>0, <3>1, NewestFacts
    <3>3. Newest(added)' = <<>>
      BY <2>1, <3>2 DEF Newest
    <3>4. QED
      BY <2>1, <2>6, <3>3 DEF Sampled, PercentilesOn
  <2>7. QED
    BY <2>5, <2>6
<1>6. CASE ReportPercentiles
  <2> DEFINE n == InUse
             s == [i \in 1..n |-> ring[i - 1]]
             percents == <<5, 50, 95>>
  <2>1. /\ flusher = "percentiles" /\ flusher' = "reset" /\ UNCHANGED <<added, lastWindow>>
        /\ stats'.pct = [i \in 1..3 |-> Sorted(s)[1 + Index(percents[i], n)]]
    BY <1>6 DEF ReportPercentiles, history, Shaped, Blank
  <2>2. updater.pc = "idle" /\ Cap > 0 /\ added # <<>>
    BY <2>1 DEF Alone, Sampled
  <2>3. /\ n \in Nat \ {0} /\ Len(Newest(added)) = n
        /\ \A k \in 0..(n - 1) : Ranked(Newest(added), k, Sorted(s)[k + 1])
    BY <2>2, SlotsAreNewest
  <2> HIDE DEF n, s
  <2>4. ASSUME NEW i \in 1..3
        PROVE  Ranked(Newest(added), Index(percents[i], n), stats'.pct[i])
    <3>1. percents[i] \in 0..100
      OBVIOUS
    <3> HIDE DEF percents
    <3>2. Index(percents[i], n) \in 0..(n - 1)
      BY <2>3, <3>1, IndexBounds
    <3>3. Index(percents[i], n) \in Int
          /\ 1 + Index(percents[i], n) = Index(percents[i], n) + 1
      BY <3>2
    <3>4. stats'.pct[i] = Sorted(s)[Index(percents[i], n) + 1]
      BY <2>1, <3>3
    <3>5. QED
      BY <2>3, <3>2, <3>4
  <2>5. PercentilesOn(added)'
    <3>1. Newest(added)' = Newest(added)
      BY <2>1 DEF Newest
    <3>2. QED
      BY <2>1, <2>3, <2>4, <3>1 DEF PercentilesOn
  <2>6. QED
    BY <2>1, <2>5 DEF Sampled
<1>7. Reset \/ ResetRange => Sampled'
  <2>1. Reset \/ ResetRange =>
            /\ UNCHANGED <<stats, added, lastWindow>>
            /\ flusher \in {"reset", "reset range"} /\ flusher' \in {"reset range", "reset ring"}
    BY DEF Reset, ResetRange, history
  <2>2. QED
    BY <2>1 DEF Sampled, PercentilesOn
<1>8. ResetRing => Sampled'
  <2>1. ResetRing => /\ flusher = "reset ring" /\ flusher' = "idle"
                     /\ lastWindow' = added /\ stats' = stats
    BY DEF ResetRing
  <2>2. QED
    BY <2>1 DEF Sampled, PercentilesOn
<1>9. QED
  BY <1>2, <1>3, <1>4, <1>5, <1>6, <1>7, <1>8 DEF Next, FlushStep

LEMMA InvInit == Init => IInv
<1> SUFFICES ASSUME Init PROVE IInv
  OBVIOUS
<1>1. /\ updater.pc = "idle" /\ flusher = "idle" /\ added = <<>> /\ lastWindow = <<>>
      /\ writeIdx = 0 /\ DOMAIN ring = 0..(Cap - 1)
  BY DEF Init
<1>2. Kept
  BY <1>1 DEF Kept, Stored
<1>3. <<>> \in Seq(Values)
  OBVIOUS
<1>4. Newest(<<>>) = <<>>
  BY <1>3, NewestFacts
<1>5. Sampled
  BY <1>1, <1>4 DEF Sampled, PercentilesOn
<1>6. QED
  BY <1>2, <1>5, ShapedInit, SaysInit DEF IInv

LEMMA InvStep ==
    ASSUME ~TwoThreads, IInv, [Next]_vars
    PROVE  IInv'
<1>1. ASSUME UNCHANGED <<updater, flusher, count, low, high, stats, added, lastWindow, total, reported>>
      PROVE  Says'
  BY <1>1 DEF IInv, Says, Alone, Gathered, Reporting, ReportOn, Counted
<1>2. Tick => Says'
  BY <1>1 DEF Tick, fields, history
<1>3. UNCHANGED vars => Says'
  BY <1>1 DEF vars
<1>4. QED
  BY <1>2, <1>3, ShapedStep, SaysUpdate, SaysFlush, KeptStep, SampledStep DEF Next, IInv, Says

-----------------------------------------------------------------------------
(* What a report says of limits is what its window does.                   *)
LEMMA ReportCrosses ==
    ASSUME NEW w \in Seq(Values), w # <<>>, ReportOn(w), NEW limits \in Limits
    PROVE  Exceeds(stats, limits) <=> Crossed(w, limits)
<1>1. /\ limits.peakMax \in Int /\ limits.peakMin \in Int
      /\ limits.countMax \in Int /\ limits.countMin \in Int
  BY DEF Limits
<1>2. DOMAIN w = 1..Len(w) /\ Len(w) \in Nat
  OBVIOUS
<1>3. \A i \in 1..Len(w) : w[i] \in Int
  BY <1>2, ValuesAreBounded
<1>4. /\ stats.count = Len(w) /\ stats.low \in Int /\ stats.high \in Int
      /\ \A i \in 1..Len(w) : stats.low <= w[i] /\ w[i] <= stats.high
      /\ \E i \in 1..Len(w) : w[i] = stats.low
      /\ \E i \in 1..Len(w) : w[i] = stats.high
  BY DEF ReportOn, Extremes
<1>5. stats.high > limits.peakMax <=> \E i \in 1..Len(w) : w[i] > limits.peakMax
  BY <1>1, <1>3, <1>4
<1>6. stats.low < limits.peakMin <=> \E i \in 1..Len(w) : w[i] < limits.peakMin
  BY <1>1, <1>3, <1>4
<1>7. QED
  BY <1>2, <1>4, <1>5, <1>6 DEF Exceeds, Crossed

(* With one thread the level of a report is about its own window: ERROR    *)
(* exactly when the window crosses the error limits, WARNING when it only  *)
(* crosses the others, whatever earlier windows held.                      *)
THEOREM LevelsAreOfTheirWindow == ASSUME ~TwoThreads PROVE Spec => []LevelIsOfItsWindow
<1>1. IInv => LevelIsOfItsWindow
  <2> SUFFICES ASSUME IInv, Quiescent, lastWindow # <<>>
               PROVE  /\ (LevelOf(stats) = 2 <=> Crossed(lastWindow, Errors))
                      /\ (LevelOf(stats) = 0 <=> ~Crossed(lastWindow, Errors) /\ ~Crossed(lastWindow, Warnings))
    BY DEF LevelIsOfItsWindow
  <2>1. lastWindow \in Seq(Values) /\ ReportOn(lastWindow)
    BY DEF IInv, Says, Alone, Reporting, Quiescent
  <2>2. /\ (Exceeds(stats, Errors) <=> Crossed(lastWindow, Errors))
        /\ (Exceeds(stats, Warnings) <=> Crossed(lastWindow, Warnings))
    BY <2>1, ReportCrosses, AccumulatorAssumption
  <2>3. QED
    BY <2>2 DEF LevelOf
<1>2. Init => IInv
  BY InvInit
<1>3. IInv /\ [Next]_vars => IInv'
  BY InvStep
<1>4. QED
  BY <1>1, <1>2, <1>3, PTL DEF Spec

(* With one thread a report is exactly what its window says: its count,    *)
(* minimum and maximum are those of the window, its percentiles are those  *)
(* of the window's newest samples, wherever the ring has wrapped and       *)
(* whatever earlier windows left in it.                                    *)
THEOREM ReportsAreExact == ASSUME ~TwoThreads PROVE Spec => []ReportIsExact
<1>1. IInv => ReportIsExact
  <2> SUFFICES ASSUME IInv, Quiescent PROVE ReportIsExact
    BY DEF ReportIsExact
  <2>1. lastWindow \in Seq(Values) /\ ReportOn(lastWindow) /\ PercentilesOn(lastWindow)
    BY DEF IInv, Says, Alone, Reporting, Sampled, Quiescent
  <2>2. DOMAIN lastWindow = 1..Len(lastWindow)
    BY <2>1
  <2>3. lastWindow # <<>> =>
            /\ \A i \in DOMAIN lastWindow : stats.low <= lastWindow[i] /\ lastWindow[i] <= stats.high
            /\ \E i, j \in DOMAIN lastWindow : lastWindow[i] = stats.low /\ lastWindow[j] = stats.high
    BY <2>1, <2>2 DEF ReportOn, Extremes
  <2>4. QED
    BY <2>1, <2>3 DEF ReportIsExact, ReportOn, PercentilesOn
<1>2. Init => IInv
  BY InvInit
<1>3. IInv /\ [Next]_vars => IInv'
  BY InvStep
<1>4. QED
  BY <1>1, <1>2, <1>3, PTL DEF Spec

(* With one thread every sample is in exactly one report or in the window  *)
(* under way.                                                              *)
THEOREM EverySampleIsCounted == ASSUME ~TwoThreads PROVE Spec => []CountsAddUp
<1>1. IInv => CountsAddUp
  BY DEF IInv, Says, Gathered, Counted, CountsAddUp, Quiescent
<1>2. Init => IInv
  BY InvInit
<1>3. IInv /\ [Next]_vars => IInv'
  BY InvStep
<1>4. QED
  BY <1>1, <1>2, <1>3, PTL DEF Spec

-----------------------------------------------------------------------------
(***************************************************************************)
(* The durations, with one thread or two.  The time the accumulator keeps  *)
(* is that of the last flush, and a flush measures from it when it begins, *)
(* while the clock stands still.                                           *)
(***************************************************************************)
Measured ==
    /\ clock \in Nat /\ initialTime \in Nat
    /\ initialTime = flushedAt
    /\ flusher # "idle" => stats.duration = clock - initialTime

TimeInv == Shaped /\ Measured

LEMMA MeasuredStep ==
    ASSUME PassesTime, Shaped, Measured, [Next]_vars
    PROVE  Measured'
<1>1. CASE UpdateStep
  <2>1. UNCHANGED <<flusher, initialTime, stats, clock, flushedAt>>
    BY <1>1 DEF UpdateStep, BeginUpdate, StoreCount, Widen, AdvanceIndex, StoreSample, fields, history
  <2>2. QED
    BY <2>1 DEF Measured
<1>2. CASE BeginFlush
  <2>1. stats'.duration = clock - initialTime /\ UNCHANGED <<initialTime, clock, flushedAt>>
    BY <1>2 DEF BeginFlush, Blank, FlushTime, fields, history
  <2>2. QED
    BY <2>1 DEF Measured
<1>3. CASE ReportRange \/ ReportPercentiles
  <2>1. flusher # "idle" /\ UNCHANGED <<initialTime, clock, flushedAt>>
    BY <1>3 DEF ReportRange, ReportPercentiles, fields, history
  <2>2. stats' = [stats EXCEPT !.low = stats'.low, !.high = stats'.high]
            \/ stats' = [stats EXCEPT !.pct = stats'.pct] \/ stats' = stats
    BY <1>3 DEF ReportRange, ReportPercentiles, Shaped, Blank
  <2>3. stats'.duration = stats.duration
    BY <2>2 DEF Shaped, Blank
  <2>4. QED
    BY <2>1, <2>3 DEF Measured
<1>4. CASE Reset \/ ResetRange
  <2>1. flusher # "idle" /\ UNCHANGED <<initialTime, stats, clock, flushedAt>>
    BY <1>4 DEF Reset, ResetRange, history
  <2>2. QED
    BY <2>1 DEF Measured
<1>5. CASE ResetRing
  <2>1. flusher' = "idle" /\ initialTime' = clock /\ flushedAt' = clock /\ clock' = clock
    BY <1>5 DEF ResetRing, FlushTime
  <2>2. QED
    BY <2>1 DEF Measured
<1>6. CASE Tick
  <2>1. flusher' = "idle" /\ clock' = clock + 1 /\ UNCHANGED <<initialTime, flushedAt>>
    BY <1>6 DEF Tick, fields, history
  <2>2. QED
    BY <2>1 DEF Measured
<1>7. CASE UNCHANGED vars
  BY <1>7 DEF Measured, vars
<1>8. QED
  BY <1>1, <1>2, <1>3, <1>4, <1>5, <1>6, <1>7 DEF Next, FlushStep

(* A caller that gives flush() the time is told, from its second window on *)
(* and whatever runs beside it, the time since the previous flush.         *)
THEOREM DurationsAreElapsed == ASSUME PassesTime PROVE Spec => DurationIsElapsed
<1>1. Init => TimeInv
  BY ShapedInit DEF Init, TimeInv, Measured
<1>2. TimeInv /\ [Next]_vars => TimeInv'
  BY ShapedStep, MeasuredStep DEF TimeInv
<1>3. TimeInv => [flusher = "reset ring" /\ flushedAt > 0 => stats.duration = clock - flushedAt]_vars
  BY DEF TimeInv, Measured
<1>4. QED
  BY <1>1, <1>2, <1>3, PTL DEF Spec, DurationIsElapsed
=============================================================================
