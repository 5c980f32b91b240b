------------------------ MODULE PacketWindow_proofs ------------------------
(***************************************************************************)
(* Proofs about the packet window, for every capacity, every traffic and   *)
(* every behaviour of the clock; its lemmas also serve the capture loop,   *)
(* of which the window is a part.                                          *)
(***************************************************************************)
EXTENDS PacketWindow, SequenceTheorems, TLAPS

-----------------------------------------------------------------------------
(* What the sums and the evictions do with one more element.               *)
Plus(a, b) == a + b
TakenOut(t, rec) == Aggregate(t, rec, -1)

Adding == INSTANCE FoldFacts WITH Op <- Plus
Taking == INSTANCE FoldFacts WITH Op <- TakenOut

(* The part of a sequence before and after its first k elements.           *)
LEMMA Parts ==
    ASSUME NEW S, NEW s \in Seq(S), NEW k \in 0..Len(s)
    PROVE  /\ SubSeq(s, 1, k) \in Seq(S) /\ Len(SubSeq(s, 1, k)) = k
           /\ SubSeq(s, k + 1, Len(s)) \in Seq(S)
           /\ Len(SubSeq(s, k + 1, Len(s))) = Len(s) - k
           /\ \A i \in 1..k : SubSeq(s, 1, k)[i] = s[i]
           /\ \A i \in 1..(Len(s) - k) : SubSeq(s, k + 1, Len(s))[i] = s[k + i]
OBVIOUS

(* The first part that is empty, and the one that is everything.           *)
LEMMA PartsEnd ==
    ASSUME NEW S, NEW s \in Seq(S)
    PROVE  /\ Len(s) \in Nat /\ Len(s) \in 0..Len(s) /\ 0 \in 0..Len(s)
           /\ SubSeq(s, 1, 0) = <<>> /\ SubSeq(s, 1, Len(s)) = s
OBVIOUS

(* A part does not see what comes after it.                                *)
LEMMA PartOfAppend ==
    ASSUME NEW S, NEW s \in Seq(S), NEW x \in S, NEW k \in 0..Len(s), NEW j \in 0..k
    PROVE  /\ SubSeq(Append(s, x), j + 1, k) = SubSeq(s, j + 1, k)
           /\ Append(s, x) \in Seq(S) /\ Len(Append(s, x)) = Len(s) + 1
           /\ Append(s, x)[Len(s) + 1] = x
<1>1. Append(s, x) \in Seq(S) /\ Len(Append(s, x)) = Len(s) + 1 /\ Append(s, x)[Len(s) + 1] = x
  OBVIOUS
<1>2. \A i \in 1..Len(s) : Append(s, x)[i] = s[i]
  OBVIOUS
<1> QED
  BY <1>1, <1>2

(* One element more at the end of a part.                                  *)
LEMMA PartGrows ==
    ASSUME NEW S, NEW s \in Seq(S), NEW k \in 0..(Len(s) - 1), NEW j \in 0..k
    PROVE  SubSeq(s, j + 1, k + 1) = Append(SubSeq(s, j + 1, k), s[k + 1])
OBVIOUS

-----------------------------------------------------------------------------
(* The sum of no numbers is 0.                                             *)
LEMMA SumOfNothing == SumOf(<<>>) = 0
<1>1. Adding!FoldLeft(Plus, 0, <<>>) = 0
  BY Adding!FoldOfNothing
<1> QED
  BY <1>1 DEF SumOf, Plus, FoldLeft, MapThenFoldSet, Max,
              Adding!FoldLeft, Adding!MapThenFoldSet, Adding!Max

(* One number more adds itself.                                            *)
LEMMA SumOfAppend ==
    ASSUME NEW s \in Seq(Int), NEW x \in Int
    PROVE  SumOf(Append(s, x)) = SumOf(s) + x
<1>1. Adding!FoldLeft(Plus, 0, Append(s, x)) = Plus(Adding!FoldLeft(Plus, 0, s), x)
  BY Adding!FoldOfAppend
<1> QED
  BY <1>1 DEF SumOf, Plus, FoldLeft, MapThenFoldSet, Max,
              Adding!FoldLeft, Adding!MapThenFoldSet, Adding!Max

(* The sum of integers is one, of natural numbers a natural number.        *)
LEMMA SumType ==
    ASSUME NEW s \in Seq(Int)
    PROVE  /\ SumOf(s) \in Int
           /\ (\A i \in 1..Len(s) : s[i] >= 0) => SumOf(s) >= 0
<1> DEFINE sum(k) == SumOf(SubSeq(s, 1, k))
           T == {k \in Nat : k <= Len(s) =>
                    /\ sum(k) \in Int
                    /\ (\A i \in 1..Len(s) : s[i] >= 0) => sum(k) >= 0}
<1>1. 0 \in T
  <2>1. sum(0) = 0
    BY SumOfNothing, PartsEnd
  <2> QED
    BY <2>1
<1>2. ASSUME NEW k \in T PROVE k + 1 \in T
  <2>1. SUFFICES ASSUME k + 1 <= Len(s)
                 PROVE  /\ sum(k + 1) \in Int
                        /\ (\A i \in 1..Len(s) : s[i] >= 0) => sum(k + 1) >= 0
    OBVIOUS
  <2>2. k \in 0..Len(s) /\ k + 1 \in 1..Len(s)
    BY <2>1
  <2>3. sum(k) \in Int /\ ((\A i \in 1..Len(s) : s[i] >= 0) => sum(k) >= 0)
    BY <2>2
  <2>4. SubSeq(s, 1, k + 1) = Append(SubSeq(s, 1, k), s[k + 1])
    BY <2>2
  <2>5. SubSeq(s, 1, k) \in Seq(Int) /\ s[k + 1] \in Int
    BY <2>2
  <2>6. sum(k + 1) = sum(k) + s[k + 1]
    BY <2>4, <2>5, SumOfAppend
  <2> QED
    BY <2>2, <2>3, <2>5, <2>6
<1>3. T \in SUBSET Nat
  OBVIOUS
<1> HIDE DEF T
<1>4. \A k \in Nat : k \in T
  BY <1>1, <1>2, <1>3, Adding!Induction
<1>5. Len(s) \in T /\ sum(Len(s)) = SumOf(s)
  BY <1>4, PartsEnd
<1> QED
  BY <1>5 DEF T

(* A sum is that of a first part and of the rest.                          *)
LEMMA SumOfParts ==
    ASSUME NEW s \in Seq(Int), NEW j \in 0..Len(s)
    PROVE  SumOf(s) = SumOf(SubSeq(s, 1, j)) + SumOf(SubSeq(s, j + 1, Len(s)))
<1> DEFINE sum(i, k) == SumOf(SubSeq(s, i + 1, k))
           T == {d \in Nat : j + d <= Len(s) => sum(0, j + d) = sum(0, j) + sum(j, j + d)}
<1>a. \A i, k \in 0..Len(s) : SubSeq(s, i + 1, k) \in Seq(Int)
  OBVIOUS
<1>b. \A i, k \in 0..Len(s) : sum(i, k) \in Int
  BY <1>a, SumType
<1>1. 0 \in T
  <2>1. SubSeq(s, j + 1, j + 0) = <<>>
    OBVIOUS
  <2>2. sum(j, j + 0) = 0
    BY <2>1, SumOfNothing
  <2>3. sum(0, j) \in Int /\ j + 0 = j
    <3>1. 0 \in 0..Len(s) /\ j \in 0..Len(s)
      BY PartsEnd
    <3> HIDE DEF sum
    <3> QED
      BY <1>b, <3>1
  <2> HIDE DEF sum
  <2> QED
    BY <2>2, <2>3
<1>2. ASSUME NEW d \in T PROVE d + 1 \in T
  <2> DEFINE k == j + d
  <2>1. SUFFICES ASSUME k + 1 <= Len(s) PROVE sum(0, k + 1) = sum(0, j) + sum(j, k + 1)
    OBVIOUS
  <2>2. k \in 0..(Len(s) - 1) /\ j \in 0..k /\ 0 \in 0..k /\ s[k + 1] \in Int
        /\ k \in 0..Len(s) /\ j \in 0..Len(s) /\ 0 \in 0..Len(s)
    BY <2>1
  <2>3. sum(0, k) = sum(0, j) + sum(j, k)
    BY <2>1
  <2> HIDE DEF k
  <2>4. /\ SubSeq(s, 0 + 1, k + 1) = Append(SubSeq(s, 0 + 1, k), s[k + 1])
        /\ SubSeq(s, j + 1, k + 1) = Append(SubSeq(s, j + 1, k), s[k + 1])
    BY <2>2, PartGrows
  <2>5. sum(0, k + 1) = sum(0, k) + s[k + 1] /\ sum(j, k + 1) = sum(j, k) + s[k + 1]
    BY <1>a, <2>2, <2>4, SumOfAppend
  <2>6. sum(0, k) \in Int /\ sum(0, j) \in Int /\ sum(j, k) \in Int
    BY <1>b, <2>2
  <2> HIDE DEF sum
  <2> QED
    BY <2>2, <2>3, <2>5, <2>6
<1>3. T \in SUBSET Nat
  OBVIOUS
<1> HIDE DEF T
<1>4. \A d \in Nat : d \in T
  BY <1>1, <1>2, <1>3, Adding!Induction
<1>5. Len(s) - j \in T /\ j + (Len(s) - j) = Len(s)
  BY <1>4
<1>6. SubSeq(s, 0 + 1, Len(s)) = s /\ Len(s) <= Len(s)
  BY PartsEnd
<1>7. sum(0, Len(s)) = sum(0, j) + sum(j, Len(s))
  BY <1>5, <1>6 DEF T
<1>8. 0 + 1 = 1
  OBVIOUS
<1> QED
  BY <1>6, <1>7, <1>8, Zenon

(* A sum lies between as many times the least and the greatest number.     *)
LEMMA SumBounds ==
    ASSUME NEW s \in Seq(Int), NEW low \in Int, NEW high \in Int,
           \A i \in 1..Len(s) : low <= s[i] /\ s[i] <= high
    PROVE  SumOf(s) \in Int /\ Len(s) * low <= SumOf(s) /\ SumOf(s) <= Len(s) * high
<1> DEFINE sum(k) == SumOf(SubSeq(s, 1, k))
           T == {k \in Nat : k <= Len(s) =>
                    sum(k) \in Int /\ k * low <= sum(k) /\ sum(k) <= k * high}
<1>1. 0 \in T
  <2>1. sum(0) = 0
    BY SumOfNothing, PartsEnd
  <2> QED
    BY <2>1
<1>2. ASSUME NEW k \in T PROVE k + 1 \in T
  <2>1. SUFFICES ASSUME k + 1 <= Len(s)
                 PROVE  /\ sum(k + 1) \in Int
                        /\ (k + 1) * low <= sum(k + 1) /\ sum(k + 1) <= (k + 1) * high
    OBVIOUS
  <2>2. k \in 0..Len(s) /\ k \in 0..(Len(s) - 1) /\ 0 \in 0..k /\ k + 1 \in 1..Len(s)
    BY <2>1
  <2>3. sum(k) \in Int /\ k * low <= sum(k) /\ sum(k) <= k * high
    BY <2>2
  <2>4. SubSeq(s, 1, k + 1) = Append(SubSeq(s, 1, k), s[k + 1])
    BY <2>2
  <2>5. SubSeq(s, 1, k) \in Seq(Int) /\ s[k + 1] \in Int
    BY <2>2
  <2>6. sum(k + 1) = sum(k) + s[k + 1]
    BY <2>4, <2>5, SumOfAppend
  <2>7. low <= s[k + 1] /\ s[k + 1] <= high
    BY <2>2
  <2> HIDE DEF sum
  <2>8. (k + 1) * low = k * low + low /\ (k + 1) * high = k * high + high
    BY <2>2
  <2>9. k * low \in Int /\ k * high \in Int
    BY <2>2
  <2> QED
    BY <2>3, <2>5, <2>6, <2>7, <2>8, <2>9
<1>3. T \in SUBSET Nat
  OBVIOUS
<1> HIDE DEF T
<1>4. \A k \in Nat : k \in T
  BY <1>1, <1>2, <1>3, Adding!Induction
<1>5. Len(s) \in T /\ sum(Len(s)) = SumOf(s)
  BY <1>4, PartsEnd
<1> QED
  BY <1>5 DEF T

-----------------------------------------------------------------------------
(* The beginning of a sequence of numbers.                                 *)
First(f, k) == [i \in 1..k |-> f[i]]

(* Its sum grows number by number.                                         *)
LEMMA SumOfFirst ==
    ASSUME NEW n \in Nat, NEW f \in [1..n -> Int]
    PROVE  /\ SumOf(First(f, 0)) = 0
           /\ \A k \in 0..n : SumOf(First(f, k)) \in Int
           /\ \A k \in 0..(n - 1) : SumOf(First(f, k + 1)) = SumOf(First(f, k)) + f[k + 1]
           /\ First(f, n) = f
<1>1. SumOf(First(f, 0)) = 0
  <2>1. First(f, 0) = <<>>
    BY DEF First
  <2> QED
    BY <2>1, SumOfNothing
<1>2. \A k \in 0..n : First(f, k) \in Seq(Int) /\ Len(First(f, k)) = k
  <2> TAKE k \in 0..n
  <2>1. First(f, k) \in [1..k -> Int] /\ k \in Nat
    BY DEF First
  <2> QED
    BY <2>1, SeqDef, LenProperties
<1>3. \A k \in 0..n : SumOf(First(f, k)) \in Int
  BY <1>2, SumType
<1>4. ASSUME NEW k \in 0..(n - 1)
      PROVE  SumOf(First(f, k + 1)) = SumOf(First(f, k)) + f[k + 1]
  <2> DEFINE g == First(f, k)
             h == First(f, k + 1)
  <2>1. k \in Nat /\ k \in 0..n /\ k + 1 \in 0..n /\ f[k + 1] \in Int
    OBVIOUS
  <2>2. /\ \A i \in 1..k : h[i] = g[i]
        /\ h[k + 1] = f[k + 1]
    BY DEF First
  <2>3. g \in Seq(Int) /\ Len(g) = k /\ h \in Seq(Int) /\ Len(h) = k + 1
    BY <1>2, <2>1
  <2> HIDE DEF g, h
  <2>4. /\ Append(g, f[k + 1]) \in Seq(Int) /\ Len(Append(g, f[k + 1])) = k + 1
        /\ Append(g, f[k + 1])[k + 1] = f[k + 1]
        /\ \A i \in 1..k : Append(g, f[k + 1])[i] = g[i]
    BY <2>1, <2>3
  <2>5. \A i \in 1..(k + 1) : i \in 1..k \/ i = k + 1
    BY <2>1
  <2>6. \A i \in 1..(k + 1) : h[i] = Append(g, f[k + 1])[i]
    BY <2>2, <2>4, <2>5
  <2>7. h = Append(g, f[k + 1])
    BY <2>3, <2>4, <2>6, SeqEqual
  <2> QED
    BY <2>1, <2>3, <2>7, SumOfAppend DEF g, h
<1>5. First(f, n) = f
  BY DEF First
<1> QED
  BY <1>1, <1>3, <1>4, <1>5

(* When one number of a sum grows, the sum grows by as much.               *)
LEMMA SumChanged ==
    ASSUME NEW n \in Nat, NEW f \in [1..n -> Int], NEW g \in [1..n -> Int],
           NEW j \in 1..n, NEW v \in Int, g[j] = f[j] + v, \A i \in 1..n : i # j => g[i] = f[i]
    PROVE  SumOf(f) \in Int /\ SumOf(g) = SumOf(f) + v
<1> DEFINE F(i) == SumOf(First(f, i))
           G(i) == SumOf(First(g, i))
           more(i) == IF i >= j THEN v ELSE 0
           T == {i \in Nat : i <= n => G(i) = F(i) + more(i)}
<1>1. /\ F(0) = 0 /\ F(n) = SumOf(f)
      /\ \A i \in 0..n : F(i) \in Int
      /\ \A i \in 0..(n - 1) : F(i + 1) = F(i) + f[i + 1]
  BY SumOfFirst
<1>2. /\ G(0) = 0 /\ G(n) = SumOf(g)
      /\ \A i \in 0..(n - 1) : G(i + 1) = G(i) + g[i + 1]
  BY SumOfFirst
<1> HIDE DEF F, G
<1>3. \A i \in 0..(n - 1) : i + 1 \in 1..n /\ i \in 0..n /\ i \in Nat
  OBVIOUS
<1>4. /\ more(0) = 0 /\ more(n) = v
      /\ \A i \in 0..n : more(i) \in Int
      /\ \A i \in 0..(n - 1) : more(i + 1) = more(i) + (IF i + 1 = j THEN v ELSE 0)
  OBVIOUS
<1>5. \A i \in 1..n : f[i] \in Int /\ g[i] = f[i] + (IF i = j THEN v ELSE 0)
  <2> TAKE i \in 1..n
  <2>1. f[i] \in Int
    OBVIOUS
  <2>2. CASE i = j
    BY <2>1, <2>2
  <2>3. CASE i # j
    BY <2>1, <2>3
  <2> QED
    BY <2>2, <2>3
<1> HIDE DEF more
<1>6. 0 \in T
  BY <1>1, <1>2, <1>4
<1>7. ASSUME NEW i \in T PROVE i + 1 \in T
  <2>1. SUFFICES ASSUME i + 1 <= n PROVE G(i + 1) = F(i + 1) + more(i + 1)
    OBVIOUS
  <2>2. i \in 0..(n - 1) /\ G(i) = F(i) + more(i)
    BY <2>1
  <2>3. i \in 0..n /\ i + 1 \in 1..n
    BY <1>3, <2>2
  <2> DEFINE d == IF i + 1 = j THEN v ELSE 0
  <2>4. F(i) \in Int /\ F(i + 1) = F(i) + f[i + 1] /\ G(i + 1) = G(i) + g[i + 1]
    BY <1>1, <1>2, <2>2, <2>3
  <2>5. more(i) \in Int /\ more(i + 1) = more(i) + d
    BY <1>4, <2>2, <2>3
  <2>6. f[i + 1] \in Int /\ g[i + 1] = f[i + 1] + d /\ d \in Int
    BY <1>5, <2>3
  <2> HIDE DEF d
  <2> QED
    BY <2>2, <2>4, <2>5, <2>6
<1>8. T \in SUBSET Nat
  OBVIOUS
<1> HIDE DEF T
<1>9. n \in T
  BY <1>6, <1>7, <1>8, Adding!Induction
<1>10. n \in 0..n
  OBVIOUS
<1> QED
  BY <1>1, <1>2, <1>4, <1>9, <1>10 DEF T

(* Numbers each of which is the sum of two others.                         *)
EachIsSum(f, g, h, n) ==
    /\ f \in [1..n -> Int] /\ g \in [1..n -> Int] /\ h \in [1..n -> Int]
    /\ \A i \in 1..n : f[i] = g[i] + h[i]

(* Sums add up.                                                            *)
LEMMA SumOfBoth ==
    ASSUME NEW n \in Nat, NEW f, NEW g, NEW h, EachIsSum(f, g, h, n)
    PROVE  SumOf(f) \in Int /\ SumOf(g) \in Int /\ SumOf(h) \in Int /\ SumOf(f) = SumOf(g) + SumOf(h)
<1> USE DEF EachIsSum
<1> DEFINE F(i) == SumOf(First(f, i))
           G(i) == SumOf(First(g, i))
           H(i) == SumOf(First(h, i))
           T == {i \in Nat : i <= n => F(i) = G(i) + H(i)}
<1>1. /\ F(0) = 0 /\ F(n) = SumOf(f)
      /\ \A i \in 0..n : F(i) \in Int
      /\ \A i \in 0..(n - 1) : F(i + 1) = F(i) + f[i + 1]
  BY SumOfFirst
<1>2. /\ G(0) = 0 /\ G(n) = SumOf(g)
      /\ \A i \in 0..n : G(i) \in Int
      /\ \A i \in 0..(n - 1) : G(i + 1) = G(i) + g[i + 1]
  BY SumOfFirst
<1>3. /\ H(0) = 0 /\ H(n) = SumOf(h)
      /\ \A i \in 0..n : H(i) \in Int
      /\ \A i \in 0..(n - 1) : H(i + 1) = H(i) + h[i + 1]
  BY SumOfFirst
<1> HIDE DEF F, G, H
<1>4. 0 \in T
  BY <1>1, <1>2, <1>3
<1>5. ASSUME NEW i \in T PROVE i + 1 \in T
  <2>1. SUFFICES ASSUME i + 1 <= n PROVE F(i + 1) = G(i + 1) + H(i + 1)
    OBVIOUS
  <2>2. /\ i \in 0..(n - 1) /\ i \in 0..n /\ i + 1 \in 1..n
        /\ F(i) = G(i) + H(i)
    BY <2>1
  <2>3. /\ F(i) \in Int /\ G(i) \in Int /\ H(i) \in Int
        /\ F(i + 1) = F(i) + f[i + 1] /\ G(i + 1) = G(i) + g[i + 1]
        /\ H(i + 1) = H(i) + h[i + 1]
    BY <1>1, <1>2, <1>3, <2>2
  <2>4. f[i + 1] = g[i + 1] + h[i + 1] /\ g[i + 1] \in Int /\ h[i + 1] \in Int
    BY <2>2
  <2> QED
    BY <2>2, <2>3, <2>4
<1>6. T \in SUBSET Nat
  OBVIOUS
<1> HIDE DEF T
<1>7. n \in T
  BY <1>4, <1>5, <1>6, Adding!Induction
<1>8. n \in 0..n
  OBVIOUS
<1> QED
  BY <1>1, <1>2, <1>3, <1>7, <1>8 DEF T

(* The sum of n ones.                                                      *)
LEMMA SumOfOnes ==
    ASSUME NEW n \in Nat
    PROVE  SumOf([i \in 1..n |-> 1]) = n
<1> DEFINE f == [i \in 1..n |-> 1]
<1>1. f \in [1..n -> Int] /\ \A i \in 1..n : f[i] = 1
  OBVIOUS
<1> HIDE DEF f
<1>2. f \in Seq(Int) /\ Len(f) = n
  BY <1>1, SeqDef, LenProperties
<1>3. 1 \in Int /\ \A i \in 1..Len(f) : 1 <= f[i] /\ f[i] <= 1
  BY <1>1, <1>2
<1>4. SumOf(f) \in Int /\ Len(f) * 1 <= SumOf(f) /\ SumOf(f) <= Len(f) * 1
  BY <1>2, <1>3, SumBounds
<1> QED
  BY <1>2, <1>4 DEF f

(* Of numbers none of which is negative fewer have no larger sum.          *)
LEMMA FewerIsLess ==
    ASSUME NEW n \in Nat, NEW f \in [1..n -> Nat], NEW k \in 0..n, NEW m \in k..n
    PROVE  SumOf(First(f, k)) <= SumOf(First(f, m))
<1> DEFINE sum(i) == SumOf(First(f, i))
           T == {i \in Nat : k + i <= n => sum(k) <= sum(k + i)}
<1>1. /\ \A i \in 0..n : sum(i) \in Int
      /\ \A i \in 0..(n - 1) : sum(i + 1) = sum(i) + f[i + 1]
  <2>1. f \in [1..n -> Int]
    OBVIOUS
  <2> QED
    BY <2>1, SumOfFirst
<1> HIDE DEF sum
<1>2. 0 \in T
  <2>1. k + 0 = k /\ sum(k) \in Int
    BY <1>1
  <2> QED
    BY <2>1
<1>3. ASSUME NEW i \in T PROVE i + 1 \in T
  <2>1. SUFFICES ASSUME k + (i + 1) <= n PROVE sum(k) <= sum(k + (i + 1))
    OBVIOUS
  <2>2. /\ k + i \in 0..(n - 1) /\ k + (i + 1) = (k + i) + 1 /\ f[(k + i) + 1] \in Nat
        /\ k + i \in 0..n /\ i \in Nat
    BY <2>1
  <2>3. sum(k) <= sum(k + i)
    BY <2>2
  <2>4. sum((k + i) + 1) = sum(k + i) + f[(k + i) + 1] /\ sum(k + i) \in Int /\ sum(k) \in Int
    BY <1>1, <2>2
  <2> QED
    BY <2>2, <2>3, <2>4
<1>4. T \in SUBSET Nat
  OBVIOUS
<1> HIDE DEF T
<1>5. m - k \in T
  <2>1. m - k \in Nat
    OBVIOUS
  <2> QED
    BY <1>2, <1>3, <1>4, <2>1, Adding!Induction
<1>6. k + (m - k) = m
  OBVIOUS
<1> QED
  BY <1>5, <1>6 DEF T, sum

(* Numbers picked from others, each at most once and in their order, with  *)
(* nothing (0) where none is picked.                                       *)
Picked(g, f, at, n, w) ==
    /\ f \in [1..w -> Nat] /\ DOMAIN g = 1..n /\ g = [i \in 1..n |-> g[i]]
    /\ \A i \in 1..n : g[i] = 0 \/ (at[i] \in 1..w /\ g[i] = f[at[i]])
    /\ \A k \in 1..n : \A i \in 1..(k - 1) : g[i] # 0 /\ g[k] # 0 => at[i] < at[k]

(* Their sum is no larger than that of all.                                *)
LEMMA SumOfPicked ==
    ASSUME NEW n \in Nat, NEW w \in Nat, NEW f, NEW g, NEW at, Picked(g, f, at, n, w)
    PROVE  /\ g \in [1..n -> Nat]
           /\ SumOf(g) \in Int /\ SumOf(f) \in Int /\ SumOf(g) <= SumOf(f)
<1> DEFINE told(k) == SumOf(First(g, k))
           all(m) == SumOf(First(f, m))
           Upto(k, m) == \A i \in 1..k : g[i] # 0 => at[i] <= m
           T == {k \in Nat : k <= n => \A m \in 0..w : Upto(k, m) => told(k) <= all(m)}
<1>1. /\ f \in [1..w -> Nat] /\ DOMAIN g = 1..n /\ g = [i \in 1..n |-> g[i]]
      /\ \A i \in 1..n : g[i] = 0 \/ (at[i] \in 1..w /\ g[i] = f[at[i]])
      /\ \A k \in 1..n : \A i \in 1..(k - 1) : g[i] # 0 /\ g[k] # 0 => at[i] < at[k]
  BY DEF Picked
<1>2. \A i \in 1..n : g[i] \in Nat
  BY <1>1
<1>3. g \in [1..n -> Nat] /\ g \in [1..n -> Int] /\ f \in [1..w -> Int]
  BY <1>1, <1>2
<1>5. /\ told(0) = 0 /\ told(n) = SumOf(g)
      /\ \A i \in 0..n : told(i) \in Int
      /\ \A i \in 0..(n - 1) : told(i + 1) = told(i) + g[i + 1]
  BY <1>3, SumOfFirst
<1>6. /\ all(0) = 0 /\ all(w) = SumOf(f)
      /\ \A i \in 0..w : all(i) \in Int
      /\ \A i \in 0..(w - 1) : all(i + 1) = all(i) + f[i + 1]
  BY <1>3, SumOfFirst
<1>7. \A k \in 0..w : \A m \in k..w : all(k) <= all(m)
  BY <1>1, FewerIsLess
<1> HIDE DEF told, all
<1>8. 0 \in T
  <2>1. ASSUME NEW m \in 0..w PROVE told(0) <= all(m)
    <3>1. 0 \in 0..w /\ m \in 0..w
      OBVIOUS
    <3> QED
      BY <1>5, <1>6, <1>7, <3>1
  <2> QED
    BY <2>1
<1>9. ASSUME NEW k \in T PROVE k + 1 \in T
  <2>1. SUFFICES ASSUME k + 1 <= n, NEW m \in 0..w, Upto(k + 1, m)
                 PROVE  told(k + 1) <= all(m)
    OBVIOUS
  <2>2. /\ k \in 0..(n - 1) /\ k \in 0..n /\ k + 1 \in 1..n /\ (k + 1) - 1 = k
        /\ \A i \in 1..k : i \in 1..(k + 1) /\ i \in 1..n
        /\ k + 1 \in 1..(k + 1)
    BY <2>1
  <2>3. told(k + 1) = told(k) + g[k + 1] /\ told(k) \in Int
    BY <1>5, <2>2
  <2>4. \A d \in 0..w : Upto(k, d) => told(k) <= all(d)
    BY <2>2
  <2>5. CASE g[k + 1] = 0
    <3>1. Upto(k, m)
      BY <2>1, <2>2
    <3> QED
      BY <2>3, <2>4, <2>5, <3>1
  <2>6. CASE g[k + 1] # 0
    <3> DEFINE j == at[k + 1]
    <3>1. j \in 1..w /\ j <= m /\ g[k + 1] = f[j]
      BY <1>1, <2>1, <2>2, <2>6
    <3>2. \A i \in 1..k : g[i] # 0 => at[i] < j /\ at[i] \in 1..w
      BY <1>1, <2>2, <2>6
    <3> HIDE DEF j
    <3>3. j - 1 \in 0..(w - 1) /\ j - 1 \in 0..w /\ (j - 1) + 1 = j /\ m \in j..w /\ j \in 0..w
      BY <3>1
    <3>4. Upto(k, j - 1)
      BY <3>1, <3>2
    <3>5. told(k) <= all(j - 1)
      BY <2>4, <3>3, <3>4
    <3>6. all(j) = all(j - 1) + f[j] /\ all(j - 1) \in Int
      BY <1>6, <3>3
    <3>7. f[j] \in Nat /\ all(j) <= all(m) /\ all(m) \in Int /\ all(j) \in Int
      BY <1>1, <1>6, <1>7, <3>1, <3>3
    <3> QED
      BY <2>3, <3>1, <3>5, <3>6, <3>7
  <2> QED
    BY <2>5, <2>6
<1>10. T \in SUBSET Nat
  OBVIOUS
<1>11. Upto(n, w)
  BY <1>1
<1> HIDE DEF T, Upto
<1>12. n \in T
  BY <1>8, <1>9, <1>10, Adding!Induction
<1>13. n \in 0..n /\ w \in 0..w /\ n <= n
  OBVIOUS
<1>14. told(n) <= all(w)
  BY <1>11, <1>12, <1>13 DEF T
<1> QED
  BY <1>3, <1>5, <1>6, <1>13, <1>14

-----------------------------------------------------------------------------
(* The slot that lies k places after a slot h of a ring of n slots.        *)
LEMMA SlotAfter ==
    ASSUME NEW n \in Nat \ {0}, NEW h \in 0..(n - 1), NEW k \in 0..n
    PROVE  /\ (h + k) % n \in 0..(n - 1)
           /\ (h + k) % n = IF h + k < n THEN h + k ELSE h + k - n
<1>1. \A a \in 0..(n - 1) : a % n = a
  BY Z3
<1>2. \A a \in n..(2 * n - 1) : a % n = a - n
  BY Z3
<1> QED
  BY <1>1, <1>2

(* A ring of n slots that holds c elements from slot h on, after it has    *)
(* given up p of them at its head and taken x at its tail: its i-th.       *)
Pushed(n, ring, h, c, p, x, i) ==
    LET h2 == (h + p) % n
        ring2 == [ring EXCEPT ![(h2 + (c - p)) % n] = x]
    IN  /\ h2 \in 0..(n - 1)
        /\ (h2 + (c - p)) % n \in 0..(n - 1)
        /\ ring2[(h2 + i - 1) % n] = IF i = c - p + 1 THEN x ELSE ring[(h + (p + i) - 1) % n]

(* Those that stay keep their order, and the new one comes last.           *)
LEMMA RingPush ==
    ASSUME NEW n \in Nat \ {0}, NEW ring, DOMAIN ring = 0..(n - 1),
           NEW h \in 0..(n - 1), NEW c \in 0..n, NEW p \in 0..c, c - p < n, NEW x,
           NEW i \in 1..(c - p + 1)
    PROVE  Pushed(n, ring, h, c, p, x, i)
<1> DEFINE h2 == (h + p) % n
           ring2 == [ring EXCEPT ![(h2 + (c - p)) % n] = x]
<1> SUFFICES /\ h2 \in 0..(n - 1)
             /\ (h2 + (c - p)) % n \in 0..(n - 1)
             /\ ring2[(h2 + i - 1) % n] = IF i = c - p + 1 THEN x ELSE ring[(h + (p + i) - 1) % n]
  BY DEF Pushed
<1>0. p \in 0..n /\ c - p \in 0..n
  OBVIOUS
<1>1. h2 \in 0..(n - 1) /\ h2 = IF h + p < n THEN h + p ELSE h + p - n
  BY <1>0, SlotAfter
<1> DEFINE last == (h2 + (c - p)) % n
           slot == (h2 + (i - 1)) % n
<1>2. last \in 0..(n - 1) /\ last = IF h2 + (c - p) < n THEN h2 + (c - p) ELSE h2 + (c - p) - n
  BY <1>0, <1>1, SlotAfter
<1>3. i - 1 \in 0..n
  OBVIOUS
<1>4. slot \in 0..(n - 1) /\ slot = IF h2 + (i - 1) < n THEN h2 + (i - 1) ELSE h2 + (i - 1) - n
  BY <1>1, <1>3, SlotAfter
<1>5. h2 + i - 1 = h2 + (i - 1)
  BY <1>1
<1>6. CASE i = c - p + 1
  <2>1. slot = last
    BY <1>6
  <2> QED
    BY <1>1, <1>2, <1>5, <1>6, <2>1
<1>7. CASE i # c - p + 1
  <2>1. slot # last
    <3> HIDE DEF h2, ring2, slot, last
    <3> QED
      BY <1>1, <1>2, <1>4, <1>7
  <2> DEFINE old == (h + (p + i - 1)) % n
  <2>2. p + i - 1 \in 0..n
    OBVIOUS
  <2>3. old = IF h + (p + i - 1) < n THEN h + (p + i - 1) ELSE h + (p + i - 1) - n
    BY <2>2, SlotAfter
  <2> HIDE DEF slot, last, old
  <2>4. slot = old
    BY <1>1, <1>4, <2>2, <2>3
  <2>5. h + (p + i) - 1 = h + (p + i - 1)
    OBVIOUS
  <2>6. ring2[slot] = ring[slot]
    BY <1>2, <1>4, <2>1 DEF last
  <2> QED
    BY <1>1, <1>2, <1>5, <1>7, <2>4, <2>5, <2>6 DEF last, slot, old
<1> QED
  BY <1>6, <1>7

-----------------------------------------------------------------------------
(* The packet window keeps all its promises.  It needs them together: what *)
(* is subtracted from the aggregates is what was once added to them only   *)
(* because the records in the ring are the latest ones that arrived.       *)
WindowInv ==
    /\ TypeOK
    /\ LatestKept
    /\ AggregatesExact
    /\ RecentKept

(* What the assumptions say of the window.                                 *)
LEMMA WindowConstants ==
    PacketWindowAssumption =>
    /\ Capacity \in Nat \ {0} /\ Seconds \in Nat
    /\ MaxTime \in Nat /\ Modulus \in Nat \ {0} /\ Capacity < Modulus
    /\ Sizes \subseteq Nat
    /\ \A s \in Sizes : Capacity * s < Modulus
BY DEF PacketWindowAssumption

(* The i-th record of the window, oldest first.                            *)
LEMMA LiveIs ==
    ASSUME TypeOK
    PROVE  /\ DOMAIN Live = 1..count /\ Len(Live) = count
           /\ \A i \in 1..count : Live[i] = records[(head + i - 1) % Capacity]
BY DEF Live, TypeOK

(* The records in the window are records of packets that arrived.          *)
LEMMA LiveType ==
    ASSUME PacketWindowAssumption, TypeOK, LatestKept
    PROVE  /\ Live \in Seq(Record) /\ count <= Len(arrived)
           /\ \A i \in 1..count : /\ Live[i] = arrived[Len(arrived) - count + i]
                                  /\ Live[i] \in Record
<1>1. count \in Nat /\ count <= Len(arrived) /\ arrived \in Seq(Record)
  BY WindowConstants DEF TypeOK, LatestKept
<1>2. Live = SubSeq(arrived, Len(arrived) - count + 1, Len(arrived))
  BY DEF LatestKept, Newest
<1>3. /\ Len(arrived) - count \in 0..Len(arrived)
      /\ Len(arrived) - (Len(arrived) - count) = count
  BY <1>1
<1>4. Live \in Seq(Record) /\ Len(Live) = count
  BY <1>1, <1>2, <1>3, Parts
<1>5. \A i \in 1..count : Live[i] = arrived[Len(arrived) - count + i]
  BY <1>1, <1>2, <1>3, Parts
<1> QED
  BY <1>1, <1>4, <1>5

(* An eviction finds the prefix it is to throw out.                        *)
LEMMA ExpiredPrefixIs ==
    ASSUME PacketWindowAssumption, TypeOK, NEW now
    PROVE  LET k == ExpiredPrefix(now)
           IN  /\ k \in 0..count
               /\ \A i \in 1..k : Expired(Live[i].ts, now)
               /\ k < count => ~Expired(Live[k + 1].ts, now)
<1> DEFINE gone(i) == Expired(Live[i].ts, now)
           right(k) == (\A i \in 1..k : gone(i)) /\ (k < count => ~gone(k + 1))
           T == {k \in Nat : k <= count => (\A i \in 1..k : gone(i)) \/ \E j \in 0..count : right(j)}
<1>0. count \in Nat
  BY WindowConstants DEF TypeOK
<1>1. 0 \in T
  OBVIOUS
<1>2. ASSUME NEW k \in T PROVE k + 1 \in T
  <2>1. SUFFICES ASSUME k + 1 <= count, \A i \in 1..k : gone(i)
                 PROVE  (\A i \in 1..(k + 1) : gone(i)) \/ \E j \in 0..count : right(j)
    BY <1>0
  <2>2. CASE gone(k + 1)
    BY <2>1, <2>2
  <2>3. CASE ~gone(k + 1)
    <3>1. right(k) /\ k \in 0..count
      BY <1>0, <2>1, <2>3
    <3> QED
      BY <3>1
  <2> QED
    BY <2>2, <2>3
<1>3. T \in SUBSET Nat
  OBVIOUS
<1>4. count \in T => \E j \in 0..count : right(j)
  <2>1. (\A i \in 1..count : gone(i)) => right(count) /\ count \in 0..count
    BY <1>0
  <2> QED
    BY <1>0, <2>1
<1> HIDE DEF T
<1>5. \A k \in Nat : k \in T
  BY <1>1, <1>2, <1>3, Adding!Induction
<1>6. \E j \in 0..count : right(j)
  BY <1>0, <1>4, <1>5
<1> QED
  BY <1>6 DEF ExpiredPrefix

(* What a packet throws out: an expired prefix, or one record to make room.*)
LEMMA PoppedIs ==
    ASSUME PacketWindowAssumption, TypeOK, NEW now
    PROVE  LET k == ExpiredPrefix(now)
               p == Popped(now)
           IN  /\ k \in 0..count /\ p \in 0..count /\ count - p < Capacity
               /\ p = k \/ (p = 1 /\ k = 0 /\ count = Capacity)
               /\ \A i \in 1..k : Expired(Live[i].ts, now)
               /\ k < count => ~Expired(Live[k + 1].ts, now)
BY ExpiredPrefixIs, WindowConstants DEF Popped, Saturated, TypeOK

(* After a packet, the window is what stayed of it and that packet.        *)
LEMMA PushLive ==
    ASSUME PacketWindowAssumption, TypeOK, LatestKept, NEW packet \in Packet,
           NEW now \in 0..MaxTime, Push(packet, now)
    PROVE  LET p == Popped(now)
               rec == [ts |-> now, size |-> packet.size, protocol |-> packet.protocol]
           IN  /\ rec \in Record
               /\ records' \in [0..(Capacity - 1) -> Record \cup {NoRecord}]
               /\ head' \in 0..(Capacity - 1)
               /\ count' = count - p + 1 /\ count' \in 1..Capacity
               /\ arrived' = Append(arrived, rec) /\ arrived' \in Seq(Record)
               /\ Live' = Append(SubSeq(Live, p + 1, count), rec)
               /\ LatestKept'
<1> DEFINE n == Capacity
           p == Popped(now)
           rec == [ts |-> now, size |-> packet.size, protocol |-> packet.protocol]
<1>1. n \in Nat \ {0} /\ head \in 0..(n - 1) /\ count \in 0..n /\ p \in 0..count /\ count - p < n
  BY PoppedIs, WindowConstants DEF TypeOK
<1>2. /\ head' = (head + p) % n /\ count' = (count - p) + 1
      /\ records' = [records EXCEPT ![(head' + (count - p)) % n] = rec]
      /\ arrived' = Append(arrived, rec)
  BY DEF Push, Advanced
<1>3. rec \in Record
  BY DEF Packet, Record
<1>4. records \in [0..(n - 1) -> Record \cup {NoRecord}]
  BY DEF TypeOK
<1> HIDE DEF n, p, rec
<1>5. count' \in 1..n /\ count' = count - p + 1
  BY <1>1, <1>2
<1>6. /\ head' \in 0..(n - 1)
      /\ (head' + (count - p)) % n \in 0..(n - 1)
      /\ \A i \in 1..(count - p + 1) :
            records'[(head' + i - 1) % n] =
               IF i = count - p + 1 THEN rec ELSE records[(head + (p + i) - 1) % n]
  <2>1. 1 \in 1..(count - p + 1)
    BY <1>1
  <2>2. ASSUME NEW i \in 1..(count - p + 1)
        PROVE  /\ head' \in 0..(n - 1)
               /\ (head' + (count - p)) % n \in 0..(n - 1)
               /\ records'[(head' + i - 1) % n] =
                     IF i = count - p + 1 THEN rec ELSE records[(head + (p + i) - 1) % n]
    <3>1. DOMAIN records = 0..(n - 1)
      BY <1>4
    <3>2. Pushed(n, records, head, count, p, rec, i)
      BY <1>1, <3>1, RingPush
    <3> QED
      BY <1>2, <3>2, Zenon DEF Pushed
  <2> QED
    BY <2>1, <2>2
<1>7. records' \in [0..(n - 1) -> Record \cup {NoRecord}]
  BY <1>2, <1>3, <1>4, <1>6
<1>8. Live \in Seq(Record) /\ Len(Live) = count /\ count <= Len(arrived)
  BY LiveType, LiveIs
<1>9. Live' = Append(SubSeq(Live, p + 1, count), rec)
  <2> DEFINE t == Append(SubSeq(Live, p + 1, count), rec)
  <2>1. /\ SubSeq(Live, p + 1, count) \in Seq(Record)
        /\ Len(SubSeq(Live, p + 1, count)) = count - p
        /\ \A i \in 1..(count - p) : SubSeq(Live, p + 1, count)[i] = Live[p + i]
    BY <1>1, <1>8, Parts
  <2>2. /\ t \in Seq(Record) /\ Len(t) = count - p + 1 /\ t[count - p + 1] = rec
        /\ \A i \in 1..(count - p) : t[i] = Live[p + i]
    BY <1>1, <1>3, <2>1
  <2>3. Live' = [i \in 1..(count - p + 1) |-> records'[(head' + i - 1) % n]]
    BY <1>5 DEF Live, n
  <2>4. ASSUME NEW i \in 1..(count - p + 1) PROVE records'[(head' + i - 1) % n] = t[i]
    <3>1. CASE i = count - p + 1
      BY <1>6, <2>2, <3>1
    <3>2. CASE i # count - p + 1
      <4>1. i \in 1..(count - p) /\ p + i \in 1..count
        BY <1>1, <3>2
      <4>2. Live[p + i] = records[(head + (p + i) - 1) % n]
        BY <4>1, LiveIs DEF n
      <4> QED
        BY <1>6, <2>2, <3>2, <4>1, <4>2
    <3> QED
      BY <3>1, <3>2
  <2>5. t = [i \in 1..(count - p + 1) |-> t[i]]
    BY <2>2
  <2> HIDE DEF t
  <2> QED
    BY <2>3, <2>4, <2>5 DEF t
<1>10. arrived' \in Seq(Record) /\ Len(arrived') = Len(arrived) + 1
  BY <1>2, <1>3 DEF TypeOK
<1>11. LatestKept'
  <2> DEFINE a == Len(arrived)
  <2>1. arrived \in Seq(Record) /\ a \in Nat
    BY DEF TypeOK
  <2>2. Live = SubSeq(arrived, a - count + 1, a)
    BY DEF LatestKept, Newest
  <2> DEFINE j == a - count + p
  <2>3. SubSeq(Live, p + 1, count) = SubSeq(arrived, j + 1, a)
    BY <1>1, <1>8, <2>1, <2>2
  <2>4. j \in 0..a /\ a \in 0..(Len(arrived') - 1) /\ j + 1 = (a + 1) - count' + 1
    BY <1>1, <1>5, <1>8, <1>10, <2>1
  <2>5. SubSeq(arrived', j + 1, a + 1) = Append(SubSeq(arrived', j + 1, a), arrived'[a + 1])
    BY <1>10, <2>4, PartGrows
  <2>6. SubSeq(arrived', j + 1, a) = SubSeq(arrived, j + 1, a) /\ arrived'[a + 1] = rec
    <3>1. a \in 0..Len(arrived) /\ j \in 0..a
      BY <2>1, <2>4
    <3> HIDE DEF j
    <3> QED
      BY <1>2, <1>3, <2>1, <3>1, PartOfAppend
  <2>7. Live' = SubSeq(arrived', j + 1, a + 1)
    BY <1>9, <2>3, <2>5, <2>6
  <2>8. count' <= Len(arrived')
    BY <1>1, <1>5, <1>8, <1>10, <2>1
  <2> HIDE DEF a, j
  <2>9. Live' = SubSeq(arrived', Len(arrived') - count' + 1, Len(arrived'))
    BY <1>10, <2>4, <2>7 DEF a
  <2> QED
    BY <2>8, <2>9 DEF LatestKept, Newest
<1> QED
  BY <1>2, <1>3, <1>5, <1>6, <1>7, <1>9, <1>10, <1>11 DEF n, p, rec

-----------------------------------------------------------------------------
(* What the records of a sequence add to an aggregate.                     *)
Shares(c, recs) == [i \in DOMAIN recs |-> Share(recs[i], c)]

(* A share is a natural number of which the ring holds as many as it likes.*)
LEMMA ShareIs ==
    ASSUME PacketWindowAssumption, NEW rec \in Record, NEW c \in Counters
    PROVE  Share(rec, c) \in Nat /\ Capacity * Share(rec, c) < Modulus
<1>1. Capacity * 0 < Modulus /\ Capacity * 1 < Modulus
  BY WindowConstants
<1>2. rec.size \in Nat /\ Capacity * rec.size < Modulus /\ rec.protocol \in {"tcp", "udp"}
  BY WindowConstants DEF Record, Protocols
<1>3. Share(rec, c) \in {0, 1, rec.size}
  BY <1>2 DEF Share, Counters
<1> QED
  BY <1>1, <1>2, <1>3

(* The shares of a part, and of one record more.                           *)
LEMMA SharesAre ==
    ASSUME PacketWindowAssumption, NEW recs \in Seq(Record), NEW c \in Counters
    PROVE  /\ Shares(c, recs) \in Seq(Nat) /\ Len(Shares(c, recs)) = Len(recs)
           /\ \A i \in 1..Len(recs) : Shares(c, recs)[i] = Share(recs[i], c)
           /\ \A j, k \in 0..Len(recs) :
                 j <= k => Shares(c, SubSeq(recs, j + 1, k)) = SubSeq(Shares(c, recs), j + 1, k)
           /\ \A rec \in Record :
                 Shares(c, Append(recs, rec)) = Append(Shares(c, recs), Share(rec, c))
<1> DEFINE share(rec) == Share(rec, c)
<1>1. \A rec \in Record : share(rec) \in Nat
  BY ShareIs
<1>2. \A q : Shares(c, q) = [i \in DOMAIN q |-> share(q[i])]
  BY DEF Shares
<1> HIDE DEF share
<1>3. /\ Shares(c, recs) \in Seq(Nat) /\ Len(Shares(c, recs)) = Len(recs)
      /\ \A i \in 1..Len(recs) : Shares(c, recs)[i] = share(recs[i])
  BY <1>1, <1>2
<1>4. ASSUME NEW j \in 0..Len(recs), NEW k \in 0..Len(recs), j <= k
      PROVE  Shares(c, SubSeq(recs, j + 1, k)) = SubSeq(Shares(c, recs), j + 1, k)
  <2> DEFINE q == SubSeq(recs, j + 1, k)
             w == SubSeq(Shares(c, recs), j + 1, k)
  <2>1. q \in Seq(Record) /\ Len(q) = k - j /\ \A i \in 1..(k - j) : q[i] = recs[j + i]
    BY <1>4
  <2>2. w \in Seq(Nat) /\ Len(w) = k - j /\ \A i \in 1..(k - j) : w[i] = Shares(c, recs)[j + i]
    BY <1>3, <1>4
  <2>a. DOMAIN q = 1..(k - j)
    BY <1>4, <2>1
  <2> HIDE DEF q
  <2>3. Shares(c, q) = [i \in 1..(k - j) |-> share(q[i])]
    BY <1>2, <2>a
  <2>4. \A i \in 1..(k - j) : share(q[i]) = w[i]
    BY <1>3, <1>4, <2>1, <2>2
  <2>5. w = [i \in 1..(k - j) |-> w[i]]
    BY <2>2
  <2> HIDE DEF w
  <2>6. Shares(c, q) = w
    BY <2>3, <2>4, <2>5
  <2> QED
    BY <2>6 DEF q, w
<1>5. ASSUME NEW rec \in Record
      PROVE  Shares(c, Append(recs, rec)) = Append(Shares(c, recs), share(rec))
  <2> DEFINE q == Append(recs, rec)
             w == Append(Shares(c, recs), share(rec))
             n == Len(recs) + 1
  <2>1. q \in Seq(Record) /\ Len(q) = n /\ q[n] = rec
        /\ \A i \in 1..Len(recs) : q[i] = recs[i]
    OBVIOUS
  <2>2. w \in Seq(Nat) /\ Len(w) = n /\ w[n] = share(rec)
        /\ \A i \in 1..Len(recs) : w[i] = Shares(c, recs)[i]
    BY <1>1, <1>3
  <2>4. DOMAIN q = 1..n /\ \A i \in 1..n : i \in 1..Len(recs) \/ i = n
    BY <2>1
  <2> HIDE DEF q, n
  <2>3. Shares(c, q) = [i \in 1..n |-> share(q[i])]
    BY <1>2, <2>4
  <2>5. \A i \in 1..n : share(q[i]) = w[i]
    BY <1>3, <2>1, <2>2, <2>4
  <2> HIDE DEF w
  <2>6. w = [i \in 1..n |-> w[i]]
    BY <2>2 DEF n
  <2>7. Shares(c, q) = w
    BY <2>3, <2>5, <2>6
  <2> QED
    BY <2>7 DEF q, w
<1> QED
  BY <1>3, <1>4, <1>5 DEF share

(* The window's aggregate of some records is the sum of their shares.      *)
LEMMA WindowSum ==
    ASSUME NEW c, NEW recs
    PROVE  Sum(c, recs) = SumOf(Shares(c, recs))
BY DEF Sum, Shares

(* So it is in the next state.                                             *)
LEMMA WindowSumNext ==
    \A c : Sum(c, Live)' = SumOf(Shares(c, Live'))
BY DEF Sum, Shares

(* A sum of at most n numbers of which n fit below a modulus fits, too.    *)
LEMMA SumFits ==
    ASSUME NEW s \in Seq(Nat), NEW n \in Nat, Len(s) <= n, NEW m \in Nat \ {0},
           \A i \in 1..Len(s) : n * s[i] < m
    PROVE  SumOf(s) \in 0..(m - 1)
<1>0. s \in Seq(Int) /\ Len(s) \in Nat /\ \A i \in 1..Len(s) : s[i] \in Nat
  OBVIOUS
<1> DEFINE T == {k \in Nat : k + 1 <= Len(s) =>
                     \E g \in 1..(k + 1) : \A i \in 1..(k + 1) : s[i] <= s[g]}
<1>1. 0 \in T
  BY <1>0
<1>2. ASSUME NEW k \in T PROVE k + 1 \in T
  <2>1. SUFFICES ASSUME k + 2 <= Len(s)
                 PROVE  \E g \in 1..(k + 2) : \A i \in 1..(k + 2) : s[i] <= s[g]
    OBVIOUS
  <2>2. PICK g \in 1..(k + 1) : \A i \in 1..(k + 1) : s[i] <= s[g]
    BY <2>1
  <2>3. s[g] \in Nat /\ s[k + 2] \in Nat /\ g \in 1..(k + 2) /\ k + 2 \in 1..(k + 2)
        /\ \A i \in 1..(k + 1) : s[i] \in Nat
    BY <1>0, <2>1
  <2>4. \A i \in 1..(k + 2) : i \in 1..(k + 1) \/ i = k + 2
    OBVIOUS
  <2>5. CASE s[k + 2] <= s[g]
    BY <2>2, <2>3, <2>4, <2>5
  <2>6. CASE ~(s[k + 2] <= s[g])
    <3>1. \A i \in 1..(k + 2) : s[i] <= s[k + 2]
      BY <2>2, <2>3, <2>4, <2>6
    <3> QED
      BY <2>3, <3>1
  <2> QED
    BY <2>5, <2>6
<1>3. T \in SUBSET Nat
  OBVIOUS
<1> HIDE DEF T
<1>4. \A k \in Nat : k \in T
  BY <1>1, <1>2, <1>3, Adding!Induction
<1>5. CASE Len(s) = 0
  <2>1. s = <<>>
    BY <1>5
  <2> QED
    BY <2>1, SumOfNothing
<1>6. CASE Len(s) # 0
  <2>1. Len(s) - 1 \in T /\ (Len(s) - 1) + 1 = Len(s)
    BY <1>0, <1>4, <1>6
  <2>2. PICK g \in 1..Len(s) : \A i \in 1..Len(s) : s[i] <= s[g]
    BY <1>0, <2>1 DEF T
  <2>3. s[g] \in Nat /\ n * s[g] < m
    BY <1>0
  <2>4. SumOf(s) \in Int /\ Len(s) * 0 <= SumOf(s) /\ SumOf(s) <= Len(s) * s[g]
    <3>1. \A i \in 1..Len(s) : 0 <= s[i] /\ s[i] <= s[g]
      BY <1>0, <2>2
    <3>2. 0 \in Int /\ s[g] \in Int
      BY <2>3
    <3> QED
      BY <1>0, <3>1, <3>2, SumBounds, Zenon
  <2>5. Len(s) * s[g] <= n * s[g]
    <3>1. \A a, b, x \in Nat : a <= b => a * x <= b * x
      BY Z3
    <3> QED
      BY <1>0, <2>3, <3>1
  <2>6. Len(s) * s[g] \in Nat /\ n * s[g] \in Nat /\ Len(s) * 0 = 0
    BY <1>0, <2>3
  <2> QED
    BY <2>3, <2>4, <2>5, <2>6
<1> QED
  BY <1>5, <1>6

-----------------------------------------------------------------------------
(* One record added to an aggregate, or subtracted from it as an unsigned  *)
(* number that wraps around, is just that as long as it stays in range.    *)
LEMMA Added ==
    ASSUME NEW m \in Nat \ {0}, NEW a \in 0..(m - 1), NEW x \in Nat, a + x < m
    PROVE  (a + ((1 * x) % m)) % m = a + x
<1>1. \A b \in 0..(m - 1) : b % m = b
  BY Z3
<1>2. 1 * x = x /\ x \in 0..(m - 1) /\ a + x \in 0..(m - 1)
  OBVIOUS
<1> QED
  BY <1>1, <1>2

(* Taken from an aggregate, it is what was added before.                   *)
LEMMA Subtracted ==
    ASSUME NEW m \in Nat \ {0}, NEW a \in 0..(m - 1), NEW x \in 0..a
    PROVE  (a + (((-1) * x) % m)) % m = a - x
<1>1. \A b \in 0..(m - 1) : b % m = b
  BY Z3
<1>2. \A b \in m..(2 * m - 1) : b % m = b - m
  BY Z3
<1>3. \A b \in 1..(m - 1) : (-b) % m = m - b
  BY Z3
<1>4. (-1) * x = -x /\ x \in 0..(m - 1)
  OBVIOUS
<1>5. CASE x = 0
  <2>1. 0 \in 0..(m - 1) /\ a + 0 = a /\ a - 0 = a
    OBVIOUS
  <2>2. (-1) * x = 0
    BY <1>5
  <2> QED
    BY <1>1, <1>5, <2>1, <2>2
<1>6. CASE x # 0
  <2>1. (-x) % m = m - x
    BY <1>3, <1>4, <1>6
  <2>2. a + (m - x) \in m..(2 * m - 1) /\ (a + (m - x)) - m = a - x
    BY <1>6
  <2> QED
    BY <1>2, <1>4, <2>1, <2>2
<1> QED
  BY <1>5, <1>6

(* The records that leave take exactly their shares out of the aggregates. *)
LEMMA TakenSum ==
    ASSUME PacketWindowAssumption, NEW t \in [Counters -> 0..(Modulus - 1)], NEW recs \in Seq(Record),
           \A c \in Counters : SumOf(Shares(c, recs)) <= t[c]
    PROVE  Taking!FoldLeft(TakenOut, t, recs) =
               [c \in Counters |-> t[c] - SumOf(Shares(c, recs))]
<1> DEFINE part(k) == SubSeq(recs, 1, k)
           sum(c, k) == SumOf(Shares(c, part(k)))
           left(k) == [c \in Counters |-> t[c] - sum(c, k)]
           T == {k \in Nat : k <= Len(recs) => Taking!FoldLeft(TakenOut, t, part(k)) = left(k)}
<1>0. Len(recs) \in Nat
  OBVIOUS
<1>a. ASSUME NEW k \in 0..Len(recs)
      PROVE  part(k) \in Seq(Record)
  OBVIOUS
<1>b. ASSUME NEW c \in Counters
      PROVE  /\ sum(c, 0) = 0
             /\ sum(c, Len(recs)) = SumOf(Shares(c, recs))
             /\ \A k \in 0..Len(recs) : sum(c, k) \in Nat /\ sum(c, k) <= t[c]
             /\ \A k \in 0..(Len(recs) - 1) :
                   sum(c, k + 1) = sum(c, k) + Share(recs[k + 1], c)
  <2>1. /\ Shares(c, recs) \in Seq(Nat) /\ Len(Shares(c, recs)) = Len(recs)
        /\ \A i \in 1..Len(recs) : Shares(c, recs)[i] = Share(recs[i], c)
    BY SharesAre
  <2>2. ASSUME NEW k \in 0..Len(recs)
        PROVE  Shares(c, part(k)) = SubSeq(Shares(c, recs), 1, k)
    <3>1. 0 \in 0..Len(recs) /\ 0 <= k /\ 0 + 1 = 1
      BY <1>0
    <3> QED
      BY <3>1, SharesAre
  <2> DEFINE s == Shares(c, recs)
  <2>3. s \in Seq(Nat) /\ s \in Seq(Int) /\ Len(s) = Len(recs)
    BY <2>1
  <2>4. SubSeq(s, 1, 0) = <<>> /\ SubSeq(s, 1, Len(s)) = s
    BY <2>3, PartsEnd
  <2> HIDE DEF s, part
  <2>5. sum(c, 0) = 0 /\ sum(c, Len(recs)) = SumOf(s)
    <3>1. 0 \in 0..Len(recs) /\ Len(recs) \in 0..Len(recs)
      BY <1>0
    <3> QED
      BY <2>2, <2>3, <2>4, <3>1, SumOfNothing DEF s
  <2>6. \A k \in 0..Len(recs) : sum(c, k) \in Nat /\ sum(c, k) <= SumOf(s)
    <3> SUFFICES ASSUME NEW k \in 0..Len(recs) PROVE sum(c, k) \in Nat /\ sum(c, k) <= SumOf(s)
      OBVIOUS
    <3> DEFINE a == SubSeq(s, 1, k)
               b == SubSeq(s, k + 1, Len(s))
    <3>1. a \in Seq(Nat) /\ b \in Seq(Nat)
      BY <2>3
    <3>2. k \in 0..Len(s)
      BY <2>3
    <3>3. SumOf(s) = SumOf(a) + SumOf(b)
      BY <2>3, <3>2, SumOfParts
    <3>4. ASSUME NEW q \in Seq(Nat) PROVE SumOf(q) \in Nat
      <4>1. q \in Seq(Int) /\ \A i \in 1..Len(q) : q[i] >= 0
        OBVIOUS
      <4>2. SumOf(q) \in Int /\ SumOf(q) >= 0
        BY <4>1, SumType
      <4> QED
        BY <4>2
    <3>5. SumOf(a) \in Nat /\ SumOf(b) \in Nat
      BY <3>1, <3>4
    <3>6. sum(c, k) = SumOf(a)
      BY <2>2 DEF s
    <3> HIDE DEF a, b, sum
    <3> QED
      BY <3>3, <3>5, <3>6
  <2>7. \A k \in 0..(Len(recs) - 1) : sum(c, k + 1) = sum(c, k) + Share(recs[k + 1], c)
    <3> SUFFICES ASSUME NEW k \in 0..(Len(recs) - 1)
                 PROVE  sum(c, k + 1) = sum(c, k) + Share(recs[k + 1], c)
      OBVIOUS
    <3>1. /\ k \in 0..Len(recs) /\ k + 1 \in 0..Len(recs) /\ k + 1 \in 1..Len(recs)
          /\ k \in 0..(Len(s) - 1) /\ 0 \in 0..k /\ 0 + 1 = 1
      BY <1>0, <2>3
    <3>2. SubSeq(s, 1, k + 1) = Append(SubSeq(s, 1, k), s[k + 1])
      <4>1. SubSeq(s, 0 + 1, k + 1) = Append(SubSeq(s, 0 + 1, k), s[k + 1])
        BY <2>3, <3>1, PartGrows
      <4> QED
        BY <3>1, <4>1
    <3>3. SubSeq(s, 1, k) \in Seq(Int) /\ s[k + 1] \in Int
      BY <2>3, <3>1
    <3>4. s[k + 1] = Share(recs[k + 1], c)
      BY <2>1, <3>1 DEF s
    <3>5. SumOf(SubSeq(s, 1, k + 1)) = SumOf(SubSeq(s, 1, k)) + s[k + 1]
      BY <3>2, <3>3, SumOfAppend
    <3> QED
      BY <2>2, <3>1, <3>4, <3>5 DEF s
  <2>8. t[c] \in Nat /\ SumOf(s) <= t[c]
    BY WindowConstants DEF s
  <2>9. SumOf(s) \in Nat
    <3>1. Len(recs) \in 0..Len(recs)
      BY <1>0
    <3> QED
      BY <2>5, <2>6, <3>1
  <2> HIDE DEF sum
  <2>10. \A k \in 0..Len(recs) : sum(c, k) \in Nat /\ sum(c, k) <= t[c]
    BY <2>6, <2>8, <2>9
  <2> QED
    BY <2>5, <2>7, <2>10 DEF s
<1>1. 0 \in T
  <2>1. part(0) = <<>>
    BY PartsEnd
  <2>2. Taking!FoldLeft(TakenOut, t, part(0)) = t
    BY <2>1, Taking!FoldOfNothing
  <2>3. \A c \in Counters : t[c] - sum(c, 0) = t[c]
    BY <1>b, WindowConstants
  <2> HIDE DEF sum, part
  <2>4. left(0) = t
    BY <2>3
  <2> QED
    BY <2>2, <2>4
<1>2. ASSUME NEW k \in T PROVE k + 1 \in T
  <2>1. SUFFICES ASSUME k + 1 <= Len(recs)
                 PROVE  Taking!FoldLeft(TakenOut, t, part(k + 1)) = left(k + 1)
    OBVIOUS
  <2>2. /\ k \in 0..(Len(recs) - 1) /\ k \in 0..Len(recs) /\ k + 1 \in 0..Len(recs)
        /\ recs[k + 1] \in Record /\ 0 \in 0..k /\ 0 + 1 = 1
    BY <1>0, <2>1
  <2>3. Taking!FoldLeft(TakenOut, t, part(k)) = left(k)
    BY <2>2
  <2>4. part(k + 1) = Append(part(k), recs[k + 1])
    BY <2>2, PartGrows
  <2>5. part(k) \in Seq(Record)
    BY <1>a, <2>2
  <2>6. Taking!FoldLeft(TakenOut, t, part(k + 1)) = TakenOut(left(k), recs[k + 1])
    <3> HIDE DEF part, left, T
    <3>1. Taking!FoldLeft(TakenOut, t, Append(part(k), recs[k + 1]))
             = TakenOut(Taking!FoldLeft(TakenOut, t, part(k)), recs[k + 1])
      BY <2>2, <2>5, Taking!FoldOfAppend
    <3> QED
      BY <2>3, <2>4, <3>1
  <2> HIDE DEF part
  <2> HIDE DEF sum
  <2>7. ASSUME NEW c \in Counters
        PROVE  (left(k)[c] + (((-1) * Share(recs[k + 1], c)) % Modulus)) % Modulus
                  = left(k + 1)[c]
    <3> DEFINE x == Share(recs[k + 1], c)
    <3>1. left(k)[c] = t[c] - sum(c, k) /\ left(k + 1)[c] = t[c] - sum(c, k + 1)
      OBVIOUS
    <3>2. sum(c, k + 1) = sum(c, k) + x /\ sum(c, k) \in Nat /\ sum(c, k + 1) <= t[c]
      BY <1>b, <2>2
    <3>3. x \in Nat /\ t[c] \in 0..(Modulus - 1) /\ Modulus \in Nat \ {0}
      BY <2>2, ShareIs, WindowConstants
    <3> DEFINE a == left(k)[c]
    <3> HIDE DEF x, left
    <3>4. a \in 0..(Modulus - 1) /\ x \in 0..a /\ left(k + 1)[c] = a - x
      BY <3>1, <3>2, <3>3
    <3> HIDE DEF a
    <3>5. (a + (((-1) * x) % Modulus)) % Modulus = a - x
      BY <3>3, <3>4, Subtracted
    <3> QED
      BY <3>4, <3>5 DEF a, x
  <2>8. TakenOut(left(k), recs[k + 1]) = [c \in Counters |-> left(k + 1)[c]]
    <3>1. \A u, rec : TakenOut(u, rec) =
             [c \in Counters |->
                 (u[c] + (((-1) * Share(rec, c)) % Modulus)) % Modulus]
      BY Zenon DEF TakenOut, Aggregate
    <3> HIDE DEF left
    <3> QED
      BY <2>7, <3>1
  <2>9. left(k + 1) = [c \in Counters |-> left(k + 1)[c]]
    OBVIOUS
  <2> QED
    BY <2>6, <2>8, <2>9
<1>3. T \in SUBSET Nat
  OBVIOUS
<1> HIDE DEF T
<1>4. \A k \in Nat : k \in T
  BY <1>1, <1>2, <1>3, Taking!Induction
<1>5. Taking!FoldLeft(TakenOut, t, part(Len(recs))) = left(Len(recs)) /\ part(Len(recs)) = recs
  <2>1. part(Len(recs)) = recs
    BY PartsEnd
  <2>2. Len(recs) \in T /\ Len(recs) <= Len(recs)
    BY <1>0, <1>4
  <2> HIDE DEF part, left
  <2> QED
    BY <2>1, <2>2 DEF T
<1> HIDE DEF part, sum
<1>6. left(Len(recs)) = [c \in Counters |-> t[c] - SumOf(Shares(c, recs))]
  BY <1>b
<1> QED
  BY <1>5, <1>6

-----------------------------------------------------------------------------
(* A packet leaves the aggregates exact, and none has borrowed.            *)
LEMMA PushTotals ==
    ASSUME PacketWindowAssumption, WindowInv, NEW packet \in Packet,
           NEW now \in 0..MaxTime, Push(packet, now)
    PROVE  totals' \in [Counters -> 0..(Modulus - 1)] /\ AggregatesExact'
<1> DEFINE p == Popped(now)
           rec == [ts |-> now, size |-> packet.size, protocol |-> packet.protocol]
           out == SubSeq(Live, 1, p)
           stay == SubSeq(Live, p + 1, count)
           rest == Taking!FoldLeft(TakenOut, totals, out)
<1>1. /\ TypeOK /\ LatestKept
      /\ \A c \in Counters : totals[c] = SumOf(Shares(c, Live))
  BY WindowSum DEF WindowInv, AggregatesExact
<1>2. /\ p \in 0..count /\ count \in Nat /\ count - p < Capacity
      /\ Live \in Seq(Record) /\ Len(Live) = count
  BY <1>1, PoppedIs, LiveType, LiveIs, WindowConstants DEF TypeOK
<1>3. rec \in Record /\ Live' = Append(stay, rec)
  BY <1>1, PushLive
<1>4. out \in Seq(Record) /\ stay \in Seq(Record) /\ Len(stay) = count - p
  BY <1>2, Parts
<1>5. totals' = Aggregate(rest, rec, 1)
  BY DEF Push, TakenOut, Taking!FoldLeft, FoldLeft,
         Taking!MapThenFoldSet, MapThenFoldSet, Taking!Max, Max
<1> HIDE DEF p, rec
<1>6. ASSUME NEW c \in Counters
      PROVE  /\ totals[c] = SumOf(Shares(c, out)) + SumOf(Shares(c, stay))
             /\ SumOf(Shares(c, out)) \in Int /\ SumOf(Shares(c, stay)) \in 0..(Modulus - 1)
             /\ SumOf(Shares(c, out)) <= totals[c]
             /\ SumOf(Shares(c, stay)) + Share(rec, c) = SumOf(Shares(c, Live'))
             /\ SumOf(Shares(c, stay)) + Share(rec, c) < Modulus
             /\ Share(rec, c) \in Nat
  <2> DEFINE s == Shares(c, Live)
  <2>1. s \in Seq(Nat) /\ Len(s) = count
    BY <1>2, SharesAre
  <2>2. Shares(c, out) = SubSeq(s, 1, p) /\ Shares(c, stay) = SubSeq(s, p + 1, count)
    <3>1. /\ 0 \in 0..count /\ 0 <= p /\ 0 + 1 = 1 /\ count \in 0..count /\ p <= count
      BY <1>2
    <3> HIDE DEF s
    <3>2. \A j, k \in 0..count :
             j <= k => Shares(c, SubSeq(Live, j + 1, k)) = SubSeq(s, j + 1, k)
      BY <1>2, SharesAre DEF s
    <3>3. Shares(c, SubSeq(Live, 0 + 1, p)) = SubSeq(s, 0 + 1, p)
      BY <1>2, <3>1, <3>2
    <3>4. Shares(c, SubSeq(Live, p + 1, count)) = SubSeq(s, p + 1, count)
      BY <1>2, <3>1, <3>2
    <3> QED
      BY <3>1, <3>3, <3>4
  <2> HIDE DEF s
  <2>3. SumOf(s) = SumOf(Shares(c, out)) + SumOf(Shares(c, stay))
    <3>1. s \in Seq(Int) /\ p \in 0..Len(s)
      BY <1>2, <2>1
    <3>2. SumOf(s) = SumOf(SubSeq(s, 1, p)) + SumOf(SubSeq(s, p + 1, Len(s)))
      BY <3>1, SumOfParts
    <3> QED
      BY <2>1, <2>2, <3>2
  <2> HIDE DEF out, stay
  <2>4. ASSUME NEW q \in Seq(Record), Len(q) <= Capacity
        PROVE  SumOf(Shares(c, q)) \in 0..(Modulus - 1)
    <3>1. Shares(c, q) \in Seq(Nat) /\ Len(Shares(c, q)) <= Capacity
      BY <2>4, SharesAre
    <3>2. \A i \in 1..Len(Shares(c, q)) : Capacity * Shares(c, q)[i] < Modulus
      <4> SUFFICES ASSUME NEW i \in 1..Len(Shares(c, q))
                   PROVE  Capacity * Shares(c, q)[i] < Modulus
        OBVIOUS
      <4>1. i \in 1..Len(q) /\ Shares(c, q)[i] = Share(q[i], c)
        BY SharesAre
      <4>2. q[i] \in Record
        BY <4>1
      <4> QED
        BY <4>1, <4>2, ShareIs
    <3>3. Capacity \in Nat /\ Modulus \in Nat \ {0}
      BY WindowConstants
    <3> QED
      BY <3>1, <3>2, <3>3, SumFits
  <2>5. Append(stay, rec) \in Seq(Record) /\ Len(Append(stay, rec)) = count - p + 1
    BY <1>3, <1>4
  <2>6. SumOf(Shares(c, stay)) \in 0..(Modulus - 1)
    BY <1>2, <1>4, <2>4, WindowConstants
  <2>7. SumOf(Shares(c, Append(stay, rec))) \in 0..(Modulus - 1)
    <3>1. Len(Append(stay, rec)) <= Capacity
      BY <1>2, <2>5, WindowConstants
    <3> QED
      BY <2>4, <2>5, <3>1
  <2>8. Share(rec, c) \in Nat
    BY <1>3, ShareIs
  <2>9. SumOf(Shares(c, Append(stay, rec))) = SumOf(Shares(c, stay)) + Share(rec, c)
    <3>1. Shares(c, stay) \in Seq(Nat)
      BY <1>4, SharesAre
    <3>2. Shares(c, Append(stay, rec)) = Append(Shares(c, stay), Share(rec, c))
      BY <1>3, <1>4, SharesAre
    <3>3. Shares(c, stay) \in Seq(Int)
      BY <3>1
    <3> QED
      BY <2>8, <3>2, <3>3, SumOfAppend
  <2>10. SumOf(Shares(c, out)) \in Int /\ SumOf(Shares(c, out)) >= 0
    <3>1. Shares(c, out) \in Seq(Nat)
      BY <1>4, SharesAre
    <3>2. Shares(c, out) \in Seq(Int) /\ \A i \in 1..Len(Shares(c, out)) : Shares(c, out)[i] >= 0
      BY <3>1
    <3> QED
      BY <3>2, SumType
  <2>11. totals[c] = SumOf(s)
    BY <1>1 DEF s
  <2>12. SumOf(Shares(c, out)) <= totals[c]
    BY <2>3, <2>6, <2>10, <2>11
  <2>13. SumOf(Shares(c, stay)) + Share(rec, c) < Modulus
    BY <2>7, <2>9, WindowConstants
  <2> QED
    BY <1>3, <2>3, <2>6, <2>8, <2>9, <2>10, <2>11, <2>12, <2>13
<1> HIDE DEF out, stay
<1>7. rest = [c \in Counters |-> totals[c] - SumOf(Shares(c, out))]
  <2>1. totals \in [Counters -> 0..(Modulus - 1)]
    BY <1>1 DEF TypeOK
  <2> QED
    BY <1>4, <1>6, <2>1, TakenSum
<1> HIDE DEF rest
<1>8. totals' = [c \in Counters |->
                    (rest[c] + ((1 * Share(rec, c)) % Modulus)) % Modulus]
  BY <1>5, Zenon DEF Aggregate
<1>9. ASSUME NEW c \in Counters
      PROVE  /\ (rest[c] + ((1 * Share(rec, c)) % Modulus)) % Modulus
                   = SumOf(Shares(c, Live'))
             /\ SumOf(Shares(c, Live')) \in 0..(Modulus - 1)
  <2> DEFINE x == Share(rec, c)
             a == SumOf(Shares(c, stay))
  <2>1. rest[c] = a
    BY <1>6, <1>7
  <2>2. /\ a \in 0..(Modulus - 1) /\ x \in Nat /\ a + x < Modulus
        /\ a + x = SumOf(Shares(c, Live'))
    BY <1>6
  <2>3. Modulus \in Nat \ {0}
    BY WindowConstants
  <2> HIDE DEF a, x
  <2>4. (a + ((1 * x) % Modulus)) % Modulus = a + x
    BY <2>2, <2>3, Added
  <2>5. a + x \in 0..(Modulus - 1)
    BY <2>2, <2>3
  <2> QED
    BY <2>1, <2>2, <2>4, <2>5 DEF x
<1>10. totals' \in [Counters -> 0..(Modulus - 1)]
  BY <1>8, <1>9
<1>11. \A c \in Counters : totals'[c] = SumOf(Shares(c, Live'))
  BY <1>8, <1>9
<1>12. \A c \in Counters : Sum(c, Live)' = SumOf(Shares(c, Live'))
  BY WindowSumNext
<1> QED
  BY <1>10, <1>11, <1>12 DEF AggregatesExact

(* What stays of the window when a packet comes begins no earlier than     *)
(* behind a record that has not expired, however the clock was set.        *)
LEMMA OldestKept ==
    ASSUME PacketWindowAssumption, TypeOK, LatestKept, NEW packet,
           NEW now \in 0..MaxTime, Push(packet, now), count' >= 2
    PROVE  \E j \in 1..Len(arrived) :
              j <= Len(arrived) - count' + 2 /\ arrived[j].ts >= now - Seconds
<1> DEFINE p == Popped(now)
           k == ExpiredPrefix(now)
           a == Len(arrived)
           cap == Capacity
           j == a - count + k + 1
<1>1. /\ arrived \in Seq(Record) /\ a \in Nat
      /\ cap \in Nat \ {0} /\ Seconds \in Nat /\ MaxTime \in Nat
      /\ count \in 0..cap
  BY WindowConstants DEF TypeOK
<1>2. /\ k \in 0..count /\ p \in 0..count
      /\ p = k \/ (p = 1 /\ k = 0 /\ count = cap)
      /\ k < count => ~Expired(Live[k + 1].ts, now)
  BY <1>1, PoppedIs
<1>3. count <= a /\ \A i \in 1..count : Live[i] = arrived[a - count + i] /\ Live[i] \in Record
  BY <1>1, LiveType
<1>4. count' = count - p + 1
  BY DEF Push
<1> HIDE DEF p, k, a, cap
<1>5. k < count /\ k + 1 \in 1..count
  BY <1>1, <1>2, <1>4
<1>6. j \in 1..a /\ j <= a - count' + 2 /\ a - count + (k + 1) = j
  BY <1>1, <1>2, <1>3, <1>4, <1>5
<1>7. Live[k + 1] = arrived[j] /\ Live[k + 1].ts \in Nat
  BY <1>1, <1>3, <1>5, <1>6 DEF Record
<1>8. arrived[j].ts >= now - Seconds
  BY <1>1, <1>2, <1>5, <1>7 DEF Expired
<1> QED
  BY <1>6, <1>8 DEF a

(* A packet leaves the window exact.                                       *)
LEMMA PushExact ==
    ASSUME PacketWindowAssumption, WindowInv, NEW packet \in Packet,
           NEW now \in 0..MaxTime, Push(packet, now)
    PROVE  RecentKept'
<1> DEFINE p == Popped(now)
           k == ExpiredPrefix(now)
           a == Len(arrived)
           cap == Capacity
           ts(i) == arrived[i].ts
<1>1. /\ TypeOK /\ LatestKept /\ arrived \in Seq(Record) /\ a \in Nat
      /\ cap \in Nat \ {0} /\ Seconds \in Nat /\ MaxTime \in Nat
      /\ count \in 0..cap
  BY WindowConstants DEF WindowInv, TypeOK
<1>2. /\ k \in 0..count /\ p \in 0..count /\ count - p < cap
      /\ p = k \/ (p = 1 /\ k = 0 /\ count = cap)
      /\ \A i \in 1..k : Expired(Live[i].ts, now)
      /\ k < count => ~Expired(Live[k + 1].ts, now)
  BY <1>1, PoppedIs
<1>3. count <= a /\ \A i \in 1..count : Live[i] = arrived[a - count + i]
  BY <1>1, LiveType
<1>4. \A i \in 1..a : ts(i) \in 0..MaxTime
  <2>1. \A i \in 1..a : arrived[i] \in Record
    BY <1>1
  <2>2. \A rec \in Record : rec.ts \in 0..MaxTime
    BY DEF Record
  <2> QED
    BY <2>1, <2>2
<1>5. /\ count' = count - p + 1 /\ Len(arrived') = a + 1
      /\ arrived'[a + 1].ts = now
      /\ \A i \in 1..a : arrived'[i].ts = ts(i)
  <2> DEFINE rec == [ts |-> now, size |-> packet.size, protocol |-> packet.protocol]
  <2>1. count' = count - p + 1 /\ arrived' = Append(arrived, rec)
    BY <1>1, PushLive
  <2>2. rec.ts = now
    OBVIOUS
  <2> HIDE DEF rec
  <2> QED
    BY <1>1, <2>1, <2>2
<1>6. DOMAIN arrived = 1..a /\ DOMAIN arrived' = 1..(a + 1)
  <2>1. arrived' \in Seq(Record)
    BY <1>1, PushLive
  <2> QED
    BY <1>1, <1>5, <2>1
<1>7. (\A i, j \in 1..a : i < j => ts(i) <= ts(j)) =>
         \A i \in 1..a : i > a - count <=> ts(i) >= ts(a) - Seconds /\ i > a - cap
  BY <1>6 DEF WindowInv, RecentKept, Recent
<1>8. (\A i \in 1..k : ts(a - count + i) < now - Seconds)
      /\ (k < count => ~(ts(a - count + (k + 1)) < now - Seconds))
  <2>1. \A i \in 1..k : i \in 1..count
    BY <1>1, <1>2
  <2>2. k < count => k + 1 \in 1..count
    BY <1>1, <1>2
  <2> QED
    BY <1>2, <1>3, <2>1, <2>2 DEF Expired
<1> HIDE DEF p, k, a, cap
<1>9. SUFFICES ASSUME \A i, j \in 1..(a + 1) : i < j => arrived'[i].ts <= arrived'[j].ts,
                      NEW i \in 1..(a + 1)
               PROVE  i > (a + 1) - count' <=>
                         arrived'[i].ts >= now - Seconds /\ i > (a + 1) - cap
  BY <1>5, <1>6 DEF RecentKept, Recent, cap
<1>10. /\ \A f, g \in 1..a : f < g => ts(f) <= ts(g)
       /\ \A f \in 1..a : ts(f) <= now
  <2>1. ASSUME NEW f \in 1..a, NEW g \in 1..a, f < g PROVE ts(f) <= ts(g)
    <3>1. f \in 1..(a + 1) /\ g \in 1..(a + 1)
      BY <1>1
    <3> QED
      BY <1>5, <1>9, <2>1, <3>1
  <2>2. ASSUME NEW f \in 1..a PROVE ts(f) <= now
    <3>1. f \in 1..(a + 1) /\ a + 1 \in 1..(a + 1) /\ f < a + 1
      BY <1>1
    <3> QED
      BY <1>5, <1>9, <3>1
  <2> QED
    BY <2>1, <2>2
<1>11. CASE i = a + 1
  <2>1. arrived'[i].ts = now
    BY <1>5, <1>11
  <2> QED
    BY <1>1, <1>2, <1>5, <1>11, <2>1
<1>12. CASE i # a + 1
  <2>1. i \in 1..a /\ arrived'[i].ts = ts(i) /\ ts(i) \in Nat
    BY <1>1, <1>4, <1>5, <1>12
  <2>2. (a + 1) - count' = a - count + p
    BY <1>1, <1>2, <1>5
  <2>3. CASE i > a - count + p
    <3>1. k < count /\ a - count + (k + 1) \in 1..a /\ a - count + (k + 1) <= i
      BY <1>1, <1>2, <1>3, <2>1, <2>3
    <3>2. ts(a - count + (k + 1)) >= now - Seconds
      <4>1. ts(a - count + (k + 1)) \in Nat /\ now - Seconds \in Int
        BY <1>1, <1>4, <3>1
      <4> QED
        BY <1>8, <3>1, <4>1
    <3>3. ts(i) >= ts(a - count + (k + 1))
      BY <1>10, <2>1, <3>1
    <3>4. ts(a - count + (k + 1)) \in Nat /\ now - Seconds \in Int
      BY <1>1, <1>4, <3>1
    <3>5. ts(i) >= now - Seconds
      BY <2>1, <3>2, <3>3, <3>4
    <3>6. i > (a + 1) - cap
      BY <1>1, <1>2, <1>3, <2>1, <2>3
    <3> QED
      BY <2>1, <2>2, <2>3, <3>5, <3>6
  <2>4. CASE i <= a - count /\ i > a - cap
    <3>1. ~(ts(i) >= ts(a) - Seconds)
      <4>1. ~(i > a - count)
        BY <1>1, <1>3, <2>1, <2>4
      <4> QED
        BY <1>7, <1>10, <2>1, <2>4, <4>1 DEF cap
    <3>2. a \in 1..a /\ ts(a) <= now /\ ts(a) \in Nat
      BY <1>1, <1>4, <1>10, <2>1
    <3>3. ~(ts(i) >= now - Seconds)
      BY <1>1, <2>1, <3>1, <3>2
    <3> QED
      BY <1>1, <1>2, <1>3, <2>1, <2>2, <2>4, <3>3
  <2>5. CASE i <= a - cap
    <3>1. a \in Nat /\ cap \in Nat /\ count \in 0..cap /\ p \in 0..count /\ i \in Nat
      BY <1>1, <1>2, <2>1
    <3>2. ~(i > a - count + p) /\ ~(i > (a + 1) - cap)
      BY <2>5, <3>1
    <3> QED
      BY <2>2, <3>2
  <2>6. CASE i > a - count /\ i <= a - count + p /\ p = k
    <3>1. i - (a - count) \in 1..k /\ a - count + (i - (a - count)) = i
      <4>1. a \in Nat /\ count \in Nat /\ k \in Nat /\ i \in Nat
        BY <1>1, <1>2, <2>1
      <4>2. i > a - count /\ i <= a - count + k
        BY <2>6
      <4> QED
        BY <4>1, <4>2
    <3>2. ts(i) < now - Seconds
      BY <1>8, <3>1
    <3>3. ~(ts(i) >= now - Seconds)
      BY <1>1, <2>1, <3>2
    <3> QED
      BY <1>1, <1>2, <1>3, <2>1, <2>2, <2>6, <3>3
  <2>7. CASE i > a - count /\ i <= a - count + p /\ p = 1 /\ count = cap
    BY <1>1, <1>2, <1>3, <2>1, <2>2, <2>7
  <2> QED
    BY <1>1, <1>2, <1>3, <2>1, <2>3, <2>4, <2>5, <2>6, <2>7
<1> QED
  BY <1>11, <1>12


-----------------------------------------------------------------------------
(* The window begins empty.                                                *)
LEMMA WindowInitInv ==
    ASSUME PacketWindowAssumption, WindowInit, clock \in 0..MaxTime
    PROVE  WindowInv
<1>1. /\ records = [i \in 0..(Capacity - 1) |-> NoRecord]
      /\ head = 0 /\ count = 0 /\ totals = [c \in Counters |-> 0] /\ arrived = <<>>
  BY DEF WindowInit
<1>2. arrived \in Seq(Record) /\ Len(arrived) = 0 /\ DOMAIN arrived = {}
  BY <1>1
<1>3. TypeOK
  BY <1>1, <1>2, WindowConstants DEF TypeOK
<1>4. Live = <<>>
  BY <1>1 DEF Live
<1>5. LatestKept
  BY <1>1, <1>2, <1>4 DEF LatestKept, Newest
<1>6. AggregatesExact
  <2>1. \A c : Shares(c, <<>>) = <<>>
    BY DEF Shares
  <2>2. \A c : Sum(c, Live) = 0
    BY <1>4, <2>1, SumOfNothing, WindowSum
  <2> QED
    BY <1>1, <2>2 DEF AggregatesExact
<1>7. RecentKept
  BY <1>2 DEF RecentKept
<1> QED
  BY <1>3, <1>5, <1>6, <1>7 DEF WindowInv

(* It does not see a step that only moves the clock.                       *)
LEMMA WindowUnmoved ==
    ASSUME WindowInv, UNCHANGED <<win, arrived>>, clock' \in 0..MaxTime
    PROVE  WindowInv'
<1>1. UNCHANGED <<records, head, count, totals, arrived>>
  BY DEF win
<1>2. TypeOK'
  BY <1>1 DEF WindowInv, TypeOK
<1>3. Live' = Live
  BY <1>1 DEF Live
<1>4. LatestKept'
  BY <1>1, <1>3 DEF WindowInv, LatestKept, Newest
<1>5. AggregatesExact'
  <2>1. \A c \in Counters : totals[c] = SumOf(Shares(c, Live))
    BY WindowSum DEF WindowInv, AggregatesExact
  <2>2. \A c \in Counters : totals'[c] = SumOf(Shares(c, Live'))
    BY <1>1, <1>3, <2>1
  <2> QED
    BY <2>2, WindowSumNext DEF AggregatesExact
<1>6. RecentKept'
  BY <1>1 DEF WindowInv, RecentKept, Recent
<1> QED
  BY <1>2, <1>4, <1>5, <1>6 DEF WindowInv

(* A packet leaves it as it should be, and takes nothing out too early.    *)
LEMMA PushInv ==
    ASSUME PacketWindowAssumption, WindowInv, NEW packet \in Packet,
           Push(packet, clock), UNCHANGED clock
    PROVE  /\ WindowInv'
           /\ LET popped == count + 1 - count'
              IN  \/ \A i \in 1..popped : Live[i].ts < clock - Seconds
                  \/ popped = 1 /\ count = Capacity
<1>1. TypeOK /\ LatestKept /\ clock \in 0..MaxTime
  BY DEF WindowInv, TypeOK
<1>2. /\ records' \in [0..(Capacity - 1) -> Record \cup {NoRecord}]
      /\ head' \in 0..(Capacity - 1) /\ count' \in 1..Capacity
      /\ arrived' \in Seq(Record) /\ LatestKept'
      /\ count' = count - Popped(clock) + 1
  BY <1>1, PushLive
<1>3. totals' \in [Counters -> 0..(Modulus - 1)] /\ AggregatesExact'
  BY <1>1, PushTotals
<1>4. RecentKept'
  BY <1>1, PushExact
<1>5. TypeOK'
  BY <1>1, <1>2, <1>3 DEF TypeOK
<1> DEFINE p == Popped(clock)
           k == ExpiredPrefix(clock)
<1>6. /\ p \in 0..count /\ count \in Nat
      /\ p = k \/ (p = 1 /\ count = Capacity)
      /\ \A i \in 1..k : Live[i].ts < clock - Seconds
  BY <1>1, PoppedIs, WindowConstants DEF TypeOK, Expired
<1>7. count' = count - p + 1
  BY <1>2
<1> HIDE DEF p, k
<1>8. count + 1 - count' = p
  BY <1>6, <1>7
<1> QED
  BY <1>2, <1>3, <1>4, <1>5, <1>6, <1>8 DEF WindowInv

(* A step of the window is a packet, or it leaves the ring alone.          *)
LEMMA WindowSteps ==
    ASSUME PacketWindowAssumption, WindowInv, [Next]_vars
    PROVE  /\ WindowInv'
           /\ [arrived' # arrived =>
                  LET popped == count + 1 - count'
                  IN  \/ \A i \in 1..popped : Live[i].ts < clock - Seconds
                      \/ popped = 1 /\ count = Capacity]_vars
<1>1. CASE Arrive
  <2>1. PICK packet \in Packet : Push(packet, clock) /\ UNCHANGED clock
    BY <1>1 DEF Arrive
  <2> QED
    BY <2>1, PushInv
<1>2. CASE Tick \/ Terminated \/ UNCHANGED vars
  <2>1. clock \in 0..MaxTime /\ MaxTime \in Nat
    BY WindowConstants DEF WindowInv, TypeOK
  <2>2. UNCHANGED <<win, arrived>> /\ clock' \in 0..MaxTime
    BY <1>2, <2>1 DEF Tick, Terminated, vars
  <2>3. arrived' = arrived
    BY <2>2
  <2> QED
    BY <2>2, <2>3, WindowUnmoved
<1> QED
  BY <1>1, <1>2 DEF Next

(* The inductive invariant holds in every reachable state.                 *)
THEOREM Invariance == PacketWindowAssumption => (Spec => []WindowInv)
<1> SUFFICES ASSUME PacketWindowAssumption PROVE Spec => []WindowInv
  OBVIOUS
<1>1. Init => WindowInv
  <2>1. Init => clock \in 0..MaxTime
    BY WindowConstants DEF Init
  <2> QED
    BY <2>1, WindowInitInv DEF Init
<1>2. WindowInv /\ [Next]_vars => WindowInv'
  BY WindowSteps
<1> QED
  BY <1>1, <1>2, PTL DEF Spec

(* AggregatesExact: the statistics of a job are the sums over exactly the  *)
(* records in the window, after any number of packets, expiries, overflows *)
(* and settings of the clock.                                              *)
THEOREM AggregatesHold == PacketWindowAssumption => (Spec => []AggregatesExact)
<1>1. WindowInv => AggregatesExact
  BY DEF WindowInv
<1> QED
  BY <1>1, Invariance, PTL

(* WindowExact: the window is an unbroken run of the latest packets and,   *)
(* while the clock has only gone forward, exactly those of the last        *)
(* seconds that fit.                                                       *)
THEOREM WindowHolds == PacketWindowAssumption => (Spec => []WindowExact)
<1>1. WindowInv => WindowExact
  BY DEF WindowInv, WindowExact
<1> QED
  BY <1>1, Invariance, PTL

(* EvictedForAReason: no packet leaves the window before its time but to   *)
(* make room, even when the clock is set back.                             *)
THEOREM EvictionsHold == PacketWindowAssumption => (Spec => EvictedForAReason)
<1> SUFFICES ASSUME PacketWindowAssumption PROVE Spec => EvictedForAReason
  OBVIOUS
<1>1. WindowInv /\ [Next]_vars =>
         [arrived' # arrived =>
             LET popped == count + 1 - count'
             IN  \/ \A i \in 1..popped : Live[i].ts < clock - Seconds
                 \/ popped = 1 /\ count = Capacity]_vars
  BY WindowSteps
<1> QED
  BY <1>1, Invariance, PTL DEF Spec, EvictedForAReason
=============================================================================
