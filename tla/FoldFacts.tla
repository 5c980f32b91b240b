------------------------------ MODULE FoldFacts ------------------------------
(***************************************************************************)
(* Facts about numbers, sequences and folds that the proofs about the      *)
(* tables of the agent rest on.  The facts about folds hold for every      *)
(* operation Op: a module that needs them for one of its own instantiates  *)
(* this module.                                                            *)
(***************************************************************************)
EXTENDS Integers, SequencesExt, WellFoundedInduction, TLAPS

CONSTANT Op(_, _)   \* what is done with the value so far and the next element

-----------------------------------------------------------------------------
(* A set of numbers that holds 0 and with every number the next one holds  *)
(* them all: induction, in a form in which a proof can use it.             *)
LEMMA Induction ==
    ASSUME NEW T \in SUBSET Nat, 0 \in T, \A n \in T : n + 1 \in T
    PROVE  \A n \in Nat : n \in T
<1> DEFINE R == {ss \in Nat \X Nat : ss[1] < ss[2]}
           Missing == Nat \ T
<1>1. SUFFICES ASSUME Missing # {} PROVE FALSE
  OBVIOUS
<1>2. IsWellFoundedOn(R, Nat)
  BY NatLessThanWellFounded, Zenon DEF OpToRel
<1>3. \A y, x \in Nat : y < x => <<y, x>> \in R
  OBVIOUS
<1> HIDE DEF R
<1>4. Missing \subseteq Nat
  OBVIOUS
<1>5. PICK x \in Missing : \A y \in Missing : ~(<<y, x>> \in R)
  BY <1>1, <1>2, <1>4, WFMin, Zenon
<1>6. x \in Nat /\ x # 0
  OBVIOUS
<1>7. x - 1 \in Nat /\ <<x - 1, x>> \in R
  BY <1>3, <1>6
<1>8. x - 1 \in T
  BY <1>5, <1>7
<1> QED
  BY <1>6, <1>8

-----------------------------------------------------------------------------
(* How SequencesExt computes a fold: a function of the sets of indices that*)
(* takes the largest one last.                                             *)
Folds(it, n, base, s) ==
    it = [u \in SUBSET (1..n) |->
             IF u = {} THEN base ELSE Op(it[u \ {Max(u)}], s[Max(u)])]

(* The largest element of a set that has one.                              *)
LEMMA MaxIs ==
    ASSUME NEW u \in SUBSET Nat, NEW m \in u, \A k \in u : k <= m
    PROVE  Max(u) = m
<1>1. \A x \in u : (\A y \in u : x >= y) => x = m
  OBVIOUS
<1>2. \A y \in u : m >= y
  OBVIOUS
<1> QED
  BY <1>1, <1>2 DEF Max

(* There is such a function, for every number of elements.                 *)
LEMMA FoldsExist ==
    ASSUME NEW base, NEW s
    PROVE  \A n \in Nat : \E it : Folds(it, n, base, s)
<1> DEFINE T == {n \in Nat : \E it : Folds(it, n, base, s)}
<1>1. 0 \in T
  <2> DEFINE it == [u \in SUBSET (1..0) |-> base]
  <2>1. \A u \in SUBSET (1..0) : u = {}
    OBVIOUS
  <2>2. Folds(it, 0, base, s)
    BY <2>1 DEF Folds
  <2> QED
    BY <2>2
<1>2. ASSUME NEW n \in T PROVE n + 1 \in T
  <2>1. PICK h : Folds(h, n, base, s)
    OBVIOUS
  <2> DEFINE it == [u \in SUBSET (1..(n + 1)) |->
                       IF n + 1 \in u THEN Op(h[u \ {n + 1}], s[n + 1]) ELSE h[u]]
  <2>2. ASSUME NEW u \in SUBSET (1..(n + 1))
        PROVE  it[u] = IF u = {} THEN base ELSE Op(it[u \ {Max(u)}], s[Max(u)])
    <3>1. CASE n + 1 \in u
      <4>1. Max(u) = n + 1
        BY <3>1, MaxIs
      <4>2. u \ {n + 1} \in SUBSET (1..(n + 1)) /\ n + 1 \notin u \ {n + 1}
        OBVIOUS
      <4>3. it[u \ {n + 1}] = h[u \ {n + 1}]
        BY <4>2
      <4> QED
        BY <3>1, <4>1, <4>3
    <3>2. CASE n + 1 \notin u
      <4>1. u \in SUBSET (1..n) /\ it[u] = h[u]
        BY <3>2
      <4>2. u \ {Max(u)} \in SUBSET (1..(n + 1)) /\ n + 1 \notin u \ {Max(u)}
        BY <3>2
      <4>3. it[u \ {Max(u)}] = h[u \ {Max(u)}]
        BY <4>2
      <4>4. h[u] = IF u = {} THEN base ELSE Op(h[u \ {Max(u)}], s[Max(u)])
        BY <2>1, <4>1 DEF Folds
      <4> QED
        BY <4>1, <4>3, <4>4
    <3> QED
      BY <3>1, <3>2
  <2> HIDE DEF it
  <2>3. it = [u \in SUBSET (1..(n + 1)) |-> it[u]]
    BY DEF it
  <2>4. Folds(it, n + 1, base, s)
    BY <2>2, <2>3 DEF Folds
  <2> QED
    BY <2>4
<1>3. T \in SUBSET Nat
  OBVIOUS
<1> HIDE DEF T
<1>4. \A n \in Nat : n \in T
  BY <1>1, <1>2, <1>3, Induction
<1> QED
  BY <1>4 DEF T

(* It treats the first k + 1 elements as the first k and one more.         *)
LEMMA FoldsStep ==
    ASSUME NEW base, NEW s, NEW n \in Nat, NEW it, Folds(it, n, base, s), NEW k \in 0..(n - 1)
    PROVE  /\ it[1..0] = base
           /\ it[1..(k + 1)] = Op(it[1..k], s[k + 1])
<1>1. 1..0 = {} /\ 1..0 \in SUBSET (1..n)
  OBVIOUS
<1>2. 1..(k + 1) \in SUBSET (1..n) /\ 1..(k + 1) # {}
  OBVIOUS
<1>3. Max(1..(k + 1)) = k + 1
  BY MaxIs
<1>4. (1..(k + 1)) \ {k + 1} = 1..k
  OBVIOUS
<1> QED
  BY <1>1, <1>2, <1>3, <1>4 DEF Folds

(* What the library's fold is.                                             *)
LEMMA FoldIs ==
    ASSUME NEW base, NEW S, NEW s \in Seq(S)
    PROVE  \E it : Folds(it, Len(s), base, s) /\ FoldLeft(Op, base, s) = it[1..Len(s)]
<1>1. DOMAIN s = 1..Len(s) /\ Len(s) \in Nat
  OBVIOUS
<1> DEFINE it == CHOOSE it : Folds(it, Len(s), base, s)
<1>2. Folds(it, Len(s), base, s)
  BY <1>1, FoldsExist
<1>3. FoldLeft(Op, base, s) = it[1..Len(s)]
  BY <1>1 DEF FoldLeft, MapThenFoldSet, Folds
<1> QED
  BY <1>2, <1>3

(* Two such functions agree on the elements that their sequences share.    *)
LEMMA FoldsAgree ==
    ASSUME NEW base, NEW s, NEW t, NEW n \in Nat, NEW m \in Nat,
           NEW it, Folds(it, n, base, s), NEW jt, Folds(jt, m, base, t),
           NEW len \in Nat, len <= n, len <= m, \A i \in 1..len : s[i] = t[i]
    PROVE  it[1..len] = jt[1..len]
<1> DEFINE T == {k \in Nat : k <= len => it[1..k] = jt[1..k]}
<1>1. 0 \in T
  <2>1. 1..0 = {} /\ 1..0 \in SUBSET (1..n) /\ 1..0 \in SUBSET (1..m)
    OBVIOUS
  <2>2. it[1..0] = base /\ jt[1..0] = base
    BY <2>1 DEF Folds
  <2> QED
    BY <2>2
<1>2. ASSUME NEW k \in T PROVE k + 1 \in T
  <2>1. SUFFICES ASSUME k + 1 <= len PROVE it[1..(k + 1)] = jt[1..(k + 1)]
    OBVIOUS
  <2>2. k \in 0..(n - 1) /\ k \in 0..(m - 1) /\ k + 1 \in 1..len /\ it[1..k] = jt[1..k]
    BY <2>1
  <2>3. it[1..(k + 1)] = Op(it[1..k], s[k + 1]) /\ jt[1..(k + 1)] = Op(jt[1..k], t[k + 1])
    BY <2>2, FoldsStep
  <2>4. s[k + 1] = t[k + 1]
    BY <2>2
  <2> QED
    BY <2>2, <2>3, <2>4
<1>3. T \in SUBSET Nat
  OBVIOUS
<1> HIDE DEF T
<1>4. \A k \in Nat : k \in T
  BY <1>1, <1>2, <1>3, Induction
<1> QED
  BY <1>4 DEF T

-----------------------------------------------------------------------------
(* The fold of nothing is what it begins with.                             *)
THEOREM FoldOfNothing == ASSUME NEW base PROVE FoldLeft(Op, base, <<>>) = base
<1>1. <<>> \in Seq({}) /\ Len(<<>>) = 0
  OBVIOUS
<1>2. PICK it : Folds(it, 0, base, <<>>) /\ FoldLeft(Op, base, <<>>) = it[1..0]
  BY <1>1, FoldIs
<1>3. 1..0 = {} /\ 1..0 \in SUBSET (1..0)
  OBVIOUS
<1> QED
  BY <1>2, <1>3 DEF Folds

(* One element more is one operation more.                                 *)
THEOREM FoldOfAppend ==
    ASSUME NEW base, NEW S, NEW s \in Seq(S), NEW x \in S
    PROVE  FoldLeft(Op, base, Append(s, x)) = Op(FoldLeft(Op, base, s), x)
<1> DEFINE n == Len(s)
           t == Append(s, x)
<1>1. /\ n \in Nat /\ n + 1 \in Nat /\ n <= n + 1 /\ n <= n /\ n \in 0..(n + 1 - 1)
      /\ t \in Seq(S) /\ Len(t) = n + 1 /\ t[n + 1] = x
  OBVIOUS
<1>2. \A i \in 1..n : t[i] = s[i]
  OBVIOUS
<1> HIDE DEF n, t
<1>3. PICK it : Folds(it, n, base, s) /\ FoldLeft(Op, base, s) = it[1..n]
  BY FoldIs DEF n
<1>4. PICK jt : Folds(jt, n + 1, base, t) /\ FoldLeft(Op, base, t) = jt[1..(n + 1)]
  BY <1>1, FoldIs
<1>5. jt[1..(n + 1)] = Op(jt[1..n], t[n + 1])
  BY <1>1, <1>4, FoldsStep
<1>6. jt[1..n] = it[1..n]
  BY <1>1, <1>2, <1>3, <1>4, FoldsAgree
<1> QED
  BY <1>1, <1>3, <1>4, <1>5, <1>6 DEF n, t
=============================================================================
