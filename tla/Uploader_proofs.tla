--------------------------- MODULE Uploader_proofs ---------------------------
(***************************************************************************)
(* Proofs about Uploader, for every ring capacity, every number of batches *)
(* and every set of batch contents.                                        *)
(***************************************************************************)
EXTENDS Uploader, SequenceTheorems, TLAPS

-----------------------------------------------------------------------------
(* Arithmetic of the ring: an index that ran past the end comes back.      *)
LEMMA ModStays ==
    ASSUME NEW n \in Nat \ {0}, NEW a \in 0..(n - 1)
    PROVE  a % n = a
BY Z3

(* An index less than one turn past the end comes back by one turn.        *)
LEMMA ModWraps ==
    ASSUME NEW n \in Nat \ {0}, NEW a \in n..(2 * n - 1)
    PROVE  a % n = a - n
BY Z3

(* The same for the slot that lies i places after a slot h.                *)
LEMMA SlotAfter ==
    ASSUME NEW h \in Slots, NEW i \in 0..Capacity
    PROVE  /\ (h + i) % Capacity \in Slots
           /\ (h + i) % Capacity = IF h + i < Capacity THEN h + i ELSE h + i - Capacity
<1>0. Capacity \in Nat \ {0}
  BY UploaderAssumption
<1>1. CASE h + i < Capacity
  <2>1. (h + i) % Capacity = h + i
    BY <1>0, <1>1, ModStays DEF Slots
  <2> QED
    BY <1>0, <1>1, <2>1 DEF Slots
<1>2. CASE h + i >= Capacity
  <2>1. (h + i) % Capacity = h + i - Capacity
    BY <1>0, <1>2, ModWraps DEF Slots
  <2> QED
    BY <1>0, <1>2, <2>1 DEF Slots
<1> QED
  BY <1>0, <1>1, <1>2 DEF Slots

(* The messages of a batch are a finite, non-empty sequence.               *)
LEMMA MessagesLen ==
    ASSUME NEW j \in Job
    PROVE  Len(Messages(j)) \in Nat \ {0}
<1> DEFINE Kind == Extras \cup {"traffic", "alert"}
<1>1. j.shape.alerts \in Nat
  BY UploaderAssumption DEF Job
<1>2. [i \in 1..j.shape.alerts |-> "alert"] \in Seq(Kind)
  BY <1>1
<1>3. \A kind \in Extras : Optional(j.shape, kind) \in Seq(Kind)
  <2> TAKE kind \in Extras
  <2>1. kind \in Kind
    OBVIOUS
  <2>2. <<kind>> \in Seq(Kind) /\ <<>> \in Seq(Kind)
    BY <2>1
  <2> QED
    BY <2>2 DEF Optional
<1>4. <<"traffic">> \in Seq(Kind)
  OBVIOUS
<1> DEFINE alerts == [i \in 1..j.shape.alerts |-> "alert"]
           one == <<"traffic">> \o alerts
           two == one \o Optional(j.shape, "dns")
           three == two \o Optional(j.shape, "clients")
           four == three \o Optional(j.shape, "forensics")
           five == four \o Optional(j.shape, "heartbeat")
<1> HIDE DEF Kind
<1>5. one \in Seq(Kind) /\ Len(one) \in Nat \ {0}
  <2> HIDE DEF alerts
  <2>1. alerts \in Seq(Kind)
    BY <1>2 DEF alerts
  <2>2. Len(<<"traffic">>) = 1
    OBVIOUS
  <2> QED
    BY <1>4, <2>1, <2>2, ConcatProperties, LenProperties
<1>6. \A kind \in Extras, s \in Seq(Kind) :
        Len(s) \in Nat \ {0} => /\ s \o Optional(j.shape, kind) \in Seq(Kind)
                                /\ Len(s \o Optional(j.shape, kind)) \in Nat \ {0}
  <2> TAKE kind \in Extras, s \in Seq(Kind)
  <2>1. Optional(j.shape, kind) \in Seq(Kind) /\ Len(Optional(j.shape, kind)) \in Nat
    BY <1>3, LenProperties
  <2> QED
    BY <2>1, ConcatProperties
<1>7. "dns" \in Extras /\ "clients" \in Extras /\ "forensics" \in Extras
      /\ "heartbeat" \in Extras /\ "rules" \in Extras
  BY DEF Extras
<1> HIDE DEF one
<1>8. two \in Seq(Kind) /\ Len(two) \in Nat \ {0}
  BY <1>5, <1>6, <1>7
<1> HIDE DEF two
<1>9. three \in Seq(Kind) /\ Len(three) \in Nat \ {0}
  BY <1>6, <1>7, <1>8
<1> HIDE DEF three
<1>10. four \in Seq(Kind) /\ Len(four) \in Nat \ {0}
  BY <1>6, <1>7, <1>9
<1> HIDE DEF four
<1>11. five \in Seq(Kind) /\ Len(five) \in Nat \ {0}
  BY <1>6, <1>7, <1>10
<1> HIDE DEF five
<1>12. Messages(j) = five \o Optional(j.shape, "rules")
  BY DEF Messages, five, four, three, two, one, alerts
<1> QED
  BY <1>6, <1>7, <1>11, <1>12

-----------------------------------------------------------------------------
(* The contents of a ring q read from slot h on.                           *)
RingView(q, h, c) == [i \in 1..c |-> q[(h + i - 1) % Capacity]]

(* The view of a ring of c elements is a sequence of length c.             *)
LEMMA RingViewSeq ==
    ASSUME NEW S, NEW q \in [Slots -> S], NEW h \in Slots, NEW c \in 0..Capacity
    PROVE  /\ RingView(q, h, c) \in Seq(S)
           /\ Len(RingView(q, h, c)) = c
           /\ \A i \in 1..c : RingView(q, h, c)[i] = q[(h + i - 1) % Capacity]
<1>0. Capacity \in Nat \ {0}
  BY UploaderAssumption
<1>1. \A i \in 1..c : (h + i - 1) % Capacity \in Slots
  <2> TAKE i \in 1..c
  <2>1. h + i - 1 = h + (i - 1) /\ i - 1 \in 0..Capacity
    BY <1>0 DEF Slots
  <2> QED
    BY <1>0, <2>1, SlotAfter
<1>2. \A i \in 1..c : q[(h + i - 1) % Capacity] \in S
  BY <1>1
<1> QED
  BY <1>0, <1>2 DEF RingView

(* Dropping the first element is moving the head by one slot.              *)
LEMMA RingViewTail ==
    ASSUME NEW S, NEW q \in [Slots -> S], NEW h \in Slots, NEW c \in 1..Capacity
    PROVE  /\ Head(RingView(q, h, c)) = q[h]
           /\ Tail(RingView(q, h, c)) = RingView(q, (h + 1) % Capacity, c - 1)
<1> DEFINE r == RingView(q, h, c)
           n == (h + 1) % Capacity
           t == RingView(q, n, c - 1)
<1>0. Capacity \in Nat \ {0} /\ c \in 0..Capacity /\ c - 1 \in 0..Capacity
      /\ h \in Nat /\ h < Capacity
  BY UploaderAssumption DEF Slots
<1>1. n \in Slots /\ n = IF h + 1 < Capacity THEN h + 1 ELSE h + 1 - Capacity
  BY <1>0, 1 \in 0..Capacity, SlotAfter
<1>2. /\ r \in Seq(S) /\ Len(r) = c
      /\ \A i \in 1..c : r[i] = q[(h + i - 1) % Capacity]
  <2>1. c \in 0..Capacity
    BY <1>0
  <2> QED
    BY <2>1, RingViewSeq, Zenon
<1>3. /\ t \in Seq(S) /\ Len(t) = c - 1
      /\ \A i \in 1..(c - 1) : t[i] = q[(n + i - 1) % Capacity]
  <2>1. c - 1 \in 0..Capacity /\ n \in Slots
    BY <1>0, <1>1
  <2> HIDE DEF n
  <2> QED
    BY <2>1, RingViewSeq, Zenon
<1> HIDE DEF r, n, t
<1>4. r # <<>>
  BY <1>0, <1>2
<1>5. /\ Tail(r) \in Seq(S) /\ Len(Tail(r)) = c - 1
      /\ \A i \in 1..(c - 1) : Tail(r)[i] = r[i + 1]
  BY <1>2, <1>4, HeadTailProperties
<1>6. Head(r) = q[h]
  <2>1. h + 1 - 1 = h
    BY <1>0
  <2>2. h % Capacity = h
    BY <1>0, ModStays
  <2>3. r[1] = q[h]
    BY <1>0, <1>2, <2>1, <2>2
  <2> QED
    BY <1>2, <1>4, <2>3
<1>7. ASSUME NEW i \in 1..(c - 1)
      PROVE  Tail(r)[i] = t[i]
  <2>1. i \in 0..Capacity /\ i - 1 \in 0..Capacity /\ i + 1 \in 1..c /\ i \in Nat
    BY <1>0
  <2>2. (n + (i - 1)) % Capacity
          = IF n + (i - 1) < Capacity THEN n + (i - 1) ELSE n + (i - 1) - Capacity
    BY <1>1, <2>1, SlotAfter
  <2>3. (h + i) % Capacity = IF h + i < Capacity THEN h + i ELSE h + i - Capacity
    BY <2>1, SlotAfter
  <2>4. n + i - 1 = n + (i - 1) /\ h + (i + 1) - 1 = h + i /\ n \in Nat
    BY <1>0, <1>1, <2>1 DEF Slots
  <2>5. (n + (i - 1)) % Capacity = (h + i) % Capacity
    BY <1>0, <1>1, <2>1, <2>2, <2>3, <2>4 DEF Slots
  <2>6. r[i + 1] = q[(h + i) % Capacity]
    BY <1>2, <2>1, <2>4
  <2>7. t[i] = q[(n + (i - 1)) % Capacity]
    BY <1>3, <2>4
  <2> QED
    BY <1>5, <2>5, <2>6, <2>7
<1>8. Tail(r) = t
  BY <1>3, <1>5, <1>7, SeqEqual
<1> QED
  BY <1>6, <1>8 DEF r, n, t

(* Writing the first free slot is appending.                               *)
LEMMA RingViewAppend ==
    ASSUME NEW S, NEW q \in [Slots -> S], NEW h \in Slots,
           NEW c \in 0..(Capacity - 1), NEW e \in S
    PROVE  RingView([q EXCEPT ![(h + c) % Capacity] = e], h, c + 1)
             = Append(RingView(q, h, c), e)
<1> DEFINE tail == (h + c) % Capacity
           p == [q EXCEPT ![tail] = e]
           r == RingView(q, h, c)
           s == RingView(p, h, c + 1)
<1>0. Capacity \in Nat \ {0} /\ c \in 0..Capacity /\ c + 1 \in 0..Capacity
      /\ h \in Nat /\ h < Capacity /\ c \in Nat
  BY UploaderAssumption DEF Slots
<1>1. tail \in Slots /\ tail = IF h + c < Capacity THEN h + c ELSE h + c - Capacity
  BY <1>0, SlotAfter
<1>2. p \in [Slots -> S] /\ p[tail] = e
      /\ \A k \in Slots : k # tail => p[k] = q[k]
  BY <1>1
<1>3. /\ r \in Seq(S) /\ Len(r) = c
      /\ \A i \in 1..c : r[i] = q[(h + i - 1) % Capacity]
  <2>1. c \in 0..Capacity
    BY <1>0
  <2> QED
    BY <2>1, RingViewSeq, Zenon
<1> HIDE DEF p
<1>4. /\ s \in Seq(S) /\ Len(s) = c + 1
      /\ \A i \in 1..(c + 1) : s[i] = p[(h + i - 1) % Capacity]
  <2>1. c + 1 \in 0..Capacity /\ p \in [Slots -> S]
    BY <1>0, <1>2
  <2> QED
    BY <2>1, RingViewSeq, Zenon
<1> HIDE DEF r, s
<1>5. /\ Append(r, e) \in Seq(S) /\ Len(Append(r, e)) = c + 1
      /\ \A i \in 1..c : Append(r, e)[i] = r[i]
      /\ Append(r, e)[c + 1] = e
  BY <1>3, AppendProperties
<1>6. s[c + 1] = e
  <2>1. h + (c + 1) - 1 = h + c /\ c + 1 \in 1..(c + 1)
    BY <1>0
  <2> QED
    BY <1>2, <1>4, <2>1
<1> HIDE DEF tail
<1>7. ASSUME NEW i \in 1..c
      PROVE  s[i] = r[i]
  <2>1. h + i - 1 = h + (i - 1) /\ i - 1 \in 0..Capacity /\ i \in 1..(c + 1)
    BY <1>0
  <2>2. /\ (h + (i - 1)) % Capacity \in Slots
        /\ (h + (i - 1)) % Capacity = IF h + (i - 1) < Capacity
                                      THEN h + (i - 1) ELSE h + (i - 1) - Capacity
    BY <2>1, SlotAfter
  <2>3. (h + (i - 1)) % Capacity # tail
    BY <1>0, <1>1, <2>2
  <2>4. p[(h + (i - 1)) % Capacity] = q[(h + (i - 1)) % Capacity]
    BY <1>2, <2>2, <2>3
  <2> QED
    BY <1>3, <1>4, <2>1, <2>4
<1>8. \A i \in 1..(c + 1) : s[i] = Append(r, e)[i]
  <2> TAKE i \in 1..(c + 1)
  <2>1. i \in 1..c \/ i = c + 1
    BY <1>0
  <2> QED
    BY <1>5, <1>6, <1>7, <2>1
<1>9. s = Append(r, e)
  BY <1>4, <1>5, <1>8, SeqEqual
<1> QED
  BY <1>9 DEF r, s, p, tail

-----------------------------------------------------------------------------
(* The ring of a well-typed state, as a sequence.                          *)
LEMMA PendingSeq ==
    ASSUME TypeOK
    PROVE  /\ Pending = RingView(g_queue, g_head, g_count)
           /\ Pending \in Seq(Job \cup {NoJob})
           /\ Len(Pending) = g_count
           /\ \A i \in 1..g_count : Pending[i] = g_queue[(g_head + i - 1) % Capacity]
<1>1. /\ g_queue \in [Slots -> Job \cup {NoJob}]
      /\ g_head \in Slots /\ g_count \in 0..Capacity
  BY DEF TypeOK
<1>2. Pending = RingView(g_queue, g_head, g_count)
  BY DEF Pending, RingView
<1> HIDE DEF Pending
<1> QED
  BY <1>1, <1>2, RingViewSeq, Zenon

(* Taking a batch hands out the oldest one and leaves the others.          *)
LEMMA TakeRing ==
    ASSUME TypeOK, Take
    PROVE  /\ g_count \in 1..Capacity /\ g_count' = g_count - 1
           /\ g_head' \in Slots /\ g_queue' = g_queue
           /\ Pending # <<>> /\ job' = Head(Pending) /\ job' = Pending[1]
           /\ Pending' = Tail(Pending)
           /\ \A i \in 1..g_count' : Pending'[i] = Pending[i + 1]
<1>1. /\ g_queue \in [Slots -> Job \cup {NoJob}] /\ g_head \in Slots
      /\ g_count \in 1..Capacity /\ Capacity \in Nat \ {0}
  BY UploaderAssumption DEF TypeOK, Take, MustWait, Leaves
<1>2. g_head' = (g_head + 1) % Capacity /\ g_count' = g_count - 1 /\ g_queue' = g_queue
  BY DEF Take
<1>3. g_head' \in Slots
  BY <1>1, <1>2, 1 \in 0..Capacity, SlotAfter
<1>4. Pending' = RingView(g_queue, (g_head + 1) % Capacity, g_count - 1)
  BY <1>2 DEF Pending, RingView
<1>5. /\ Head(Pending) = g_queue[g_head]
      /\ Tail(Pending) = RingView(g_queue, (g_head + 1) % Capacity, g_count - 1)
  BY <1>1, PendingSeq, RingViewTail
<1>6. job' = g_queue[g_head]
  BY DEF Take, Oldest
<1>7. /\ Pending \in Seq(Job \cup {NoJob}) /\ Len(Pending) = g_count
  BY PendingSeq
<1> HIDE DEF Pending
<1>8. Pending # <<>>
  BY <1>1, <1>7
<1>9. Head(Pending) = Pending[1] /\ Pending' = Tail(Pending)
  BY <1>4, <1>5
<1>10. \A i \in 1..g_count' : Pending'[i] = Pending[i + 1]
  BY <1>2, <1>7, <1>8, <1>9, HeadTailProperties
<1> QED
  BY <1>1, <1>2, <1>3, <1>5, <1>6, <1>8, <1>9, <1>10

(* Submitting a batch appends it, after discarding the oldest when there   *)
(* is no room.                                                             *)
LEMMA SubmitRing ==
    ASSUME TypeOK, NEW shape \in Shapes, Submit(shape),
           NEW e, e = [id |-> submitted + 1, shape |-> shape]
    PROVE  /\ e \in Job
           /\ g_queue' \in [Slots -> Job \cup {NoJob}]
           /\ g_head' \in Slots
           /\ g_count' = IF g_count = Capacity THEN g_count ELSE g_count + 1
           /\ Pending' = Append(IF g_count = Capacity THEN Tail(Pending) ELSE Pending, e)
           /\ \A i \in 1..g_count' :
                 Pending'[i] = IF i = g_count' THEN e
                               ELSE IF g_count = Capacity THEN Pending[i + 1]
                               ELSE Pending[i]
<1> DEFINE S == Job \cup {NoJob}
           full == g_count = Capacity
           h == IF full THEN (g_head + 1) % Capacity ELSE g_head
           c == IF full THEN g_count - 1 ELSE g_count
           kept == IF full THEN Tail(Pending) ELSE Pending
<1>1. /\ g_queue \in [Slots -> S] /\ g_head \in Slots
      /\ g_count \in 0..Capacity /\ Capacity \in Nat \ {0}
  BY UploaderAssumption DEF TypeOK
<1>2. e \in Job
  BY UploaderAssumption DEF Submit, TypeOK, Job
<1>3. /\ g_head' = h /\ g_count' = c + 1
      /\ g_queue' = [g_queue EXCEPT ![(h + c) % Capacity] = e]
  BY DEF Submit, DropOldest
<1>4. (g_head + 1) % Capacity \in Slots
  BY <1>1, 1 \in 0..Capacity, SlotAfter
<1>5. h \in Slots /\ c \in 0..(Capacity - 1) /\ c \in 0..Capacity
  BY <1>1, <1>4
<1>6. (h + c) % Capacity \in Slots
  <2> HIDE DEF h, c
  <2> QED
    BY <1>5, SlotAfter
<1>7. kept = RingView(g_queue, h, c)
  <2>1. CASE full
    <3>1. g_count \in 1..Capacity
      BY <1>1, <2>1
    <3>2. Tail(Pending) = RingView(g_queue, (g_head + 1) % Capacity, g_count - 1)
      BY <1>1, <3>1, PendingSeq, RingViewTail
    <3> QED
      BY <2>1, <3>2
  <2>2. CASE ~full
    BY <2>2, PendingSeq
  <2> QED
    BY <2>1, <2>2
<1>8. Pending' = Append(kept, e)
  <2>1. Pending' = RingView(g_queue', h, c + 1)
    BY <1>3 DEF Pending, RingView
  <2> HIDE DEF h, c, kept
  <2>2. e \in S
    BY <1>2
  <2> HIDE DEF S
  <2>4. h \in Slots /\ c \in 0..(Capacity - 1) /\ g_queue \in [Slots -> S]
    BY <1>1, <1>5
  <2>3. RingView([g_queue EXCEPT ![(h + c) % Capacity] = e], h, c + 1)
          = Append(RingView(g_queue, h, c), e)
    BY <2>2, <2>4, RingViewAppend
  <2> QED
    BY <1>3, <1>7, <2>1, <2>3
<1>9. kept \in Seq(S) /\ Len(kept) = c
  <2> HIDE DEF h, c, kept
  <2> QED
    BY <1>1, <1>5, <1>7, RingViewSeq, Zenon
<1>10. \A i \in 1..c : kept[i] = IF full THEN Pending[i + 1] ELSE Pending[i]
  <2>1. CASE full
    <3>1. Pending \in Seq(S) /\ Len(Pending) = g_count /\ g_count > 0
      BY <1>1, <2>1, PendingSeq
    <3> HIDE DEF Pending
    <3>2. Pending # <<>>
      BY <3>1
    <3> QED
      BY <1>9, <2>1, <3>1, <3>2, HeadTailProperties
  <2>2. CASE ~full
    BY <2>2
  <2> QED
    BY <2>1, <2>2
<1>11. \A i \in 1..g_count' : Pending'[i] = IF i = g_count' THEN e ELSE kept[i]
  <2> HIDE DEF h, c, kept, Pending
  <2>1. e \in S
    BY <1>2
  <2>2. /\ \A i \in 1..c : Append(kept, e)[i] = kept[i]
        /\ Append(kept, e)[c + 1] = e
    BY <1>9, <2>1, AppendProperties
  <2>3. g_count' = c + 1 /\ c \in Nat
    BY <1>1, <1>3, <1>5
  <2> TAKE i \in 1..g_count'
  <2>4. i = c + 1 \/ (i \in 1..c /\ i # c + 1)
    BY <2>3
  <2> QED
    BY <1>8, <2>2, <2>3, <2>4
<1>12. g_queue' \in [Slots -> S]
  BY <1>1, <1>2, <1>3, <1>6
<1>13. g_count' = IF g_count = Capacity THEN g_count ELSE g_count + 1
  BY <1>1, <1>3
<1>14. \A i \in 1..g_count' : i = g_count' \/ i \in 1..c
  <2> HIDE DEF c
  <2> QED
    BY <1>3, <1>5
<1> HIDE DEF Pending
<1> QED
  BY <1>2, <1>3, <1>5, <1>8, <1>10, <1>11, <1>12, <1>13, <1>14

-----------------------------------------------------------------------------
(* The inductive invariant.                                                *)
(* uploader_start finds an empty ring and no thread.                       *)
LEMMA InitIInv == Init => IInv
<1> SUFFICES ASSUME Init PROVE IInv
  OBVIOUS
<1>0. Capacity \in Nat \ {0} /\ MaxJobs \in Nat
  BY UploaderAssumption
<1>1. TypeOK
  <2>1. g_queue \in [Slots -> Job \cup {NoJob}]
    BY DEF Init, Slots
  <2>2. g_head \in Slots /\ g_count \in 0..Capacity /\ submitted \in 0..MaxJobs
    BY <1>0 DEF Init, Slots
  <2>3. /\ g_running \in BOOLEAN /\ g_started \in BOOLEAN /\ ready \in BOOLEAN
        /\ job \in Job \cup {NoJob} /\ thresholds \in Rulesets \cup {NoRuleset}
    BY DEF Init, BootRulesets
  <2>4. /\ mpc \in {"boot", "loop", "join", "exit", "failing", "dead"}
        /\ wpc \in {"none", "check", "waiting", "run", "exited", "dead"}
    BY DEF Init
  <2>5. /\ g_dropped \in Nat /\ step \in Nat \ {0} /\ taken \in Nat
        /\ last \in Nat \X Nat
    BY DEF Init
  <2> QED
    BY <2>1, <2>2, <2>3, <2>4, <2>5 DEF TypeOK
<1>2. FreshestKept
  BY DEF Init, FreshestKept
<1>3. Accounted /\ NoLostWakeUp /\ Lifecycle
  BY DEF Init, Accounted, NoLostWakeUp, Lifecycle
<1>4. InFlight
  BY DEF Init, InFlight
<1> QED
  BY <1>1, <1>2, <1>3, <1>4 DEF IInv

(* uploader_submit keeps the invariant, full ring or not.                  *)
LEMMA SubmitIInv ==
    ASSUME IInv, NEW shape \in Shapes, Submit(shape)
    PROVE  IInv'
<1> DEFINE e == [id |-> submitted + 1, shape |-> shape]
<1>0. /\ TypeOK /\ FreshestKept /\ Accounted /\ NoLostWakeUp /\ Lifecycle /\ InFlight
      /\ Capacity \in Nat \ {0} /\ MaxJobs \in Nat
      /\ g_count \in 0..Capacity /\ submitted \in 0..MaxJobs
  BY UploaderAssumption DEF IInv, TypeOK
<1>1. /\ e \in Job
      /\ g_queue' \in [Slots -> Job \cup {NoJob}]
      /\ g_head' \in Slots
      /\ g_count' = IF g_count = Capacity THEN g_count ELSE g_count + 1
      /\ \A i \in 1..g_count' :
            Pending'[i] = IF i = g_count' THEN e
                          ELSE IF g_count = Capacity THEN Pending[i + 1]
                          ELSE Pending[i]
  <2> SUFFICES ASSUME NEW b, b = e
               PROVE  /\ b \in Job
                      /\ g_queue' \in [Slots -> Job \cup {NoJob}]
                      /\ g_head' \in Slots
                      /\ g_count' = IF g_count = Capacity THEN g_count ELSE g_count + 1
                      /\ \A i \in 1..g_count' :
                            Pending'[i] = IF i = g_count' THEN b
                                          ELSE IF g_count = Capacity THEN Pending[i + 1]
                                          ELSE Pending[i]
    OBVIOUS
  <2> QED
    BY <1>0, SubmitRing
<1>2. TypeOK'
  BY <1>0, <1>1 DEF TypeOK, Submit, Signalled, lifecycle
<1>3. FreshestKept'
  <2> SUFFICES ASSUME NEW i \in 1..g_count'
               PROVE  Pending'[i] # NoJob /\ Pending'[i].id = submitted' - g_count' + i
    BY DEF FreshestKept
  <2>1. submitted' = submitted + 1
    BY DEF Submit
  <2>2. CASE i = g_count'
    <3>1. Pending'[i] = e /\ e.id = submitted + 1 /\ e # NoJob
      BY <1>1, <2>2, UploaderAssumption
    <3> QED
      BY <1>0, <1>1, <2>1, <2>2, <3>1
  <2>3. CASE i # g_count' /\ g_count = Capacity
    <3>1. Pending'[i] = Pending[i + 1] /\ i + 1 \in 1..g_count
      BY <1>0, <1>1, <2>3
    <3>2. Pending[i + 1] # NoJob /\ Pending[i + 1].id = submitted - g_count + (i + 1)
      BY <1>0, <3>1 DEF FreshestKept
    <3> QED
      BY <1>0, <1>1, <2>1, <2>3, <3>1, <3>2
  <2>4. CASE i # g_count' /\ g_count # Capacity
    <3>1. Pending'[i] = Pending[i] /\ i \in 1..g_count
      BY <1>0, <1>1, <2>4
    <3>2. Pending[i] # NoJob /\ Pending[i].id = submitted - g_count + i
      BY <1>0, <3>1 DEF FreshestKept
    <3> QED
      BY <1>0, <1>1, <2>1, <2>4, <3>1, <3>2
  <2> QED
    BY <2>2, <2>3, <2>4
<1>4. wpc # "none" /\ wpc' # "none" /\ wpc' # "waiting" /\ mpc = "loop"
  BY <1>0 DEF Submit, Signalled, Lifecycle
<1>5. Accounted'
  BY <1>0, <1>1, <1>4 DEF Accounted, Submit, TypeOK, history
<1>6. NoLostWakeUp'
  BY <1>4 DEF NoLostWakeUp
<1>7. Lifecycle'
  BY <1>0, <1>4 DEF Lifecycle, Submit, Signalled, lifecycle
<1>8. InFlight'
  <2>1. /\ submitted' - g_count' >= submitted - g_count
        /\ submitted' - g_count' \in Int /\ submitted - g_count \in Int
    BY <1>0, <1>1 DEF Submit
  <2>2. job' = job /\ step' = step /\ last' = last /\ (wpc' = "run" => wpc = "run")
    BY DEF Submit, Signalled
  <2>3. last[1] \in Nat /\ (job # NoJob => job.id \in Nat)
    BY <1>0 DEF TypeOK, Job
  <2>4. Messages(job)' = Messages(job)
    BY <2>2 DEF Messages, Optional
  <2>5. Len(Messages(job)') = Len(Messages(job))
    BY <2>4
  <2>6. last'[1] <= submitted' - g_count'
    BY <1>0, <2>1, <2>2, <2>3 DEF InFlight
  <2>7. ASSUME wpc' = "run"
        PROVE  /\ job' # NoJob
               /\ job'.id <= submitted' - g_count'
               /\ step' <= Len(Messages(job)') + 1
               /\ \/ step' = 1 /\ last'[1] < job'.id
                  \/ step' > 1 /\ last' = <<job'.id, step' - 1>>
    BY <1>0, <2>1, <2>2, <2>3, <2>5, <2>7 DEF InFlight
  <2> QED
    BY <2>6, <2>7 DEF InFlight
<1> QED
  BY <1>2, <1>3, <1>5, <1>6, <1>7, <1>8 DEF IInv

(* The take of uploader_main keeps the invariant.                          *)
LEMMA TakeIInv ==
    ASSUME IInv, Take
    PROVE  IInv'
<1>0. /\ TypeOK /\ FreshestKept /\ Accounted /\ NoLostWakeUp /\ Lifecycle /\ InFlight
      /\ Capacity \in Nat \ {0} /\ MaxJobs \in Nat
      /\ g_count \in 0..Capacity /\ submitted \in 0..MaxJobs
  BY UploaderAssumption DEF IInv, TypeOK
<1>1. /\ g_count \in 1..Capacity /\ g_count' = g_count - 1
      /\ g_head' \in Slots /\ g_queue' = g_queue
      /\ job' = Pending[1]
      /\ \A i \in 1..g_count' : Pending'[i] = Pending[i + 1]
  BY <1>0, TakeRing
<1>2. /\ Pending[1] # NoJob /\ Pending[1].id = submitted - g_count + 1
      /\ Pending[1] \in Job
  <2>1. 1 \in 1..g_count
    BY <1>1
  <2>2. Pending[1] # NoJob /\ Pending[1].id = submitted - g_count + 1
    BY <1>0, <2>1 DEF FreshestKept
  <2>3. Pending \in Seq(Job \cup {NoJob}) /\ Len(Pending) = g_count
    BY <1>0, PendingSeq
  <2> HIDE DEF Pending
  <2>4. Pending[1] \in Job \cup {NoJob}
    BY <2>1, <2>3, ElementOfSeq
  <2> QED
    BY <2>2, <2>4
<1>3. TypeOK'
  BY <1>0, <1>1, <1>2 DEF TypeOK, Take, lifecycle
<1>4. FreshestKept'
  <2> SUFFICES ASSUME NEW i \in 1..g_count'
               PROVE  Pending'[i] # NoJob /\ Pending'[i].id = submitted' - g_count' + i
    BY DEF FreshestKept
  <2>1. Pending'[i] = Pending[i + 1] /\ i + 1 \in 1..g_count /\ submitted' = submitted
    BY <1>0, <1>1 DEF Take
  <2>2. Pending[i + 1] # NoJob /\ Pending[i + 1].id = submitted - g_count + (i + 1)
    BY <1>0, <2>1 DEF FreshestKept
  <2> QED
    BY <1>0, <1>1, <2>1, <2>2
<1>5. Accounted'
  BY <1>0, <1>1 DEF Accounted, Take, TypeOK
<1>6. NoLostWakeUp' /\ Lifecycle'
  BY <1>0 DEF NoLostWakeUp, Lifecycle, Take, lifecycle, Leaves
<1>7. InFlight'
  <2>1. /\ job' # NoJob /\ job'.id = submitted - g_count + 1 /\ job' \in Job
        /\ submitted' - g_count' = submitted - g_count + 1
        /\ step' = 1 /\ last' = last
    BY <1>0, <1>1, <1>2 DEF Take
  <2>2. Len(Messages(job')) \in Nat
    BY <2>1, MessagesLen
  <2>3. last[1] <= submitted - g_count /\ last[1] \in Nat
    BY <1>0 DEF InFlight, TypeOK
  <2> HIDE DEF Messages
  <2>4. Messages(job)' = Messages(job')
    BY DEF Messages, Optional
  <2> QED
    BY <1>0, <2>1, <2>2, <2>3, <2>4 DEF InFlight
<1> QED
  BY <1>3, <1>4, <1>5, <1>6, <1>7 DEF IInv

(* A step that leaves the ring, the counters and the batch in flight alone *)
(* can disturb only the type of, and the relation between, the flags and   *)
(* the two program points.                                                 *)
LEMMA RingUntouched ==
    ASSUME FreshestKept, UNCHANGED <<ring, submitted>>
    PROVE  FreshestKept'
<1>1. Pending' = Pending /\ g_count' = g_count /\ submitted' = submitted
  BY DEF ring, Pending
<1> QED
  BY <1>1 DEF FreshestKept

(* What neither the ring nor the batch in flight sees keeps InFlight.      *)
LEMMA BatchUntouched ==
    ASSUME IInv, UNCHANGED <<ring, submitted, job, step, last>>, wpc' = "run" => wpc = "run"
    PROVE  InFlight'
<1>1. Messages(job)' = Messages(job)
  BY DEF Messages, Optional
<1> QED
  BY <1>1 DEF InFlight, IInv, ring

(* A post of run_job, delivered or not, keeps the invariant.               *)
LEMMA PostIInv ==
    ASSUME IInv, Post
    PROVE  IInv'
<1>0. /\ TypeOK /\ FreshestKept /\ Accounted /\ NoLostWakeUp /\ Lifecycle /\ InFlight
      /\ g_count \in Nat /\ submitted \in Nat
  BY UploaderAssumption DEF IInv, TypeOK
<1>1. /\ wpc = "run" /\ job # NoJob /\ job \in Job /\ job.id \in Nat /\ step \in Nat \ {0}
      /\ step <= Len(Messages(job)) /\ Len(Messages(job)) \in Nat
      /\ step' = step + 1 /\ last' = <<job.id, step>> /\ job' = job
      /\ job.id <= submitted - g_count
  <2>1. wpc = "run" /\ job # NoJob /\ job \in Job /\ step \in Nat \ {0}
    BY <1>0 DEF Post, InFlight, TypeOK
  <2>2. job.id \in Nat
    BY <2>1 DEF Job
  <2>3. Len(Messages(job)) \in Nat
    BY <2>1, MessagesLen
  <2>4. step <= Len(Messages(job)) /\ step' = step + 1 /\ last' = <<job.id, step>>
        /\ job' = job
    BY DEF Post, GoOn
  <2> QED
    BY <1>0, <2>1, <2>2, <2>3, <2>4 DEF InFlight
<1>2. TypeOK'
  <2>1. thresholds' \in Rulesets \cup {NoRuleset}
    BY <1>0 DEF Post, TypeOK
  <2> QED
    BY <1>0, <1>1, <2>1 DEF TypeOK, Post, ring, lifecycle
<1>3. FreshestKept'
  BY <1>0, RingUntouched DEF Post, ring
<1>4. Accounted' /\ NoLostWakeUp' /\ Lifecycle'
  BY <1>0 DEF Post, Accounted, NoLostWakeUp, Lifecycle, ring, lifecycle
<1>5. InFlight'
  <2>1. Messages(job)' = Messages(job)
    BY <1>1 DEF Messages, Optional
  <2>2. Len(Messages(job)') = Len(Messages(job))
    BY <2>1
  <2>3. submitted' = submitted /\ g_count' = g_count /\ wpc' = "run"
    BY <1>1 DEF Post, ring
  <2> QED
    BY <1>0, <1>1, <2>2, <2>3 DEF InFlight
<1> QED
  BY <1>2, <1>3, <1>4, <1>5 DEF IInv

(* Every step of either thread keeps the invariant.                        *)
LEMMA StepIInv ==
    ASSUME IInv, [Next]_vars
    PROVE  IInv'
<1> USE DEF IInv
<1>1. CASE Start
  <2>1. TypeOK'
    BY <1>1 DEF Start, TypeOK, ring, history
  <2>2. Accounted' /\ NoLostWakeUp' /\ Lifecycle'
    BY <1>1 DEF Start, Accounted, NoLostWakeUp, Lifecycle, ring, history, TypeOK
  <2>3. FreshestKept' /\ InFlight'
    BY <1>1, RingUntouched, BatchUntouched DEF Start, ring, history
  <2> QED
    BY <2>1, <2>2, <2>3
<1>2. CASE SubmitIgnored
  <2>1. wpc = "none" /\ g_count = 0
    BY <1>2 DEF SubmitIgnored, Lifecycle
  <2>2. TypeOK'
    BY <1>2, UploaderAssumption DEF SubmitIgnored, TypeOK, ring, lifecycle
  <2>3. FreshestKept'
    BY <1>2, <2>1 DEF SubmitIgnored, FreshestKept, ring
  <2>4. Accounted' /\ NoLostWakeUp' /\ Lifecycle'
    BY <1>2, <2>1 DEF SubmitIgnored, Accounted, NoLostWakeUp, Lifecycle, ring, lifecycle
  <2>5. InFlight'
    BY <1>2, <2>1 DEF SubmitIgnored, InFlight, ring, TypeOK
  <2> QED
    BY <2>2, <2>3, <2>4, <2>5
<1>3. CASE \E shape \in Shapes : Submit(shape)
  BY <1>3, SubmitIInv
<1>4. CASE StopNotStarted
  <2>1. TypeOK'
    BY <1>4 DEF StopNotStarted, TypeOK, ring, lifecycle, history
  <2>2. Accounted' /\ NoLostWakeUp' /\ Lifecycle'
    BY <1>4 DEF StopNotStarted, Accounted, NoLostWakeUp, Lifecycle, ring, lifecycle, history
  <2>3. FreshestKept' /\ InFlight'
    BY <1>4, RingUntouched, BatchUntouched DEF StopNotStarted, ring, history
  <2> QED
    BY <2>1, <2>2, <2>3
<1>5. CASE Stop
  <2>1. TypeOK'
    BY <1>5 DEF Stop, Signalled, TypeOK, ring, history
  <2>2. Accounted' /\ NoLostWakeUp' /\ Lifecycle'
    BY <1>5 DEF Stop, Signalled, Accounted, NoLostWakeUp, Lifecycle, ring, history
  <2>3. FreshestKept' /\ InFlight'
    BY <1>5, RingUntouched, BatchUntouched DEF Stop, Signalled, ring, history
  <2> QED
    BY <2>1, <2>2, <2>3
<1>6. CASE Join
  <2>1. TypeOK'
    BY <1>6 DEF Join, TypeOK, ring, history
  <2>2. Accounted' /\ NoLostWakeUp' /\ Lifecycle'
    BY <1>6 DEF Join, JoinReturns, Accounted, NoLostWakeUp, Lifecycle, ring, history
  <2>3. FreshestKept' /\ InFlight'
    BY <1>6, RingUntouched, BatchUntouched DEF Join, ring, history
  <2> QED
    BY <2>1, <2>2, <2>3
<1>7. CASE CaptureError
  <2>1. TypeOK'
    BY <1>7 DEF CaptureError, TypeOK, ring, lifecycle, history
  <2>2. Accounted' /\ NoLostWakeUp' /\ Lifecycle'
    BY <1>7 DEF CaptureError, Accounted, NoLostWakeUp, Lifecycle, ring, lifecycle, history
  <2>3. FreshestKept' /\ InFlight'
    BY <1>7, RingUntouched, BatchUntouched DEF CaptureError, ring, history
  <2> QED
    BY <2>1, <2>2, <2>3
<1>8. CASE ProcessEnd
  <2>1. TypeOK'
    BY <1>8 DEF ProcessEnd, TypeOK, ring, lifecycle, history
  <2>2. Accounted' /\ NoLostWakeUp' /\ Lifecycle'
    BY <1>8 DEF ProcessEnd, Accounted, NoLostWakeUp, Lifecycle, ring, lifecycle, history
  <2>3. FreshestKept' /\ InFlight'
    BY <1>8, RingUntouched, BatchUntouched DEF ProcessEnd, ring, history
  <2> QED
    BY <2>1, <2>2, <2>3
<1>9. CASE Wait
  <2>1. TypeOK'
    BY <1>9 DEF Wait, TypeOK, ring, lifecycle, history
  <2>2. Accounted' /\ NoLostWakeUp' /\ Lifecycle'
    BY <1>9 DEF Wait, MustWait, Accounted, NoLostWakeUp, Lifecycle, ring, lifecycle, history
  <2>3. FreshestKept' /\ InFlight'
    BY <1>9, RingUntouched, BatchUntouched DEF Wait, ring, history
  <2> QED
    BY <2>1, <2>2, <2>3
<1>10. CASE SpuriousWakeUp
  <2>1. TypeOK'
    BY <1>10 DEF SpuriousWakeUp, TypeOK, ring, lifecycle, history
  <2>2. Accounted' /\ NoLostWakeUp' /\ Lifecycle'
    BY <1>10 DEF SpuriousWakeUp, Accounted, NoLostWakeUp, Lifecycle, ring, lifecycle, history
  <2>3. FreshestKept' /\ InFlight'
    BY <1>10, RingUntouched, BatchUntouched DEF SpuriousWakeUp, ring, history
  <2> QED
    BY <2>1, <2>2, <2>3
<1>11. CASE Leave
  <2>1. TypeOK'
    BY <1>11 DEF Leave, TypeOK, ring, lifecycle, history
  <2>2. Accounted' /\ NoLostWakeUp' /\ Lifecycle'
    BY <1>11 DEF Leave, Leaves, Accounted, NoLostWakeUp, Lifecycle, ring, lifecycle, history
  <2>3. FreshestKept' /\ InFlight'
    BY <1>11, RingUntouched, BatchUntouched DEF Leave, ring, history
  <2> QED
    BY <2>1, <2>2, <2>3
<1>12. CASE Take
  BY <1>12, TakeIInv
<1>13. CASE Post
  BY <1>13, PostIInv
<1>14. CASE Return
  <2>1. TypeOK'
    BY <1>14 DEF Return, TypeOK, ring, lifecycle, history
  <2>2. Accounted' /\ NoLostWakeUp' /\ Lifecycle'
    BY <1>14 DEF Return, Accounted, NoLostWakeUp, Lifecycle, ring, lifecycle, history
  <2>3. FreshestKept' /\ InFlight'
    BY <1>14, RingUntouched, BatchUntouched DEF Return, ring, history
  <2> QED
    BY <2>1, <2>2, <2>3
<1>15. CASE UNCHANGED vars
  <2>1. TypeOK'
    BY <1>15 DEF TypeOK, vars, ring, lifecycle, history
  <2>2. Accounted' /\ NoLostWakeUp' /\ Lifecycle'
    BY <1>15 DEF Accounted, NoLostWakeUp, Lifecycle, vars, ring, lifecycle, history
  <2>3. FreshestKept' /\ InFlight'
    BY <1>15, RingUntouched, BatchUntouched DEF vars, ring, history
  <2> QED
    BY <2>1, <2>2, <2>3
<1> QED
  BY <1>1, <1>2, <1>3, <1>4, <1>5, <1>6, <1>7, <1>8, <1>9, <1>10, <1>11, <1>12,
     <1>13, <1>14, <1>15
  DEF Next, Main, Worker, Terminated

(* The invariant holds in every reachable state.                           *)
THEOREM Invariance == Spec => []IInv
<1>1. Init => IInv
  BY InitIInv
<1>2. IInv /\ [Next]_vars => IInv'
  BY StepIInv
<1> QED
  BY <1>1, <1>2, PTL DEF Spec

(* Every variable keeps its type; the head never leaves the ring.          *)
THEOREM TypeCorrect == Spec => []TypeOK
<1>1. IInv => TypeOK
  BY DEF IInv
<1> QED
  BY <1>1, Invariance, PTL

(* The ring always holds the newest batches in the order of submission.    *)
THEOREM NewestSurvive == Spec => []FreshestKept
<1>1. IInv => FreshestKept
  BY DEF IInv
<1> QED
  BY <1>1, Invariance, PTL

(* Every batch is in the ring, begun, or counted as dropped.               *)
THEOREM NoneUnaccounted == Spec => []Accounted
<1>1. IInv => Accounted
  BY DEF IInv
<1> QED
  BY <1>1, Invariance, PTL

(* The uploader never sleeps while there is work or a stop request.        *)
THEOREM WakeUpsArrive == Spec => []NoLostWakeUp
<1>1. IInv => NoLostWakeUp
  BY DEF IInv
<1> QED
  BY <1>1, Invariance, PTL

(* main does not return while the uploader can still read its stack.       *)
THEOREM ConfigSafe == Spec => []ConfigOutlivesUploader
<1>1. IInv => ConfigOutlivesUploader
  BY DEF IInv, Lifecycle, ConfigOutlivesUploader
<1> QED
  BY <1>1, Invariance, PTL

-----------------------------------------------------------------------------
(* Nothing is posted twice, out of order, or skipped inside a batch.       *)
THEOREM Ordered == Spec => MessagesInOrder
<1>1. ASSUME IInv, [Next]_vars
      PROVE  [last' # last => \/ last'[1] = last[1] /\ last'[2] = last[2] + 1
                              \/ last'[1] > last[1] /\ last'[2] = 1]_vars
  <2>1. last' = last \/ Post
    BY <1>1 DEF Next, Main, Worker, Terminated, vars, history, Start, SubmitIgnored,
       Submit, StopNotStarted, Stop, Join, CaptureError, ProcessEnd, Wait, Leave, Take,
       Return, SpuriousWakeUp
  <2>2. ASSUME Post
        PROVE  \/ last'[1] = last[1] /\ last'[2] = last[2] + 1
               \/ last'[1] > last[1] /\ last'[2] = 1
    <3>1. last' = <<job.id, step>>
      BY <2>2 DEF Post
    <3>2. step \in Nat \ {0} /\ last \in Nat \X Nat
      BY <1>1 DEF IInv, TypeOK
    <3>3. job \in Job
      BY <1>1, <2>2 DEF IInv, InFlight, TypeOK, Post
    <3>4. job.id \in Nat
      BY <3>3, UploaderAssumption DEF Job
    <3>5. \/ step = 1 /\ last[1] < job.id
          \/ step > 1 /\ last = <<job.id, step - 1>>
      BY <1>1, <2>2 DEF IInv, InFlight, Post
    <3> QED
      BY <3>1, <3>2, <3>4, <3>5
  <2> QED
    BY <2>1, <2>2
<1> QED
  BY <1>1, Invariance, PTL DEF Spec, MessagesInOrder

(* A failed post never costs the rest of its batch.                        *)
THEOREM Complete == Spec => BatchesRunToTheEnd
<1>1. ASSUME IInv, [Next]_vars
      PROVE  [wpc = "run" /\ wpc' = "check" /\ ready
                => last = <<job.id, Len(Messages(job))>>]_vars
  <2> SUFFICES ASSUME wpc = "run", wpc' = "check", ready
               PROVE  last = <<job.id, Len(Messages(job))>>
    OBVIOUS
  <2>1. Return
    BY <1>1 DEF Next, Main, Worker, Terminated, vars, IInv, Lifecycle, Signalled,
       Start, SubmitIgnored, Submit, StopNotStarted, Stop, Join, CaptureError,
       ProcessEnd, Wait, Leave, Take, Post, SpuriousWakeUp
  <2>2. job \in Job /\ step \in Nat \ {0}
    BY <1>1 DEF IInv, InFlight, TypeOK
  <2>3. Len(Messages(job)) \in Nat \ {0}
    BY <2>2, MessagesLen
  <2>4. step > Len(Messages(job))
    BY <2>1 DEF Return
  <2>5. /\ step <= Len(Messages(job)) + 1
        /\ \/ step = 1 /\ last[1] < job.id
           \/ step > 1 /\ last = <<job.id, step - 1>>
    BY <1>1 DEF IInv, InFlight
  <2> QED
    BY <2>2, <2>3, <2>4, <2>5
<1> QED
  BY <1>1, Invariance, PTL DEF Spec, BatchesRunToTheEnd

(* After a stop request no batch is begun.                                 *)
THEOREM StopsPromptly == Spec => NothingBegunAfterStop
<1>1. ASSUME [Next]_vars
      PROVE  [~g_running => taken' = taken]_vars
  BY <1>1 DEF Next, Main, Worker, Terminated, vars, history, Start, SubmitIgnored,
     Submit, StopNotStarted, Stop, Join, CaptureError, ProcessEnd, Wait, Leave, Take,
     Post, Return, SpuriousWakeUp, Leaves
<1> QED
  BY <1>1, PTL DEF Spec, NothingBegunAfterStop

-----------------------------------------------------------------------------
(* The ring, the mutex and the condition variable implement the bounded,   *)
(* never blocking, drop-oldest queue of LossyQueue.                        *)
THEOREM Refinement == Spec => QueueSpec
<1> DEFINE isOpen == g_running /\ mpc # "dead"
<1>1. Init => Queue!Init
  <2> SUFFICES ASSUME Init PROVE Pending = <<>> /\ isOpen = FALSE
    BY DEF Queue!Init
  <2> QED
    BY DEF Init, Pending
<1>2. ASSUME IInv, [Next]_vars
      PROVE  [Queue!Next]_(Queue!vars)
  <2>0. TypeOK /\ Lifecycle /\ FreshestKept
    BY <1>2 DEF IInv
  <2>1. CASE Start
    <3>1. g_count = 0 /\ g_count' = 0 /\ job' = job
      BY <2>0, <2>1 DEF Start, Lifecycle, ring
    <3>2. Pending = <<>> /\ Pending' = <<>>
      BY <3>1 DEF Pending
    <3>3. g_running = FALSE /\ mpc' = "loop" /\ g_running' \in BOOLEAN
      BY <2>0, <2>1 DEF Start, Lifecycle, TypeOK
    <3>4. CASE g_running'
      BY <3>1, <3>2, <3>3, <3>4 DEF Queue!Open, Queue!Next
    <3>5. CASE ~g_running'
      BY <3>1, <3>2, <3>3, <3>5 DEF Queue!vars
    <3> QED
      BY <3>4, <3>5
  <2>2. ASSUME NEW shape \in Shapes, Submit(shape)
        PROVE  Queue!Next
    <3>1. g_running /\ mpc = "loop" /\ g_running' = g_running /\ mpc' = mpc /\ job' = job
      BY <2>0, <2>2 DEF Submit, Lifecycle, lifecycle
    <3>2. PICK e : e = [id |-> submitted + 1, shape |-> shape]
      OBVIOUS
    <3>3. /\ e \in Job
          /\ Pending' = Append(IF g_count = Capacity THEN Tail(Pending) ELSE Pending, e)
      BY <2>0, <2>2, <3>2, SubmitRing
    <3>4. Len(Pending) = g_count
      BY <2>0, PendingSeq
    <3>5. Pending' = Append(Queue!Kept, e)
      BY <3>3, <3>4 DEF Queue!Kept
    <3>6. Queue!Offer(e)
      BY <3>1, <3>5 DEF Queue!Offer
    <3> QED
      BY <3>3, <3>6 DEF Queue!Next
  <2>3. CASE Stop
    <3>1. g_running /\ mpc = "loop" /\ ~g_running' /\ job' = job
      BY <2>0, <2>3 DEF Stop, Lifecycle
    <3>2. Pending' = Pending
      BY <2>3 DEF Stop, Pending, ring
    <3> QED
      BY <3>1, <3>2 DEF Queue!Close, Queue!Next
  <2>4. CASE ProcessEnd
    <3>1. mpc = "failing" /\ mpc' = "dead" /\ g_running' = g_running /\ job' = job
      BY <2>4 DEF ProcessEnd, lifecycle
    <3>2. Pending' = Pending
      BY <2>4 DEF ProcessEnd, Pending, ring
    <3>3. CASE g_running
      BY <3>1, <3>2, <3>3 DEF Queue!Close, Queue!Next
    <3>4. CASE ~g_running
      BY <3>1, <3>2, <3>4 DEF Queue!vars
    <3> QED
      BY <3>3, <3>4
  <2>5. CASE Take
    <3>1. Pending # <<>> /\ job' = Head(Pending) /\ Pending' = Tail(Pending)
      BY <2>0, <2>5, TakeRing
    <3>2. g_running /\ g_running' = g_running /\ mpc' = mpc /\ mpc # "dead"
      BY <2>0, <2>5 DEF Take, Leaves, Lifecycle, lifecycle
    <3> QED
      BY <3>1, <3>2 DEF Queue!Take, Queue!Next
  <2>6. ASSUME UNCHANGED <<ring, g_running, job>>, (mpc = "dead") = (mpc' = "dead")
        PROVE  UNCHANGED Queue!vars
    <3>1. Pending' = Pending
      BY <2>6 DEF Pending, ring
    <3> QED
      BY <2>6, <3>1 DEF Queue!vars
  <2>7. CASE SubmitIgnored \/ StopNotStarted \/ Join \/ CaptureError
    BY <2>6, <2>7 DEF SubmitIgnored, StopNotStarted, Join, CaptureError, ring, lifecycle
  <2>8. CASE Wait \/ Leave \/ Post \/ Return \/ SpuriousWakeUp
    BY <2>6, <2>8 DEF Wait, Leave, Post, Return, SpuriousWakeUp, ring, lifecycle
  <2>9. CASE UNCHANGED vars
    BY <2>6, <2>9 DEF vars, ring, lifecycle
  <2> QED
    BY <1>2, <2>1, <2>2, <2>3, <2>4, <2>5, <2>7, <2>8, <2>9
    DEF Next, Main, Worker, Terminated
<1> QED
  BY <1>1, <1>2, Invariance, PTL DEF Spec, QueueSpec, Queue!Spec

-----------------------------------------------------------------------------
(* The batches in the ring are the latest ones.                            *)
LEMMA WaitingIs ==
    ASSUME IInv
    PROVE  /\ {Pending[i].id : i \in 1..g_count} = (submitted - g_count + 1)..submitted
           /\ {Pending[i].id : i \in 1..g_count} \subseteq Nat \ {0}
           /\ submitted \in Nat /\ g_count \in 0..Capacity
<1> DEFINE ids == {Pending[i].id : i \in 1..g_count}
<1>1. /\ submitted \in Nat /\ g_count \in 0..Capacity /\ Capacity \in Nat
      /\ \A i \in 1..g_count : /\ Pending[i] # NoJob
                               /\ Pending[i].id = submitted - g_count + i
  BY UploaderAssumption DEF IInv, TypeOK, FreshestKept
<1>2. /\ Pending \in Seq(Job \cup {NoJob})
      /\ Len(Pending) = g_count
  BY PendingSeq DEF IInv
<1>3. ids = {submitted - g_count + i : i \in 1..g_count}
  BY <1>1
<1>4. (submitted - g_count + 1)..submitted \subseteq {submitted - g_count + i : i \in 1..g_count}
  <2> SUFFICES ASSUME NEW id \in (submitted - g_count + 1)..submitted
               PROVE  \E i \in 1..g_count : id = submitted - g_count + i
    OBVIOUS
  <2> DEFINE i == id - (submitted - g_count)
  <2>1. i \in 1..g_count /\ id = submitted - g_count + i
    BY <1>1
  <2> QED
    BY <2>1
<1>5. {submitted - g_count + i : i \in 1..g_count} \subseteq (submitted - g_count + 1)..submitted
  BY <1>1
<1>6. \A i \in 1..g_count : Pending[i].id \in Nat \ {0}
  <2> TAKE i \in 1..g_count
  <2>1. Pending[i] \in Job
    BY <1>1, <1>2
  <2> QED
    BY <2>1, UploaderAssumption DEF Job
<1> QED
  BY <1>1, <1>3, <1>4, <1>5, <1>6

-----------------------------------------------------------------------------
(* A message of some kind occurs at most once, or never, in a sequence.    *)
MessageKinds == {"traffic", "alert", "dns", "clients", "forensics", "heartbeat", "rules"}
Never(s, kind) == \A a \in 1..Len(s) : s[a] # kind
Once(s, kind) ==
    /\ s \in Seq(MessageKinds)
    /\ \A a, b \in 1..Len(s) : s[a] = kind /\ s[b] = kind => a = b

(* Two sequences one of which has none of the kind have it once together.  *)
LEMMA OnceTogether ==
    ASSUME NEW s, NEW t, NEW kind, Once(s, kind), Once(t, kind), Never(s, kind) \/ Never(t, kind)
    PROVE  Once(s \o t, kind) /\ (Never(s, kind) /\ Never(t, kind) => Never(s \o t, kind))
<1> DEFINE n == Len(s)
           m == Len(t)
           u == s \o t
<1>1. /\ s \in Seq(MessageKinds) /\ t \in Seq(MessageKinds) /\ n \in Nat /\ m \in Nat
      /\ \A a, b \in 1..n : s[a] = kind /\ s[b] = kind => a = b
      /\ \A a, b \in 1..m : t[a] = kind /\ t[b] = kind => a = b
  BY DEF Once
<1> HIDE DEF n, m
<1>2. /\ u \in Seq(MessageKinds) /\ Len(u) = n + m
      /\ \A i \in 1..(n + m) : u[i] = IF i <= n THEN s[i] ELSE t[i - n]
  BY <1>1, ConcatProperties DEF n, m
<1> HIDE DEF u
<1>3. \A i \in 1..(n + m) : i \in 1..n \/ (i > n /\ i - n \in 1..m)
  BY <1>1
<1>4. Never(s, kind) => \A i \in 1..n : s[i] # kind
  BY DEF Never, n
<1>5. Never(t, kind) => \A i \in 1..m : t[i] # kind
  BY DEF Never, m
<1>6. ASSUME NEW a \in 1..(n + m), NEW b \in 1..(n + m), u[a] = kind, u[b] = kind
      PROVE  a = b
  <2>1. CASE Never(s, kind)
    <3>1. a > n /\ b > n /\ a - n \in 1..m /\ b - n \in 1..m
      BY <1>1, <1>2, <1>3, <1>4, <1>6, <2>1
    <3>2. t[a - n] = kind /\ t[b - n] = kind
      BY <1>1, <1>2, <1>6, <3>1
    <3>3. a - n = b - n
      BY <1>1, <3>1, <3>2
    <3> QED
      BY <1>1, <3>1, <3>3
  <2>2. CASE Never(t, kind)
    <3>1. a \in 1..n /\ b \in 1..n
      BY <1>1, <1>2, <1>3, <1>5, <1>6, <2>2
    <3>2. s[a] = kind /\ s[b] = kind
      BY <1>1, <1>2, <1>6, <3>1
    <3> QED
      BY <1>1, <3>1, <3>2
  <2> QED
    BY <2>1, <2>2
<1>7. Never(s, kind) /\ Never(t, kind) => Never(u, kind)
  <2> SUFFICES ASSUME Never(s, kind), Never(t, kind), NEW i \in 1..(n + m) PROVE u[i] # kind
    BY <1>2 DEF Never
  <2> QED
    BY <1>1, <1>2, <1>3, <1>4, <1>5
<1> QED
  BY <1>2, <1>6, <1>7 DEF Once, u

(* A batch has one traffic window and at most one list of queries.         *)
LEMMA OnceInBatch ==
    ASSUME NEW j, j.shape.alerts \in Nat, NEW kind \in {"traffic", "dns"}
    PROVE  Once(Messages(j), kind)
<1> DEFINE alerts == [i \in 1..j.shape.alerts |-> "alert"]
           opt(k) == Optional(j.shape, k)
           one == <<"traffic">> \o alerts
           two == one \o opt("dns")
           three == two \o opt("clients")
           four == three \o opt("forensics")
           five == four \o opt("heartbeat")
<1>1. Once(alerts, kind) /\ Never(alerts, kind)
  <2>1. alerts \in [1..j.shape.alerts -> MessageKinds]
    BY DEF MessageKinds
  <2>2. alerts \in Seq(MessageKinds) /\ Len(alerts) = j.shape.alerts
    BY <2>1, SeqDef, LenProperties
  <2> QED
    BY <2>2 DEF Once, Never
<1>2. Once(<<"traffic">>, kind) /\ (kind = "dns" => Never(<<"traffic">>, kind))
  <2>1. <<"traffic">> \in Seq(MessageKinds) /\ Len(<<"traffic">>) = 1
    BY DEF MessageKinds
  <2> QED
    BY <2>1 DEF Once, Never
<1>3. \A k \in MessageKinds : Once(opt(k), kind) /\ (k # kind => Never(opt(k), kind))
  <2> TAKE k \in MessageKinds
  <2>1. CASE opt(k) = <<>>
    <3>1. <<>> \in Seq(MessageKinds) /\ Len(<<>>) = 0
      OBVIOUS
    <3> HIDE DEF opt
    <3> QED
      BY <2>1, <3>1 DEF Once, Never
  <2>2. CASE opt(k) = <<k>>
    <3>1. <<k>> \in Seq(MessageKinds) /\ Len(<<k>>) = 1 /\ <<k>>[1] = k
      OBVIOUS
    <3> HIDE DEF opt
    <3> QED
      BY <2>2, <3>1 DEF Once, Never
  <2> QED
    BY <2>1, <2>2 DEF Optional
<1>4. {"dns", "clients", "forensics", "heartbeat", "rules"} \subseteq MessageKinds
  BY DEF MessageKinds
<1> HIDE DEF alerts, opt
<1>5. Once(one, kind) /\ (kind = "dns" => Never(one, kind))
  BY <1>1, <1>2, OnceTogether
<1> HIDE DEF one
<1>6. Once(two, kind)
  <2>1. Once(opt("dns"), kind) /\ (kind # "dns" => Never(opt("dns"), kind))
    BY <1>3, <1>4
  <2> QED
    BY <1>5, <2>1, OnceTogether
<1> HIDE DEF two
<1>7. /\ Once(opt("clients"), kind) /\ Never(opt("clients"), kind)
      /\ Once(opt("forensics"), kind) /\ Never(opt("forensics"), kind)
      /\ Once(opt("heartbeat"), kind) /\ Never(opt("heartbeat"), kind)
      /\ Once(opt("rules"), kind) /\ Never(opt("rules"), kind)
  BY <1>3, <1>4
<1>8. Once(three, kind)
  BY <1>6, <1>7, OnceTogether
<1> HIDE DEF three
<1>9. Once(four, kind)
  BY <1>7, <1>8, OnceTogether
<1> HIDE DEF four
<1>10. Once(five, kind)
  BY <1>7, <1>9, OnceTogether
<1> HIDE DEF five
<1>11. Once(five \o opt("rules"), kind)
  BY <1>7, <1>10, OnceTogether
<1>12. Messages(j) = five \o opt("rules")
  BY DEF Messages, five, four, three, two, one, alerts, opt
<1> QED
  BY <1>11, <1>12

(* Messages posted, each with its batch: batches in their order, up to the *)
(* one of the last message, and of each at most one message of either kind *)
(* that carries counts.                                                    *)
PostedInOrder(ps, l) ==
    /\ ps \in Seq(Nat \X MessageKinds)
    /\ \A i \in 1..Len(ps) : ps[i][1] \in 1..l[1]
    /\ \A k \in 1..Len(ps) : \A i \in 1..(k - 1) :
          ps[i][2] = ps[k][2] /\ ps[k][2] \in {"traffic", "dns"} => ps[i][1] < ps[k][1]

(* Of batch j only messages before its s-th.                               *)
PostedBefore(ps, j, s) ==
    \A i \in 1..Len(ps) : ps[i][1] = j.id => \E a \in 1..(s - 1) : ps[i][2] = Messages(j)[a]

(* The batch in flight, as the invariant has it.                           *)
LEMMA InFlightIs ==
    ASSUME IInv, wpc = "run"
    PROVE  /\ job.id \in Nat \ {0} /\ job.id <= submitted /\ job.shape.alerts \in Nat
           /\ step \in Nat \ {0} /\ last[1] \in Nat
           /\ (step = 1 /\ last[1] < job.id) \/ (step > 1 /\ last = <<job.id, step - 1>>)
           /\ Len(Messages(job)) \in Nat
<1>1. /\ job \in Job /\ step \in Nat \ {0} /\ last \in Nat \X Nat
      /\ submitted \in Nat /\ g_count \in Nat /\ job.id <= submitted - g_count
      /\ (step = 1 /\ last[1] < job.id) \/ (step > 1 /\ last = <<job.id, step - 1>>)
  BY UploaderAssumption DEF IInv, TypeOK, InFlight
<1>2. job.id \in Nat \ {0} /\ job.shape.alerts \in Nat
  BY <1>1, UploaderAssumption DEF Job
<1>3. Len(Messages(job)) \in Nat
  BY <1>1, MessagesLen
<1> QED
  BY <1>1, <1>2, <1>3

(* One message more, the next one of the batch in flight, keeps it so.     *)
LEMMA PostedOnce ==
    ASSUME IInv, wpc = "run", step <= Len(Messages(job)), NEW ps, NEW qs,
           PostedInOrder(ps, last), PostedBefore(ps, job, step),
           qs = Append(ps, <<job.id, Messages(job)[step]>>)
    PROVE  PostedInOrder(qs, <<job.id, step>>) /\ PostedBefore(qs, job, step + 1)
<1> DEFINE n == Len(ps)
           msgs == Messages(job)
           b == job.id
           p == <<b, msgs[step]>>
<1>1. /\ b \in Nat \ {0} /\ job.shape.alerts \in Nat
      /\ step \in Nat \ {0} /\ last[1] \in Nat
      /\ (step = 1 /\ last[1] < b) \/ (step > 1 /\ last = <<b, step - 1>>)
      /\ Len(msgs) \in Nat /\ step <= Len(msgs)
  BY InFlightIs
<1>2. \A kind \in {"traffic", "dns"} : Once(msgs, kind)
  BY <1>1, OnceInBatch
<1>3. msgs \in Seq(MessageKinds)
  BY <1>2 DEF Once
<1>4. PostedBefore(ps, job, step) <=>
         \A i \in 1..n : ps[i][1] = b => \E a \in 1..(step - 1) : ps[i][2] = msgs[a]
  BY DEF PostedBefore
<1>5. PostedBefore(qs, job, step + 1) <=>
         \A i \in 1..Len(qs) : qs[i][1] = b => \E a \in 1..((step + 1) - 1) : qs[i][2] = msgs[a]
  BY DEF PostedBefore
<1> HIDE DEF msgs, b
<1>6. p \in Nat \X MessageKinds /\ p[1] = b /\ p[2] = msgs[step]
  <2>1. msgs[step] \in MessageKinds
    BY <1>1, <1>3
  <2> QED
    BY <1>1, <2>1
<1>7. qs = Append(ps, p)
  BY DEF msgs, b
<1> HIDE DEF p
<1>8. ps \in Seq(Nat \X MessageKinds) /\ n \in Nat
  BY DEF PostedInOrder
<1> HIDE DEF n
<1>9. /\ qs \in Seq(Nat \X MessageKinds) /\ Len(qs) = n + 1
      /\ \A i \in 1..n : qs[i] = ps[i]
      /\ qs[n + 1] = p
  BY <1>6, <1>7, <1>8 DEF n
<1>10. \A i \in 1..(n + 1) : i \in 1..n \/ i = n + 1
  BY <1>8
<1>11. /\ \A i \in 1..n : ps[i][1] \in 1..last[1]
       /\ \A k \in 1..n : \A i \in 1..(k - 1) :
             ps[i][2] = ps[k][2] /\ ps[k][2] \in {"traffic", "dns"} => ps[i][1] < ps[k][1]
       /\ \A i \in 1..n : ps[i][1] = b => \E a \in 1..(step - 1) : ps[i][2] = msgs[a]
  BY <1>4 DEF PostedInOrder, n
<1>12. last[1] <= b
  BY <1>1
<1>13. \A i \in 1..n : ps[i][1] \in Nat /\ ps[i][1] \in 1..b
  BY <1>1, <1>11, <1>12
<1>14. \A i \in 1..(n + 1) : qs[i][1] \in 1..b
  <2>1. qs[n + 1][1] \in 1..b
    BY <1>1, <1>6, <1>9
  <2> QED
    BY <1>9, <1>10, <1>13, <2>1
<1>15. ASSUME NEW k \in 1..(n + 1), NEW i \in 1..(k - 1),
              qs[i][2] = qs[k][2], qs[k][2] \in {"traffic", "dns"}
       PROVE  qs[i][1] < qs[k][1]
  <2>1. i \in 1..n /\ qs[i] = ps[i]
    BY <1>8, <1>9
  <2>2. CASE k \in 1..n
    BY <1>9, <1>11, <1>15, <2>1, <2>2
  <2>3. CASE k = n + 1
    <3>1. qs[k] = p
      BY <1>9, <2>3
    <3>2. CASE ps[i][1] = b
      <4>1. PICK a \in 1..(step - 1) : ps[i][2] = msgs[a]
        BY <1>11, <2>1, <3>2
      <4>2. msgs[a] = p[2] /\ msgs[step] = p[2] /\ p[2] \in {"traffic", "dns"}
        BY <1>6, <1>15, <2>1, <3>1, <4>1
      <4>3. a \in 1..Len(msgs) /\ step \in 1..Len(msgs) /\ a # step
        BY <1>1
      <4>4. \A c, d \in 1..Len(msgs) : msgs[c] = p[2] /\ msgs[d] = p[2] => c = d
        BY <1>2, <4>2 DEF Once
      <4> QED
        BY <4>2, <4>3, <4>4
    <3>3. CASE ps[i][1] # b
      <4>1. qs[i][1] \in 1..b /\ qs[i][1] # b
        BY <1>13, <2>1, <3>3
      <4>2. qs[k][1] = b
        BY <1>6, <3>1
      <4>3. \A x \in 1..b : x # b => x < b
        BY <1>1
      <4> QED
        BY <4>1, <4>2, <4>3, Zenon
    <3> QED
      BY <3>2, <3>3
  <2> QED
    BY <1>10, <2>2, <2>3
<1>16. ASSUME NEW i \in 1..(n + 1), qs[i][1] = b
       PROVE  \E a \in 1..((step + 1) - 1) : qs[i][2] = msgs[a]
  <2>1. (step + 1) - 1 = step /\ step \in 1..step /\ \A a \in 1..(step - 1) : a \in 1..step
    BY <1>1
  <2>2. CASE i \in 1..n
    <3>1. PICK a \in 1..(step - 1) : ps[i][2] = msgs[a]
      BY <1>9, <1>11, <1>16, <2>2
    <3> QED
      BY <1>9, <2>1, <2>2, <3>1
  <2>3. CASE i = n + 1
    BY <1>6, <1>9, <2>1, <2>3
  <2> QED
    BY <1>10, <2>2, <2>3
<1>17. PostedBefore(qs, job, step + 1)
  BY <1>5, <1>9, <1>16
<1>18. <<job.id, step>>[1] = b
  BY DEF b
<1> QED
  BY <1>9, <1>14, <1>15, <1>17, <1>18 DEF PostedInOrder
=============================================================================
