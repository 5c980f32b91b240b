------------------------- MODULE CaptureLoop_proofs -------------------------
(***************************************************************************)
(* Proofs about the capture loop, for every traffic, every capacity and    *)
(* every length of the windows.                                            *)
(***************************************************************************)
EXTENDS CaptureLoop, FiniteSetTheorems, SequenceTheorems, TLAPS

(* The lemmas about sums, rings and the packet window.                     *)
Proven == INSTANCE PacketWindow_proofs WITH
    Capacity <- WindowCapacity, Seconds <- WindowSeconds

-----------------------------------------------------------------------------
(* The window of the loop is the one that those lemmas are about.          *)
LEMMA SameConstants == Proven!PacketWindowAssumption
BY PartsAssumption
   DEF Window!PacketWindowAssumption, Proven!PacketWindowAssumption, Window!Record,
       Proven!Record, Window!Protocols, Proven!Protocols

(* Both begin alike.                                                       *)
LEMMA SameInit == Window!WindowInit => Proven!WindowInit
BY DEF Window!WindowInit, Proven!WindowInit, Window!Counters, Proven!Counters

(* A push of the loop is a push of that window.                            *)
LEMMA SamePush ==
    ASSUME NEW packet, NEW now, Window!Push(packet, now)
    PROVE  Proven!Push(packet, now)
BY Zenon DEF Window!Push, Proven!Push, Window!Popped, Proven!Popped, Window!ExpiredPrefix,
       Proven!ExpiredPrefix, Window!Expired, Proven!Expired, Window!Live, Proven!Live,
       Window!Saturated, Proven!Saturated, Window!Advanced, Proven!Advanced,
       Window!Aggregate, Proven!Aggregate, Window!Counters, Proven!Counters,
       Window!Share, Proven!Share, Window!FoldLeft, Proven!FoldLeft,
       Window!MapThenFoldSet, Proven!MapThenFoldSet, Window!Max, Proven!Max

(* What is proved of that window holds for the window of the loop.         *)
LEMMA SamePromises ==
    ASSUME Proven!WindowInv
    PROVE  Window!TypeOK /\ Window!AggregatesExact /\ Window!WindowExact
<1>1. Window!TypeOK
  BY DEF Proven!WindowInv, Proven!TypeOK, Window!TypeOK, Window!Record,
       Proven!Record, Window!Protocols, Proven!Protocols, Window!Counters, Proven!Counters
<1>2. Window!AggregatesExact
  BY DEF Proven!WindowInv, Proven!AggregatesExact, Window!AggregatesExact, 
       Window!Counters, Proven!Counters, Window!Sum, Proven!Sum, Window!Share, Proven!Share,
       Window!Live, Proven!Live, Window!SumOf, Proven!SumOf,
       Window!FoldLeft, Proven!FoldLeft,
       Window!MapThenFoldSet, Proven!MapThenFoldSet, Window!Max, Proven!Max
<1>3. Window!WindowExact
  BY DEF Proven!WindowInv, Proven!LatestKept, Proven!RecentKept, Window!WindowExact,
       Window!LatestKept, Window!RecentKept, Window!Live, Proven!Live,
       Window!Newest, Proven!Newest, Window!Recent, Proven!Recent
<1> QED
  BY <1>1, <1>2, <1>3

-----------------------------------------------------------------------------
(* The forensic ring holds the latest packets, as many as it has slots for.*)
FxInv ==
    /\ Fx!TypeOK
    /\ fx_count <= Len(arrived)
    /\ fx_count = FxCapacity \/ fx_count = Len(arrived)
    /\ \A i \in 1..fx_count :
          fx_packets[(fx_head + i - 1) % FxCapacity] = arrived[Len(arrived) - fx_count + i]

(* What the assumptions say of the forensic ring.                          *)
LEMMA FxConstants == FxCapacity \in Nat \ {0} /\ FxSample \in Nat
BY PartsAssumption DEF Fx!FxRingAssumption

(* A packet leaves it so.                                                  *)
LEMMA PushFx ==
    ASSUME FxInv, NEW rec \in Window!Record, Fx!Push(rec)
    PROVE  FxInv'
<1> DEFINE n == FxCapacity
           p == IF fx_count = n THEN 1 ELSE 0
           a == Len(arrived)
           V == Window!Record \cup {NoRecord}
<1>1. /\ n \in Nat \ {0} /\ fx_head \in 0..(n - 1) /\ fx_count \in 0..n
      /\ fx_packets \in [0..(n - 1) -> V] /\ arrived \in Seq(Window!Record) /\ a \in Nat
      /\ fx_count <= a /\ (fx_count = n \/ fx_count = a)
  BY FxConstants DEF FxInv, Fx!TypeOK
<1>2. p \in 0..fx_count /\ fx_count - p < n /\ fx_count - p \in 0..n /\ p \in 0..n
  BY <1>1
<1>3. /\ fx_head' = (fx_head + p) % n
      /\ (fx_head' + (fx_count - p)) % n = (fx_head + fx_count) % n
      /\ fx_head' \in 0..(n - 1)
  <2>1. CASE fx_count = n
    <3>1. fx_head' = (fx_head + 1) % n
      BY <2>1 DEF Fx!Push, Fx!NextHead
    <3>2. 1 \in 0..n
      BY <1>1
    <3>3. fx_head' \in 0..(n - 1)
          /\ fx_head' = IF fx_head + 1 < n THEN fx_head + 1 ELSE fx_head + 1 - n
      BY <1>1, <3>1, <3>2, Proven!SlotAfter
    <3>4. (fx_head' + (n - 1)) % n = IF fx_head' + (n - 1) < n THEN fx_head' + (n - 1)
                                     ELSE fx_head' + (n - 1) - n
      <4>1. n - 1 \in 0..n
        BY <1>1
      <4> QED
        BY <1>1, <3>3, <4>1, Proven!SlotAfter
    <3>5. (fx_head + n) % n = IF fx_head + n < n THEN fx_head + n ELSE fx_head + n - n
      <4>1. n \in 0..n
        BY <1>1
      <4> QED
        BY <1>1, <4>1, Proven!SlotAfter
    <3>6. p = 1
      BY <2>1
    <3> HIDE DEF n, p
    <3>7. (fx_head' + (n - 1)) % n = (fx_head + n) % n
      BY <1>1, <3>3, <3>4, <3>5
    <3> QED
      BY <2>1, <3>1, <3>3, <3>6, <3>7
  <2>2. CASE fx_count # n
    <3>1. fx_head' = fx_head /\ p = 0
      BY <2>2 DEF Fx!Push, Fx!NextHead
    <3>2. (fx_head + 0) % n = IF fx_head + 0 < n THEN fx_head + 0 ELSE fx_head + 0 - n
      <4>1. 0 \in 0..n
        BY <1>1
      <4> QED
        BY <1>1, <4>1, Proven!SlotAfter
    <3> HIDE DEF n, p
    <3>3. (fx_head + 0) % n = fx_head
      BY <1>1, <3>2
    <3>4. fx_count - 0 = fx_count
      BY <1>1
    <3> QED
      BY <1>1, <3>1, <3>3, <3>4
  <2> QED
    BY <2>1, <2>2
<1>4. /\ fx_packets' = [fx_packets EXCEPT ![(fx_head' + (fx_count - p)) % n] = rec]
      /\ fx_count' = fx_count - p + 1
      /\ arrived' = Append(arrived, rec)
  <2>1. fx_packets' = [fx_packets EXCEPT ![(fx_head + fx_count) % n] = rec]
    BY DEF Fx!Push
  <2>2. fx_count' = fx_count - p + 1 /\ arrived' = Append(arrived, rec)
    BY <1>1 DEF Fx!Push
  <2> HIDE DEF p, n
  <2> QED
    BY <1>3, <2>1, <2>2
<1>5. /\ arrived' \in Seq(Window!Record) /\ Len(arrived') = a + 1 /\ arrived'[a + 1] = rec
      /\ \A i \in 1..a : arrived'[i] = arrived[i]
  BY <1>1, <1>4
<1> HIDE DEF n, p, a, V
<1>6. (fx_head' + (fx_count - p)) % n \in 0..(n - 1)
  BY <1>1, <1>2, <1>3, Proven!SlotAfter
<1>7. rec \in V
  BY DEF V
<1>8. fx_packets' \in [0..(n - 1) -> V]
  BY <1>1, <1>4, <1>6, <1>7
<1>9. fx_count' \in 0..n /\ fx_count' <= a + 1 /\ (fx_count' = n \/ fx_count' = a + 1)
  BY <1>1, <1>2, <1>4 DEF p
<1>10. ASSUME NEW i \in 1..fx_count'
       PROVE  fx_packets'[(fx_head' + i - 1) % n] = arrived'[(a + 1) - fx_count' + i]
  <2>1. i \in 1..(fx_count - p + 1) /\ (a + 1) - fx_count' + i = a - fx_count + (p + i)
    BY <1>1, <1>2, <1>4
  <2>2. DOMAIN fx_packets = 0..(n - 1)
    BY <1>1
  <2>3. Proven!Pushed(n, fx_packets, fx_head, fx_count, p, rec, i)
    BY <1>1, <1>2, <2>1, <2>2, Proven!RingPush
  <2>4. fx_packets'[(fx_head' + i - 1) % n] =
           IF i = fx_count - p + 1 THEN rec ELSE fx_packets[(fx_head + (p + i) - 1) % n]
    BY <1>3, <1>4, <2>3, Zenon DEF Proven!Pushed
  <2>5. CASE i = fx_count - p + 1
    <3>1. a - fx_count + (p + i) = a + 1
      BY <1>1, <1>2, <2>5
    <3> QED
      BY <1>5, <2>1, <2>4, <2>5, <3>1
  <2>6. CASE i # fx_count - p + 1
    <3>1. p + i \in 1..fx_count /\ a - fx_count + (p + i) \in 1..a
      BY <1>1, <1>2, <2>1, <2>6
    <3>2. fx_packets[(fx_head + (p + i) - 1) % n] = arrived[a - fx_count + (p + i)]
      BY <3>1 DEF FxInv, n, a
    <3> QED
      BY <1>5, <2>1, <2>4, <2>6, <3>1, <3>2
  <2> QED
    BY <2>5, <2>6
<1> QED
  BY <1>3, <1>5, <1>8, <1>9, <1>10 DEF FxInv, Fx!TypeOK, n, a, V

(* From such a ring the sample of an alert is the latest packets.          *)
LEMMA SampleFromRing == FxInv => Fx!SampleIsLatest
<1> SUFFICES ASSUME FxInv, NEW max \in 0..FxSample
             PROVE  LET n == CHOOSE n \in 0..max :
                                /\ n <= FxCapacity /\ n <= Len(arrived)
                                /\ n = max \/ n = FxCapacity \/ n = Len(arrived)
                    IN  Fx!Recent(max) = Fx!Reverse(SubSeq(arrived, Len(arrived) - n + 1, Len(arrived)))
  BY DEF Fx!SampleIsLatest
<1> DEFINE a == Len(arrived)
           least == IF fx_count > max THEN max ELSE fx_count
           Right(n) == n <= FxCapacity /\ n <= a /\ (n = max \/ n = FxCapacity \/ n = a)
           newest == SubSeq(arrived, a - least + 1, a)
<1>1. /\ FxCapacity \in Nat \ {0} /\ fx_count \in 0..FxCapacity /\ max \in Nat
      /\ arrived \in Seq(Window!Record) /\ a \in Nat /\ fx_head \in 0..(FxCapacity - 1)
      /\ fx_count <= a /\ (fx_count = FxCapacity \/ fx_count = a)
  BY FxConstants DEF FxInv, Fx!TypeOK
<1> HIDE DEF a
<1>2. least \in 0..max /\ Right(least) /\ least \in 0..fx_count /\ a - least \in 0..a
  BY <1>1
<1>3. \A n \in 0..max : Right(n) => n = least
  BY <1>1
<1> HIDE DEF least
<1>4. (CHOOSE n \in 0..max : Right(n)) = least
  <2> HIDE DEF Right
  <2> QED
    BY <1>2, <1>3
<1>5. /\ newest \in Seq(Window!Record) /\ Len(newest) = least
      /\ \A i \in 1..least : newest[i] = arrived[a - least + i]
  <2> DEFINE k == a - least
  <2>1. k \in 0..Len(arrived) /\ a - k = least /\ k + 1 = a - least + 1
    BY <1>1, <1>2 DEF a
  <2> HIDE DEF k
  <2>2. /\ SubSeq(arrived, k + 1, Len(arrived)) \in Seq(Window!Record)
        /\ Len(SubSeq(arrived, k + 1, Len(arrived))) = Len(arrived) - k
        /\ \A i \in 1..(Len(arrived) - k) :
              SubSeq(arrived, k + 1, Len(arrived))[i] = arrived[k + i]
    BY <1>1, <2>1, Proven!PartsEnd
  <2> QED
    BY <2>1, <2>2 DEF a, k
<1>6. Fx!Reverse(newest) = [i \in 1..least |-> newest[(least - i) + 1]]
  BY <1>5 DEF Fx!Reverse
<1>7. Fx!Recent(max) = [i \in 1..least |-> fx_packets[(fx_head + fx_count - i) % FxCapacity]]
  BY DEF Fx!Recent, Fx!Backwards, least
<1>8. ASSUME NEW i \in 1..least
      PROVE  fx_packets[(fx_head + fx_count - i) % FxCapacity] = newest[(least - i) + 1]
  <2> DEFINE j == fx_count - i + 1
  <2>1. /\ j \in 1..fx_count /\ fx_head + j - 1 = fx_head + fx_count - i
        /\ (least - i) + 1 \in 1..least
        /\ a - fx_count + j = a - least + ((least - i) + 1)
    BY <1>1, <1>2
  <2> HIDE DEF j
  <2>2. fx_packets[(fx_head + j - 1) % FxCapacity] = arrived[a - fx_count + j]
    BY <2>1 DEF FxInv, a
  <2> QED
    BY <1>5, <2>1, <2>2
<1> HIDE DEF newest
<1>9. Fx!Recent(max) = Fx!Reverse(newest)
  BY <1>6, <1>7, <1>8
<1> QED
  BY <1>4, <1>9 DEF a, newest, Right


-----------------------------------------------------------------------------
(* The window, the forensic ring and the histories of the packets belong   *)
(* together.                                                               *)
RingsInv ==
    /\ Proven!WindowInv
    /\ FxInv
    /\ handled \in Seq(Traffic)
    /\ Len(handled) = Len(arrived)
    /\ \A i \in 1..Len(handled) : /\ arrived[i].size = handled[i].size
                                  /\ arrived[i].protocol = handled[i].flow.protocol

(* The constants of the loop.                                              *)
LEMMA Constants ==
    /\ WindowCapacity \in Nat \ {0} /\ WindowSeconds \in Nat
    /\ MaxTime \in Nat /\ MaxBoot \in 0..MaxTime /\ Modulus \in Nat \ {0}
    /\ StatsSeconds \in Nat \ {0} /\ RulesSeconds \in Nat
    /\ MaxAlerts \in Nat /\ MaxAlerts >= 3 /\ MinEndpoints \in Nat
    /\ FlowCapacity \in Nat /\ DnsCapacity \in Nat /\ RosterCapacity \in Nat
BY CaptureLoopAssumption, PartsAssumption
   DEF Window!PacketWindowAssumption, Table!FlowTableAssumption, Dns!DnsWindowAssumption

(* A packet of the traffic.                                                *)
LEMMA TrafficIs ==
    ASSUME NEW packet \in Traffic
    PROVE  /\ packet.size \in Sizes /\ packet.size \in Nat /\ packet.flow \in Flows
           /\ packet.flow.protocol \in {"tcp", "udp"}
           /\ packet.flow.src \in Addresses
           /\ packet.query # NoQuery => packet.query \in Domains
<1>1. packet.size \in Sizes /\ packet.flow \in Flows
  BY DEF Sizes, Flows
<1>2. packet.size \in Nat /\ packet.flow.protocol \in {"tcp", "udp"}
  BY <1>1, PartsAssumption
     DEF Window!PacketWindowAssumption, Table!FlowTableAssumption, Table!Protocols
<1>3. packet.flow.src \in Addresses
  BY <1>1 DEF Addresses
<1>4. packet.query # NoQuery => packet.query \in Domains
  BY DEF Domains
<1> QED
  BY <1>1, <1>2, <1>3, <1>4

(* What every packet does to the rings and the histories.                  *)
LEMMA FrameIs ==
    ASSUME RingsInv, PacketFrame
    PROVE  \E packet \in Traffic :
              LET rec == [ts |-> clock, size |-> packet.size, protocol |-> packet.flow.protocol]
              IN  /\ Handle(packet, Thresholds)
                  /\ rec \in Window!Record
                  /\ Proven!Push([size |-> packet.size, protocol |-> packet.flow.protocol], clock)
                  /\ [size |-> packet.size, protocol |-> packet.flow.protocol] \in Proven!Packet
                  /\ Fx!Push(rec)
                  /\ arrived' = Append(arrived, rec)
                  /\ handled' = Append(handled, packet)
                  /\ clock' = clock /\ clock \in 0..MaxTime
<1>1. PICK packet \in Traffic : Handle(packet, Thresholds)
  BY DEF PacketFrame, PacketUnder
<1> DEFINE pushed == [size |-> packet.size, protocol |-> packet.flow.protocol]
           rec == [ts |-> clock, size |-> packet.size, protocol |-> packet.flow.protocol]
<1>2. Window!Push(pushed, clock) /\ Fx!Push(rec) /\ handled' = Append(handled, packet)
  BY <1>1, Zenon DEF Handle
<1>3. clock' = clock /\ clock \in 0..MaxTime
  BY DEF PacketFrame, PacketUnder, RingsInv, Proven!WindowInv, Proven!TypeOK
<1>4. Proven!Push(pushed, clock)
  BY <1>2, SamePush
<1>5. pushed \in Proven!Packet /\ rec \in Window!Record
  BY <1>3, TrafficIs DEF Proven!Packet, Proven!Protocols, Window!Record, Window!Protocols
<1>6. arrived' = Append(arrived, rec)
  BY <1>2 DEF Fx!Push
<1> HIDE DEF pushed, rec
<1> QED
  BY <1>1, <1>2, <1>3, <1>4, <1>5, <1>6 DEF pushed, rec

(* Every step is a packet, moves only the clock, or only the program.      *)
LEMMA OtherSteps ==
    ASSUME RingsInv, [Next]_vars
    PROVE  \/ PacketFrame
           \/ Tick /\ UNCHANGED <<windows, tables>> /\ clock' \in 0..MaxTime
           \/ UNCHANGED <<clock, windows, tables>>
<1>1. clock \in 0..MaxTime /\ MaxTime \in Nat
  BY Constants DEF RingsInv, Proven!WindowInv, Proven!TypeOK
<1>2. CASE Tick
  BY <1>1, <1>2 DEF Tick
<1>3. CASE UNCHANGED vars
  BY <1>3 DEF vars
<1>4. CASE Check \/ IgnoredFrame \/ Stop \/ Interrupted \/ ReceiveFails \/ Signal \/ Terminated
  BY <1>4 DEF Check, IgnoredFrame, Stop, Interrupted, ReceiveFails, Signal, Terminated, vars
<1> QED
  BY <1>2, <1>3, <1>4 DEF Next, Main, Frame

(* The rings begin empty, and every step leaves them as they should be.    *)
LEMMA RingsInit == Init => RingsInv
<1> SUFFICES ASSUME Init PROVE RingsInv
  OBVIOUS
<1>1. Window!WindowInit /\ arrived = <<>> /\ handled = <<>> /\ clock \in 0..MaxTime
  BY Constants DEF Init, Window!WindowInit
<1>2. Proven!WindowInv
  BY <1>1, SameConstants, SameInit, Proven!WindowInitInv
<1>3. FxInv
  BY <1>1, FxConstants DEF Init, FxInv, Fx!TypeOK
<1> QED
  BY <1>1, <1>2, <1>3 DEF RingsInv

(* Every step of the loop keeps both rings as promised.                    *)
LEMMA RingsStep == RingsInv /\ [Next]_vars => RingsInv'
<1> SUFFICES ASSUME RingsInv, [Next]_vars PROVE RingsInv'
  OBVIOUS
<1>1. CASE PacketFrame
  <2>1. PICK packet \in Traffic :
              LET rec == [ts |-> clock, size |-> packet.size, protocol |-> packet.flow.protocol]
              IN  /\ Handle(packet, Thresholds)
                  /\ rec \in Window!Record
                  /\ Proven!Push([size |-> packet.size, protocol |-> packet.flow.protocol], clock)
                  /\ [size |-> packet.size, protocol |-> packet.flow.protocol] \in Proven!Packet
                  /\ Fx!Push(rec)
                  /\ arrived' = Append(arrived, rec)
                  /\ handled' = Append(handled, packet)
                  /\ clock' = clock /\ clock \in 0..MaxTime
    BY <1>1, FrameIs
  <2> DEFINE rec == [ts |-> clock, size |-> packet.size, protocol |-> packet.flow.protocol]
  <2>2. Proven!WindowInv'
    BY <2>1, SameConstants, Proven!PushInv DEF RingsInv
  <2>3. FxInv'
    BY <2>1, PushFx DEF RingsInv
  <2>4. /\ handled \in Seq(Traffic) /\ arrived \in Seq(Window!Record)
        /\ Len(handled) = Len(arrived)
        /\ \A i \in 1..Len(handled) : /\ arrived[i].size = handled[i].size
                                      /\ arrived[i].protocol = handled[i].flow.protocol
    BY DEF RingsInv, FxInv, Fx!TypeOK
  <2>5. rec.size = packet.size /\ rec.protocol = packet.flow.protocol
    OBVIOUS
  <2>6. arrived' = Append(arrived, rec) /\ handled' = Append(handled, packet) /\ rec \in Window!Record
    BY <2>1
  <2> HIDE DEF rec
  <2>7. /\ handled' \in Seq(Traffic) /\ Len(handled') = Len(handled) + 1
        /\ arrived' \in Seq(Window!Record) /\ Len(arrived') = Len(arrived) + 1
        /\ \A i \in 1..Len(handled) : handled'[i] = handled[i] /\ arrived'[i] = arrived[i]
        /\ handled'[Len(handled) + 1] = packet /\ arrived'[Len(handled) + 1] = rec
    BY <2>4, <2>6
  <2>8. \A i \in 1..(Len(handled) + 1) : i \in 1..Len(handled) \/ i = Len(handled) + 1
    BY <2>4
  <2>9. \A i \in 1..Len(handled') : /\ arrived'[i].size = handled'[i].size
                                    /\ arrived'[i].protocol = handled'[i].flow.protocol
    BY <2>4, <2>5, <2>7, <2>8
  <2> QED
    BY <2>2, <2>3, <2>4, <2>7, <2>9 DEF RingsInv
<1>2. CASE UNCHANGED tables /\ clock' \in 0..MaxTime
  <2>1. /\ UNCHANGED <<records, head, count, totals, arrived, fx_packets, fx_head, fx_count, handled>>
    BY <1>2 DEF tables
  <2>2. Proven!WindowInv'
    BY <1>2, <2>1, Proven!WindowUnmoved DEF RingsInv, Proven!win
  <2>3. FxInv'
    BY <2>1 DEF RingsInv, FxInv, Fx!TypeOK
  <2> QED
    BY <2>1, <2>2, <2>3 DEF RingsInv
<1>3. UNCHANGED clock => clock' \in 0..MaxTime
  BY DEF RingsInv, Proven!WindowInv, Proven!TypeOK
<1> QED
  BY <1>1, <1>2, <1>3, OtherSteps

(* In every reachable state both rings are as promised and hold the        *)
(* packets that the loop handled.                                          *)
THEOREM RingsInvariant == Spec => []RingsInv
BY RingsInit, RingsStep, PTL DEF Spec

(* PacketWindow!AggregatesExact and WindowExact and FxRing!SampleIsLatest  *)
(* inside the loop: the statistics of a job are the sums over exactly the  *)
(* records in the window, the window is the latest packets, and so is the  *)
(* sample that goes with an alert.                                         *)
THEOREM PartsHold == Spec => [](/\ Window!AggregatesExact /\ Window!WindowExact
                                /\ Fx!SampleIsLatest)
<1>1. RingsInv => Window!AggregatesExact /\ Window!WindowExact /\ Fx!SampleIsLatest
  BY SamePromises, SampleFromRing DEF RingsInv
<1> QED
  BY <1>1, RingsInvariant, PTL

-----------------------------------------------------------------------------
(* What a packet leaves in the two tables, before a flush.                 *)
TableWith(packet) == Table!AddedTo(flows, packet)
QueriesWith(packet) ==
    IF packet.query = NoQuery THEN dns
    ELSE Dns!AddedTo(dns, [client |-> packet.flow.src, domain |-> packet.query])

Stays(packet) ==   \* the window goes on
    /\ ~Due
    /\ flows' = TableWith(packet) /\ dns' = QueriesWith(packet)
    /\ UNCHANGED windows

Ends(packet, thresholds, leases) ==   \* the packet sets off a flush
    /\ Due
    /\ jobs' = Append(jobs, Job(totals', TableWith(packet), QueriesWith(packet),
                                thresholds, leases, SyncDue))
    /\ last_rules_sync' = SyncedAt
    /\ flows' = <<>> /\ dns' = <<>>
    /\ flushed' = Len(handled')
    /\ window_start' = clock

Handled(packet) ==
    /\ clock' = clock
    /\ handled' = Append(handled, packet)
    /\ arrived' = Append(arrived, [ts |-> clock, size |-> packet.size,
                                   protocol |-> packet.flow.protocol])
    /\ Proven!Push([size |-> packet.size, protocol |-> packet.flow.protocol], clock)
    /\ \/ Stays(packet)
       \/ \E thresholds \in Thresholds, leases \in Leases : Ends(packet, thresholds, leases)

Idles == UNCHANGED <<windows, tables>> /\ (UNCHANGED clock \/ Tick)

(* Every step handles a packet or touches neither tables nor jobs.         *)
LEMMA Steps ==
    ASSUME RingsInv, [Next]_vars
    PROVE  Idles \/ \E packet \in Traffic : Handled(packet)
<1>1. CASE PacketFrame
  <2>1. PICK packet \in Traffic :
              LET rec == [ts |-> clock, size |-> packet.size, protocol |-> packet.flow.protocol]
              IN  /\ Handle(packet, Thresholds)
                  /\ rec \in Window!Record
                  /\ Proven!Push([size |-> packet.size, protocol |-> packet.flow.protocol], clock)
                  /\ [size |-> packet.size, protocol |-> packet.flow.protocol] \in Proven!Packet
                  /\ Fx!Push(rec)
                  /\ arrived' = Append(arrived, rec)
                  /\ handled' = Append(handled, packet)
                  /\ clock' = clock /\ clock \in 0..MaxTime
    BY <1>1, FrameIs
  <2>2. \/ Stays(packet)
        \/ \E thresholds \in Thresholds, leases \in Leases : Ends(packet, thresholds, leases)
    <3>1. CASE Due
      <4>1. Flush(TableWith(packet), QueriesWith(packet), Thresholds)
        BY <2>1, <3>1, Zenon DEF Handle, TableWith, QueriesWith
      <4> QED
        BY <3>1, <4>1, Zenon
           DEF Flush, Ends, FlowsAfter, QueriesAfter, Table!Cleared, Dns!Cleared
    <3>2. CASE ~Due
      BY <2>1, <3>2, Zenon DEF Handle, Stays, TableWith, QueriesWith
    <3> QED
      BY <3>1, <3>2
  <2> QED
    BY <2>1, <2>2, Zenon DEF Handled
<1>2. CASE ~PacketFrame
  BY <1>2, OtherSteps DEF Idles, windows, tables
<1> QED
  BY <1>1, <1>2

-----------------------------------------------------------------------------
IsSeq(s) == \E S : s \in Seq(S)

(* One element more at the end of a sequence.                              *)
LEMMA OneMore ==
    ASSUME NEW s, IsSeq(s), NEW x
    PROVE  /\ IsSeq(Append(s, x))
           /\ Len(s) \in Nat /\ DOMAIN s = 1..Len(s)
           /\ Len(Append(s, x)) = Len(s) + 1
           /\ DOMAIN Append(s, x) = 1..(Len(s) + 1)
           /\ \A i \in 1..Len(s) : Append(s, x)[i] = s[i]
           /\ Append(s, x)[Len(s) + 1] = x
<1>1. PICK S : s \in Seq(S)
  BY DEF IsSeq
<1> DEFINE T == S \cup {x}
<1>2. s \in Seq(T) /\ x \in T
  BY <1>1
<1> HIDE DEF T
<1>3. Append(s, x) \in Seq(T) /\ Len(s) \in Nat
  BY <1>2
<1> QED
  BY <1>2, <1>3 DEF IsSeq

(* The jobs hold when they asked for a ruleset.                            *)
PacedInv ==
    /\ IsSeq(jobs)
    /\ last_rules_sync \in Nat
    /\ \A i \in DOMAIN jobs :
          /\ jobs[i].at \in Nat /\ jobs[i].sync_ruleset \in BOOLEAN
          /\ jobs[i].sync_ruleset => jobs[i].at <= last_rules_sync
    /\ \/ last_rules_sync <= MaxBoot
       \/ \E i \in DOMAIN jobs : jobs[i].sync_ruleset /\ jobs[i].at = last_rules_sync
    /\ RulesSyncPaced

(* A flush asks for the ruleset when it is time and not before.            *)
LEMMA PacedStep == RingsInv /\ PacedInv /\ [Next]_vars => PacedInv'
<1> SUFFICES ASSUME RingsInv, PacedInv, [Next]_vars PROVE PacedInv'
  OBVIOUS
<1>1. CASE UNCHANGED windows
  BY <1>1 DEF PacedInv, RulesSyncPaced, IsSeq, windows
<1>2. ASSUME NEW packet \in Traffic, NEW thresholds \in Thresholds, NEW leases \in Leases,
             Ends(packet, thresholds, leases)
      PROVE  PacedInv'
  <2> DEFINE j == Job(totals', TableWith(packet), QueriesWith(packet), thresholds, leases, SyncDue)
             n == Len(jobs)
  <2>1. j.at = clock /\ j.sync_ruleset = SyncDue
    BY DEF Job
  <2> HIDE DEF j
  <2>2. jobs' = Append(jobs, j) /\ last_rules_sync' = SyncedAt
    BY <1>2 DEF Ends, j
  <2>3. /\ IsSeq(jobs') /\ n \in Nat /\ DOMAIN jobs = 1..n /\ DOMAIN jobs' = 1..(n + 1)
        /\ \A i \in 1..n : jobs'[i] = jobs[i]
        /\ jobs'[n + 1] = j
    BY <2>2, OneMore DEF PacedInv
  <2>4. /\ clock \in Nat /\ last_rules_sync \in Nat /\ RulesSeconds \in Nat /\ MaxBoot \in Nat
        /\ SyncDue \in BOOLEAN /\ (SyncDue <=> clock - last_rules_sync >= RulesSeconds)
    BY Constants DEF PacedInv, RingsInv, Proven!WindowInv, Proven!TypeOK, SyncDue
  <2>5. last_rules_sync' = IF SyncDue THEN clock ELSE last_rules_sync
    BY <2>2 DEF SyncedAt
  <2> HIDE DEF n
  <2>6. \A i \in 1..(n + 1) : i \in 1..n \/ i = n + 1
    BY <2>3
  <2>7. \A i \in 1..n : /\ jobs[i].at \in Nat /\ jobs[i].sync_ruleset \in BOOLEAN
                        /\ jobs[i].sync_ruleset => jobs[i].at <= last_rules_sync
    BY <2>3 DEF PacedInv
  <2>8. last_rules_sync \in Nat /\ last_rules_sync' >= last_rules_sync /\ last_rules_sync' \in Nat
    BY <2>4, <2>5
  <2>9. ASSUME NEW i \in DOMAIN jobs'
        PROVE  /\ jobs'[i].at \in Nat /\ jobs'[i].sync_ruleset \in BOOLEAN
               /\ jobs'[i].sync_ruleset => jobs'[i].at <= last_rules_sync'
    <3>1. CASE i \in 1..n
      BY <2>3, <2>7, <2>8, <3>1
    <3>2. CASE i = n + 1
      BY <2>1, <2>3, <2>4, <2>5, <3>2
    <3> QED
      BY <2>3, <2>6, <3>1, <3>2
  <2>10. \/ last_rules_sync' <= MaxBoot
         \/ \E i \in DOMAIN jobs' : jobs'[i].sync_ruleset /\ jobs'[i].at = last_rules_sync'
    <3>1. CASE SyncDue
      <4>1. n + 1 \in DOMAIN jobs'
        BY <2>3
      <4> QED
        BY <2>1, <2>3, <2>5, <3>1, <4>1
    <3>2. CASE ~SyncDue
      <4>1. \A i \in DOMAIN jobs : i \in DOMAIN jobs' /\ jobs'[i] = jobs[i]
        BY <2>3
      <4> QED
        BY <2>5, <3>2, <4>1 DEF PacedInv
    <3> QED
      BY <3>1, <3>2
  <2>11. ASSUME NEW i \in DOMAIN jobs'
         PROVE  LET recent == {k \in 1..(i - 1) : /\ jobs'[k].sync_ruleset
                                                  /\ jobs'[i].at - jobs'[k].at < RulesSeconds}
                IN  IF jobs'[i].sync_ruleset THEN recent = {}
                    ELSE recent # {} \/ jobs'[i].at - MaxBoot < RulesSeconds
    <3>1. CASE i \in 1..n
      <4>1. \A k \in 1..(i - 1) : jobs'[k] = jobs[k]
        BY <2>3, <3>1
      <4>2. jobs'[i] = jobs[i] /\ i \in DOMAIN jobs
        BY <2>3, <3>1
      <4> QED
        BY <4>1, <4>2 DEF PacedInv, RulesSyncPaced
    <3>2. CASE i = n + 1
      <4>1. jobs'[i].at = clock /\ jobs'[i].sync_ruleset = SyncDue /\ 1..(i - 1) = 1..n
        BY <2>1, <2>3, <3>2
      <4>2. CASE SyncDue
        <5>1. \A k \in 1..n : jobs'[k].sync_ruleset => ~(clock - jobs'[k].at < RulesSeconds)
          BY <2>3, <2>4, <2>7, <4>2
        <5> QED
          BY <4>1, <4>2, <5>1
      <4>3. CASE ~SyncDue
        <5>1. CASE last_rules_sync <= MaxBoot
          <6>1. clock - MaxBoot < RulesSeconds
            BY <2>4, <4>3, <5>1
          <6> QED
            BY <4>1, <4>3, <6>1
        <5>2. ASSUME NEW k \in DOMAIN jobs, jobs[k].sync_ruleset, jobs[k].at = last_rules_sync
              PROVE  LET recent == {m \in 1..(i - 1) : /\ jobs'[m].sync_ruleset
                                                  /\ jobs'[i].at - jobs'[m].at < RulesSeconds}
                     IN  recent # {}
          <6>1. /\ k \in 1..(i - 1) /\ jobs'[k].sync_ruleset
                /\ jobs'[i].at - jobs'[k].at < RulesSeconds
            BY <2>3, <2>4, <4>1, <4>3, <5>2
          <6> QED
            BY <6>1
        <5> QED
          BY <4>1, <4>3, <5>1, <5>2 DEF PacedInv
      <4> QED
        BY <4>2, <4>3
    <3> QED
      BY <2>3, <2>6, <3>1, <3>2
  <2> QED
    BY <2>3, <2>8, <2>9, <2>10, <2>11 DEF PacedInv, RulesSyncPaced
<1> QED
  BY <1>1, <1>2, Steps DEF Handled, Stays, Idles

(* Two rulesets are never asked for within RulesSeconds, and no flush lets *)
(* a longer period pass without asking, whatever the clock does.           *)
THEOREM SyncsPaced == Spec => []RulesSyncPaced
<1>1. Init => PacedInv
  <2>1. <<>> \in Seq({})
    OBVIOUS
  <2> QED
    BY <2>1, Constants DEF Init, PacedInv, RulesSyncPaced, IsSeq
<1>2. PacedInv => RulesSyncPaced
  BY DEF PacedInv
<1> QED
  BY <1>1, <1>2, PacedStep, RingsInvariant, PTL DEF Spec

(* Each window lasts StatsSeconds or longer, by the clock that ended it.   *)
SpacedInv ==
    /\ IsSeq(jobs)
    /\ \A i \in DOMAIN jobs : jobs[i].at \in Nat
    /\ Len(jobs) # 0 => window_start = jobs[Len(jobs)].at
    /\ \A k \in DOMAIN jobs : \A i \in 1..k :
          jobs[k].at - jobs[i].at >= (k - i) * StatsSeconds

(* A flush comes StatsSeconds or more after the one before.                *)
LEMMA SpacedStep == RingsInv /\ SpacedInv /\ [Next]_vars => SpacedInv'
<1> SUFFICES ASSUME RingsInv, SpacedInv, [Next]_vars PROVE SpacedInv'
  OBVIOUS
<1>1. CASE UNCHANGED windows
  BY <1>1 DEF SpacedInv, IsSeq, windows
<1>2. ASSUME NEW packet \in Traffic, clock' = clock, NEW thresholds \in Thresholds,
             NEW leases \in Leases, Ends(packet, thresholds, leases)
      PROVE  SpacedInv'
  <2> DEFINE j == Job(totals', TableWith(packet), QueriesWith(packet), thresholds, leases, SyncDue)
             n == Len(jobs)
  <2>1. j.at = clock
    BY DEF Job
  <2> HIDE DEF j
  <2>2. /\ IsSeq(jobs') /\ n \in Nat /\ Len(jobs') = n + 1
        /\ DOMAIN jobs = 1..n /\ DOMAIN jobs' = 1..(n + 1)
        /\ \A i \in 1..n : jobs'[i] = jobs[i]
        /\ jobs'[n + 1] = j
    BY <1>2, OneMore DEF SpacedInv, Ends, j
  <2>3. /\ window_start' = clock /\ clock - window_start >= StatsSeconds
        /\ clock \in Nat /\ StatsSeconds \in Nat
    BY <1>2, Constants DEF Ends, Due, RingsInv, Proven!WindowInv, Proven!TypeOK
  <2>4. /\ \A i \in 1..n : jobs[i].at \in Nat
        /\ n # 0 => window_start = jobs[n].at
        /\ \A k \in 1..n : \A i \in 1..k : jobs[k].at - jobs[i].at >= (k - i) * StatsSeconds
    BY <2>2 DEF SpacedInv
  <2> HIDE DEF n
  <2>5. \A i \in 1..(n + 1) : jobs'[i].at \in Nat
    <3>1. \A i \in 1..(n + 1) : i \in 1..n \/ i = n + 1
      BY <2>2
    <3>2. \A i \in 1..n : jobs'[i].at \in Nat
      BY <2>2, <2>4
    <3>3. jobs'[n + 1].at \in Nat
      BY <2>1, <2>2, <2>3
    <3> QED
      BY <3>1, <3>2, <3>3
  <2>6. ASSUME NEW k \in 1..(n + 1), NEW i \in 1..k
        PROVE  jobs'[k].at - jobs'[i].at >= (k - i) * StatsSeconds
    <3>1. CASE k \in 1..n
      BY <2>2, <2>4, <3>1
    <3>2. CASE k = n + 1 /\ i = n + 1
      <4>1. jobs'[k].at = clock /\ jobs'[i].at = clock
        BY <2>1, <2>2, <3>2
      <4>2. k - i = 0 /\ clock - clock = 0 /\ 0 * StatsSeconds = 0
        BY <2>2, <2>3, <3>2
      <4>3. jobs'[k].at - jobs'[i].at = 0 /\ (k - i) * StatsSeconds = 0
        BY <4>1, <4>2
      <4> QED
        BY <4>3
    <3>3. CASE k = n + 1 /\ i \in 1..n
      <4>1. n \in 1..n /\ i \in 1..n /\ n # 0
        BY <2>2, <3>3
      <4>2. jobs[n].at - jobs[i].at >= (n - i) * StatsSeconds /\ jobs[i].at \in Nat
            /\ window_start = jobs[n].at /\ jobs[n].at \in Nat
        BY <2>4, <4>1
      <4>3. \A x, y, a, b, c, s \in Nat :
               c - b >= s /\ b - a >= (x - y) * s => c - a >= ((x + 1) - y) * s
        OBVIOUS
      <4>4. clock - jobs[i].at >= ((n + 1) - i) * StatsSeconds
        BY <2>2, <2>3, <4>1, <4>2, <4>3
      <4> QED
        BY <2>1, <2>2, <3>3, <4>4
    <3> QED
      BY <2>2, <3>1, <3>2, <3>3
  <2> QED
    BY <2>1, <2>2, <2>3, <2>5, <2>6 DEF SpacedInv
<1> QED
  BY <1>1, <1>2, Steps DEF Handled, Stays, Idles

(* So it is from the start on.                                             *)
LEMMA SpacedInvariant == Spec => []SpacedInv
<1>1. Init => SpacedInv
  <2>1. <<>> \in Seq({})
    OBVIOUS
  <2> QED
    BY <2>1 DEF Init, SpacedInv, IsSeq
<1> QED
  BY <1>1, SpacedStep, RingsInvariant, PTL DEF Spec

-----------------------------------------------------------------------------
FlowEntry == [flow : Flows, packets : Nat \ {0}, bytes : Nat]
FlowsAre(table) ==
    /\ table \in Seq(FlowEntry)
    /\ Len(table) <= FlowCapacity
    /\ \A i, k \in 1..Len(table) : i # k => table[i].flow # table[k].flow

QueryEntry == [client : Addresses, domain : Domains, count : Nat \ {0}]
SameQuery(event, client, domain) == event.client = client /\ event.domain = domain
QueriesAre(table) ==
    /\ table \in Seq(QueryEntry)
    /\ Len(table) <= DnsCapacity
    /\ \A i, k \in 1..Len(table) : i # k => ~SameQuery(table[i], table[k].client, table[k].domain)

(* What one packet more does to a flow table: its flow is counted, left out*)
(* because the table is full, or new.                                      *)
Counted(table, new, packet, i) ==
    /\ table[i].flow = packet.flow
    /\ new = [table EXCEPT ![i] = [flow |-> packet.flow, packets |-> table[i].packets + 1,
                                   bytes |-> table[i].bytes + packet.size]]
LeftOut(table, new, packet) ==
    /\ \A i \in 1..Len(table) : table[i].flow # packet.flow
    /\ Len(table) = FlowCapacity
    /\ new = table
Listed(table, new, packet) ==
    /\ \A i \in 1..Len(table) : table[i].flow # packet.flow
    /\ Len(table) < FlowCapacity
    /\ new = Append(table, [flow |-> packet.flow, packets |-> 1, bytes |-> packet.size])

(* A packet added to the flow table is one of these three.                 *)
LEMMA FlowAdded ==
    ASSUME NEW table, FlowsAre(table), NEW packet \in Traffic
    PROVE  LET new == Table!AddedTo(table, packet)
           IN  \/ \E i \in 1..Len(table) : Counted(table, new, packet, i)
               \/ LeftOut(table, new, packet)
               \/ Listed(table, new, packet)
<1> DEFINE new == Table!AddedTo(table, packet)
           same == {k \in DOMAIN table : Table!Matches(table[k].flow, packet.flow)}
<1>1. /\ table \in Seq(FlowEntry) /\ DOMAIN table = 1..Len(table) /\ Len(table) \in Nat
      /\ Len(table) <= FlowCapacity /\ FlowCapacity \in Nat
  BY Constants DEF FlowsAre
<1>a. \A m, n \in Nat : m <= n /\ m >= n => m = n
  OBVIOUS
<1>2. CASE \E i \in DOMAIN table : Table!Matches(table[i].flow, packet.flow)
  <2>1. PICK i \in DOMAIN table : table[i].flow = packet.flow
    BY <1>2 DEF Table!Matches
  <2>2. same = {i}
    BY <1>1, <2>1 DEF Table!Matches, FlowsAre
  <2>3. Table!Min({i}) = i
    BY <1>1, <2>1 DEF Table!Min
  <2>4. new = [table EXCEPT ![Table!Min(same)].packets = @ + 1,
                            ![Table!Min(same)].bytes = @ + packet.size]
    BY <1>2, Zenon DEF Table!AddedTo
  <2> HIDE DEF same, new
  <2>5. new = [table EXCEPT ![i].packets = @ + 1, ![i].bytes = @ + packet.size]
    BY <2>2, <2>3, <2>4
  <2>6. table[i] \in FlowEntry
    BY <1>1, <2>1
  <2> DEFINE e == [flow |-> packet.flow, packets |-> table[i].packets + 1,
                   bytes |-> table[i].bytes + packet.size]
  <2>7. [[table[i] EXCEPT !.packets = @ + 1] EXCEPT !.bytes = @ + packet.size] = e
    <3> DEFINE r == table[i]
               r1 == [r EXCEPT !.packets = @ + 1]
               r2 == [r1 EXCEPT !.bytes = @ + packet.size]
    <3>1. r = [flow |-> r.flow, packets |-> r.packets, bytes |-> r.bytes]
      BY <2>6 DEF FlowEntry
    <3> HIDE DEF r
    <3>2. r1 = [flow |-> r.flow, packets |-> r.packets + 1, bytes |-> r.bytes]
      BY <3>1
    <3> HIDE DEF r1
    <3>3. r2 = [flow |-> r.flow, packets |-> r.packets + 1, bytes |-> r.bytes + packet.size]
      BY <3>2
    <3> QED
      BY <2>1, <3>3 DEF r, r1
  <2> HIDE DEF e
  <2>8. new = [table EXCEPT ![i] = e]
    BY <1>1, <2>1, <2>5, <2>7
  <2> QED
    BY <1>1, <2>1, <2>8 DEF Counted, new, e
<1>3. CASE ~\E i \in DOMAIN table : Table!Matches(table[i].flow, packet.flow)
  <2>1. \A i \in 1..Len(table) : table[i].flow # packet.flow
    BY <1>1, <1>3 DEF Table!Matches
  <2>2. CASE Len(table) >= FlowCapacity
    <3>1. new = table
      BY <1>3, <2>2, Zenon DEF Table!AddedTo
    <3>2. Len(table) = FlowCapacity
      BY <1>1, <1>a, <2>2, Zenon
    <3> HIDE DEF new
    <3> QED
      BY <2>1, <3>1, <3>2 DEF LeftOut, new
  <2>3. CASE ~(Len(table) >= FlowCapacity)
    <3>1. new = Append(table, [flow |-> packet.flow, packets |-> 1, bytes |-> packet.size])
      BY <1>3, <2>3, Zenon DEF Table!AddedTo
    <3> HIDE DEF new
    <3> QED
      BY <1>1, <2>1, <2>3, <3>1 DEF Listed, new
  <2> QED
    BY <2>2, <2>3
<1> QED
  BY <1>2, <1>3

(* The table stays within its capacity and lists a flow once.              *)
LEMMA FlowsStayFlows ==
    ASSUME NEW table, FlowsAre(table), NEW packet \in Traffic
    PROVE  FlowsAre(Table!AddedTo(table, packet))
<1> DEFINE new == Table!AddedTo(table, packet)
<1>1. /\ table \in Seq(FlowEntry) /\ Len(table) \in Nat
      /\ Len(table) <= FlowCapacity /\ FlowCapacity \in Nat
      /\ \A i, k \in 1..Len(table) : i # k => table[i].flow # table[k].flow
      /\ \A i \in 1..Len(table) : table[i] \in FlowEntry
  BY Constants DEF FlowsAre
<1>2. packet.flow \in Flows /\ packet.size \in Nat
  BY TrafficIs
<1>3. \/ \E i \in 1..Len(table) : Counted(table, new, packet, i)
      \/ LeftOut(table, new, packet)
      \/ Listed(table, new, packet)
  BY FlowAdded
<1> SUFFICES FlowsAre(new)
  OBVIOUS
<1> HIDE DEF new
<1>4. ASSUME NEW i \in 1..Len(table), Counted(table, new, packet, i) PROVE FlowsAre(new)
  <2> DEFINE e == [flow |-> packet.flow, packets |-> table[i].packets + 1,
                   bytes |-> table[i].bytes + packet.size]
  <2>1. e \in FlowEntry /\ e.flow = table[i].flow
    BY <1>1, <1>2, <1>4 DEF Counted, FlowEntry
  <2>2. new = [table EXCEPT ![i] = e]
    BY <1>4 DEF Counted
  <2> HIDE DEF e
  <2>3. new \in Seq(FlowEntry) /\ Len(new) = Len(table)
    BY <1>1, <2>1, <2>2
  <2>4. \A k \in 1..Len(table) : new[k].flow = table[k].flow
    BY <1>1, <2>1, <2>2
  <2>5. ASSUME NEW j \in 1..Len(new), NEW k \in 1..Len(new), j # k
        PROVE  new[j].flow # new[k].flow
    BY <1>1, <2>3, <2>4, <2>5
  <2> QED
    BY <1>1, <2>3, <2>5 DEF FlowsAre
<1>5. CASE LeftOut(table, new, packet)
  BY <1>5, Zenon DEF LeftOut
<1>6. CASE Listed(table, new, packet)
  <2> DEFINE e == [flow |-> packet.flow, packets |-> 1, bytes |-> packet.size]
             n == Len(table)
  <2>1. e \in FlowEntry /\ e.flow = packet.flow
    BY <1>2 DEF FlowEntry
  <2>2. new = Append(table, e) /\ n < FlowCapacity /\ \A i \in 1..n : table[i].flow # e.flow
    BY <1>6, <2>1 DEF Listed
  <2> HIDE DEF e
  <2>3. /\ new \in Seq(FlowEntry) /\ Len(new) = n + 1
        /\ \A k \in 1..n : new[k] = table[k]
        /\ new[n + 1] = e
    BY <1>1, <2>1, <2>2
  <2> HIDE DEF n
  <2>4. \A k \in 1..(n + 1) : k \in 1..n \/ k = n + 1
    BY <1>1 DEF n
  <2>5. ASSUME NEW i \in 1..(n + 1), NEW k \in 1..(n + 1), i # k
        PROVE  new[i].flow # new[k].flow
    <3>1. CASE i \in 1..n /\ k \in 1..n
      BY <1>1, <2>3, <2>5, <3>1 DEF n
    <3>2. CASE i \in 1..n /\ k = n + 1
      BY <2>2, <2>3, <3>2
    <3>3. CASE i = n + 1 /\ k \in 1..n
      BY <2>2, <2>3, <3>3
    <3> QED
      BY <2>4, <2>5, <3>1, <3>2, <3>3
  <2>6. Len(new) <= FlowCapacity
    BY <1>1, <2>2, <2>3 DEF n
  <2> QED
    BY <2>3, <2>5, <2>6 DEF FlowsAre
<1> QED
  BY <1>3, <1>4, <1>5, <1>6

(* The same for the table of DNS queries.                                  *)
Recounted(table, new, packet, i) ==
    /\ SameQuery(table[i], packet.flow.src, packet.query)
    /\ new = [table EXCEPT ![i] = [client |-> packet.flow.src, domain |-> packet.query,
                                   count |-> table[i].count + 1]]
Refused(table, new, packet) ==
    /\ \A i \in 1..Len(table) : ~SameQuery(table[i], packet.flow.src, packet.query)
    /\ Len(table) = DnsCapacity
    /\ new = table
Recorded(table, new, packet) ==
    /\ \A i \in 1..Len(table) : ~SameQuery(table[i], packet.flow.src, packet.query)
    /\ Len(table) < DnsCapacity
    /\ new = Append(table, [client |-> packet.flow.src, domain |-> packet.query, count |-> 1])

(* A query added to the DNS window is one of these three.                  *)
LEMMA QueryAdded ==
    ASSUME NEW table, QueriesAre(table), NEW packet \in Traffic
    PROVE  LET new == Dns!AddedTo(table, [client |-> packet.flow.src, domain |-> packet.query])
           IN  \/ \E i \in 1..Len(table) : Recounted(table, new, packet, i)
               \/ Refused(table, new, packet)
               \/ Recorded(table, new, packet)
<1> DEFINE query == [client |-> packet.flow.src, domain |-> packet.query]
           new == Dns!AddedTo(table, query)
           same == {i \in DOMAIN table : Dns!Matches(table[i], query)}
<1>1. /\ table \in Seq(QueryEntry) /\ DOMAIN table = 1..Len(table) /\ Len(table) \in Nat
      /\ Len(table) <= DnsCapacity /\ DnsCapacity \in Nat
  BY Constants DEF QueriesAre
<1>a. \A m, n \in Nat : m <= n /\ m >= n => m = n
  OBVIOUS
<1>2. \A i \in 1..Len(table) : Dns!Matches(table[i], query)
                                  <=> SameQuery(table[i], packet.flow.src, packet.query)
  BY DEF Dns!Matches, SameQuery
<1> HIDE DEF query
<1>3. CASE same # {}
  <2>1. PICK i \in DOMAIN table : SameQuery(table[i], packet.flow.src, packet.query)
    BY <1>1, <1>2, <1>3
  <2>2. same = {i}
    BY <1>1, <1>2, <2>1 DEF QueriesAre, SameQuery
  <2>3. Dns!Min({i}) = i
    BY <1>1, <2>1 DEF Dns!Min
  <2>4. new = [table EXCEPT ![Dns!Min(same)].count = @ + 1]
    BY <1>3, Zenon DEF Dns!AddedTo
  <2> HIDE DEF same, new
  <2>5. new = [table EXCEPT ![i].count = @ + 1]
    BY <2>2, <2>3, <2>4
  <2>6. table[i] \in QueryEntry
    BY <1>1, <2>1
  <2> DEFINE e == [client |-> packet.flow.src, domain |-> packet.query,
                   count |-> table[i].count + 1]
  <2>7. [table[i] EXCEPT !.count = @ + 1] = e
    BY <2>1, <2>6 DEF QueryEntry, SameQuery
  <2> HIDE DEF e
  <2>8. new = [table EXCEPT ![i] = e]
    BY <1>1, <2>1, <2>5, <2>7
  <2> QED
    BY <1>1, <2>1, <2>8 DEF Recounted, new, query, e
<1>4. CASE same = {}
  <2>1. \A i \in 1..Len(table) : ~SameQuery(table[i], packet.flow.src, packet.query)
    BY <1>1, <1>2, <1>4
  <2>2. CASE Dns!Full(table)
    <3>1. new = table
      BY <1>4, <2>2, Zenon DEF Dns!AddedTo
    <3>2. Len(table) = DnsCapacity
      BY <1>1, <1>a, <2>2, Zenon DEF Dns!Full
    <3> HIDE DEF new
    <3> QED
      BY <2>1, <3>1, <3>2 DEF Refused, new, query
  <2>3. CASE ~Dns!Full(table)
    <3>1. new = Append(table, [client |-> query.client, domain |-> query.domain, count |-> 1])
      BY <1>4, <2>3, Zenon DEF Dns!AddedTo
    <3>2. Len(table) < DnsCapacity
      BY <1>1, <2>3 DEF Dns!Full
    <3>3. query.client = packet.flow.src /\ query.domain = packet.query
      BY DEF query
    <3> HIDE DEF new
    <3>4. Recorded(table, new, packet)
      BY <2>1, <3>1, <3>2, <3>3 DEF Recorded
    <3> QED
      BY <3>4 DEF new, query
  <2> QED
    BY <2>2, <2>3
<1> QED
  BY <1>3, <1>4

(* The table of queries stays within its capacity, and nobody is in it     *)
(* twice for a domain.                                                     *)
LEMMA QueriesStayQueries ==
    ASSUME NEW table, QueriesAre(table), NEW packet \in Traffic, packet.query # NoQuery
    PROVE  QueriesAre(Dns!AddedTo(table, [client |-> packet.flow.src, domain |-> packet.query]))
<1> DEFINE new == Dns!AddedTo(table, [client |-> packet.flow.src, domain |-> packet.query])
<1>1. /\ table \in Seq(QueryEntry) /\ Len(table) \in Nat
      /\ Len(table) <= DnsCapacity /\ DnsCapacity \in Nat
      /\ \A i, k \in 1..Len(table) : i # k => ~SameQuery(table[i], table[k].client, table[k].domain)
      /\ \A i \in 1..Len(table) : table[i] \in QueryEntry
  BY Constants DEF QueriesAre
<1>2. packet.flow.src \in Addresses /\ packet.query \in Domains
  BY TrafficIs
<1>3. \/ \E i \in 1..Len(table) : Recounted(table, new, packet, i)
      \/ Refused(table, new, packet)
      \/ Recorded(table, new, packet)
  BY QueryAdded
<1> SUFFICES QueriesAre(new)
  OBVIOUS
<1> HIDE DEF new
<1>4. ASSUME NEW i \in 1..Len(table), Recounted(table, new, packet, i) PROVE QueriesAre(new)
  <2> DEFINE e == [client |-> packet.flow.src, domain |-> packet.query,
                   count |-> table[i].count + 1]
  <2>1. e \in QueryEntry /\ e.client = table[i].client /\ e.domain = table[i].domain
    BY <1>1, <1>2, <1>4 DEF Recounted, SameQuery, QueryEntry
  <2>2. new = [table EXCEPT ![i] = e]
    BY <1>4 DEF Recounted
  <2> HIDE DEF e
  <2>3. new \in Seq(QueryEntry) /\ Len(new) = Len(table)
    BY <1>1, <2>1, <2>2
  <2>4. \A k \in 1..Len(table) : new[k].client = table[k].client /\ new[k].domain = table[k].domain
    BY <1>1, <2>1, <2>2
  <2>5. ASSUME NEW j \in 1..Len(new), NEW k \in 1..Len(new), j # k
        PROVE  ~SameQuery(new[j], new[k].client, new[k].domain)
    BY <1>1, <2>3, <2>4, <2>5 DEF SameQuery
  <2> QED
    BY <1>1, <2>3, <2>5 DEF QueriesAre
<1>5. CASE Refused(table, new, packet)
  BY <1>5, Zenon DEF Refused
<1>6. CASE Recorded(table, new, packet)
  <2> DEFINE e == [client |-> packet.flow.src, domain |-> packet.query, count |-> 1]
             n == Len(table)
  <2>1. e \in QueryEntry /\ e.client = packet.flow.src /\ e.domain = packet.query
    BY <1>2 DEF QueryEntry
  <2>2. /\ new = Append(table, e) /\ n < DnsCapacity
        /\ \A i \in 1..n : ~(table[i].client = e.client /\ table[i].domain = e.domain)
    BY <1>6, <2>1 DEF Recorded, SameQuery
  <2> HIDE DEF e
  <2>3. /\ new \in Seq(QueryEntry) /\ Len(new) = n + 1
        /\ \A k \in 1..n : new[k] = table[k]
        /\ new[n + 1] = e
    BY <1>1, <2>1, <2>2
  <2> HIDE DEF n
  <2>4. \A k \in 1..(n + 1) : k \in 1..n \/ k = n + 1
    BY <1>1 DEF n
  <2>5. ASSUME NEW i \in 1..(n + 1), NEW k \in 1..(n + 1), i # k
        PROVE  ~SameQuery(new[i], new[k].client, new[k].domain)
    <3>1. CASE i \in 1..n /\ k \in 1..n
      BY <1>1, <2>3, <2>5, <3>1 DEF n, SameQuery
    <3>2. CASE i \in 1..n /\ k = n + 1
      BY <2>2, <2>3, <3>2 DEF SameQuery
    <3>3. CASE i = n + 1 /\ k \in 1..n
      BY <2>2, <2>3, <3>3 DEF SameQuery
    <3> QED
      BY <2>4, <2>5, <3>1, <3>2, <3>3
  <2>6. Len(new) <= DnsCapacity
    BY <1>1, <2>2, <2>3 DEF n
  <2> QED
    BY <2>3, <2>5, <2>6 DEF QueriesAre
<1> QED
  BY <1>3, <1>4, <1>5, <1>6

(* The tables keep their shape inside the loop.                            *)
TablesInv == FlowsAre(flows) /\ QueriesAre(dns)

(* The tables with one packet more are still well formed.                  *)
LEMMA TablesWith ==
    ASSUME TablesInv, NEW packet \in Traffic
    PROVE  FlowsAre(TableWith(packet)) /\ QueriesAre(QueriesWith(packet))
BY FlowsStayFlows, QueriesStayQueries DEF TablesInv, TableWith, QueriesWith

(* Every step keeps both tables well formed.                               *)
LEMMA TablesStep == RingsInv /\ TablesInv /\ [Next]_vars => TablesInv'
<1> SUFFICES ASSUME RingsInv, TablesInv, [Next]_vars PROVE TablesInv'
  OBVIOUS
<1>1. CASE Idles
  BY <1>1 DEF Idles, tables, TablesInv
<1>2. ASSUME NEW packet \in Traffic, Handled(packet) PROVE TablesInv'
  <2>1. CASE Stays(packet)
    BY <2>1, TablesWith DEF Stays, TablesInv
  <2>2. CASE flows' = <<>> /\ dns' = <<>>
    BY <2>2, Constants DEF TablesInv, FlowsAre, QueriesAre
  <2> QED
    BY <1>2, <2>1, <2>2 DEF Handled, Ends
<1> QED
  BY <1>1, <1>2, Steps

-----------------------------------------------------------------------------
(* A function over the first n numbers is a sequence of length n.          *)
LEMMA FunctionIsSeq ==
    ASSUME NEW n \in Nat, NEW f, f = [i \in 1..n |-> f[i]]
    PROVE  IsSeq(f) /\ Len(f) = n /\ DOMAIN f = 1..n
<1> DEFINE S == {f[i] : i \in 1..n}
<1>1. f \in [1..n -> S]
  OBVIOUS
<1> HIDE DEF S
<1>2. f \in Seq(S)
  BY <1>1, SeqDef
<1>3. Len(f) = n /\ DOMAIN f = 1..n
  BY <1>1, <1>2, LenProperties
<1> QED
  BY <1>2, <1>3 DEF IsSeq

Kinds == {"udp", "tcp", "any"}

(* The verdicts are at most three, each one exceeded threshold.            *)
LEMMA VerdictsAre ==
    ASSUME NEW stats, NEW thresholds
    PROVE  LET verdicts == Verdicts(stats, thresholds)
           IN  /\ verdicts \in Seq(Kinds) /\ Len(verdicts) \in 0..3
               /\ \A i \in 1..Len(verdicts) :
                     Measured(stats, verdicts[i]) > thresholds[verdicts[i]]
<1> DEFINE Exceeded(p) == Measured(stats, p) > thresholds[p]
           Of(p) == IF Exceeded(p) THEN <<p>> ELSE <<>>
           Fine(s, n) == /\ s \in Seq(Kinds) /\ Len(s) \in 0..n
                         /\ \A i \in 1..Len(s) : Exceeded(s[i])
<1> HIDE DEF Exceeded
<1>1. ASSUME NEW p \in Kinds PROVE Fine(Of(p), 1)
  OBVIOUS
<1>2. ASSUME NEW n \in Nat, NEW s, Fine(s, n), NEW p \in Kinds
      PROVE  Fine(s \o Of(p), n + 1)
  <2>1. Fine(Of(p), 1)
    BY <1>1
  <2> DEFINE t == Of(p)
  <2> HIDE DEF t
  <2>2. s \in Seq(Kinds) /\ t \in Seq(Kinds) /\ Len(s) \in 0..n /\ Len(t) \in 0..1
    BY <1>2, <2>1 DEF t
  <2>3. /\ s \o t \in Seq(Kinds) /\ Len(s \o t) = Len(s) + Len(t)
        /\ \A i \in 1..(Len(s) + Len(t)) :
              (s \o t)[i] = IF i <= Len(s) THEN s[i] ELSE t[i - Len(s)]
    BY <2>2, ConcatProperties
  <2>4. Len(s \o t) \in 0..(n + 1)
    BY <2>2, <2>3
  <2>5. ASSUME NEW i \in 1..Len(s \o t) PROVE Exceeded((s \o t)[i])
    <3>1. CASE i <= Len(s)
      BY <1>2, <2>2, <2>3, <3>1
    <3>2. CASE ~(i <= Len(s))
      <4>1. i - Len(s) \in 1..Len(t)
        BY <2>2, <2>3, <3>2
      <4>2. Exceeded(t[i - Len(s)])
        BY <2>1, <4>1 DEF t
      <4> QED
        BY <2>3, <3>2, <4>2
    <3> QED
      BY <3>1, <3>2
  <2> QED
    BY <2>3, <2>4, <2>5 DEF t
<1>3. "udp" \in Kinds /\ "tcp" \in Kinds /\ "any" \in Kinds
  BY DEF Kinds
<1> HIDE DEF Fine, Of
<1>4. Fine(Of("udp"), 1)
  BY <1>1, <1>3
<1>5. Fine(Of("udp") \o Of("tcp"), 1 + 1)
  BY <1>2, <1>3, <1>4
<1>6. Fine((Of("udp") \o Of("tcp")) \o Of("any"), (1 + 1) + 1)
  BY <1>2, <1>3, <1>5
<1>7. Verdicts(stats, thresholds) = (Of("udp") \o Of("tcp")) \o Of("any")
  BY DEF Verdicts, Of, Exceeded
<1>8. Fine(Verdicts(stats, thresholds), 3)
  BY <1>6, <1>7
<1> QED
  BY <1>8 DEF Fine, Exceeded

(* An alert for each of them, and one more for a scan where there is room. *)
LEMMA AlertsAre ==
    ASSUME NEW stats, NEW table, NEW thresholds
    PROVE  LET verdicts == Verdicts(stats, thresholds)
               plain == ThresholdAlerts(stats, table, thresholds)
               alerts == WithScan(plain, table)
           IN  /\ Len(plain) = Len(verdicts)
               /\ \A i \in 1..Len(verdicts) :
                     plain[i] = [kind |-> verdicts[i], flow |-> TopFlow(table, verdicts[i])]
               /\ IsSeq(plain) /\ IsSeq(alerts) /\ Len(alerts) <= MaxAlerts
               /\ \/ alerts = plain
                  \/ LET scan == Table!ScanFanout(table)
                     IN  alerts = Append(plain, [kind |-> "scan",
                                                 flow |-> [src |-> scan.src, dst |-> scan.dst]])
<1> DEFINE verdicts == Verdicts(stats, thresholds)
           n == Len(verdicts)
           plain == ThresholdAlerts(stats, table, thresholds)
           alerts == WithScan(plain, table)
           scan == Table!ScanFanout(table)
           extra == [kind |-> "scan", flow |-> [src |-> scan.src, dst |-> scan.dst]]
<1>1. verdicts \in Seq(Kinds) /\ n \in 0..3 /\ n \in Nat
  BY VerdictsAre
<1>2. plain = [i \in DOMAIN verdicts |->
                  [kind |-> verdicts[i], flow |-> TopFlow(table, verdicts[i])]]
  BY DEF ThresholdAlerts
<1> HIDE DEF verdicts, plain
<1>3. /\ DOMAIN verdicts = 1..n /\ n \in Nat
      /\ plain = [i \in 1..n |-> plain[i]]
      /\ \A i \in 1..n : plain[i] = [kind |-> verdicts[i], flow |-> TopFlow(table, verdicts[i])]
  BY <1>1, <1>2
<1> HIDE DEF n
<1>4. IsSeq(plain) /\ Len(plain) = n
  BY <1>3, FunctionIsSeq
<1>5. MaxAlerts \in Nat /\ MaxAlerts >= 3
  BY Constants
<1>6. alerts = plain \/ (Len(plain) < MaxAlerts /\ alerts = Append(plain, extra))
  BY DEF WithScan
<1> HIDE DEF alerts, extra
<1>7. IsSeq(alerts) /\ Len(alerts) <= MaxAlerts
  <2>1. IsSeq(Append(plain, extra)) /\ Len(Append(plain, extra)) = n + 1
    BY <1>4, OneMore
  <2> QED
    <3>1. CASE alerts = plain
      <4>1. n <= MaxAlerts
        BY <1>1, <1>5
      <4> QED
        BY <1>4, <3>1, <4>1
    <3>2. CASE Len(plain) < MaxAlerts /\ alerts = Append(plain, extra)
      BY <1>3, <1>4, <1>5, <2>1, <3>2
    <3> QED
      BY <1>6, <3>1, <3>2
<1> QED
  BY <1>3, <1>4, <1>6, <1>7 DEF alerts, extra, plain, verdicts, n

(* A roster holds as many of the leases as fit.                            *)
LEMMA RosterFits ==
    ASSUME NEW leases \in Leases, NEW table, NEW now
    PROVE  Len(Roster!Collected(leases, table, now)) <= RosterCapacity
<1> DEFINE n == Len(leases)
           fitting == Roster!Fitting(leases)
           S == Range(leases)
           Mark(i) == [ip |-> leases[i], online |-> Roster!Online(table, leases[i], now)]
           collected == [i \in DOMAIN fitting |-> Mark(i)]
<1>1. leases \in Seq(S) /\ n \in Nat /\ RosterCapacity \in Nat
  BY PartsAssumption, Constants
<1> HIDE DEF S, Mark
<1>2. PICK m \in {n, RosterCapacity} : m <= n /\ m <= RosterCapacity
  BY <1>1
<1>3. Roster!Min({n, RosterCapacity}) = m
  BY <1>1, <1>2 DEF Roster!Min
<1>4. fitting = SubSeq(leases, 1, m)
  BY <1>3 DEF Roster!Fitting
<1>5. m \in 0..Len(leases)
  BY <1>1, <1>2
<1> HIDE DEF fitting
<1>6. fitting \in Seq(S) /\ Len(fitting) = m /\ m \in Nat
  BY <1>1, <1>4, <1>5, Proven!Parts
<1>7. DOMAIN fitting = 1..m
  BY <1>6
<1>8. collected = [i \in 1..m |-> collected[i]]
  BY <1>7
<1> HIDE DEF collected
<1>9. Len(collected) = m
  BY <1>6, <1>8, FunctionIsSeq
<1>10. Roster!Collected(leases, table, now) = collected
  BY DEF Roster!Collected, collected, fitting, Mark
<1> QED
  BY <1>2, <1>9, <1>10

(* The sample of an alert holds as many packets as are wanted, or fewer.   *)
LEMMA SampleFits ==
    ASSUME FxInv'
    PROVE  Len((Fx!Recent(FxSample))') <= FxSample
<1> DEFINE m == IF fx_count' > FxSample THEN FxSample ELSE fx_count'
           sample == (Fx!Recent(FxSample))'
<1>1. fx_count' \in Nat /\ FxSample \in Nat
  BY FxConstants DEF FxInv, Fx!TypeOK
<1>2. m \in Nat /\ m <= FxSample
  BY <1>1
<1>3. sample = [i \in 1..m |-> sample[i]]
  BY DEF Fx!Recent
<1> HIDE DEF sample, m
<1>4. Len(sample) = m
  BY <1>2, <1>3, FunctionIsSeq
<1> QED
  BY <1>2, <1>4 DEF sample

(* Every job fits its arrays and covers a whole window.                    *)
JobFits(job) ==
    /\ job.window_seconds >= StatsSeconds
    /\ Len(job.alerts) \in 0..MaxAlerts /\ Len(job.fx) <= FxSample
    /\ Len(job.dns) <= DnsCapacity /\ Len(job.clients) <= RosterCapacity

JobsInv == IsSeq(jobs) /\ \A i \in DOMAIN jobs : JobFits(jobs[i])

(* Every step keeps the jobs within their arrays.                          *)
LEMMA JobsStep == RingsInv /\ RingsInv' /\ TablesInv /\ JobsInv /\ [Next]_vars => JobsInv'
<1> SUFFICES ASSUME RingsInv, RingsInv', TablesInv, JobsInv, [Next]_vars PROVE JobsInv'
  OBVIOUS
<1>1. CASE UNCHANGED windows
  BY <1>1 DEF JobsInv, IsSeq, windows
<1>2. ASSUME NEW packet \in Traffic, NEW thresholds \in Thresholds, NEW leases \in Leases,
             Ends(packet, thresholds, leases)
      PROVE  JobsInv'
  <2> DEFINE j == Job(totals', TableWith(packet), QueriesWith(packet), thresholds, leases, SyncDue)
             n == Len(jobs)
  <2>1. j.window_seconds >= StatsSeconds
    BY <1>2 DEF Job, Ends, Due
  <2>2. Len(j.alerts) \in 0..MaxAlerts
    <3>1. j.alerts = WithScan(ThresholdAlerts(totals', TableWith(packet), thresholds), TableWith(packet))
      BY DEF Job
    <3>2. IsSeq(j.alerts) /\ Len(j.alerts) <= MaxAlerts
      BY <3>1, AlertsAre
    <3> HIDE DEF j
    <3>3. Len(j.alerts) \in Nat
      BY <3>2, OneMore
    <3> QED
      BY <3>2, <3>3, Constants
  <2>3. Len(j.fx) <= FxSample
    <3>1. j.fx = <<>> \/ j.fx = (Fx!Recent(FxSample))'
      BY DEF Job
    <3>2. FxInv'
      BY DEF RingsInv
    <3> QED
      BY <3>1, <3>2, SampleFits, FxConstants
  <2>4. Len(j.dns) <= DnsCapacity
    <3>1. j.dns = QueriesWith(packet)
      BY DEF Job
    <3> QED
      BY <3>1, TablesWith DEF QueriesAre
  <2>5. Len(j.clients) <= RosterCapacity
    <3>1. j.clients = Roster!Collected(leases, activity', clock)
      BY DEF Job
    <3> QED
      BY <3>1, RosterFits
  <2> HIDE DEF j
  <2>6. jobs' = Append(jobs, j)
    BY <1>2 DEF Ends, j
  <2>7. /\ IsSeq(jobs') /\ n \in Nat /\ DOMAIN jobs = 1..n /\ DOMAIN jobs' = 1..(n + 1)
        /\ \A i \in 1..n : jobs'[i] = jobs[i]
        /\ jobs'[n + 1] = j
    BY <2>6, OneMore DEF JobsInv
  <2>8. JobFits(j)
    BY <2>1, <2>2, <2>3, <2>4, <2>5 DEF JobFits
  <2> HIDE DEF n
  <2>9. \A i \in 1..(n + 1) : i \in 1..n \/ i = n + 1
    BY <2>7
  <2>10. \A i \in DOMAIN jobs' : JobFits(jobs'[i])
    BY <2>7, <2>8, <2>9 DEF JobsInv
  <2> QED
    BY <2>7, <2>10 DEF JobsInv, JobFits
<1> QED
  BY <1>1, <1>2, Steps DEF Handled, Stays, Idles

(* Where the program stands.                                               *)
PlaceInv ==
    /\ pc \in {"check", "receive", "stopping", "stopped", "failed"}
    /\ keep_running \in BOOLEAN

(* Every step leaves the main thread at a place of the loop.               *)
LEMMA PlaceStep == PlaceInv /\ [Next]_vars => PlaceInv'
BY DEF PlaceInv, Next, Main, Frame, Check, GoesOn, IgnoredFrame, PacketFrame, PacketUnder,
       Stop, Interrupted, ReceiveFails, Signal, Tick, Terminated, vars

(* From the start on, places, tables and jobs are as they should be.       *)
LEMMA ShapesInvariant == Spec => [](PlaceInv /\ TablesInv /\ JobsInv)
<1>1. Init => PlaceInv /\ TablesInv /\ JobsInv
  <2>1. <<>> \in Seq({})
    OBVIOUS
  <2> QED
    BY <2>1, Constants
       DEF Init, PlaceInv, TablesInv, FlowsAre, QueriesAre, JobsInv, IsSeq
<1> QED
  BY <1>1, PlaceStep, TablesStep, JobsStep, RingsInvariant, PTL DEF Spec

(* Every part keeps its own invariants inside the loop: rings and tables   *)
(* stay within their capacities, and a job fits its arrays and covers a    *)
(* whole window, whatever the clock does.                                  *)
THEOREM TypeCorrect == Spec => []TypeOK
<1>1. RingsInv /\ PlaceInv /\ TablesInv /\ JobsInv => TypeOK
  <2> SUFFICES ASSUME RingsInv, PlaceInv, TablesInv, JobsInv PROVE TypeOK
    OBVIOUS
  <2>1. Window!TypeOK /\ Fx!TypeOK
    BY SamePromises DEF RingsInv, FxInv
  <2>2. Table!TypeOK
    <3>1. DOMAIN flows = 1..Len(flows) /\ \A i \in 1..Len(flows) : flows[i] \in FlowEntry
      BY DEF TablesInv, FlowsAre
    <3> QED
      BY <3>1 DEF TablesInv, FlowsAre, FlowEntry, Table!TypeOK
  <2>3. Dns!TypeOK
    <3>1. DOMAIN dns = 1..Len(dns) /\ \A i \in 1..Len(dns) : dns[i] \in QueryEntry
      BY DEF TablesInv, QueriesAre
    <3>2. \A i, k \in 1..Len(dns) : i # k =>
             <<dns[i].client, dns[i].domain>> # <<dns[k].client, dns[k].domain>>
      BY DEF TablesInv, QueriesAre, SameQuery
    <3> QED
      BY <3>1, <3>2 DEF TablesInv, QueriesAre, QueryEntry, Dns!TypeOK
  <2> QED
    BY <2>1, <2>2, <2>3 DEF TypeOK, PlaceInv, JobsInv, JobFits
<1> QED
  BY <1>1, ShapesInvariant, RingsInvariant, PTL

-----------------------------------------------------------------------------
(* As many packets are in the window as total_packets says.                *)
LEMMA TotalIs == RingsInv => totals["total_packets"] = count
<1> SUFFICES ASSUME Proven!WindowInv PROVE totals["total_packets"] = count
  BY DEF RingsInv
<1> DEFINE c == "total_packets"
           shares == [i \in DOMAIN Proven!Live |-> Proven!Share(Proven!Live[i], c)]
<1>1. totals[c] = Proven!SumOf(shares)
  BY DEF Proven!WindowInv, Proven!AggregatesExact, Proven!Sum, Proven!Counters
<1>2. DOMAIN Proven!Live = 1..count /\ count \in Nat
  BY Proven!LiveIs, Constants DEF Proven!WindowInv, Proven!TypeOK
<1>3. \A rec : Proven!Share(rec, c) = 1
  BY DEF Proven!Share
<1>4. shares = [i \in 1..count |-> 1]
  BY <1>2, <1>3
<1> HIDE DEF shares
<1>5. shares \in Seq(Int) /\ Len(shares) = count /\ \A i \in 1..Len(shares) : shares[i] = 1
  BY <1>2, <1>4
<1>6. /\ Proven!SumOf(shares) \in Int /\ Len(shares) * 1 <= Proven!SumOf(shares)
      /\ Proven!SumOf(shares) <= Len(shares) * 1
  <2>1. 1 \in Int /\ \A i \in 1..Len(shares) : 1 <= shares[i] /\ shares[i] <= 1
    BY <1>5
  <2> QED
    BY <1>5, <2>1, Proven!SumBounds
<1>7. Proven!SumOf(shares) = count
  BY <1>2, <1>5, <1>6
<1> QED
  BY <1>1, <1>7

(* When the packet window is no longer than a statistics window, every     *)
(* packet before the latest flush is older than that flush, the packet that*)
(* set it off is not younger, and those after it came too early for the    *)
(* next one.  That is so however the clock is set: a clock behind the flush*)
(* puts the next one off.                                                  *)
Steady == WindowSeconds <= StatsSeconds

OrderInv ==
    /\ flushed \in 0..Len(arrived)
    /\ window_start \in Nat
    /\ \A i \in 1..Len(arrived) :
          /\ i < flushed => arrived[i].ts < window_start
          /\ i = flushed => arrived[i].ts <= window_start
          /\ i > flushed => arrived[i].ts < window_start + StatsSeconds

(* What a packet adds to the history of the window.                        *)
LEMMA ArrivedIs ==
    ASSUME RingsInv, NEW packet \in Traffic, Handled(packet)
    PROVE  LET n == Len(arrived) IN
           /\ n \in Nat /\ Len(handled) = n /\ Len(arrived') = n + 1 /\ Len(handled') = n + 1
           /\ \A i \in 1..n : /\ arrived'[i] = arrived[i] /\ handled'[i] = handled[i]
                              /\ arrived[i].ts \in Nat
           /\ arrived'[n + 1].ts = clock /\ handled'[n + 1] = packet
           /\ clock \in Nat /\ clock' = clock
           /\ handled' \in Seq(Traffic)
<1>1. /\ arrived \in Seq(Window!Record) /\ handled \in Seq(Traffic)
      /\ Len(handled) = Len(arrived) /\ clock \in 0..MaxTime /\ MaxTime \in Nat
  BY Constants DEF RingsInv, FxInv, Fx!TypeOK, Proven!WindowInv, Proven!TypeOK
<1> DEFINE rec == [ts |-> clock, size |-> packet.size, protocol |-> packet.flow.protocol]
<1>2. arrived' = Append(arrived, rec) /\ handled' = Append(handled, packet) /\ clock' = clock
  BY DEF Handled
<1>3. rec.ts = clock
  OBVIOUS
<1> HIDE DEF rec
<1>4. \A i \in 1..Len(arrived) : arrived[i].ts \in Nat
  <2> SUFFICES ASSUME NEW i \in 1..Len(arrived) PROVE arrived[i].ts \in Nat
    OBVIOUS
  <2>1. arrived[i] \in Window!Record
    BY <1>1
  <2> QED
    BY <1>1, <2>1 DEF Window!Record
<1>5. IsSeq(arrived) /\ IsSeq(handled)
  BY <1>1 DEF IsSeq
<1>6. handled' \in Seq(Traffic)
  BY <1>1, <1>2
<1> QED
  BY <1>1, <1>2, <1>3, <1>4, <1>5, <1>6, OneMore

(* Every step keeps the packets of earlier windows older than this one.    *)
LEMMA OrderStep ==
    ASSUME RingsInv, OrderInv, [Next]_vars
    PROVE  OrderInv'
<1>1. CASE Idles
  <2>1. UNCHANGED <<flushed, arrived, window_start>>
    BY <1>1 DEF Idles, windows, tables
  <2> QED
    BY <2>1 DEF OrderInv
<1>2. ASSUME NEW packet \in Traffic, Handled(packet) PROVE OrderInv'
  <2> DEFINE n == Len(arrived)
  <2>1. /\ n \in Nat /\ Len(handled) = n /\ Len(arrived') = n + 1 /\ Len(handled') = n + 1
        /\ \A i \in 1..n : arrived'[i] = arrived[i] /\ arrived[i].ts \in Nat
        /\ arrived'[n + 1].ts = clock /\ clock \in Nat /\ clock' = clock
    BY <1>2, ArrivedIs
  <2>2. /\ flushed \in 0..n /\ window_start \in Nat
        /\ \A i \in 1..n : /\ i < flushed => arrived[i].ts < window_start
                           /\ i = flushed => arrived[i].ts <= window_start
                           /\ i > flushed => arrived[i].ts < window_start + StatsSeconds
    BY DEF OrderInv
  <2>3. StatsSeconds \in Nat \ {0}
    BY Constants
  <2> HIDE DEF n
  <2>4. \A i \in 1..(n + 1) : i \in 1..n \/ i = n + 1
    BY <2>1
  <2>6. CASE Stays(packet)
    <3>1. /\ flushed' = flushed /\ window_start' = window_start
          /\ ~(clock - window_start >= StatsSeconds)
      BY <2>6 DEF Stays, Due, windows
    <3>2. clock < window_start + StatsSeconds
      BY <2>1, <2>2, <2>3, <3>1
    <3>3. ASSUME NEW i \in 1..(n + 1)
          PROVE  /\ i < flushed => arrived'[i].ts < window_start
                 /\ i = flushed => arrived'[i].ts <= window_start
                 /\ i > flushed => arrived'[i].ts < window_start + StatsSeconds
      <4>1. CASE i \in 1..n
        BY <2>1, <2>2, <4>1
      <4>2. CASE i = n + 1
        BY <2>1, <2>2, <3>2, <4>2
      <4> QED
        BY <2>4, <4>1, <4>2
    <3>4. flushed' \in 0..(n + 1)
      BY <2>1, <2>2, <3>1
    <3> QED
      BY <2>1, <2>2, <3>1, <3>3, <3>4 DEF OrderInv
  <2>7. CASE Due /\ flushed' = Len(handled') /\ window_start' = clock
    <3>1. flushed' = n + 1 /\ window_start' = clock /\ clock >= window_start + StatsSeconds
      BY <2>1, <2>2, <2>3, <2>7 DEF Due
    <3>2. \A i \in 1..n : arrived[i].ts < clock
      <4> SUFFICES ASSUME NEW i \in 1..n PROVE arrived[i].ts < clock
        OBVIOUS
      <4>1. i < flushed \/ i = flushed \/ i > flushed
        BY <2>1, <2>2
      <4> QED
        BY <2>1, <2>2, <2>3, <3>1, <4>1
    <3>3. ASSUME NEW i \in 1..(n + 1)
          PROVE  /\ i < n + 1 => arrived'[i].ts < clock
                 /\ i = n + 1 => arrived'[i].ts <= clock
                 /\ ~(i > n + 1)
      <4>1. CASE i \in 1..n
        BY <2>1, <3>2, <4>1
      <4>2. CASE i = n + 1
        BY <2>1, <4>2
      <4> QED
        BY <2>4, <4>1, <4>2
    <3>4. flushed' \in 0..(n + 1) /\ window_start' \in Nat
      BY <2>1, <3>1
    <3> QED
      BY <2>1, <3>1, <3>3, <3>4 DEF OrderInv
  <2> QED
    BY <1>2, <2>6, <2>7 DEF Handled, Ends
<1> QED
  BY <1>1, <1>2, Steps

(* So at most one packet of the flush before is still in the packet window *)
(* when the next flush comes.                                              *)
LEMMA WindowAtFlush ==
    ASSUME Steady, RingsInv, RingsInv', OrderInv,
           NEW packet \in Traffic, Handled(packet), Due
    PROVE  /\ count' \in Nat \ {0} /\ count' <= Len(arrived')
           /\ flushed # 0 => count' <= Len(arrived') - flushed + 1
<1> DEFINE n == Len(arrived)
           pushed == [size |-> packet.size, protocol |-> packet.flow.protocol]
<1>1. /\ n \in Nat /\ Len(arrived') = n + 1
      /\ \A i \in 1..n : arrived[i].ts \in Nat
  BY ArrivedIs
<1>2. /\ flushed \in 0..n /\ window_start \in Nat
      /\ \A i \in 1..n : i < flushed => arrived[i].ts < window_start
  BY DEF OrderInv
<1>3. /\ WindowSeconds \in Nat /\ StatsSeconds \in Nat /\ WindowCapacity \in Nat
      /\ WindowSeconds <= StatsSeconds /\ clock - window_start >= StatsSeconds
  BY Constants DEF Steady, Due
<1>4. /\ count' \in 0..WindowCapacity /\ count' <= Len(arrived')
      /\ clock \in 0..MaxTime /\ MaxTime \in Nat
  BY Constants DEF RingsInv, Proven!WindowInv, Proven!TypeOK, Proven!LatestKept
<1>5. count' >= 2 => \E j \in 1..n : j <= n - count' + 2 /\ arrived[j].ts >= clock - WindowSeconds
  <2>1. Proven!Push(pushed, clock)
    BY DEF Handled
  <2>2. Proven!PacketWindowAssumption /\ Proven!TypeOK /\ Proven!LatestKept
    BY SameConstants DEF RingsInv, Proven!WindowInv
  <2> HIDE DEF pushed
  <2> QED
    BY <1>4, <2>1, <2>2, Proven!OldestKept
<1> HIDE DEF n
<1>6. ASSUME flushed # 0, ~(count' <= (n + 1) - flushed + 1) PROVE FALSE
  <2>1. count' \in Nat /\ count' >= 2
    BY <1>1, <1>2, <1>3, <1>4, <1>6
  <2>2. PICK j \in 1..n : j <= n - count' + 2 /\ arrived[j].ts >= clock - WindowSeconds
    BY <1>5, <2>1
  <2>a. \A c, f, m, i \in Nat : ~(c <= (m + 1) - f + 1) /\ i <= m - c + 2 => i < f
    OBVIOUS
  <2>b. n \in Nat /\ flushed \in Nat /\ count' \in Nat /\ j \in Nat
    BY <1>1, <1>2, <2>1
  <2>3. j < flushed
    BY Zenon, <1>6, <2>a, <2>b, <2>2
  <2>4. arrived[j].ts < window_start /\ arrived[j].ts \in Nat
    BY <1>1, <1>2, <2>3
  <2> QED
    BY <1>2, <1>3, <1>4, <2>2, <2>4
<1>7. count' # 0
  <2>1. Proven!Push(pushed, clock) /\ pushed \in Proven!Packet
    BY TrafficIs DEF Handled, Proven!Packet, Proven!Protocols
  <2>2. Proven!PacketWindowAssumption /\ Proven!TypeOK /\ Proven!LatestKept
    BY SameConstants DEF RingsInv, Proven!WindowInv
  <2> HIDE DEF pushed
  <2>3. count' \in 1..WindowCapacity
    BY <1>4, <2>1, <2>2, Proven!PushLive
  <2> QED
    BY <1>3, <2>3
<1> QED
  BY <1>1, <1>3, <1>4, <1>6, <1>7

-----------------------------------------------------------------------------
(* The sums of this module are those of the lemmas.                        *)
LEMMA SameSum ==
    ASSUME NEW s
    PROVE  SumOf(s) = Proven!SumOf(s)
BY DEF SumOf, FoldLeft, MapThenFoldSet, Max, Proven!SumOf, Proven!FoldLeft,
       Proven!MapThenFoldSet, Proven!Max

(* A number for each element of a sequence, and their sum when there is one*)
(* element more.                                                           *)
OneMoreNumber(n, f, g, v) ==
    /\ f = [i \in 1..n |-> f[i]] /\ g = [i \in 1..(n + 1) |-> g[i]]
    /\ \A i \in 1..n : f[i] \in Int /\ g[i] = f[i]
    /\ g[n + 1] = v

(* The sum grows by the number that is new.                                *)
LEMMA SumGrows ==
    ASSUME NEW n \in Nat, NEW f, NEW g, NEW v \in Int, OneMoreNumber(n, f, g, v)
    PROVE  SumOf(f) \in Int /\ SumOf(g) \in Int /\ SumOf(g) = SumOf(f) + v
<1>1. /\ n \in Nat
      /\ f = [i \in 1..n |-> f[i]] /\ g = [i \in 1..(n + 1) |-> g[i]]
      /\ \A i \in 1..n : f[i] \in Int /\ g[i] = f[i]
      /\ g[n + 1] = v
  BY DEF OneMoreNumber
<1>2. f \in Seq(Int) /\ Len(f) = n
  <2>1. f \in [1..n -> Int]
    BY <1>1
  <2> QED
    BY <1>1, <2>1, SeqDef, LenProperties
<1>3. g \in Seq(Int) /\ Len(g) = n + 1
  <2>1. \A i \in 1..(n + 1) : i \in 1..n \/ i = n + 1
    BY <1>1
  <2>2. \A i \in 1..(n + 1) : g[i] \in Int
    BY <1>1, <2>1
  <2>3. g \in [1..(n + 1) -> Int]
    BY <1>1, <2>2
  <2>4. n + 1 \in Nat
    BY <1>1
  <2> QED
    BY <2>3, <2>4, SeqDef, LenProperties
<1>4. g = Append(f, v)
  <2> DEFINE h == Append(f, v)
  <2>1. h \in Seq(Int) /\ Len(h) = n + 1 /\ h[n + 1] = v /\ \A i \in 1..n : h[i] = f[i]
    BY <1>2
  <2>2. \A i \in 1..(n + 1) : i \in 1..n \/ i = n + 1
    BY <1>1
  <2> HIDE DEF h
  <2>3. \A i \in 1..(n + 1) : g[i] = h[i]
    BY <1>1, <2>1, <2>2
  <2>4. g = h
    BY <1>3, <2>1, <2>3, SeqEqual
  <2> QED
    BY <2>4 DEF h
<1>5. Proven!SumOf(f) \in Int /\ Proven!SumOf(g) \in Int
  BY <1>2, <1>3, Proven!SumType
<1>6. Proven!SumOf(Append(f, v)) = Proven!SumOf(f) + v
  BY <1>2, Proven!SumOfAppend
<1> QED
  BY <1>4, <1>5, <1>6, SameSum

(* The packets that the jobs count together.                               *)
PacketsCounted(js) == [i \in DOMAIN js |-> js[i].stats["total_packets"]]

CountedInv ==
    /\ IsSeq(jobs)
    /\ \A i \in DOMAIN jobs : jobs[i].stats["total_packets"] \in Nat \ {0}
    /\ Len(jobs) = 0 <=> flushed = 0
    /\ SumOf(PacketsCounted(jobs)) \in Int
    /\ SumOf(PacketsCounted(jobs)) <= flushed + (IF Len(jobs) = 0 THEN 0 ELSE Len(jobs) - 1)

(* Every step keeps the bound on what the jobs count together.             *)
LEMMA CountedStep ==
    ASSUME Steady, RingsInv, RingsInv', OrderInv, CountedInv, [Next]_vars
    PROVE  CountedInv'
<1>1. CASE UNCHANGED windows
  BY <1>1 DEF CountedInv, PacketsCounted, IsSeq, windows
<1>2. ASSUME NEW packet \in Traffic, Handled(packet), NEW thresholds \in Thresholds,
             NEW leases \in Leases, Ends(packet, thresholds, leases)
      PROVE  CountedInv'
  <2> DEFINE j == Job(totals', TableWith(packet), QueriesWith(packet), thresholds, leases, SyncDue)
             m == Len(jobs)
             sum == SumOf(PacketsCounted(jobs))
  <2>1. j.stats["total_packets"] = count'
    <3>1. j.stats = totals'
      BY DEF Job
    <3>2. (RingsInv => totals["total_packets"] = count)'
      BY TotalIs, PTL
    <3> QED
      BY <3>1, <3>2
  <2> HIDE DEF j
  <2>2. jobs' = Append(jobs, j) /\ flushed' = Len(handled') /\ Due
    BY <1>2 DEF Ends, j
  <2>3. /\ IsSeq(jobs') /\ m \in Nat /\ Len(jobs') = m + 1
        /\ DOMAIN jobs = 1..m /\ DOMAIN jobs' = 1..(m + 1)
        /\ \A i \in 1..m : jobs'[i] = jobs[i]
        /\ jobs'[m + 1] = j
    BY <2>2, OneMore DEF CountedInv
  <2>4. /\ count' \in Nat \ {0} /\ count' <= Len(arrived')
        /\ flushed # 0 => count' <= Len(arrived') - flushed + 1
    BY <1>2, <2>2, WindowAtFlush
  <2>5. Len(arrived) \in Nat /\ Len(arrived') = Len(arrived) + 1 /\ flushed' = Len(arrived')
    BY <1>2, <2>2, ArrivedIs
  <2>6. \A i \in 1..m : jobs[i].stats["total_packets"] \in Nat \ {0}
    BY <2>3 DEF CountedInv
  <2>7. \A i \in 1..(m + 1) : i \in 1..m \/ i = m + 1
    BY <2>3
  <2>8. \A i \in DOMAIN jobs' : jobs'[i].stats["total_packets"] \in Nat \ {0}
    BY <2>1, <2>3, <2>4, <2>6, <2>7
  <2>9. /\ SumOf(PacketsCounted(jobs)) \in Int /\ SumOf(PacketsCounted(jobs')) \in Int
        /\ SumOf(PacketsCounted(jobs')) = SumOf(PacketsCounted(jobs)) + count'
    <3> DEFINE f == PacketsCounted(jobs)
               g == PacketsCounted(jobs')
    <3>1. OneMoreNumber(m, f, g, count')
      <4>1. f = [i \in 1..m |-> jobs[i].stats["total_packets"]]
        BY <2>3 DEF PacketsCounted
      <4>2. g = [i \in 1..(m + 1) |-> jobs'[i].stats["total_packets"]]
        BY <2>3 DEF PacketsCounted
      <4>3. m + 1 \in 1..(m + 1) /\ \A i \in 1..m : i \in 1..(m + 1)
        BY <2>3
      <4> HIDE DEF f, g, m
      <4> QED
        BY <2>1, <2>3, <2>6, <4>1, <4>2, <4>3 DEF OneMoreNumber
    <3> HIDE DEF f, g
    <3>2. m \in Nat /\ count' \in Int
      BY <2>3, <2>4
    <3>3. SumOf(f) \in Int /\ SumOf(g) \in Int /\ SumOf(g) = SumOf(f) + count'
      BY <3>1, <3>2, SumGrows
    <3> QED
      BY <3>3 DEF f, g
  <2> HIDE DEF m
  <2>10. SumOf(PacketsCounted(jobs')) <= flushed' + m
    <3>1. sum <= flushed + (IF m = 0 THEN 0 ELSE m - 1) /\ (m = 0 <=> flushed = 0)
      BY DEF CountedInv, m
    <3>2. flushed \in Nat
      BY <2>5 DEF OrderInv
    <3> HIDE DEF sum
    <3>3. SumOf(PacketsCounted(jobs')) = sum + count' /\ sum \in Int
      BY <2>9 DEF sum
    <3>4. CASE m = 0
      <4>1. sum <= 0 /\ flushed = 0
        BY <3>1, <3>4
      <4> QED
        BY <2>4, <2>5, <3>3, <3>4, <4>1
    <3>5. CASE m # 0
      <4>1. sum <= flushed + m - 1 /\ count' <= Len(arrived') - flushed + 1
        BY <2>3, <2>4, <3>1, <3>5
      <4> QED
        BY <2>3, <2>4, <2>5, <3>2, <3>3, <4>1
    <3> QED
      BY <3>4, <3>5
  <2>11. Len(jobs') # 0 /\ flushed' # 0 /\ Len(jobs') - 1 = m
    BY <2>3, <2>5
  <2> QED
    BY <2>3, <2>8, <2>9, <2>10, <2>11 DEF CountedInv
<1> QED
  BY <1>1, <1>2, Steps DEF Handled, Stays, Idles

(* The bound holds from the start on.                                      *)
LEMMA CountedInvariant == Steady => (Spec => [](OrderInv /\ CountedInv))
<1> SUFFICES ASSUME Steady PROVE Spec => [](OrderInv /\ CountedInv)
  OBVIOUS
<1>1. Init => OrderInv /\ CountedInv
  <2> SUFFICES ASSUME Init PROVE OrderInv /\ CountedInv
    OBVIOUS
  <2>1. /\ arrived = <<>> /\ flushed = 0 /\ window_start = 0 /\ jobs = <<>>
        /\ clock \in Nat
    BY Constants DEF Init, Window!WindowInit
  <2>2. OrderInv
    BY <2>1 DEF OrderInv
  <2>3. PacketsCounted(<<>>) = <<>> /\ <<>> \in Seq({})
    BY DEF PacketsCounted
  <2>4. SumOf(PacketsCounted(jobs)) = 0
    BY <2>1, <2>3, SameSum, Proven!SumOfNothing
  <2> QED
    BY <2>1, <2>2, <2>3, <2>4 DEF CountedInv, IsSeq
<1>2. RingsInv /\ RingsInv' /\ OrderInv /\ CountedInv /\ [Next]_vars
         => OrderInv' /\ CountedInv'
  BY OrderStep, CountedStep
<1> QED
  BY <1>1, <1>2, RingsInvariant, PTL DEF Spec

(* The statistics of successive jobs overlap in at most the packet that    *)
(* set off the flush between them, as long as the packet window is no      *)
(* longer than a statistics window (5 seconds each in the code), and       *)
(* wherever the clock is set.                                              *)
THEOREM CountedTwice == Steady => (Spec => []CountedTwiceAtMost)
<1>1. CountedInv => CountedTwiceAtMost
  <2> SUFFICES ASSUME CountedInv PROVE CountedTwiceAtMost
    OBVIOUS
  <2>1. Len(jobs) = 0 <=> jobs = <<>>
    BY DEF CountedInv, IsSeq
  <2>2. SumOver(LAMBDA job : job.stats["total_packets"]) = SumOf(PacketsCounted(jobs))
    BY DEF SumOver, PacketsCounted
  <2> QED
    BY <2>1, <2>2 DEF CountedInv, CountedTwiceAtMost
<1> QED
  BY <1>1, CountedInvariant, PTL

-----------------------------------------------------------------------------
(* Of finitely many numbers one is the greatest.                           *)
LEMMA MostOf ==
    ASSUME NEW n \in Nat, NEW c \in SUBSET (1..n), c # {}, NEW v, \A i \in c : v[i] \in Nat
    PROVE  \E m \in c : \A k \in c : v[k] <= v[m]
<1> DEFINE Best(j, m) == \A k \in c : k <= j => v[k] <= v[m]
           Begun(j) == \E k \in c : k <= j
           T == {j \in Nat : Begun(j) => \E m \in c : Best(j, m)}
<1>1. 0 \in T
  <2>1. ~Begun(0)
    OBVIOUS
  <2> QED
    BY <2>1
<1>2. ASSUME NEW j \in T PROVE j + 1 \in T
  <2>1. SUFFICES ASSUME Begun(j + 1) PROVE \E m \in c : Best(j + 1, m)
    OBVIOUS
  <2>2. j \in Nat /\ \A k \in c : k \in Nat /\ (k <= j + 1 <=> k <= j \/ k = j + 1)
    OBVIOUS
  <2>3. CASE j + 1 \notin c
    <3>1. \A m : Best(j, m) => Best(j + 1, m)
      BY <2>2, <2>3
    <3>2. Begun(j)
      BY <2>1, <2>2, <2>3
    <3> QED
      BY <3>1, <3>2
  <2>4. CASE j + 1 \in c /\ ~Begun(j)
    <3>1. Best(j + 1, j + 1)
      BY <2>2, <2>4
    <3> QED
      BY <2>4, <3>1
  <2>5. CASE j + 1 \in c /\ Begun(j)
    <3>1. PICK m \in c : Best(j, m)
      BY <2>5
    <3>2. v[m] \in Nat /\ v[j + 1] \in Nat /\ \A k \in c : v[k] \in Nat
      BY <2>5
    <3>3. CASE v[j + 1] <= v[m]
      <4>1. Best(j + 1, m)
        BY <2>2, <3>1, <3>3
      <4> QED
        BY <4>1
    <3>4. CASE ~(v[j + 1] <= v[m])
      <4>1. \A k \in c : k <= j => v[k] <= v[j + 1]
        BY <3>1, <3>2, <3>4
      <4>2. Best(j + 1, j + 1)
        BY <2>2, <3>2, <4>1
      <4> QED
        BY <2>5, <4>2
    <3> QED
      BY <3>3, <3>4
  <2> QED
    BY <2>3, <2>4, <2>5
<1>3. T \in SUBSET Nat
  OBVIOUS
<1> HIDE DEF T
<1>4. n \in T
  BY <1>1, <1>2, <1>3, Proven!Adding!Induction
<1>5. Begun(n) /\ \A m \in c : Best(n, m) => \A k \in c : v[k] <= v[m]
  <2>1. \A k \in c : k <= n
    OBVIOUS
  <2> QED
    BY <2>1
<1> HIDE DEF Best, Begun
<1> QED
  BY <1>4, <1>5 DEF T

(* Of finitely many positions one is the first.                            *)
LEMMA FirstOf ==
    ASSUME NEW n \in Nat, NEW c \in SUBSET (1..n), c # {}
    PROVE  \E m \in c : \A k \in c : m <= k
<1> DEFINE v == [i \in 1..n |-> n - i]
<1>1. \A i \in c : i \in 1..n /\ v[i] \in Nat /\ v[i] = n - i
  OBVIOUS
<1> HIDE DEF v
<1>2. PICK m \in c : \A k \in c : v[k] <= v[m]
  BY <1>1, MostOf
<1>3. \A k \in c : m <= k
  BY <1>1, <1>2
<1> QED
  BY <1>3

(* A list without repetitions that is as long as a set has elements lists  *)
(* them all.                                                               *)
LEMMA FullListsAll ==
    ASSUME NEW S, IsFiniteSet(S), NEW n \in Nat, Cardinality(S) <= n,
           NEW f \in [1..n -> S], \A i, k \in 1..n : i # k => f[i] # f[k],
           NEW x \in S
    PROVE  \E i \in 1..n : f[i] = x
<1> SUFFICES ASSUME \A i \in 1..n : f[i] # x PROVE FALSE
  OBVIOUS
<1>1. f \in [1..n -> S \ {x}]
  OBVIOUS
<1>2. /\ IsFiniteSet(S \ {x}) /\ Cardinality(S \ {x}) = Cardinality(S) - 1
      /\ Cardinality(S) \in Nat
  BY FS_RemoveElement, FS_CardinalityType
<1>3. IsFiniteSet(1..n) /\ Cardinality(1..n) = n
  BY FS_Interval
<1>4. Cardinality(S \ {x}) < Cardinality(1..n)
  BY <1>2, <1>3
<1>5. \E i, k \in 1..n : i # k /\ f[i] = f[k]
  BY <1>1, <1>2, <1>3, <1>4, FS_PigeonHole
<1> QED
  BY <1>5

-----------------------------------------------------------------------------
(* What the packets w contribute to the entry of a flow: their number or   *)
(* their bytes.                                                            *)
Measures == {"packets", "bytes"}
Weight(packet, flow, what) ==
    IF packet.flow = flow THEN (IF what = "packets" THEN 1 ELSE packet.size) ELSE 0
Weights(w, flow, what) == [i \in DOMAIN w |-> Weight(w[i], flow, what)]
Of(w, flow, what) == SumOf(Weights(w, flow, what))

(* One packet more adds its own weight.                                    *)
LEMMA WeightIs ==
    ASSUME NEW packet \in Traffic, NEW flow, NEW what
    PROVE  Weight(packet, flow, what) \in Nat
BY TrafficIs DEF Weight

(* One packet more adds its weight.                                        *)
LEMMA OfAppend ==
    ASSUME NEW w \in Seq(Traffic), NEW packet \in Traffic, NEW flow, NEW what
    PROVE  /\ Of(w, flow, what) \in Int
           /\ Of(Append(w, packet), flow, what) = Of(w, flow, what) + Weight(packet, flow, what)
<1> DEFINE n == Len(w)
           wt(p) == Weight(p, flow, what)
           f == Weights(w, flow, what)
           g == Weights(Append(w, packet), flow, what)
<1>1. \A p \in Traffic : wt(p) \in Nat
  BY WeightIs
<1>2. /\ f = [i \in DOMAIN w |-> wt(w[i])]
      /\ g = [i \in DOMAIN Append(w, packet) |-> wt(Append(w, packet)[i])]
  BY DEF Weights
<1> HIDE DEF wt, f, g
<1>3. /\ n \in Nat /\ DOMAIN w = 1..n /\ DOMAIN Append(w, packet) = 1..(n + 1)
      /\ \A i \in 1..n : Append(w, packet)[i] = w[i] /\ w[i] \in Traffic
      /\ Append(w, packet)[n + 1] = packet
  OBVIOUS
<1> DEFINE t == Append(w, packet)
<1> HIDE DEF n, t
<1>4. OneMoreNumber(n, f, g, wt(packet))
  <2>1. n + 1 \in 1..(n + 1) /\ \A i \in 1..n : i \in 1..(n + 1)
    BY <1>3
  <2>2. g = [i \in 1..(n + 1) |-> wt(t[i])] /\ f = [i \in 1..n |-> wt(w[i])]
    BY <1>2, <1>3 DEF t
  <2>3. \A i \in 1..n : t[i] = w[i] /\ w[i] \in Traffic
    BY <1>3 DEF t
  <2>4. t[n + 1] = packet
    BY <1>3 DEF t
  <2> QED
    BY <1>1, <2>1, <2>2, <2>3, <2>4 DEF OneMoreNumber
<1>5. wt(packet) \in Int
  BY <1>1
<1> QED
  BY <1>3, <1>4, <1>5, SumGrows DEF Of, wt, f, g

(* Packets of other flows contribute nothing.                              *)
LEMMA OfOthers ==
    ASSUME NEW w \in Seq(Traffic), NEW flow, NEW what, \A i \in 1..Len(w) : w[i].flow # flow
    PROVE  Of(w, flow, what) = 0
<1> DEFINE f == Weights(w, flow, what)
<1>1. f = [i \in 1..Len(w) |-> 0]
  BY DEF Weights, Weight
<1> HIDE DEF f
<1>2. f \in Seq(Int) /\ Len(f) = Len(w) /\ 0 \in Int
      /\ \A i \in 1..Len(f) : 0 <= f[i] /\ f[i] <= 0
  BY <1>1
<1>3. /\ Proven!SumOf(f) \in Int /\ Len(f) * 0 <= Proven!SumOf(f)
      /\ Proven!SumOf(f) <= Len(f) * 0
  BY <1>2, Proven!SumBounds
<1>4. Proven!SumOf(f) = 0
  BY <1>2, <1>3
<1> QED
  BY <1>4, SameSum DEF Of, f

(* A table that counts the packets of w: every entry is exact, and a flow  *)
(* is missing only when the table is full.                                 *)
CountsOf(table, w) ==
    /\ \A i \in 1..Len(table), what \in Measures :
          table[i][what] = Of(w, table[i].flow, what)
    /\ \A k \in 1..Len(w) : \/ \E i \in 1..Len(table) : table[i].flow = w[k].flow
                            \/ Len(table) = FlowCapacity

(* A packet added to a table that counts some packets makes it count one   *)
(* more.                                                                   *)
LEMMA CountsKept ==
    ASSUME NEW table, FlowsAre(table), NEW w \in Seq(Traffic), CountsOf(table, w),
           NEW packet \in Traffic
    PROVE  CountsOf(Table!AddedTo(table, packet), Append(w, packet))
<1> DEFINE new == Table!AddedTo(table, packet)
           w2 == Append(w, packet)
<1>1. /\ table \in Seq(FlowEntry) /\ Len(table) \in Nat /\ FlowCapacity \in Nat
      /\ Len(table) <= FlowCapacity
      /\ \A i, k \in 1..Len(table) : i # k => table[i].flow # table[k].flow
      /\ \A i \in 1..Len(table) : table[i] \in FlowEntry
  BY Constants DEF FlowsAre
<1>2. \/ \E i \in 1..Len(table) : Counted(table, new, packet, i)
      \/ LeftOut(table, new, packet)
      \/ Listed(table, new, packet)
  BY FlowAdded
<1>3. \A flow, what : /\ Of(w, flow, what) \in Int
                      /\ Of(w2, flow, what) = Of(w, flow, what) + Weight(packet, flow, what)
  BY OfAppend
<1>4. /\ Len(w) \in Nat /\ Len(w2) = Len(w) + 1 /\ w2[Len(w) + 1] = packet
      /\ \A k \in 1..Len(w) : w2[k] = w[k]
      /\ \A k \in 1..(Len(w) + 1) : k \in 1..Len(w) \/ k = Len(w) + 1
  OBVIOUS
<1>5. /\ Weight(packet, packet.flow, "packets") = 1
      /\ Weight(packet, packet.flow, "bytes") = packet.size
      /\ \A flow, what : flow # packet.flow => Weight(packet, flow, what) = 0
      /\ packet.size \in Nat
  BY TrafficIs DEF Weight
<1>6. \A what \in Measures : what = "packets" \/ what = "bytes"
  BY DEF Measures
<1> SUFFICES CountsOf(new, w2)
  OBVIOUS
<1> HIDE DEF new, w2
<1>7. ASSUME NEW i \in 1..Len(table), Counted(table, new, packet, i) PROVE CountsOf(new, w2)
  <2> DEFINE e == [flow |-> packet.flow, packets |-> table[i].packets + 1,
                   bytes |-> table[i].bytes + packet.size]
  <2>1. /\ e.flow = packet.flow /\ table[i].flow = packet.flow
        /\ e["packets"] = table[i]["packets"] + 1 /\ e["bytes"] = table[i]["bytes"] + packet.size
    BY <1>7 DEF Counted
  <2>2. new = [table EXCEPT ![i] = e]
    BY <1>7 DEF Counted
  <2> HIDE DEF e
  <2>3. /\ Len(new) = Len(table) /\ new[i] = e
        /\ \A k \in 1..Len(table) : k # i => new[k] = table[k]
    BY <1>1, <2>2
  <2>4. ASSUME NEW k \in 1..Len(new), NEW what \in Measures
        PROVE  new[k][what] = Of(w2, new[k].flow, what)
    <3>1. CASE k = i
      <4>1. table[i][what] = Of(w, packet.flow, what)
        BY <2>1 DEF CountsOf
      <4>2. new[k][what] = table[i][what] + Weight(packet, packet.flow, what)
        BY <1>5, <1>6, <2>1, <2>3, <3>1
      <4>3. new[k].flow = packet.flow
        BY <2>1, <2>3, <3>1
      <4> QED
        BY <1>3, <4>1, <4>2, <4>3
    <3>2. CASE k # i
      <4>1. new[k] = table[k] /\ k \in 1..Len(table) /\ table[k].flow # packet.flow
        BY <1>1, <2>1, <2>3, <3>2
      <4>2. table[k][what] = Of(w, table[k].flow, what)
        BY <4>1 DEF CountsOf
      <4>3. Of(w2, table[k].flow, what) = Of(w, table[k].flow, what) + 0
        BY <1>3, <1>5, <4>1
      <4>4. Of(w, table[k].flow, what) \in Int
        BY <1>3
      <4> QED
        BY <4>1, <4>2, <4>3, <4>4
    <3> QED
      BY <3>1, <3>2
  <2>5. \A k \in 1..Len(table) : new[k].flow = table[k].flow
    BY <2>1, <2>3
  <2>6. ASSUME NEW k \in 1..Len(w2)
        PROVE  \/ \E m \in 1..Len(new) : new[m].flow = w2[k].flow
               \/ Len(new) = FlowCapacity
    <3>1. CASE k \in 1..Len(w)
      BY <1>4, <2>3, <2>5, <3>1 DEF CountsOf
    <3>2. CASE k = Len(w) + 1
      BY <1>4, <2>1, <2>3, <2>5, <3>2
    <3> QED
      BY <1>4, <3>1, <3>2
  <2> QED
    BY <2>4, <2>6 DEF CountsOf
<1>8. CASE LeftOut(table, new, packet)
  <2>1. new = table /\ Len(table) = FlowCapacity /\ \A i \in 1..Len(table) : table[i].flow # packet.flow
    BY <1>8 DEF LeftOut
  <2>2. ASSUME NEW k \in 1..Len(table), NEW what \in Measures
        PROVE  table[k][what] = Of(w2, table[k].flow, what)
    <3>1. table[k][what] = Of(w, table[k].flow, what) /\ table[k].flow # packet.flow
      BY <2>1 DEF CountsOf
    <3>2. Of(w2, table[k].flow, what) = Of(w, table[k].flow, what) + 0
      BY <1>3, <1>5, <3>1
    <3>3. Of(w, table[k].flow, what) \in Int
      BY <1>3
    <3> QED
      BY <3>1, <3>2, <3>3
  <2> QED
    BY <2>1, <2>2 DEF CountsOf
<1>9. CASE Listed(table, new, packet)
  <2> DEFINE e == [flow |-> packet.flow, packets |-> 1, bytes |-> packet.size]
             n == Len(table)
  <2>1. /\ new = Append(table, e) /\ n < FlowCapacity
        /\ \A i \in 1..n : table[i].flow # packet.flow
    BY <1>9 DEF Listed
  <2>2. e.flow = packet.flow /\ e["packets"] = 1 /\ e["bytes"] = packet.size
    OBVIOUS
  <2> HIDE DEF e
  <2>3. /\ Len(new) = n + 1 /\ new[n + 1] = e
        /\ \A k \in 1..n : new[k] = table[k]
        /\ \A k \in 1..(n + 1) : k \in 1..n \/ k = n + 1
    BY <1>1, <2>1
  <2>4. ASSUME NEW what PROVE Of(w, packet.flow, what) = 0
    <3>1. \A k \in 1..Len(w) : \E i \in 1..n : table[i].flow = w[k].flow
      BY <1>1, <2>1 DEF CountsOf
    <3>2. \A k \in 1..Len(w) : w[k].flow # packet.flow
      BY <2>1, <3>1
    <3> QED
      BY <3>2, OfOthers
  <2> HIDE DEF n
  <2>5. ASSUME NEW k \in 1..Len(new), NEW what \in Measures
        PROVE  new[k][what] = Of(w2, new[k].flow, what)
    <3>1. CASE k \in 1..n
      <4>1. new[k] = table[k] /\ table[k].flow # packet.flow
        BY <2>1, <2>3, <3>1
      <4>2. table[k][what] = Of(w, table[k].flow, what)
        BY <3>1 DEF CountsOf, n
      <4>3. Of(w2, table[k].flow, what) = Of(w, table[k].flow, what) + 0
        BY <1>3, <1>5, <4>1
      <4>4. Of(w, table[k].flow, what) \in Int
        BY <1>3
      <4> QED
        BY <4>1, <4>2, <4>3, <4>4
    <3>2. CASE k = n + 1
      <4>1. new[k][what] = Weight(packet, packet.flow, what) /\ new[k].flow = packet.flow
        BY <1>5, <1>6, <2>2, <2>3, <3>2
      <4>2. Of(w2, packet.flow, what) = 0 + Weight(packet, packet.flow, what)
        BY <1>3, <2>4
      <4>3. Weight(packet, packet.flow, what) \in Nat
        BY WeightIs
      <4> QED
        BY <4>1, <4>2, <4>3
    <3> QED
      BY <2>3, <3>1, <3>2
  <2>6. ASSUME NEW k \in 1..Len(w2)
        PROVE  \E m \in 1..Len(new) : new[m].flow = w2[k].flow
    <3>1. n \in Nat /\ n + 1 \in 1..Len(new) /\ \A m \in 1..n : m \in 1..Len(new)
      BY <1>1, <2>3 DEF n
    <3>2. CASE k \in 1..Len(w)
      <4>1. PICK i \in 1..n : table[i].flow = w[k].flow
        BY <1>1, <2>1, <3>2 DEF CountsOf, n
      <4> QED
        BY <1>4, <2>3, <3>1, <3>2, <4>1
    <3>3. CASE k = Len(w) + 1
      BY <1>4, <2>2, <2>3, <3>1, <3>3
    <3> QED
      BY <1>4, <3>2, <3>3
  <2> QED
    BY <2>5, <2>6 DEF CountsOf
<1> QED
  BY <1>2, <1>7, <1>8, <1>9

-----------------------------------------------------------------------------
(* The flow table counts the packets since the latest flush.               *)
CountsInv == flushed \in 0..Len(handled) /\ CountsOf(flows, InWindow)

(* A packet is one more in the window that is under way.                   *)
LEMMA WindowGrows ==
    ASSUME RingsInv, flushed \in 0..Len(handled), NEW packet \in Traffic, Handled(packet)
    PROVE  /\ InWindow \in Seq(Traffic)
           /\ SubSeq(handled', flushed + 1, Len(handled')) = Append(InWindow, packet)
           /\ Len(handled) \in Nat /\ Len(handled') = Len(handled) + 1
<1> DEFINE n == Len(handled)
<1>1. handled \in Seq(Traffic) /\ n \in Nat
  BY DEF RingsInv
<1>2. handled' = Append(handled, packet)
  BY DEF Handled
<1>3. n \in 0..Len(handled) /\ flushed \in 0..n
  BY <1>1
<1>4. /\ SubSeq(handled', flushed + 1, n) = SubSeq(handled, flushed + 1, n)
      /\ handled' \in Seq(Traffic) /\ Len(handled') = n + 1 /\ handled'[n + 1] = packet
  BY <1>1, <1>2, <1>3, Proven!PartOfAppend
<1>5. n \in 0..(Len(handled') - 1)
  BY <1>1, <1>4
<1>6. SubSeq(handled', flushed + 1, n + 1) = Append(SubSeq(handled', flushed + 1, n), handled'[n + 1])
  BY <1>3, <1>4, <1>5, Proven!PartGrows
<1>7. InWindow \in Seq(Traffic)
  BY <1>1, <1>3 DEF InWindow
<1> QED
  BY <1>1, <1>4, <1>6, <1>7 DEF InWindow

(* Before a flush the table counts this window with its last packet.       *)
LEMMA TableAtFlush ==
    ASSUME RingsInv, TablesInv, CountsInv, NEW packet \in Traffic, Handled(packet)
    PROVE  /\ FlowsAre(TableWith(packet))
           /\ CountsOf(TableWith(packet), SubSeq(handled', flushed + 1, Len(handled')))
           /\ SubSeq(handled', flushed + 1, Len(handled')) \in Seq(Traffic)
<1>1. /\ InWindow \in Seq(Traffic)
      /\ SubSeq(handled', flushed + 1, Len(handled')) = Append(InWindow, packet)
  BY WindowGrows DEF CountsInv
<1>2. CountsOf(Table!AddedTo(flows, packet), Append(InWindow, packet))
  BY <1>1, CountsKept DEF TablesInv, CountsInv
<1>3. FlowsAre(TableWith(packet))
  BY TablesWith
<1>4. Append(InWindow, packet) \in Seq(Traffic)
  BY <1>1
<1> QED
  BY <1>1, <1>2, <1>3, <1>4 DEF TableWith

(* Every step keeps the flow table counting the packets since the flush.   *)
LEMMA CountsStep == RingsInv /\ TablesInv /\ CountsInv /\ [Next]_vars => CountsInv'
<1> SUFFICES ASSUME RingsInv, TablesInv, CountsInv, [Next]_vars PROVE CountsInv'
  OBVIOUS
<1>1. CASE Idles
  BY <1>1 DEF Idles, tables, windows, CountsInv, InWindow
<1>2. ASSUME NEW packet \in Traffic, Handled(packet) PROVE CountsInv'
  <2>1. Len(handled) \in Nat /\ Len(handled') = Len(handled) + 1 /\ flushed \in 0..Len(handled)
    BY <1>2, WindowGrows DEF CountsInv
  <2>2. CASE Stays(packet)
    <3>1. flows' = TableWith(packet) /\ flushed' = flushed
      BY <2>2 DEF Stays, windows
    <3>2. CountsOf(flows', InWindow')
      BY <1>2, <3>1, TableAtFlush DEF InWindow
    <3>3. flushed' \in 0..Len(handled')
      BY <2>1, <3>1
    <3> QED
      BY <3>2, <3>3 DEF CountsInv, CountsOf, Of, Weights, Weight
  <2>3. CASE flows' = <<>> /\ flushed' = Len(handled')
    <3>1. handled' \in Seq(Traffic)
      BY <1>2, ArrivedIs
    <3>2. InWindow' = <<>> /\ Len(InWindow') = 0
      BY <2>1, <2>3, <3>1 DEF InWindow
    <3>3. CountsOf(<<>>, <<>>)
      BY DEF CountsOf
    <3> QED
      BY <2>1, <2>3, <3>2, <3>3 DEF CountsInv, CountsOf, Of, Weights, Weight
  <2> QED
    BY <1>2, <2>2, <2>3 DEF Handled, Ends
<1> QED
  BY <1>1, <1>2, Steps

(* The traffic knows finitely many flows, and a table with room for them   *)
(* all never turns one away.                                               *)
LEMMA FinitelyMany == IsFiniteSet(Flows) /\ Cardinality(Flows) \in Nat
<1> DEFINE f == [packet \in Traffic |-> packet.flow]
<1>1. f \in Surjection(Traffic, Flows)
  BY DEF Flows, Surjection
<1> HIDE DEF f
<1>2. IsFiniteSet(Flows)
  BY <1>1, PartsAssumption, FS_Surjection
<1> QED
  BY <1>2, FS_CardinalityType

(* A full table with room for all flows lists every one.                   *)
LEMMA FullTable ==
    ASSUME NEW table, FlowsAre(table), Cardinality(Flows) <= FlowCapacity,
           Len(table) = FlowCapacity, NEW flow \in Flows
    PROVE  \E i \in 1..Len(table) : table[i].flow = flow
<1> DEFINE n == Len(table)
           f == [i \in 1..n |-> table[i].flow]
<1>1. /\ n \in Nat /\ Cardinality(Flows) <= n
      /\ \A i \in 1..n : table[i] \in FlowEntry
      /\ \A i, k \in 1..n : i # k => table[i].flow # table[k].flow
  BY Constants DEF FlowsAre
<1>2. f \in [1..n -> Flows] /\ \A i, k \in 1..n : i # k => f[i] # f[k]
  BY <1>1 DEF FlowEntry
<1>3. \A i \in 1..n : f[i] = table[i].flow
  OBVIOUS
<1> HIDE DEF f, n
<1>4. \E i \in 1..n : f[i] = flow
  BY <1>1, <1>2, FinitelyMany, FullListsAll
<1> QED
  BY <1>3, <1>4 DEF n

(* The busiest entry of a protocol, if the table has one of it.            *)
Alike(flow, protocol) == protocol = "any" \/ flow.protocol = protocol

(* What the search for the top talker returns.                             *)
LEMMA TopIs ==
    ASSUME NEW table, FlowsAre(table), NEW protocol
    PROVE  LET top == Table!Top(table, protocol)
           IN  IF \E i \in 1..Len(table) : Alike(table[i].flow, protocol)
               THEN /\ top \in 1..Len(table) /\ Alike(table[top].flow, protocol)
                    /\ \A i \in 1..Len(table) :
                          Alike(table[i].flow, protocol) => table[i].packets <= table[top].packets
               ELSE top = 0
<1> DEFINE n == Len(table)
           c == Table!Candidates(table, protocol)
           M == {table[i].packets : i \in c}
           most == Table!Max(M)
           top == Table!Top(table, protocol)
<1>1. /\ n \in Nat /\ DOMAIN table = 1..n
      /\ \A i \in 1..n : table[i].packets \in Nat
  <2>1. n \in Nat /\ DOMAIN table = 1..n /\ \A i \in 1..n : table[i] \in FlowEntry
    BY DEF FlowsAre
  <2> QED
    BY <2>1 DEF FlowEntry
<1>2. c = {i \in 1..n : Alike(table[i].flow, protocol)}
  BY <1>1 DEF Table!Candidates, Alike
<1>3. top = IF c = {} THEN 0 ELSE Table!Min({i \in c : table[i].packets = most})
  BY Zenon DEF Table!Top
<1> HIDE DEF top, c, n
<1>4. CASE c = {}
  BY <1>2, <1>3, <1>4 DEF top, n
<1>5. CASE c # {}
  <2> DEFINE v == [i \in 1..n |-> table[i].packets]
             B == {i \in c : table[i].packets = most}
  <2>1. c \in SUBSET (1..n) /\ \A i \in 1..n : v[i] = table[i].packets /\ v[i] \in Nat
    BY <1>1, <1>2
  <2> HIDE DEF v
  <2>2. PICK m \in c : \A k \in c : v[k] <= v[m]
    <3>1. \A i \in c : v[i] \in Nat
      BY <2>1
    <3> QED
      BY <1>1, <1>5, <2>1, <3>1, MostOf
  <2>3. table[m].packets \in M /\ \A x \in M : x \in Nat /\ table[m].packets >= x
    BY <1>1, <2>1, <2>2
  <2>4. most = table[m].packets
    <3> HIDE DEF M
    <3>1. \A x \in M : (\A y \in M : x >= y) => x = table[m].packets
      BY <2>3
    <3> QED
      BY <2>3, <3>1 DEF Table!Max
  <2> HIDE DEF most
  <2>5. B \in SUBSET (1..n) /\ B # {}
    BY <2>1, <2>2, <2>4
  <2>6. PICK f \in B : \A k \in B : f <= k
    BY <1>1, <2>5, FirstOf
  <2>7. Table!Min(B) = f
    <3> HIDE DEF B
    <3>1. \A k \in B : k \in Nat
      BY <2>5
    <3>2. \A x \in B : (\A y \in B : x <= y) => x = f
      BY <2>6, <3>1
    <3> QED
      BY <2>6, <3>2 DEF Table!Min
  <2>8. top = f
    BY <1>3, <1>5, <2>7
  <2>9. /\ f \in c /\ f \in 1..n /\ table[f].packets = table[m].packets
    BY <2>1, <2>4, <2>6
  <2>10. \A i \in c : table[i].packets <= table[f].packets
    BY <2>1, <2>2, <2>9
  <2> QED
    BY <1>2, <2>8, <2>9, <2>10 DEF top, n
<1> QED
  BY <1>4, <1>5

(* The verdict is right about the table that a flush sends: it names the   *)
(* busiest of its protocol among the packets that the table counts.        *)
LEMMA TopTalker ==
    ASSUME NEW table, FlowsAre(table), NEW w \in Seq(Traffic), CountsOf(table, w),
           NEW protocol, TopFlow(table, protocol) # NoFlow
    PROVE  LET entry == TopFlow(table, protocol)
           IN  /\ entry.flow \in Flows /\ Alike(entry.flow, protocol)
               /\ entry.packets = Of(w, entry.flow, "packets")
               /\ Cardinality(Flows) <= FlowCapacity =>
                     \A f \in Flows : Alike(f, protocol) => Of(w, f, "packets") <= entry.packets
<1> DEFINE top == Table!Top(table, protocol)
<1>1. top # 0 /\ TopFlow(table, protocol) = table[top]
  BY DEF TopFlow
<1>2. /\ top \in 1..Len(table) /\ Alike(table[top].flow, protocol)
      /\ \A i \in 1..Len(table) :
            Alike(table[i].flow, protocol) => table[i].packets <= table[top].packets
  BY <1>1, TopIs
<1> HIDE DEF top
<1>3. table[top] \in FlowEntry /\ "packets" \in Measures
  BY <1>2 DEF FlowsAre, Measures
<1>4. table[top].flow \in Flows /\ table[top].packets \in Nat
  BY <1>3 DEF FlowEntry
<1>5. table[top].packets = Of(w, table[top].flow, "packets")
  BY <1>2, <1>3 DEF CountsOf
<1>6. ASSUME Cardinality(Flows) <= FlowCapacity, NEW f \in Flows, Alike(f, protocol)
      PROVE  Of(w, f, "packets") <= table[top].packets
  <2>1. CASE \E i \in 1..Len(table) : table[i].flow = f
    <3>1. PICK i \in 1..Len(table) : table[i].flow = f
      BY <2>1
    <3>2. table[i].packets = Of(w, f, "packets")
      BY <1>3, <3>1 DEF CountsOf
    <3> QED
      BY <1>2, <1>6, <3>1, <3>2
  <2>2. CASE ~\E i \in 1..Len(table) : table[i].flow = f
    <3>1. Len(table) # FlowCapacity
      BY <1>6, <2>2, FullTable
    <3>2. \A k \in 1..Len(w) : w[k].flow # f
      BY <2>2, <3>1 DEF CountsOf
    <3>3. Of(w, f, "packets") = 0
      BY <3>2, OfOthers
    <3> QED
      BY <1>4, <3>3
  <2> QED
    BY <2>1, <2>2
<1> QED
  BY <1>1, <1>2, <1>4, <1>5, <1>6

(* How a property counts the packets of a flow.                            *)
LEMMA SameCount ==
    ASSUME NEW w, NEW flow
    PROVE  PacketsOf(flow, w) = Of(w, flow, "packets")
BY DEF PacketsOf, HowMany, Of, Weights, Weight

(* What AlertsNameTopTalkers says of one step.                             *)
NamesTopTalkers ==
    LET alerts == Last(jobs').alerts
        packets == SubSeq(handled', flushed + 1, Len(handled'))
    IN  \A i \in DOMAIN alerts :
           alerts[i].kind # "scan" /\ alerts[i].flow # NoFlow =>
              LET entry == alerts[i].flow
                  same == {f \in Flows : alerts[i].kind \in {"any", f.protocol}}
              IN  /\ entry.flow \in same /\ entry.packets = PacketsOf(entry.flow, packets)
                  /\ Cardinality(Flows) <= FlowCapacity =>
                        \A f \in same : PacketsOf(f, packets) <= entry.packets

(* Every step that makes a job makes one whose alerts name top talkers.    *)
LEMMA TalkersStep ==
    ASSUME RingsInv, TablesInv, CountsInv, JobsInv, [Next]_vars, jobs' # jobs
    PROVE  NamesTopTalkers
<1>1. PICK packet \in Traffic, thresholds \in Thresholds, leases \in Leases :
         Handled(packet) /\ Ends(packet, thresholds, leases)
  BY Steps DEF Handled, Stays, Idles, windows
<1> DEFINE table == TableWith(packet)
           w == SubSeq(handled', flushed + 1, Len(handled'))
           verdicts == Verdicts(totals', thresholds)
           plain == ThresholdAlerts(totals', table, thresholds)
           alerts == WithScan(plain, table)
           j == Job(totals', table, QueriesWith(packet), thresholds, leases, SyncDue)
<1>2. FlowsAre(table) /\ CountsOf(table, w) /\ w \in Seq(Traffic)
  BY <1>1, TableAtFlush
<1>3. Last(jobs').alerts = alerts
  <2>1. j.alerts = alerts
    BY DEF Job
  <2>2. jobs' = Append(jobs, j)
    BY <1>1 DEF Ends
  <2> HIDE DEF j, alerts
  <2>3. Len(jobs') = Len(jobs) + 1 /\ jobs'[Len(jobs) + 1] = j
    BY <2>2, OneMore DEF JobsInv
  <2> QED
    BY <2>1, <2>3 DEF Last
<1>4. /\ verdicts \in Seq(Kinds) /\ Len(plain) = Len(verdicts)
      /\ \A i \in 1..Len(verdicts) :
            plain[i] = [kind |-> verdicts[i], flow |-> TopFlow(table, verdicts[i])]
      /\ IsSeq(plain)
  BY VerdictsAre, AlertsAre
<1>5. \/ alerts = plain
      \/ \E flow : alerts = Append(plain, [kind |-> "scan", flow |-> flow])
  BY DEF WithScan
<1> HIDE DEF table, w, verdicts, plain, alerts
<1>6. ASSUME NEW i \in DOMAIN alerts, alerts[i].kind # "scan"
      PROVE  i \in 1..Len(verdicts) /\ alerts[i] = plain[i]
  <2>1. Len(plain) \in Nat /\ DOMAIN plain = 1..Len(plain)
    BY <1>4, OneMore
  <2>2. CASE alerts = plain
    BY <1>4, <1>6, <2>1, <2>2
  <2>3. ASSUME NEW flow, alerts = Append(plain, [kind |-> "scan", flow |-> flow])
        PROVE  i \in 1..Len(verdicts) /\ alerts[i] = plain[i]
    <3> DEFINE e == [kind |-> "scan", flow |-> flow]
    <3>1. e.kind = "scan"
      OBVIOUS
    <3> HIDE DEF e
    <3>2. /\ DOMAIN alerts = 1..(Len(plain) + 1) /\ alerts[Len(plain) + 1] = e
          /\ \A k \in 1..Len(plain) : alerts[k] = plain[k]
      BY <1>4, <2>3, OneMore DEF e
    <3>3. i # Len(plain) + 1
      BY <1>6, <3>1, <3>2
    <3>4. i \in 1..Len(plain)
      BY <1>6, <2>1, <3>2, <3>3
    <3> QED
      BY <1>4, <3>2, <3>4
  <2> QED
    BY <1>5, <2>2, <2>3
<1>7. ASSUME NEW i \in DOMAIN alerts, alerts[i].kind # "scan", alerts[i].flow # NoFlow
      PROVE  LET entry == alerts[i].flow
                 same == {f \in Flows : alerts[i].kind \in {"any", f.protocol}}
             IN  /\ entry.flow \in same /\ entry.packets = Of(w, entry.flow, "packets")
                 /\ Cardinality(Flows) <= FlowCapacity =>
                       \A f \in same : Of(w, f, "packets") <= entry.packets
  <2> DEFINE p == verdicts[i]
             entry == TopFlow(table, p)
  <2>1. alerts[i] = [kind |-> p, flow |-> entry]
    BY <1>4, <1>6, <1>7
  <2> HIDE DEF p, entry
  <2>2. alerts[i].kind = p /\ alerts[i].flow = entry /\ entry # NoFlow
    BY <1>7, <2>1
  <2>3. /\ entry.flow \in Flows /\ Alike(entry.flow, p)
        /\ entry.packets = Of(w, entry.flow, "packets")
        /\ Cardinality(Flows) <= FlowCapacity =>
              \A f \in Flows : Alike(f, p) => Of(w, f, "packets") <= entry.packets
    BY <1>2, <2>2, TopTalker DEF entry
  <2>4. \A f \in Flows : p \in {"any", f.protocol} <=> Alike(f, p)
    BY DEF Alike
  <2> QED
    BY <2>2, <2>3, <2>4
<1>8. \A f : PacketsOf(f, w) = Of(w, f, "packets")
  BY SameCount
<1> QED
  BY <1>3, <1>7, <1>8 DEF NamesTopTalkers, w

(* The table is empty at the start and counts the frames of no window.     *)
LEMMA TablesAtInit == Init => TablesInv /\ CountsInv
<1> SUFFICES ASSUME Init PROVE TablesInv /\ CountsInv
  OBVIOUS
<1>1. flows = <<>> /\ dns = <<>> /\ handled = <<>> /\ flushed = 0 /\ <<>> \in Seq({})
  BY DEF Init
<1>2. TablesInv
  BY <1>1, Constants DEF TablesInv, FlowsAre, QueriesAre, IsSeq
<1>3. InWindow = <<>>
  BY <1>1 DEF InWindow
<1> QED
  BY <1>1, <1>2, <1>3 DEF CountsInv, CountsOf

(* The flow an alert names is a busiest one of the alert's protocol among  *)
(* the packets since the flush before, and its packets are those packets,  *)
(* whatever the clock does.                                                *)
THEOREM TopTalkersNamed == Spec => AlertsNameTopTalkers
<1>1. Init => TablesInv /\ CountsInv /\ JobsInv
  BY TablesAtInit DEF Init, JobsInv, IsSeq
<1>2. RingsInv /\ TablesInv /\ CountsInv /\ JobsInv /\ [Next]_vars
         => [jobs' # jobs => NamesTopTalkers]_vars
  BY TalkersStep
<1> QED
  BY <1>1, <1>2, TablesStep, CountsStep, JobsStep, RingsInvariant, PTL
     DEF Spec, AlertsNameTopTalkers, NamesTopTalkers

-----------------------------------------------------------------------------
(* With room for every flow, the table lists every flow of the window.     *)
LEMMA EveryFlowListed ==
    ASSUME NEW table, FlowsAre(table), NEW w \in Seq(Traffic), CountsOf(table, w),
           Cardinality(Flows) <= FlowCapacity, NEW k \in 1..Len(w)
    PROVE  \E i \in 1..Len(table) : table[i].flow = w[k].flow
<1>1. w[k].flow \in Flows
  BY TrafficIs
<1> QED
  BY <1>1, FullTable DEF CountsOf

(* An alert for a protocol of the window names an entry.                   *)
LEMMA FlowNamed ==
    ASSUME NEW table, FlowsAre(table), NEW w \in Seq(Traffic), CountsOf(table, w),
           Cardinality(Flows) <= FlowCapacity,
           NEW protocol, NEW k \in 1..Len(w), Alike(w[k].flow, protocol)
    PROVE  TopFlow(table, protocol) # NoFlow
<1> DEFINE top == Table!Top(table, protocol)
<1>1. \E i \in 1..Len(table) : Alike(table[i].flow, protocol)
  BY EveryFlowListed
<1>2. top \in 1..Len(table)
  BY <1>1, TopIs
<1>3. Len(table) \in Nat /\ \A i \in 1..Len(table) : table[i] \in FlowEntry
  BY DEF FlowsAre
<1>4. TopFlow(table, protocol) = IF top = 0 THEN NoFlow ELSE table[top]
  BY DEF TopFlow
<1> HIDE DEF top
<1>5. TopFlow(table, protocol) \in FlowEntry
  BY <1>2, <1>3, <1>4
<1>6. FlowEntry \subseteq [flow : Flows, packets : Nat, bytes : Nat]
  BY DEF FlowEntry
<1> QED
  BY <1>5, <1>6, PartsAssumption

(* Sets have as many elements for the flow table as elsewhere.             *)
LEMMA SameCardinality ==
    ASSUME NEW S
    PROVE  Table!Cardinality(S) = Cardinality(S)
BY Zenon DEF Table!Cardinality, Cardinality, Table!IsFiniteSet, IsFiniteSet

(* The entries of a source that set a bit.                                 *)
LEMMA BitsAre ==
    ASSUME NEW table, FlowsAre(table), NEW src
    PROVE  LET bits == Table!FreshBits(table, src)
           IN  /\ bits \in SUBSET (1..Len(table)) /\ IsFiniteSet(bits)
               /\ Cardinality(bits) \in Nat
<1> DEFINE bits == Table!FreshBits(table, src)
<1>1. Len(table) \in Nat /\ DOMAIN table = 1..Len(table)
  BY DEF FlowsAre
<1>2. bits \in SUBSET (1..Len(table))
  BY <1>1 DEF Table!FreshBits, Table!From
<1> HIDE DEF bits
<1>3. IsFiniteSet(bits)
  <2>1. IsFiniteSet(1..Len(table))
    BY <1>1, FS_Interval
  <2> QED
    BY <1>2, <2>1, FS_Subset
<1> QED
  BY <1>2, <1>3, FS_CardinalityType DEF bits

(* The scan signal of a table with entries names the source and the target *)
(* of an entry that set a bit, a source for which most bits are set.       *)
LEMMA ScanIs ==
    ASSUME NEW table, FlowsAre(table), table # <<>>
    PROVE  LET scan == Table!ScanFanout(table)
           IN  /\ \E i \in 1..Len(table) : scan.src = table[i].flow.src
               /\ \E i \in Table!FreshBits(table, scan.src) : scan.dst = table[i].flow.dst
               /\ scan.count = Cardinality(Table!FreshBits(table, scan.src))
               /\ \A i \in 1..Len(table) :
                     Cardinality(Table!FreshBits(table, table[i].flow.src)) <= scan.count
<1> DEFINE n == Len(table)
           score == [i \in DOMAIN table |-> Table!Cardinality(Table!FreshBits(table, table[i].flow.src))]
           best == Table!Max({score[i] : i \in DOMAIN table})
           first == Table!Min({i \in DOMAIN table : score[i] = best})
           winner == table[first].flow.src
           bits == Table!FreshBits(table, winner)
           last == Table!Max(bits)
           scan == Table!ScanFanout(table)
<1>1. n \in Nat \ {0} /\ DOMAIN table = 1..n
  BY DEF FlowsAre
<1>2. \A src : Table!FreshBits(table, src) \in SUBSET (1..n)
  BY <1>1 DEF Table!FreshBits, Table!From
<1>3. \A i \in 1..n : /\ score[i] = Cardinality(Table!FreshBits(table, table[i].flow.src))
                       /\ score[i] \in Nat
  BY <1>1, SameCardinality, BitsAre
<1>4. scan = IF table = <<>> THEN [count |-> 0]
             ELSE [count |-> best, src |-> winner, dst |-> table[last].flow.dst]
  BY DEF Table!ScanFanout
<1> HIDE DEF n, score
<1>5. PICK m \in 1..n : \A k \in 1..n : score[k] <= score[m]
  <2>1. 1..n \in SUBSET (1..n) /\ 1..n # {} /\ n \in Nat
    BY <1>1
  <2> QED
    BY <1>3, <2>1, MostOf
<1>6. best = score[m]
  <2> DEFINE M == {score[i] : i \in DOMAIN table}
  <2>1. score[m] \in M /\ \A x \in M : x \in Nat /\ score[m] >= x
    BY <1>1, <1>3, <1>5
  <2> HIDE DEF M
  <2>2. \A x \in M : (\A y \in M : x >= y) => x = score[m]
    BY <2>1
  <2>3. Table!Max(M) = score[m]
    BY <2>1, <2>2 DEF Table!Max
  <2> QED
    BY <2>3 DEF M
<1> HIDE DEF best
<1>7. first \in 1..n /\ score[first] = best
  <2> DEFINE B == {i \in DOMAIN table : score[i] = best}
  <2>1. B \in SUBSET (1..n) /\ B # {} /\ n \in Nat
    BY <1>1, <1>5, <1>6
  <2> HIDE DEF B
  <2>2. PICK f \in B : \A k \in B : f <= k
    BY <2>1, FirstOf
  <2>3. Table!Min(B) \in B
    BY <2>2 DEF Table!Min
  <2>4. first \in B
    BY <2>3 DEF B
  <2> QED
    BY <2>1, <2>4 DEF B
<1> HIDE DEF first
<1>8. bits \in SUBSET (1..n) /\ bits # {}
  <2> DEFINE B == Table!From(table, winner)
  <2>1. B \in SUBSET (1..n) /\ first \in B /\ n \in Nat
    BY <1>1, <1>7 DEF Table!From
  <2>2. bits = {i \in B : \A k \in B :
                   k < i => Hash[Table!Endpoint(table[k].flow)] # Hash[Table!Endpoint(table[i].flow)]}
    BY Zenon DEF Table!FreshBits
  <2> HIDE DEF B, bits
  <2>3. PICK f \in B : \A k \in B : f <= k
    BY <2>1, FirstOf
  <2>4. \A k \in B : ~(k < f)
    BY <2>1, <2>3
  <2>5. f \in bits
    BY <2>2, <2>4
  <2> QED
    BY <1>2, <2>5 DEF bits
<1> HIDE DEF bits
<1>9. last \in bits
  <2> DEFINE v == [i \in 1..n |-> i]
  <2>1. n \in Nat /\ \A i \in bits : v[i] = i /\ v[i] \in Nat
    BY <1>1, <1>8
  <2> HIDE DEF v
  <2>2. PICK f \in bits : \A k \in bits : v[k] <= v[f]
    BY <1>8, <2>1, MostOf
  <2>3. \A k \in bits : f >= k
    BY <2>1, <2>2
  <2>4. Table!Max(bits) \in bits
    BY <2>2, <2>3 DEF Table!Max
  <2> QED
    BY <2>4
<1>11. best = Cardinality(Table!FreshBits(table, winner))
  BY <1>3, <1>7
<1>12. \A i \in 1..n : Cardinality(Table!FreshBits(table, table[i].flow.src)) <= best
  BY <1>3, <1>5, <1>6
<1>13. winner = table[first].flow.src /\ bits = Table!FreshBits(table, winner)
  BY DEF bits
<1> HIDE DEF winner, last, scan
<1>10. scan.src = winner /\ scan.dst = table[last].flow.dst /\ scan.count = best
  BY <1>4
<1> QED
  BY <1>7, <1>9, <1>10, <1>11, <1>12, <1>13 DEF n, scan

-----------------------------------------------------------------------------
(* The flow table promises in the loop what it promises on its own: it is  *)
(* right about the packets since the latest flush.                         *)
SeenIn(w) == {w[k].flow : k \in 1..Len(w)}
ReachedIn(w, src) == {Table!Endpoint(f) : f \in {g \in SeenIn(w) : g.src = src}}

(* What is made of finitely many elements is finite.                       *)
LEMMA ImageIsFinite ==
    ASSUME NEW S, IsFiniteSet(S), NEW f, NEW T, T = {f[x] : x \in S}
    PROVE  IsFiniteSet(T) /\ Cardinality(T) \in Nat
<1> DEFINE g == [x \in S |-> f[x]]
<1>1. g \in Surjection(S, T)
  BY DEF Surjection
<1> HIDE DEF g
<1>2. IsFiniteSet(T)
  BY <1>1, FS_Surjection
<1> QED
  BY <1>2, FS_CardinalityType

(* The flows of finitely many packets, and the endpoints they reach.       *)
LEMMA SeenIsFinite ==
    ASSUME NEW w \in Seq(Traffic), NEW src
    PROVE  /\ IsFiniteSet(SeenIn(w)) /\ SeenIn(w) \subseteq Flows
           /\ IsFiniteSet(ReachedIn(w, src)) /\ Cardinality(ReachedIn(w, src)) \in Nat
<1> DEFINE n == Len(w)
           f == [k \in 1..n |-> w[k].flow]
           P == {g \in SeenIn(w) : g.src = src}
           e == [g \in P |-> Table!Endpoint(g)]
<1>1. n \in Nat /\ IsFiniteSet(1..n)
  <2>1. n \in Nat
    OBVIOUS
  <2> HIDE DEF n
  <2> QED
    BY <2>1, FS_Interval
<1>2. SeenIn(w) = {f[k] : k \in 1..n}
  BY DEF SeenIn
<1>3. SeenIn(w) \subseteq Flows
  BY TrafficIs DEF SeenIn
<1>4. ReachedIn(w, src) = {e[g] : g \in P}
  BY DEF ReachedIn
<1>5. P \subseteq SeenIn(w)
  OBVIOUS
<1> HIDE DEF n, f, P, e
<1>6. IsFiniteSet(SeenIn(w))
  BY <1>1, <1>2, ImageIsFinite
<1>7. IsFiniteSet(P)
  BY <1>5, <1>6, FS_Subset
<1>8. IsFiniteSet(ReachedIn(w, src)) /\ Cardinality(ReachedIn(w, src)) \in Nat
  BY <1>4, <1>7, ImageIsFinite
<1> QED
  BY <1>3, <1>6, <1>8

(* Every entry is that of a packet, and with room for the flows of all     *)
(* packets every packet has an entry.                                      *)
LEMMA ListedAreSeen ==
    ASSUME NEW table, FlowsAre(table), NEW w \in Seq(Traffic), CountsOf(table, w)
    PROVE  /\ \A i \in 1..Len(table) : table[i].flow \in SeenIn(w)
           /\ Cardinality(SeenIn(w)) <= FlowCapacity =>
                 \A f \in SeenIn(w) : \E i \in 1..Len(table) : table[i].flow = f
<1>1. /\ Len(table) \in Nat /\ \A i \in 1..Len(table) : table[i] \in FlowEntry
      /\ \A i, k \in 1..Len(table) : i # k => table[i].flow # table[k].flow
  BY DEF FlowsAre
<1>2. ASSUME NEW i \in 1..Len(table) PROVE table[i].flow \in SeenIn(w)
  <2>1. /\ table[i].packets = Of(w, table[i].flow, "packets")
        /\ table[i].packets \in Nat /\ table[i].packets # 0
    <3>1. "packets" \in Measures /\ table[i]["packets"] = table[i].packets
      BY DEF Measures
    <3>2. table[i].packets \in Nat \ {0}
      BY <1>1 DEF FlowEntry
    <3> QED
      BY <3>1, <3>2 DEF CountsOf
  <2>2. CASE \A k \in 1..Len(w) : w[k].flow # table[i].flow
    BY <2>1, <2>2, OfOthers
  <2>3. CASE \E k \in 1..Len(w) : w[k].flow = table[i].flow
    BY <2>3 DEF SeenIn
  <2> QED
    BY <2>2, <2>3
<1>3. ASSUME Cardinality(SeenIn(w)) <= FlowCapacity, NEW f \in SeenIn(w)
      PROVE  \E i \in 1..Len(table) : table[i].flow = f
  <2>1. PICK k \in 1..Len(w) : f = w[k].flow
    BY DEF SeenIn
  <2>2. CASE Len(table) = FlowCapacity
    <3> DEFINE n == Len(table)
               g == [i \in 1..n |-> table[i].flow]
    <3>1. g \in [1..n -> SeenIn(w)] /\ \A i, m \in 1..n : i # m => g[i] # g[m]
      BY <1>1, <1>2
    <3>2. n \in Nat /\ Cardinality(SeenIn(w)) <= n /\ \A i \in 1..n : g[i] = table[i].flow
      BY <1>1, <1>3, <2>2
    <3> HIDE DEF g, n
    <3>3. IsFiniteSet(SeenIn(w))
      BY SeenIsFinite
    <3>4. \E i \in 1..n : g[i] = f
      BY <3>1, <3>2, <3>3, FullListsAll
    <3> QED
      BY <3>2, <3>4 DEF n
  <2>3. CASE Len(table) # FlowCapacity
    BY <2>1, <2>3 DEF CountsOf
  <2> QED
    BY <2>2, <2>3
<1> QED
  BY <1>2, <1>3

(* The counts of the flow table are those that the properties compare with.*)
LEMMA CountsAre ==
    ASSUME NEW flow
    PROVE  /\ Table!PacketsOf(flow) = Of(InWindow, flow, "packets")
           /\ Table!BytesOf(flow) = Of(InWindow, flow, "bytes")
<1>1. \A s : Table!SumOf(s) = SumOf(s)
  BY DEF Table!SumOf, Table!FoldLeft, Table!MapThenFoldSet, Table!Max,
         SumOf, FoldLeft, MapThenFoldSet, Max
<1>2. Table!PacketsOf(flow) = Table!SumOf(Weights(InWindow, flow, "packets"))
  BY DEF Table!PacketsOf, Table!HowMany, Weights, Weight
<1>3. Table!BytesOf(flow) = Table!SumOf(Weights(InWindow, flow, "bytes"))
  BY DEF Table!BytesOf, Weights, Weight
<1> QED
  BY <1>1, <1>2, <1>3, Zenon DEF Of

(* The top talker of the table is a busiest flow of those that were seen,  *)
(* if the table has room for them.                                         *)
LEMMA TopOfSeen ==
    ASSUME NEW table, FlowsAre(table), NEW w \in Seq(Traffic), CountsOf(table, w),
           Cardinality(SeenIn(w)) <= FlowCapacity, NEW protocol
    PROVE  LET same == {f \in SeenIn(w) : Alike(f, protocol)}
               top == Table!Top(table, protocol)
           IN  IF same = {} THEN top = 0
               ELSE /\ top \in 1..Len(table) /\ table[top].flow \in same
                    /\ \A f \in same : Of(w, f, "packets") <= Of(w, table[top].flow, "packets")
<1> DEFINE same == {f \in SeenIn(w) : Alike(f, protocol)}
           top == Table!Top(table, protocol)
<1>1. /\ \A i \in 1..Len(table) : table[i].flow \in SeenIn(w)
      /\ \A f \in SeenIn(w) : \E i \in 1..Len(table) : table[i].flow = f
  BY ListedAreSeen
<1>2. \A i \in 1..Len(table) : table[i].packets = Of(w, table[i].flow, "packets")
  BY DEF CountsOf, Measures
<1>3. IF \E i \in 1..Len(table) : Alike(table[i].flow, protocol)
      THEN /\ top \in 1..Len(table) /\ Alike(table[top].flow, protocol)
           /\ \A i \in 1..Len(table) :
                 Alike(table[i].flow, protocol) => table[i].packets <= table[top].packets
      ELSE top = 0
  BY TopIs
<1> HIDE DEF top
<1>4. CASE same = {}
  <2>1. ~\E i \in 1..Len(table) : Alike(table[i].flow, protocol)
    BY <1>1, <1>4
  <2> QED
    BY <1>3, <1>4, <2>1 DEF top
<1>5. CASE same # {}
  <2>1. \E i \in 1..Len(table) : Alike(table[i].flow, protocol)
    BY <1>1, <1>5
  <2>2. top \in 1..Len(table) /\ table[top].flow \in same
    BY <1>1, <1>3, <2>1
  <2>3. ASSUME NEW f \in same
        PROVE  Of(w, f, "packets") <= Of(w, table[top].flow, "packets")
    <3>1. PICK i \in 1..Len(table) : table[i].flow = f
      BY <1>1
    <3>2. table[i].packets <= table[top].packets
      BY <1>3, <2>1, <3>1
    <3> QED
      BY <1>2, <2>2, <3>1, <3>2
  <2> QED
    BY <1>5, <2>2, <2>3 DEF top
<1> QED
  BY <1>4, <1>5

(* Every bit a source sets stands for an endpoint that it reached, a       *)
(* different one.                                                          *)
LEMMA BitsReached ==
    ASSUME NEW table, FlowsAre(table), NEW w \in Seq(Traffic), CountsOf(table, w), NEW src
    PROVE  LET bits == Table!FreshBits(table, src)
           IN  /\ \A i \in bits : Table!Endpoint(table[i].flow) \in ReachedIn(w, src)
               /\ Cardinality(bits) <= Cardinality(ReachedIn(w, src))
<1> DEFINE bits == Table!FreshBits(table, src)
           f == [i \in bits |-> Table!Endpoint(table[i].flow)]
<1>1. bits \in SUBSET (1..Len(table)) /\ DOMAIN table = 1..Len(table) /\ Len(table) \in Nat
  BY BitsAre DEF FlowsAre
<1>2. /\ \A i \in bits : table[i].flow.src = src
      /\ \A i, k \in bits : k < i => Hash[Table!Endpoint(table[k].flow)] # Hash[Table!Endpoint(table[i].flow)]
  BY DEF Table!FreshBits, Table!From
<1>3. \A i \in bits : table[i].flow \in SeenIn(w)
  BY <1>1, ListedAreSeen
<1> HIDE DEF bits
<1>4. \A i \in bits : Table!Endpoint(table[i].flow) \in ReachedIn(w, src)
  BY <1>2, <1>3 DEF ReachedIn
<1>5. \A i, k \in bits : i # k => i < k \/ k < i
  BY <1>1
<1>6. \A i, k \in bits : i # k => Table!Endpoint(table[i].flow) # Table!Endpoint(table[k].flow)
  BY <1>2, <1>5
<1>7. f \in Injection(bits, ReachedIn(w, src))
  BY <1>4, <1>6, Zenon DEF Injection, IsInjective
<1> HIDE DEF f
<1>8. IsFiniteSet(ReachedIn(w, src))
  BY SeenIsFinite
<1>9. Cardinality(bits) <= Cardinality(ReachedIn(w, src))
  BY <1>7, <1>8, FS_Injection
<1> QED
  BY <1>4, <1>9 DEF bits

(* A source sets a bit for each slot of the endpoints that it reached.     *)
LEMMA SlotsSet ==
    ASSUME NEW table, FlowsAre(table), NEW w \in Seq(Traffic), CountsOf(table, w),
           Cardinality(SeenIn(w)) <= FlowCapacity, NEW src
    PROVE  LET slots == {Hash[e] : e \in ReachedIn(w, src)}
           IN  Cardinality(slots) <= Cardinality(Table!FreshBits(table, src))
<1> DEFINE bits == Table!FreshBits(table, src)
           from == Table!From(table, src)
           Slot(i) == Hash[Table!Endpoint(table[i].flow)]
           slots == {Hash[e] : e \in ReachedIn(w, src)}
           g == [h \in slots |-> CHOOSE i \in bits : Slot(i) = h]
<1>1. /\ Len(table) \in Nat /\ from = {i \in 1..Len(table) : table[i].flow.src = src}
      /\ bits = {i \in from : \A k \in from : k < i => Slot(k) # Slot(i)}
  <2>1. Len(table) \in Nat /\ DOMAIN table = 1..Len(table)
    BY DEF FlowsAre
  <2>2. from = {i \in 1..Len(table) : table[i].flow.src = src}
    BY <2>1 DEF Table!From
  <2>3. bits = {i \in from : \A k \in from : k < i => Slot(k) # Slot(i)}
    BY Zenon DEF Table!FreshBits
  <2> QED
    BY <2>1, <2>2, <2>3
<1>2. \A f \in SeenIn(w) : \E i \in 1..Len(table) : table[i].flow = f
  BY ListedAreSeen
<1> HIDE DEF bits, from
<1>3. ASSUME NEW h \in slots PROVE \E i \in bits : Slot(i) = h
  <2>1. PICK f \in SeenIn(w) : f.src = src /\ h = Hash[Table!Endpoint(f)]
    BY DEF ReachedIn
  <2>2. PICK k \in 1..Len(table) : table[k].flow = f
    BY <1>2
  <2> DEFINE B == {i \in from : Slot(i) = h}
  <2>3. k \in B
    BY <1>1, <2>1, <2>2
  <2>4. B \in SUBSET (1..Len(table)) /\ B # {}
    BY <1>1, <2>3
  <2>5. \A i \in from : i \in B <=> Slot(i) = h
    OBVIOUS
  <2>6. \A i \in B : i \in from /\ Slot(i) = h
    OBVIOUS
  <2> HIDE DEF B, Slot
  <2>7. PICK m \in B : \A i \in B : m <= i
    BY <1>1, <2>4, FirstOf
  <2>8. \A i \in from : i < m => Slot(i) # Slot(m)
    <3>1. \A i \in from : i < m => i \notin B
      <4>1. \A i \in from : i \in Nat
        BY <1>1
      <4>2. m \in Nat
        BY <2>4
      <4> QED
        BY <2>7, <4>1, <4>2
    <3> QED
      BY <2>5, <2>6, <3>1
  <2>9. m \in bits
    BY <1>1, <2>6, <2>8
  <2> QED
    BY <2>6, <2>9
<1> HIDE DEF Slot, slots
<1>4. \A h \in slots : g[h] \in bits /\ Slot(g[h]) = h
  BY <1>3
<1>5. g \in [slots -> bits]
  BY <1>3
<1> HIDE DEF g
<1>6. g \in Injection(slots, bits)
  <2>1. \A a, b \in slots : g[a] = g[b] => a = b
    BY <1>4, Zenon
  <2>2. DOMAIN g = slots
    BY <1>5
  <2> QED
    BY <1>5, <2>1, <2>2, Zenon DEF Injection, IsInjective
<1>7. IsFiniteSet(bits)
  BY BitsAre DEF bits
<1>8. Cardinality(slots) <= Cardinality(bits)
  BY <1>6, <1>7, FS_Injection
<1> QED
  BY <1>8 DEF slots, bits

(* What the flow table promises of the packets since the latest flush.     *)
LEMMA TableIsRight ==
    RingsInv /\ TablesInv /\ CountsInv =>
        Table!CountsExact /\ Table!TopIsBusiest /\ Table!FanoutNeverOvercounts /\ Table!FanoutExact
<1> SUFFICES ASSUME RingsInv, TablesInv, CountsInv
             PROVE  /\ Table!CountsExact /\ Table!TopIsBusiest
                    /\ Table!FanoutNeverOvercounts /\ Table!FanoutExact
  OBVIOUS
<1> DEFINE w == InWindow
<1>1. w \in Seq(Traffic) /\ DOMAIN w = 1..Len(w)
  <2>1. handled \in Seq(Traffic) /\ flushed \in 0..Len(handled)
    BY DEF RingsInv, CountsInv
  <2> QED
    BY <2>1 DEF InWindow
<1>2. /\ FlowsAre(flows) /\ CountsOf(flows, w)
      /\ DOMAIN flows = 1..Len(flows) /\ Len(flows) \in Nat
  BY DEF TablesInv, CountsInv, FlowsAre
<1>3. /\ Table!Seen = SeenIn(w)
      /\ \A src : Table!Reached(src) = ReachedIn(w, src)
  BY <1>1, Zenon DEF Table!Seen, Table!Reached, SeenIn, ReachedIn
<1>4. \A flow : /\ Table!PacketsOf(flow) = Of(w, flow, "packets")
                /\ Table!BytesOf(flow) = Of(w, flow, "bytes")
  BY CountsAre
<1> HIDE DEF w
<1>5. Table!CountsExact
  <2>1. \A i \in 1..Len(flows) : /\ flows[i].packets = Of(w, flows[i].flow, "packets")
                                 /\ flows[i].bytes = Of(w, flows[i].flow, "bytes")
    BY <1>2 DEF CountsOf, Measures
  <2>2. \A flow \in SeenIn(w) : \/ \E i \in 1..Len(flows) : flows[i].flow = flow
                                \/ Len(flows) = FlowCapacity
    BY <1>2 DEF CountsOf, SeenIn
  <2> QED
    BY <1>2, <1>3, <1>4, <2>1, <2>2, Zenon DEF Table!CountsExact
<1>6. Table!TopIsBusiest
  <2> SUFFICES ASSUME Cardinality(SeenIn(w)) <= FlowCapacity, NEW protocol
               PROVE  LET same == {f \in SeenIn(w) : Alike(f, protocol)}
                          top == Table!Top(flows, protocol)
                      IN  IF same = {} THEN top = 0
                          ELSE /\ top # 0 /\ flows[top].flow \in same
                               /\ \A f \in same :
                                     Of(w, f, "packets") <= Of(w, flows[top].flow, "packets")
    BY <1>3, <1>4, SameCardinality, Zenon DEF Table!TopIsBusiest, Alike
  <2>1. LET same == {f \in SeenIn(w) : Alike(f, protocol)}
            top == Table!Top(flows, protocol)
        IN  IF same = {} THEN top = 0
            ELSE /\ top \in 1..Len(flows) /\ flows[top].flow \in same
                 /\ \A f \in same : Of(w, f, "packets") <= Of(w, flows[top].flow, "packets")
    BY <1>1, <1>2, TopOfSeen
  <2>2. \A top \in 1..Len(flows) : top # 0
    OBVIOUS
  <2> QED
    BY <2>1, <2>2, Zenon
<1>7. Table!FanoutNeverOvercounts
  <2> DEFINE scan == Table!ScanFanout(flows)
             bits == Table!FreshBits(flows, scan.src)
  <2> SUFFICES ASSUME flows # <<>>
               PROVE  /\ scan.count <= Cardinality(ReachedIn(w, scan.src))
                      /\ \E e \in ReachedIn(w, scan.src) : e[1] = scan.dst
    BY <1>3, SameCardinality, Zenon DEF Table!FanoutNeverOvercounts
  <2>1. /\ \E i \in bits : scan.dst = flows[i].flow.dst
        /\ scan.count = Cardinality(bits)
    BY <1>2, ScanIs
  <2>2. /\ \A i \in bits : Table!Endpoint(flows[i].flow) \in ReachedIn(w, scan.src)
        /\ Cardinality(bits) <= Cardinality(ReachedIn(w, scan.src))
    BY <1>1, <1>2, BitsReached
  <2> HIDE DEF scan, bits
  <2>3. \E e \in ReachedIn(w, scan.src) : e[1] = scan.dst
    <3>1. PICK i \in bits : scan.dst = flows[i].flow.dst
      BY <2>1
    <3>2. Table!Endpoint(flows[i].flow)[1] = flows[i].flow.dst
      BY DEF Table!Endpoint
    <3> QED
      BY <2>2, <3>1, <3>2
  <2> QED
    BY <2>1, <2>2, <2>3
<1>8. Table!FanoutExact
  <2> DEFINE slots(src) == {Hash[e] : e \in ReachedIn(w, src)}
             scan == Table!ScanFanout(flows)
  <2> SUFFICES ASSUME Cardinality(SeenIn(w)) <= FlowCapacity, NEW f \in SeenIn(w),
                      Cardinality(slots(f.src)) = Cardinality(ReachedIn(w, f.src))
               PROVE  Cardinality(ReachedIn(w, f.src)) <= scan.count
    BY <1>3, SameCardinality, Zenon DEF Table!FanoutExact
  <2>1. Cardinality(slots(f.src)) <= Cardinality(Table!FreshBits(flows, f.src))
    BY <1>1, <1>2, SlotsSet
  <2>2. PICK i \in 1..Len(flows) : flows[i].flow = f
    BY <1>1, <1>2, ListedAreSeen
  <2>3. flows # <<>>
    BY <2>2
  <2>4. /\ Cardinality(Table!FreshBits(flows, f.src)) <= scan.count
        /\ scan.count = Cardinality(Table!FreshBits(flows, scan.src))
    BY <1>2, <2>2, <2>3, ScanIs
  <2>5. /\ Cardinality(Table!FreshBits(flows, f.src)) \in Nat
        /\ Cardinality(Table!FreshBits(flows, scan.src)) \in Nat
        /\ Cardinality(ReachedIn(w, f.src)) \in Nat
    BY <1>1, <1>2, BitsAre, SeenIsFinite
  <2> HIDE DEF slots, scan
  <2> QED
    BY <2>1, <2>4, <2>5
<1> QED
  BY <1>5, <1>6, <1>7, <1>8

(* In the loop the flow table keeps what it promises, whatever its size,   *)
(* the traffic and the hash: the counts are exact, the top talker is a     *)
(* busiest flow, the scan signal never counts more endpoints than a source *)
(* reached and, with room for all flows and a slot for each of its         *)
(* endpoints, no fewer.                                                    *)
THEOREM TableHolds ==
    Spec => [](/\ Table!CountsExact /\ Table!TopIsBusiest
               /\ Table!FanoutNeverOvercounts /\ Table!FanoutExact)
BY TablesAtInit, TableIsRight, TablesStep, CountsStep, RingsInvariant, PTL DEF Spec

(* The records in the window are those of the latest packets.              *)
LEMMA LiveKept ==
    RingsInv => /\ Proven!Live \in Seq(Proven!Record) /\ Len(Proven!Live) = count
                /\ \A i \in 1..count : Proven!Live[i] = arrived[Len(arrived) - count + i]
BY SameConstants, Proven!LiveType, Proven!LiveIs DEF RingsInv, Proven!WindowInv

(* A sum in which only the first number can be 1 and the others are 0.     *)
LEMMA FirstOnly ==
    ASSUME NEW s \in Seq(Int),
           \A i \in 1..Len(s) : s[i] \in {0, 1} /\ (i >= 2 => s[i] = 0)
    PROVE  Proven!SumOf(s) \in Int /\ Proven!SumOf(s) <= 1
<1> DEFINE n == Len(s)
<1>1. n \in Nat
  OBVIOUS
<1>2. CASE n = 0
  <2>1. s = <<>>
    BY <1>2
  <2> QED
    BY <2>1, Proven!SumOfNothing
<1>3. CASE n >= 1
  <2> DEFINE k == 1
  <2>1. k \in 0..Len(s) /\ k = 1
    BY <1>3
  <2> HIDE DEF k
  <2> DEFINE a == SubSeq(s, 1, k)
             b == SubSeq(s, k + 1, Len(s))
  <2>2. Proven!SumOf(s) = Proven!SumOf(a) + Proven!SumOf(b)
    BY <2>1, Proven!SumOfParts
  <2>3. /\ a \in Seq(Int) /\ Len(a) = k /\ b \in Seq(Int) /\ Len(b) = n - k
        /\ \A i \in 1..k : a[i] = s[i]
        /\ \A i \in 1..(n - k) : b[i] = s[k + i]
    <3>1. /\ SubSeq(s, 1, k) \in Seq(Int) /\ Len(SubSeq(s, 1, k)) = k
          /\ SubSeq(s, k + 1, Len(s)) \in Seq(Int)
          /\ Len(SubSeq(s, k + 1, Len(s))) = Len(s) - k
          /\ \A i \in 1..k : SubSeq(s, 1, k)[i] = s[i]
          /\ \A i \in 1..(Len(s) - k) : SubSeq(s, k + 1, Len(s))[i] = s[k + i]
      BY <2>1, Zenon, Proven!Parts
    <3> QED
      BY <3>1
  <2> HIDE DEF a, b
  <2>4. \A i \in 1..k : 0 <= a[i] /\ a[i] <= 1
    <3> SUFFICES ASSUME NEW i \in 1..k PROVE 0 <= a[i] /\ a[i] <= 1
      OBVIOUS
    <3>1. i \in 1..n /\ s[i] \in {0, 1}
      BY <1>1, <2>1
    <3> QED
      BY <2>3, <3>1
  <2>5. \A i \in 1..(n - k) : 0 <= b[i] /\ b[i] <= 0
    <3> SUFFICES ASSUME NEW i \in 1..(n - k) PROVE 0 <= b[i] /\ b[i] <= 0
      OBVIOUS
    <3>1. k + i \in 1..n /\ k + i >= 2
      BY <1>1, <2>1
    <3>2. s[k + i] = 0
      BY <3>1
    <3> QED
      BY <2>3, <3>2
  <2>6. Proven!SumOf(a) \in Int /\ Proven!SumOf(a) <= 1
    <3>1. \A i \in 1..Len(a) : 0 <= a[i] /\ a[i] <= 1
      BY <2>3, <2>4
    <3>2. a \in Seq(Int) /\ 0 \in Int /\ 1 \in Int
      BY <2>3
    <3>3. Proven!SumOf(a) \in Int /\ Proven!SumOf(a) <= Len(a) * 1
      BY <3>1, <3>2, Proven!SumBounds
    <3> QED
      BY <2>1, <2>3, <3>3
  <2>7. Proven!SumOf(b) \in Int /\ Proven!SumOf(b) <= 0
    <3>1. \A i \in 1..Len(b) : 0 <= b[i] /\ b[i] <= 0
      BY <2>3, <2>5
    <3>2. b \in Seq(Int) /\ 0 \in Int
      BY <2>3
    <3>3. Proven!SumOf(b) \in Int /\ Proven!SumOf(b) <= Len(b) * 0
      BY <3>1, <3>2, Proven!SumBounds
    <3>4. Len(b) = n - k
      BY <2>3
    <3> QED
      BY <1>1, <2>1, <3>3, <3>4
  <2> QED
    BY <2>2, <2>6, <2>7
<1> QED
  BY <1>1, <1>2, <1>3

(* If the window counts a protocol at least twice, one of those packets    *)
(* came after the latest flush.                                            *)
LEMMA ProtocolSeen ==
    ASSUME Steady, RingsInv, RingsInv', OrderInv,
           NEW packet \in Traffic, Handled(packet), Due,
           NEW protocol \in {"tcp", "udp"}, NEW c \in {"tcp_packets", "udp_packets"},
           c = IF protocol = "tcp" THEN "tcp_packets" ELSE "udp_packets",
           totals'[c] > 1
    PROVE  \E k \in (flushed + 1)..Len(handled') : handled'[k].flow.protocol = protocol
<1> SUFFICES ASSUME \A k \in (flushed + 1)..Len(handled') : handled'[k].flow.protocol # protocol
             PROVE  FALSE
  OBVIOUS
<1> DEFINE n == Len(arrived')
           live == (Proven!Live)'
           shares == [i \in DOMAIN live |-> Proven!Share(live[i], c)]
<1>1. /\ n \in Nat /\ Len(handled') = n /\ flushed \in Nat /\ flushed <= n
      /\ count' \in Nat /\ count' <= n
      /\ flushed # 0 => count' <= n - flushed + 1
  BY ArrivedIs, WindowAtFlush DEF OrderInv
<1>2. \A i \in 1..n : arrived'[i].protocol = handled'[i].flow.protocol
  BY <1>1 DEF RingsInv
<1>3. /\ live \in Seq(Proven!Record) /\ Len(live) = count'
      /\ \A i \in 1..count' : live[i] = arrived'[n - count' + i]
  <2>1. (RingsInv => /\ Proven!Live \in Seq(Proven!Record) /\ Len(Proven!Live) = count
                     /\ \A i \in 1..count : Proven!Live[i] = arrived[Len(arrived) - count + i])'
    BY LiveKept, PTL
  <2> QED
    BY <2>1
<1>4. totals'[c] = Proven!SumOf(shares)
  BY DEF RingsInv, Proven!WindowInv, Proven!AggregatesExact, Proven!Sum, Proven!Counters
<1> HIDE DEF live, n
<1>5. \A i \in 2..count' : arrived'[n - count' + i].protocol # protocol
  <2> SUFFICES ASSUME NEW i \in 2..count' PROVE arrived'[n - count' + i].protocol # protocol
    OBVIOUS
  <2>a. \A f, m, k \in Nat : \A h \in 2..k :
           f <= m /\ k <= m /\ (f # 0 => k <= m - f + 1)
              => m - k + h \in (f + 1)..m /\ m - k + h \in 1..m
    OBVIOUS
  <2>1. n - count' + i \in (flushed + 1)..n /\ n - count' + i \in 1..n
    BY <1>1, <2>a
  <2> QED
    BY <1>1, <1>2, <2>1
<1>6. \A rec : /\ Proven!Share(rec, c) \in {0, 1}
               /\ rec.protocol # protocol => Proven!Share(rec, c) = 0
  BY DEF Proven!Share
<1>7. /\ shares \in Seq(Int) /\ Len(shares) = count'
      /\ \A i \in 1..count' : shares[i] = Proven!Share(live[i], c)
  <2> DEFINE sh(r) == Proven!Share(r, c)
  <2>1. \A r : sh(r) \in Int
    BY <1>6
  <2>2. shares = [i \in DOMAIN live |-> sh(live[i])]
    OBVIOUS
  <2> HIDE DEF sh, shares
  <2>3. DOMAIN live = 1..count'
    BY <1>3
  <2>4. /\ shares = [i \in 1..count' |-> shares[i]]
        /\ \A i \in 1..count' : shares[i] = sh(live[i]) /\ shares[i] \in Int
    BY <2>1, <2>2, <2>3
  <2>5. shares \in [1..count' -> Int]
    BY <2>4
  <2>6. shares \in Seq(Int) /\ Len(shares) = count'
    BY <1>1, <2>5, SeqDef, LenProperties
  <2> QED
    BY <2>4, <2>6 DEF sh
<1> HIDE DEF shares
<1>8. \A i \in 1..count' : shares[i] \in {0, 1} /\ (i >= 2 => shares[i] = 0)
  <2> SUFFICES ASSUME NEW i \in 1..count'
               PROVE  shares[i] \in {0, 1} /\ (i >= 2 => shares[i] = 0)
    OBVIOUS
  <2>1. i >= 2 => i \in 2..count'
    BY <1>1
  <2> QED
    BY <1>3, <1>5, <1>6, <1>7, <2>1
<1>9. Proven!SumOf(shares) <= 1 /\ Proven!SumOf(shares) \in Int
  <2>1. \A i \in 1..Len(shares) : shares[i] \in {0, 1} /\ (i >= 2 => shares[i] = 0)
    BY <1>7, <1>8
  <2> QED
    BY <1>7, <2>1, FirstOnly
<1> QED
  BY <1>4, <1>9

-----------------------------------------------------------------------------
(* With room for every flow, no alert of the job of a flush lacks a flow.  *)
LEMMA JobNamesFlows ==
    ASSUME Steady, RingsInv, RingsInv', OrderInv, TablesInv, CountsInv,
           NEW packet \in Traffic, Handled(packet), Due,
           NEW thresholds \in Thresholds, Cardinality(Flows) <= FlowCapacity
    PROVE  LET plain == ThresholdAlerts(totals', TableWith(packet), thresholds)
               alerts == WithScan(plain, TableWith(packet))
           IN  \A k \in DOMAIN alerts : alerts[k].flow # NoFlow
<1> DEFINE table == TableWith(packet)
           n == Len(handled')
           w == SubSeq(handled', flushed + 1, n)
           verdicts == Verdicts(totals', thresholds)
           plain == ThresholdAlerts(totals', table, thresholds)
           alerts == WithScan(plain, table)
           scan == Table!ScanFanout(table)
           named == [src |-> scan.src, dst |-> scan.dst]
<1>1. FlowsAre(table) /\ CountsOf(table, w) /\ w \in Seq(Traffic)
  BY TableAtFlush
<1>2. /\ n \in Nat \ {0} /\ flushed \in 0..(n - 1)
      /\ Len(w) = n - flushed
      /\ \A k \in (flushed + 1)..n : w[k - flushed] = handled'[k]
  <2>1. /\ Len(handled) \in Nat /\ n = Len(handled) + 1 /\ flushed \in 0..Len(handled)
        /\ handled' \in Seq(Traffic)
    BY WindowGrows, ArrivedIs DEF CountsInv
  <2>2. flushed \in 0..n
    BY <2>1
  <2>3. /\ Len(w) = n - flushed
        /\ \A i \in 1..(n - flushed) : w[i] = handled'[flushed + i]
    BY <2>1, <2>2, Proven!Parts
  <2> HIDE DEF w, n
  <2>4. \A k \in (flushed + 1)..n : k - flushed \in 1..(n - flushed) /\ flushed + (k - flushed) = k
    BY <2>1
  <2> QED
    BY <2>1, <2>3, <2>4
<1> HIDE DEF n, w, table
<1>3. \A k \in 1..Len(w) : \A protocol : Alike(w[k].flow, protocol) => TopFlow(table, protocol) # NoFlow
  BY <1>1, FlowNamed
<1>4. ASSUME NEW kind \in Kinds, Measured(totals', kind) > thresholds[kind]
      PROVE  TopFlow(table, kind) # NoFlow
  <2>1. thresholds[kind] \in Nat \ {0}
    BY CaptureLoopAssumption DEF Kinds
  <2>2. totals'["tcp_packets"] \in Nat /\ totals'["udp_packets"] \in Nat
    BY DEF RingsInv, Proven!WindowInv, Proven!TypeOK, Proven!Counters
  <2>3. CASE kind = "any"
    <3>1. n - flushed \in 1..Len(w)
      BY <1>2
    <3> QED
      BY <2>3, <3>1, <1>3 DEF Alike
  <2>4. ASSUME NEW protocol \in {"tcp", "udp"}, NEW c \in {"tcp_packets", "udp_packets"},
               c = IF protocol = "tcp" THEN "tcp_packets" ELSE "udp_packets",
               kind = protocol, totals'[c] > 1
        PROVE  TopFlow(table, kind) # NoFlow
    <3>1. PICK k \in (flushed + 1)..n : handled'[k].flow.protocol = protocol
      BY <2>4, ProtocolSeen DEF n
    <3>2. k - flushed \in 1..Len(w) /\ w[k - flushed] = handled'[k]
      BY <1>2
    <3> QED
      BY <2>4, <3>1, <3>2, <1>3 DEF Alike
  <2>5. CASE kind = "tcp"
    <3>1. totals'["tcp_packets"] > 1
      BY <1>4, <2>1, <2>2, <2>5 DEF Measured
    <3> QED
      BY <2>4, <2>5, <3>1
  <2>6. CASE kind = "udp"
    <3>1. totals'["udp_packets"] > 1
      BY <1>4, <2>1, <2>2, <2>6 DEF Measured
    <3> QED
      BY <2>4, <2>6, <3>1
  <2> QED
    BY <2>3, <2>5, <2>6 DEF Kinds
<1>5. /\ verdicts \in Seq(Kinds) /\ Len(plain) = Len(verdicts) /\ Len(verdicts) \in Nat
      /\ \A i \in 1..Len(verdicts) :
            /\ Measured(totals', verdicts[i]) > thresholds[verdicts[i]]
            /\ plain[i] = [kind |-> verdicts[i], flow |-> TopFlow(table, verdicts[i])]
      /\ IsSeq(plain) /\ IsSeq(alerts)
      /\ \/ alerts = plain
         \/ alerts = Append(plain, [kind |-> "scan", flow |-> named])
  <2>1. /\ verdicts \in Seq(Kinds) /\ Len(verdicts) \in 0..3
        /\ \A i \in 1..Len(verdicts) : Measured(totals', verdicts[i]) > thresholds[verdicts[i]]
    BY VerdictsAre
  <2>2. /\ Len(plain) = Len(verdicts)
        /\ \A i \in 1..Len(verdicts) :
              plain[i] = [kind |-> verdicts[i], flow |-> TopFlow(table, verdicts[i])]
        /\ IsSeq(plain) /\ IsSeq(alerts)
        /\ \/ alerts = plain
           \/ alerts = Append(plain, [kind |-> "scan", flow |-> named])
    BY Zenon, AlertsAre
  <2> HIDE DEF verdicts, plain, alerts, named
  <2> QED
    BY <2>1, <2>2
<1>6. named # NoFlow
  <2>1. 1 \in 1..Len(w)
    BY <1>2
  <2>2. PICK i \in 1..Len(table) : table[i].flow = w[1].flow
    BY <1>1, <2>1, EveryFlowListed
  <2>3. table # <<>>
    BY <2>2
  <2>4. \A k \in 1..Len(table) : table[k].flow \in Flows
    <3>1. \A k \in 1..Len(table) : table[k] \in FlowEntry
      BY <1>1 DEF FlowsAre
    <3> QED
      BY <3>1 DEF FlowEntry
  <2>5. /\ \E k \in 1..Len(table) : scan.src = table[k].flow.src
        /\ \E k \in 1..Len(table) : scan.dst = table[k].flow.dst
    BY <1>1, <2>3, ScanIs, BitsAre
  <2> HIDE DEF scan
  <2>6. scan.src \in Addresses /\ scan.dst \in {flow.dst : flow \in Flows}
    BY <2>4, <2>5 DEF Addresses
  <2> QED
    BY <2>6, PartsAssumption
<1> HIDE DEF verdicts, plain, alerts, named
<1>7. \A i \in 1..Len(plain) : plain[i].flow # NoFlow
  <2> SUFFICES ASSUME NEW i \in 1..Len(verdicts) PROVE plain[i].flow # NoFlow
    BY <1>5
  <2> DEFINE kind == verdicts[i]
  <2>1. kind \in Kinds /\ Measured(totals', kind) > thresholds[kind]
    <3>1. kind \in Kinds
      BY <1>5
    <3>2. Measured(totals', kind) > thresholds[kind]
      BY <1>5, Zenon
    <3> QED
      BY <3>1, <3>2
  <2>2. plain[i].flow = TopFlow(table, kind)
    <3>1. plain[i] = [kind |-> kind, flow |-> TopFlow(table, kind)]
      BY <1>5, Zenon
    <3> HIDE DEF kind
    <3> QED
      BY <3>1
  <2> HIDE DEF kind
  <2>3. TopFlow(table, kind) # NoFlow
    BY <2>1, <1>4
  <2> QED
    BY <2>2, <2>3
<1>8. \A k \in DOMAIN alerts : alerts[k].flow # NoFlow
  <2>1. CASE alerts = plain
    BY <2>1, <1>5, <1>7 DEF IsSeq
  <2>2. CASE alerts = Append(plain, [kind |-> "scan", flow |-> named])
    <3> DEFINE last == [kind |-> "scan", flow |-> named]
               m == Len(plain)
    <3>1. last.flow = named
      OBVIOUS
    <3> HIDE DEF last
    <3>2. /\ m \in Nat /\ DOMAIN alerts = 1..(m + 1)
          /\ \A i \in 1..m : alerts[i] = plain[i]
          /\ alerts[m + 1] = last
      BY <1>5, <2>2, OneMore DEF last
    <3>3. ASSUME NEW k \in 1..(m + 1) PROVE k \in 1..m \/ k = m + 1
      BY <3>2
    <3> QED
      BY <3>1, <3>2, <3>3, <1>6, <1>7
  <2> QED
    BY <1>5, <2>1, <2>2
<1> QED
  BY <1>8 DEF alerts, plain, table

(* No alert of a job handed to the uploader lacks its flow.                *)
NamedInv ==
    /\ IsSeq(jobs)
    /\ Cardinality(Flows) <= FlowCapacity =>
          \A i \in DOMAIN jobs : \A k \in DOMAIN jobs[i].alerts : jobs[i].alerts[k].flow # NoFlow

(* Every step keeps the alerts named.                                      *)
LEMMA NamedStep ==
    ASSUME Steady, RingsInv, RingsInv', OrderInv, TablesInv, CountsInv, NamedInv,
           [Next]_vars
    PROVE  NamedInv'
<1>1. CASE UNCHANGED windows
  BY <1>1 DEF NamedInv, IsSeq, windows
<1>2. ASSUME NEW packet \in Traffic, Handled(packet), NEW thresholds \in Thresholds,
             NEW leases \in Leases, Ends(packet, thresholds, leases)
      PROVE  NamedInv'
  <2> DEFINE j == Job(totals', TableWith(packet), QueriesWith(packet), thresholds, leases, SyncDue)
             m == Len(jobs)
  <2>1. Cardinality(Flows) <= FlowCapacity => \A k \in DOMAIN j.alerts : j.alerts[k].flow # NoFlow
    <3>1. j.alerts = WithScan(ThresholdAlerts(totals', TableWith(packet), thresholds), TableWith(packet))
      BY DEF Job
    <3>2. Due
      BY <1>2 DEF Ends
    <3> QED
      BY <1>2, <3>1, <3>2, JobNamesFlows
  <2> HIDE DEF j
  <2>2. jobs' = Append(jobs, j)
    BY <1>2 DEF Ends, j
  <2>3. /\ IsSeq(jobs') /\ m \in Nat /\ DOMAIN jobs = 1..m /\ DOMAIN jobs' = 1..(m + 1)
        /\ \A i \in 1..m : jobs'[i] = jobs[i]
        /\ jobs'[m + 1] = j
    BY <2>2, OneMore DEF NamedInv
  <2>4. ASSUME NEW i \in 1..(m + 1) PROVE i \in 1..m \/ i = m + 1
    BY <2>3
  <2> QED
    BY <2>1, <2>3, <2>4 DEF NamedInv
<1> QED
  BY <1>1, <1>2, Steps DEF Idles, Stays, Handled, windows

(* When the packet window is no longer than a statistics window, every     *)
(* alert names a flow, as long as the table has room for the flows there   *)
(* are and wherever the clock is set.                                      *)
THEOREM FlowsNamed == Steady => (Spec => []AlertNamesItsFlow)
<1> SUFFICES ASSUME Steady PROVE Spec => []AlertNamesItsFlow
  OBVIOUS
<1>1. Init => OrderInv /\ TablesInv /\ CountsInv /\ NamedInv
  <2> SUFFICES ASSUME Init PROVE OrderInv /\ TablesInv /\ CountsInv /\ NamedInv
    OBVIOUS
  <2>1. /\ arrived = <<>> /\ flushed = 0 /\ window_start = 0 /\ jobs = <<>> /\ clock \in Nat
        /\ <<>> \in Seq({})
    BY Constants DEF Init, Window!WindowInit
  <2>2. OrderInv
    BY <2>1 DEF OrderInv
  <2>3. NamedInv
    BY <2>1 DEF NamedInv, IsSeq
  <2> QED
    BY <2>2, <2>3, TablesAtInit
<1>2. RingsInv /\ RingsInv' /\ OrderInv /\ TablesInv /\ CountsInv /\ NamedInv /\ [Next]_vars
         => OrderInv' /\ TablesInv' /\ CountsInv' /\ NamedInv'
  BY OrderStep, TablesStep, CountsStep, NamedStep
<1>3. NamedInv => AlertNamesItsFlow
  BY DEF NamedInv, AlertNamesItsFlow
<1> QED
  BY <1>1, <1>2, <1>3, RingsInvariant, PTL DEF Spec

-----------------------------------------------------------------------------
(* A sum of integers is an integer.                                        *)
LEMMA SumIsInt ==
    ASSUME NEW n \in Nat, NEW f, f = [i \in 1..n |-> f[i]], \A i \in 1..n : f[i] \in Int
    PROVE  SumOf(f) \in Int
<1>1. f \in [1..n -> Int]
  OBVIOUS
<1>2. f \in Seq(Int)
  BY <1>1, SeqDef
<1> QED
  BY <1>2, Proven!SumType, SameSum

(* The sum over nothing.                                                   *)
LEMMA SumOfNone == SumOf(<<>>) = 0
BY SameSum, Proven!SumOfNothing

(* When one number of a sum grows, the sum grows by as much.               *)
LEMMA SumChanged ==
    ASSUME NEW n \in Nat, NEW f \in [1..n -> Int], NEW g \in [1..n -> Int],
           NEW j \in 1..n, NEW v \in Int, g[j] = f[j] + v, \A i \in 1..n : i # j => g[i] = f[i]
    PROVE  SumOf(g) = SumOf(f) + v
<1>1. Proven!SumOf(g) = Proven!SumOf(f) + v
  BY Proven!SumChanged, Zenon
<1> QED
  BY <1>1, SameSum, Zenon

(* What an entry reports of the queries of a client for a domain, and what *)
(* a packet adds to them.                                                  *)
Share(event, client, domain) ==
    IF event.client = client /\ event.domain = domain THEN event.count ELSE 0
Shares(table, client, domain) == [i \in DOMAIN table |-> Share(table[i], client, domain)]
Asks(packet, client, domain) ==
    IF packet.flow.src = client /\ packet.query = domain THEN 1 ELSE 0
RoomForQueries == Cardinality(Addresses \X Domains) <= DnsCapacity

(* With room for every client and domain no query is turned away.          *)
LEMMA NeverRefused ==
    ASSUME NEW table, QueriesAre(table), NEW packet \in Traffic, packet.query # NoQuery,
           RoomForQueries
    PROVE  ~Refused(table, table, packet)
<1> SUFFICES ASSUME Refused(table, table, packet) PROVE FALSE
  OBVIOUS
<1> DEFINE n == Len(table)
           S == Addresses \X Domains
           f == [i \in 1..n |-> <<table[i].client, table[i].domain>>]
           x == <<packet.flow.src, packet.query>>
<1>1. /\ n \in Nat /\ n = DnsCapacity
      /\ \A i \in 1..n : table[i] \in QueryEntry
      /\ \A i, k \in 1..n : i # k => ~SameQuery(table[i], table[k].client, table[k].domain)
      /\ \A i \in 1..n : ~SameQuery(table[i], packet.flow.src, packet.query)
  BY Constants DEF QueriesAre, Refused
<1>2. x \in S
  BY TrafficIs
<1>3. IsFiniteSet(S)
  <2> DEFINE h == [packet_ \in Traffic |-> packet_.query]
  <2>1. IsFiniteSet(Flows) /\ IsFiniteSet(Traffic)
    BY FinitelyMany, PartsAssumption
  <2>2. IsFiniteSet(Addresses)
    <3> DEFINE a == [flow \in Flows |-> flow.src]
    <3>1. a \in Surjection(Flows, Addresses)
      BY DEF Addresses, Surjection
    <3> HIDE DEF a
    <3> QED
      BY <2>1, <3>1, FS_Surjection
  <2>3. IsFiniteSet(Domains)
    <3> DEFINE Q == {p.query : p \in Traffic}
    <3>1. h \in Surjection(Traffic, Q)
      BY DEF Surjection
    <3> HIDE DEF h
    <3>2. IsFiniteSet(Q)
      BY <2>1, <3>1, FS_Surjection
    <3>3. Domains \subseteq Q
      BY DEF Domains
    <3> QED
      BY <3>2, <3>3, FS_Subset
  <2> QED
    BY <2>2, <2>3, FS_Product
<1>4. f \in [1..n -> S]
  BY <1>1 DEF QueryEntry
<1>5. \A i, k \in 1..n : i # k => f[i] # f[k]
  BY <1>1 DEF SameQuery
<1>6. \A i \in 1..n : f[i] # x
  BY <1>1 DEF SameQuery
<1>7. Cardinality(S) <= n
  BY <1>1 DEF RoomForQueries
<1> HIDE DEF f, S, x, n
<1> QED
  BY <1>1, <1>2, <1>3, <1>4, <1>5, <1>6, <1>7, FullListsAll

(* What one packet adds to what a table reports.                           *)
LEMMA ReportedIs ==
    ASSUME NEW table, QueriesAre(table), NEW client, NEW domain
    PROVE  LET f == Shares(table, client, domain)
           IN  /\ Reported(table, client, domain) = SumOf(f) /\ SumOf(f) \in Int
               /\ f = [i \in 1..Len(table) |-> Share(table[i], client, domain)]
               /\ f \in [1..Len(table) -> Int]
               /\ Len(table) \in Nat /\ \A i \in 1..Len(table) : table[i].count \in Int
<1> DEFINE n == Len(table)
           f == Shares(table, client, domain)
<1>1. /\ n \in Nat /\ DOMAIN table = 1..n
      /\ \A i \in 1..n : table[i] \in QueryEntry
  BY DEF QueriesAre
<1>2. \A i \in 1..n : table[i].count \in Int
  BY <1>1 DEF QueryEntry
<1>3. Reported(table, client, domain) = SumOf(f)
  BY DEF Reported, Shares, Share
<1>4. f = [i \in 1..n |-> Share(table[i], client, domain)]
  BY <1>1 DEF Shares
<1>5. \A i \in 1..n : Share(table[i], client, domain) \in Int
  BY <1>2 DEF Share
<1> HIDE DEF f, n
<1>6. f \in [1..n -> Int] /\ f = [i \in 1..n |-> f[i]] /\ \A i \in 1..n : f[i] \in Int
  BY <1>4, <1>5
<1>7. SumOf(f) \in Int
  BY <1>1, <1>6, SumIsInt
<1> QED
  BY <1>1, <1>2, <1>3, <1>4, <1>6, <1>7 DEF f, n

(* No table reports a negative number.                                     *)
LEMMA ReportedIsNat ==
    ASSUME NEW table, QueriesAre(table), NEW client, NEW domain
    PROVE  Reported(table, client, domain) \in Nat
<1> DEFINE f == Shares(table, client, domain)
           n == Len(table)
<1>1. /\ Reported(table, client, domain) = SumOf(f) /\ SumOf(f) \in Int
      /\ f = [i \in 1..n |-> Share(table[i], client, domain)]
      /\ f \in [1..n -> Int] /\ n \in Nat
  BY ReportedIs
<1>2. \A i \in 1..n : table[i].count \in Nat
  <2>1. \A i \in 1..n : table[i] \in QueryEntry
    BY DEF QueriesAre
  <2> QED
    BY <2>1 DEF QueryEntry
<1> HIDE DEF f, n
<1>3. \A i \in 1..n : f[i] >= 0
  BY <1>1, <1>2 DEF Share
<1>4. f \in Seq(Int) /\ Len(f) = n
  BY <1>1, SeqDef, LenProperties
<1>5. Proven!SumOf(f) >= 0
  BY <1>3, <1>4, Proven!SumType
<1> QED
  BY <1>1, <1>5, SameSum

(* A query added to a table is reported once more or, when there is no room*)
(* for it, not at all, and no other is.                                    *)
LEMMA ReportedGrows ==
    ASSUME NEW table, QueriesAre(table), NEW packet \in Traffic, packet.query # NoQuery,
           NEW client, NEW domain
    PROVE  LET new == Dns!AddedTo(table, [client |-> packet.flow.src, domain |-> packet.query])
               added == Reported(table, client, domain) + Asks(packet, client, domain)
           IN  /\ Reported(new, client, domain) <= added
               /\ RoomForQueries => Reported(new, client, domain) = added
<1> DEFINE new == Dns!AddedTo(table, [client |-> packet.flow.src, domain |-> packet.query])
           f == Shares(table, client, domain)
           g == Shares(new, client, domain)
           v == Asks(packet, client, domain)
           n == Len(table)
           c == packet.flow.src
           d == packet.query
<1>1. QueriesAre(new)
  BY QueriesStayQueries
<1>2. /\ Reported(table, client, domain) = SumOf(f)
      /\ f = [i \in 1..n |-> Share(table[i], client, domain)]
      /\ f \in [1..n -> Int] /\ n \in Nat
      /\ \A i \in 1..n : table[i].count \in Int
  BY ReportedIs
<1>3. /\ Reported(new, client, domain) = SumOf(g)
      /\ g = [i \in 1..Len(new) |-> Share(new[i], client, domain)]
      /\ g \in [1..Len(new) -> Int]
  BY <1>1, ReportedIs
<1>4. \/ \E i \in 1..n : Recounted(table, new, packet, i)
      \/ Refused(table, new, packet)
      \/ Recorded(table, new, packet)
  BY QueryAdded
<1>5. v \in Int /\ v = IF c = client /\ d = domain THEN 1 ELSE 0
  BY DEF Asks
<1>6. table \in Seq(QueryEntry) /\ DOMAIN table = 1..n
  BY DEF QueriesAre
<1> HIDE DEF new, f, g, v, n
<1>a. /\ Reported(new, client, domain) \in Int /\ Reported(table, client, domain) \in Int
      /\ QueriesAre(table) /\ QueriesAre(new)
  BY <1>1, ReportedIs DEF new
<1> SUFFICES /\ Reported(new, client, domain) <= Reported(table, client, domain) + v
             /\ RoomForQueries => Reported(new, client, domain) = Reported(table, client, domain) + v
  BY DEF new, v
<1>7. ASSUME NEW i \in 1..n, Recounted(table, new, packet, i)
      PROVE  SumOf(g) = SumOf(f) + v
  <2> DEFINE e == [client |-> c, domain |-> d, count |-> table[i].count + 1]
  <2>1. e.client = c /\ e.domain = d /\ e.count = table[i].count + 1
    OBVIOUS
  <2>2. new = [table EXCEPT ![i] = e] /\ table[i].client = c /\ table[i].domain = d
    BY <1>7 DEF Recounted, SameQuery
  <2> HIDE DEF e
  <2>3. /\ Len(new) = n /\ new[i] = e
        /\ \A k \in 1..n : k # i => new[k] = table[k]
    BY <1>2, <1>6, <2>2 DEF n
  <2>4. \A k \in 1..n : k # i => g[k] = f[k]
    BY <1>2, <1>3, <2>3
  <2>5. g[i] = f[i] + v
    <3>1. g[i] = Share(e, client, domain) /\ f[i] = Share(table[i], client, domain)
      BY <1>2, <1>3, <2>3
    <3>2. table[i].count \in Int
      BY <1>2
    <3> QED
      BY <1>5, <2>1, <2>2, <3>1, <3>2 DEF Share
  <2>6. g \in [1..n -> Int]
    BY <1>3, <2>3
  <2> QED
    BY <1>2, <1>5, <2>4, <2>5, <2>6, SumChanged
<1>8. ASSUME Recorded(table, new, packet) PROVE SumOf(g) = SumOf(f) + v
  <2> DEFINE e == [client |-> c, domain |-> d, count |-> 1]
  <2>1. e.client = c /\ e.domain = d /\ e.count = 1
    OBVIOUS
  <2>2. new = Append(table, e)
    BY <1>8 DEF Recorded
  <2> HIDE DEF e
  <2>3. /\ Len(new) = n + 1 /\ new[n + 1] = e
        /\ \A k \in 1..n : new[k] = table[k]
    BY <1>2, <1>6, <2>2, OneMore DEF n, IsSeq
  <2>4. v = Share(e, client, domain)
    BY <1>5, <2>1 DEF Share
  <2>5. n + 1 \in 1..(n + 1) /\ \A k \in 1..n : k \in 1..(n + 1)
    BY <1>2
  <2>6. \A k \in 1..n : f[k] \in Int /\ g[k] = f[k]
    BY <1>2, <1>3, <2>3, <2>5
  <2>7. g[n + 1] = v
    BY <1>3, <2>3, <2>4, <2>5
  <2>8. f = [k \in 1..n |-> f[k]] /\ g = [k \in 1..(n + 1) |-> g[k]]
    BY <1>2, <1>3, <2>3
  <2>9. OneMoreNumber(n, f, g, v)
    BY <2>6, <2>7, <2>8 DEF OneMoreNumber
  <2> QED
    BY <1>2, <1>5, <2>9, SumGrows
<1>9. Refused(table, new, packet) => new = table /\ ~RoomForQueries
  BY NeverRefused DEF Refused
<1>10. CASE Refused(table, new, packet)
  BY <1>5, <1>9, <1>10, <1>a
<1>11. CASE ~Refused(table, new, packet)
  <2>1. Reported(new, client, domain) = Reported(table, client, domain) + v
    BY <1>2, <1>3, <1>4, <1>7, <1>8, <1>11
  <2> QED
    BY <1>5, <1>a, <2>1
<1> QED
  BY <1>10, <1>11

(* Before a flush and between flushes the table reports one query more.    *)
LEMMA ReportedWith ==
    ASSUME TablesInv, NEW packet \in Traffic, NEW client, NEW domain \in Domains
    PROVE  LET added == Reported(dns, client, domain) + Asks(packet, client, domain)
           IN  /\ Reported(QueriesWith(packet), client, domain) <= added
               /\ RoomForQueries => Reported(QueriesWith(packet), client, domain) = added
<1>1. QueriesAre(dns) /\ domain # NoQuery
  BY DEF TablesInv, Domains
<1>2. CASE packet.query = NoQuery
  <2>1. QueriesWith(packet) = dns /\ Asks(packet, client, domain) = 0
    BY <1>1, <1>2 DEF QueriesWith, Asks
  <2>2. Reported(dns, client, domain) \in Int
    BY <1>1, ReportedIs
  <2> QED
    BY <2>1, <2>2
<1>3. CASE packet.query # NoQuery
  BY <1>1, <1>3, ReportedGrows DEF QueriesWith
<1> QED
  BY <1>2, <1>3

(* The reports of the jobs and the table under construction never add up to*)
(* more than the queries handled and, with room for all, to no less.       *)
Reports(js, client, domain) == [i \in DOMAIN js |-> Reported(js[i].dns, client, domain)]
Asking(packets, client, domain) == [i \in DOMAIN packets |-> Asks(packets[i], client, domain)]
AddsUp(client, domain) ==
    /\ SumOf(Reports(jobs, client, domain)) \in Int /\ SumOf(Asking(handled, client, domain)) \in Int
    /\ SumOf(Reports(jobs, client, domain)) + Reported(dns, client, domain)
          <= SumOf(Asking(handled, client, domain))
    /\ RoomForQueries =>
          SumOf(Reports(jobs, client, domain)) + Reported(dns, client, domain)
             = SumOf(Asking(handled, client, domain))

ReportedInv ==
    /\ IsSeq(jobs) /\ \A i \in DOMAIN jobs : QueriesAre(jobs[i].dns)
    /\ \A client \in Addresses, domain \in Domains : AddsUp(client, domain)

(* One packet more asks once more.                                         *)
LEMMA AskingGrows ==
    ASSUME RingsInv, NEW packet \in Traffic, Handled(packet), NEW client, NEW domain
    PROVE  /\ SumOf(Asking(handled, client, domain)) \in Int
           /\ SumOf(Asking(handled', client, domain)) \in Int
           /\ SumOf(Asking(handled', client, domain))
                 = SumOf(Asking(handled, client, domain)) + Asks(packet, client, domain)
<1> DEFINE n == Len(handled)
           ask(p) == Asks(p, client, domain)
           f == Asking(handled, client, domain)
           g == Asking(handled', client, domain)
<1>1. /\ n \in Nat /\ DOMAIN handled = 1..n /\ DOMAIN handled' = 1..(n + 1)
      /\ \A i \in 1..n : handled'[i] = handled[i]
      /\ handled'[n + 1] = packet
  <2>1. /\ n \in Nat /\ Len(handled') = n + 1 /\ handled' \in Seq(Traffic)
        /\ \A i \in 1..n : handled'[i] = handled[i]
        /\ handled'[n + 1] = packet
    BY ArrivedIs
  <2>2. handled \in Seq(Traffic)
    BY DEF RingsInv
  <2> QED
    BY <2>1, <2>2
<1>2. \A p : ask(p) \in Int
  BY DEF Asks
<1>3. f = [i \in 1..n |-> ask(handled[i])] /\ g = [i \in 1..(n + 1) |-> ask(handled'[i])]
  BY <1>1 DEF Asking
<1> HIDE DEF n, ask, f, g
<1>4. n + 1 \in 1..(n + 1) /\ \A k \in 1..n : k \in 1..(n + 1)
  BY <1>1
<1>5. OneMoreNumber(n, f, g, ask(packet))
  BY <1>1, <1>2, <1>3, <1>4 DEF OneMoreNumber
<1>6. SumOf(f) \in Int /\ SumOf(g) \in Int /\ SumOf(g) = SumOf(f) + ask(packet)
  BY <1>1, <1>2, <1>5, SumGrows
<1> QED
  BY <1>6 DEF f, g, ask

(* Every step keeps reports within queries, and equal to them with room.   *)
LEMMA ReportedStep ==
    ASSUME RingsInv, TablesInv, ReportedInv, [Next]_vars
    PROVE  ReportedInv'
<1>1. CASE Idles
  BY <1>1 DEF Idles, windows, tables, ReportedInv, IsSeq, AddsUp, Reports, Asking
<1>2. ASSUME NEW packet \in Traffic, Handled(packet), Stays(packet)
      PROVE  ReportedInv'
  <2>1. jobs' = jobs /\ dns' = QueriesWith(packet)
    BY <1>2 DEF Stays, windows
  <2>2. ASSUME NEW client \in Addresses, NEW domain \in Domains
        PROVE  AddsUp(client, domain)'
    <3> DEFINE a == SumOf(Asking(handled, client, domain))
               b == SumOf(Asking(handled', client, domain))
               r == SumOf(Reports(jobs, client, domain))
               x == Reported(dns, client, domain)
               y == Reported(QueriesWith(packet), client, domain)
               v == Asks(packet, client, domain)
    <3>1. a \in Int /\ b \in Int /\ b = a + v
      BY <1>2, AskingGrows
    <3>2. y <= x + v /\ (RoomForQueries => y = x + v)
      BY <2>2, ReportedWith
    <3>3. r \in Int /\ r + x <= a /\ (RoomForQueries => r + x = a)
      BY <2>2 DEF ReportedInv, AddsUp
    <3>4. x \in Int /\ v \in Int /\ y \in Int
      <4>1. QueriesAre(dns) /\ QueriesAre(QueriesWith(packet))
        BY TablesWith DEF TablesInv
      <4> QED
        BY <4>1, ReportedIs DEF Asks
    <3>5. AddsUp(client, domain)' <=> /\ r \in Int /\ b \in Int /\ r + y <= b
                                      /\ RoomForQueries => r + y = b
      BY <2>1 DEF AddsUp, Reports, Reported
    <3> HIDE DEF a, b, r, x, y, v
    <3> QED
      BY <3>1, <3>2, <3>3, <3>4, <3>5
  <2> QED
    BY <2>1, <2>2 DEF ReportedInv, IsSeq
<1>3. ASSUME NEW packet \in Traffic, Handled(packet), NEW thresholds \in Thresholds,
             NEW leases \in Leases, Ends(packet, thresholds, leases)
      PROVE  ReportedInv'
  <2> DEFINE j == Job(totals', TableWith(packet), QueriesWith(packet), thresholds, leases, SyncDue)
             m == Len(jobs)
  <2>1. j.dns = QueriesWith(packet)
    BY DEF Job
  <2> HIDE DEF j
  <2>2. jobs' = Append(jobs, j) /\ dns' = <<>>
    BY <1>3 DEF Ends, j
  <2>3. /\ IsSeq(jobs') /\ m \in Nat /\ DOMAIN jobs = 1..m /\ DOMAIN jobs' = 1..(m + 1)
        /\ \A i \in 1..m : jobs'[i] = jobs[i]
        /\ jobs'[m + 1] = j
    BY <2>2, OneMore DEF ReportedInv
  <2>4. \A i \in 1..(m + 1) : i \in 1..m \/ i = m + 1
    BY <2>3
  <2>5. QueriesAre(QueriesWith(packet)) /\ \A i \in 1..m : QueriesAre(jobs[i].dns)
    BY <2>3, TablesWith DEF ReportedInv
  <2>6. \A i \in DOMAIN jobs' : QueriesAre(jobs'[i].dns)
    BY <2>1, <2>3, <2>4, <2>5
  <2>7. ASSUME NEW client \in Addresses, NEW domain \in Domains
        PROVE  AddsUp(client, domain)'
    <3> DEFINE a == SumOf(Asking(handled, client, domain))
               b == SumOf(Asking(handled', client, domain))
               f == Reports(jobs, client, domain)
               g == Reports(jobs', client, domain)
               x == Reported(dns, client, domain)
               y == Reported(QueriesWith(packet), client, domain)
               v == Asks(packet, client, domain)
               rep(table) == Reported(table, client, domain)
    <3>1. a \in Int /\ b \in Int /\ b = a + v
      BY <1>3, AskingGrows
    <3>2. y <= x + v /\ (RoomForQueries => y = x + v)
      BY <2>7, ReportedWith
    <3>3. SumOf(f) \in Int /\ SumOf(f) + x <= a /\ (RoomForQueries => SumOf(f) + x = a)
      BY <2>7 DEF ReportedInv, AddsUp
    <3>4. x \in Int /\ v \in Int /\ y \in Int
      BY <2>5, ReportedIs DEF TablesInv, Asks
    <3>5. OneMoreNumber(m, f, g, y)
      <4>1. f = [i \in 1..m |-> rep(jobs[i].dns)] /\ g = [i \in 1..(m + 1) |-> rep(jobs'[i].dns)]
        BY <2>3 DEF Reports
      <4>2. m + 1 \in 1..(m + 1) /\ \A i \in 1..m : i \in 1..(m + 1)
        BY <2>3
      <4>3. \A i \in 1..m : rep(jobs[i].dns) \in Int
        BY <2>5, ReportedIs
      <4>4. rep(j.dns) = y
        BY <2>1
      <4> HIDE DEF f, g, rep, m, y
      <4> QED
        BY <2>3, <4>1, <4>2, <4>3, <4>4 DEF OneMoreNumber
    <3>6. AddsUp(client, domain)' <=> /\ SumOf(g) \in Int /\ b \in Int /\ SumOf(g) + 0 <= b
                                      /\ RoomForQueries => SumOf(g) + 0 = b
      <4>1. Reported(dns', client, domain) = 0
        <5>1. Reported(<<>>, client, domain) = SumOf(<<>>)
          BY DEF Reported
        <5> QED
          BY <2>2, <5>1, SumOfNone
      <4>2. Reported(dns, client, domain)' = Reported(dns', client, domain)
        BY DEF Reported
      <4>3. Reports(jobs, client, domain)' = g /\ Asking(handled, client, domain)' = Asking(handled', client, domain)
        BY DEF Reports, Reported, Asking
      <4> HIDE DEF g, b
      <4> QED
        BY <4>1, <4>2, <4>3 DEF AddsUp, b
    <3> HIDE DEF a, b, f, g, x, y, v
    <3>7. SumOf(g) \in Int /\ SumOf(g) = SumOf(f) + y
      BY <2>3, <3>4, <3>5, SumGrows
    <3> QED
      BY <3>1, <3>2, <3>3, <3>4, <3>6, <3>7
  <2> QED
    BY <2>3, <2>6, <2>7 DEF ReportedInv
<1> QED
  BY <1>1, <1>2, <1>3, Steps DEF Handled

(* Reports and queries balance from the start on.                          *)
LEMMA ReportedInvariant == Spec => []ReportedInv
<1>1. Init => TablesInv /\ ReportedInv
  <2> SUFFICES ASSUME Init PROVE TablesInv /\ ReportedInv
    OBVIOUS
  <2>1. flows = <<>> /\ dns = <<>> /\ jobs = <<>> /\ handled = <<>> /\ <<>> \in Seq({})
    BY DEF Init
  <2>2. TablesInv
    BY <2>1, Constants DEF TablesInv, FlowsAre, QueriesAre
  <2>3. ASSUME NEW client, NEW domain PROVE AddsUp(client, domain)
    <3>1. /\ Reports(jobs, client, domain) = <<>> /\ Asking(handled, client, domain) = <<>>
          /\ Reported(dns, client, domain) = SumOf(<<>>)
      BY <2>1 DEF Reports, Asking, Reported
    <3> QED
      BY <3>1, SumOfNone DEF AddsUp
  <2> QED
    BY <2>1, <2>2, <2>3 DEF ReportedInv, IsSeq
<1>2. RingsInv /\ TablesInv /\ ReportedInv /\ [Next]_vars => TablesInv' /\ ReportedInv'
  BY TablesStep, ReportedStep
<1> QED
  BY <1>1, <1>2, RingsInvariant, PTL DEF Spec

(* Each DNS query is reported by exactly one job, whatever the clock does  *)
(* and wherever the windows end, as long as the table has room for every   *)
(* client and domain.                                                      *)
THEOREM QueriesReported == Spec => []QueriesReportedOnce
<1>1. ReportedInv => QueriesReportedOnce
  <2> SUFFICES ASSUME ReportedInv, RoomForQueries, NEW client \in Addresses, NEW domain \in Domains
               PROVE  SumOver(LAMBDA job : Reported(job.dns, client, domain))
                         + Reported(dns, client, domain)
                       = HowMany(handled, LAMBDA p : p.flow.src = client /\ p.query = domain)
    BY DEF QueriesReportedOnce, RoomForQueries
  <2>1. SumOver(LAMBDA job : Reported(job.dns, client, domain)) = SumOf(Reports(jobs, client, domain))
    BY DEF SumOver, Reports
  <2>2. HowMany(handled, LAMBDA p : p.flow.src = client /\ p.query = domain)
           = SumOf(Asking(handled, client, domain))
    BY DEF HowMany, Asking, Asks
  <2> QED
    BY <2>1, <2>2 DEF ReportedInv, AddsUp
<1> QED
  BY <1>1, ReportedInvariant, PTL

-----------------------------------------------------------------------------
(* What some packets ask adds up to a number, and grows with one packet    *)
(* more by what that one asks.                                             *)
LEMMA AskingAppend ==
    ASSUME NEW w \in Seq(Traffic), NEW packet \in Traffic, NEW client, NEW domain
    PROVE  /\ SumOf(Asking(w, client, domain)) \in Int
           /\ SumOf(Asking(Append(w, packet), client, domain))
                 = SumOf(Asking(w, client, domain)) + Asks(packet, client, domain)
<1> DEFINE n == Len(w)
           t == Append(w, packet)
           ask(p) == Asks(p, client, domain)
           f == Asking(w, client, domain)
           g == Asking(t, client, domain)
<1>1. /\ n \in Nat /\ DOMAIN w = 1..n /\ DOMAIN t = 1..(n + 1)
      /\ \A i \in 1..n : t[i] = w[i]
      /\ t[n + 1] = packet
  OBVIOUS
<1>2. \A p : ask(p) \in Int
  BY DEF Asks
<1>3. f = [i \in 1..n |-> ask(w[i])] /\ g = [i \in 1..(n + 1) |-> ask(t[i])]
  BY <1>1 DEF Asking
<1> HIDE DEF n, t, ask, f, g
<1>4. n + 1 \in 1..(n + 1) /\ \A k \in 1..n : k \in 1..(n + 1)
  BY <1>1
<1>5. OneMoreNumber(n, f, g, ask(packet))
  BY <1>1, <1>2, <1>3, <1>4 DEF OneMoreNumber
<1>6. SumOf(f) \in Int /\ SumOf(g) = SumOf(f) + ask(packet)
  BY <1>1, <1>2, <1>5, SumGrows
<1> QED
  BY <1>6 DEF f, g, t, ask

(* Packets that ask something else add up to nothing.                      *)
LEMMA NobodyAsks ==
    ASSUME NEW w \in Seq(Traffic), NEW client, NEW domain,
           \A i \in 1..Len(w) : ~(w[i].flow.src = client /\ w[i].query = domain)
    PROVE  SumOf(Asking(w, client, domain)) = 0
<1> DEFINE f == Asking(w, client, domain)
<1>1. f = [i \in 1..Len(w) |-> 0]
  BY DEF Asking, Asks
<1> HIDE DEF f
<1>2. f \in Seq(Int) /\ Len(f) = Len(w) /\ 0 \in Int
      /\ \A i \in 1..Len(f) : 0 <= f[i] /\ f[i] <= 0
  BY <1>1
<1>3. /\ Proven!SumOf(f) \in Int /\ Len(f) * 0 <= Proven!SumOf(f)
      /\ Proven!SumOf(f) <= Len(f) * 0
  BY <1>2, Proven!SumBounds
<1>4. Proven!SumOf(f) = 0
  BY <1>2, <1>3
<1> QED
  BY <1>4, SameSum DEF f

(* A table that counts the queries among the packets w: every entry is     *)
(* exact, and a query is missing only when the table is full.              *)
HasQuery(table, packet) ==
    \E i \in 1..Len(table) : SameQuery(table[i], packet.flow.src, packet.query)
QueriesOf(table, w) ==
    /\ \A i \in 1..Len(table) :
          table[i].count = SumOf(Asking(w, table[i].client, table[i].domain))
    /\ \A k \in 1..Len(w) :
          w[k].query = NoQuery \/ HasQuery(table, w[k]) \/ Len(table) = DnsCapacity

(* A query added to a table that counts some makes it count one more.      *)
LEMMA QueriesKept ==
    ASSUME NEW table, QueriesAre(table), NEW w \in Seq(Traffic), QueriesOf(table, w),
           NEW packet \in Traffic, packet.query # NoQuery
    PROVE  QueriesOf(Dns!AddedTo(table, [client |-> packet.flow.src, domain |-> packet.query]),
                     Append(w, packet))
<1> DEFINE new == Dns!AddedTo(table, [client |-> packet.flow.src, domain |-> packet.query])
           w2 == Append(w, packet)
           n == Len(table)
           asked(v, e) == SumOf(Asking(v, e.client, e.domain))
<1>1. /\ table \in Seq(QueryEntry) /\ n \in Nat /\ DnsCapacity \in Nat
      /\ n <= DnsCapacity
      /\ \A i, k \in 1..n : i # k => ~SameQuery(table[i], table[k].client, table[k].domain)
  BY Constants DEF QueriesAre
<1>2. \/ \E i \in 1..n : Recounted(table, new, packet, i)
      \/ Refused(table, new, packet)
      \/ Recorded(table, new, packet)
  BY QueryAdded
<1>3. ASSUME NEW e, ~SameQuery(e, packet.flow.src, packet.query)
      PROVE  asked(w2, e) = asked(w, e)
  <2>1. Asks(packet, e.client, e.domain) = 0
    BY <1>3 DEF Asks, SameQuery
  <2>2. asked(w, e) \in Int /\ asked(w2, e) = asked(w, e) + Asks(packet, e.client, e.domain)
    BY AskingAppend
  <2> HIDE DEF asked, w2
  <2> QED
    BY <2>1, <2>2
<1>4. ASSUME NEW e, SameQuery(e, packet.flow.src, packet.query)
      PROVE  asked(w, e) \in Int /\ asked(w2, e) = asked(w, e) + 1
  <2>1. Asks(packet, e.client, e.domain) = 1
    BY <1>4 DEF Asks, SameQuery
  <2>2. asked(w, e) \in Int /\ asked(w2, e) = asked(w, e) + Asks(packet, e.client, e.domain)
    BY AskingAppend
  <2> HIDE DEF asked, w2
  <2> QED
    BY <2>1, <2>2
<1>5. /\ Len(w) \in Nat /\ Len(w2) = Len(w) + 1 /\ w2[Len(w) + 1] = packet
      /\ \A k \in 1..Len(w) : w2[k] = w[k]
      /\ \A k \in 1..(Len(w) + 1) : k \in 1..Len(w) \/ k = Len(w) + 1
  OBVIOUS
<1>6. \A i \in 1..n : table[i].count = asked(w, table[i])
  BY DEF QueriesOf
<1>7. \A k \in 1..Len(w) : w[k].query = NoQuery \/ HasQuery(table, w[k]) \/ n = DnsCapacity
  BY DEF QueriesOf
<1> SUFFICES QueriesOf(new, w2)
  OBVIOUS
<1> HIDE DEF new, w2, asked
<1>8. ASSUME \A i \in 1..Len(new) : new[i].count = asked(w2, new[i]),
             HasQuery(new, packet) \/ Len(new) = DnsCapacity,
             Len(new) >= n, Len(new) <= DnsCapacity, Len(new) \in Nat,
             \A i \in 1..n : new[i].client = table[i].client /\ new[i].domain = table[i].domain
      PROVE  QueriesOf(new, w2)
  <2>1. ASSUME NEW k \in 1..Len(w2)
        PROVE  w2[k].query = NoQuery \/ HasQuery(new, w2[k]) \/ Len(new) = DnsCapacity
    <3>1. CASE k \in 1..Len(w)
      <4>1. w2[k] = w[k]
        BY <1>5, <3>1
      <4>2. HasQuery(table, w[k]) => HasQuery(new, w[k])
        <5>1. \A i \in 1..n : i \in 1..Len(new)
          BY <1>1, <1>8
        <5> QED
          BY <1>8, <5>1 DEF HasQuery, SameQuery
      <4>3. n = DnsCapacity => Len(new) = DnsCapacity
        BY <1>1, <1>8
      <4> QED
        BY <1>7, <3>1, <4>1, <4>2, <4>3
    <3>2. CASE k = Len(w) + 1
      BY <1>5, <1>8, <3>2
    <3> QED
      BY <1>5, <3>1, <3>2
  <2> QED
    BY <1>8, <2>1 DEF QueriesOf, asked
<1>9. ASSUME NEW i \in 1..n, Recounted(table, new, packet, i) PROVE QueriesOf(new, w2)
  <2> DEFINE e == [client |-> packet.flow.src, domain |-> packet.query,
                   count |-> table[i].count + 1]
  <2>1. /\ e.client = packet.flow.src /\ e.domain = packet.query /\ e.count = table[i].count + 1
        /\ SameQuery(table[i], packet.flow.src, packet.query)
    BY <1>9 DEF Recounted
  <2>2. new = [table EXCEPT ![i] = e]
    BY <1>9 DEF Recounted
  <2> HIDE DEF e
  <2>3. /\ Len(new) = n /\ new[i] = e
        /\ \A k \in 1..n : k # i => new[k] = table[k]
    BY <1>1, <2>2
  <2>4. \A k \in 1..n : new[k].client = table[k].client /\ new[k].domain = table[k].domain
    BY <2>1, <2>3 DEF SameQuery
  <2>5. ASSUME NEW k \in 1..Len(new) PROVE new[k].count = asked(w2, new[k])
    <3>1. CASE k = i
      <4>1. asked(w2, e) = asked(w2, table[i])
        BY <2>1 DEF asked, SameQuery
      <4>2. table[i].count = asked(w, table[i])
        BY <1>6
      <4>3. asked(w2, table[i]) = asked(w, table[i]) + 1
        BY <1>4, <2>1
      <4> QED
        BY <2>1, <2>3, <3>1, <4>1, <4>2, <4>3
    <3>2. CASE k # i
      <4>1. new[k] = table[k] /\ k \in 1..n /\ ~SameQuery(table[k], packet.flow.src, packet.query)
        BY <1>1, <2>1, <2>3, <3>2 DEF SameQuery
      <4> QED
        BY <1>3, <1>6, <4>1
    <3> QED
      BY <3>1, <3>2
  <2>6. HasQuery(new, packet)
    BY <2>1, <2>3 DEF HasQuery, SameQuery
  <2> QED
    BY <1>1, <1>8, <2>3, <2>4, <2>5, <2>6
<1>10. CASE Refused(table, new, packet)
  <2>1. new = table /\ n = DnsCapacity /\ \A i \in 1..n : ~SameQuery(table[i], packet.flow.src, packet.query)
    BY <1>10 DEF Refused
  <2>2. \A i \in 1..n : table[i].count = asked(w2, table[i])
    BY <1>3, <1>6, <2>1
  <2>3. \A i \in 1..n : new[i].client = table[i].client /\ new[i].domain = table[i].domain
    BY <2>1
  <2> QED
    BY <1>1, <1>8, <2>1, <2>2, <2>3
<1>11. CASE Recorded(table, new, packet)
  <2> DEFINE e == [client |-> packet.flow.src, domain |-> packet.query, count |-> 1]
  <2>1. /\ new = Append(table, e) /\ n < DnsCapacity
        /\ \A i \in 1..n : ~SameQuery(table[i], packet.flow.src, packet.query)
    BY <1>11 DEF Recorded
  <2>2. e.client = packet.flow.src /\ e.domain = packet.query /\ e.count = 1
    OBVIOUS
  <2> HIDE DEF e
  <2>3. /\ Len(new) = n + 1 /\ new[n + 1] = e
        /\ \A k \in 1..n : new[k] = table[k]
        /\ \A k \in 1..(n + 1) : k \in 1..n \/ k = n + 1
    BY <1>1, <2>1
  <2>4. asked(w, e) = 0
    <3>1. ASSUME NEW k \in 1..Len(w) PROVE ~(w[k].flow.src = e.client /\ w[k].query = e.domain)
      <4>1. w[k].query = NoQuery \/ HasQuery(table, w[k])
        BY <1>1, <1>7, <2>1
      <4>2. HasQuery(table, w[k]) =>
               ~(w[k].flow.src = packet.flow.src /\ w[k].query = packet.query)
        BY <2>1 DEF HasQuery
      <4> QED
        BY <2>2, <4>1, <4>2
    <3> QED
      BY <3>1, NobodyAsks DEF asked
  <2>5. SameQuery(e, packet.flow.src, packet.query)
    BY <2>2 DEF SameQuery
  <2>6. asked(w2, e) = 1
    BY <1>4, <2>4, <2>5
  <2>7. ASSUME NEW k \in 1..Len(new) PROVE new[k].count = asked(w2, new[k])
    <3>1. CASE k \in 1..n
      <4>1. new[k] = table[k] /\ ~SameQuery(table[k], packet.flow.src, packet.query)
        BY <2>1, <2>3, <3>1
      <4> QED
        BY <1>3, <1>6, <3>1, <4>1
    <3>2. CASE k = n + 1
      BY <2>2, <2>3, <2>6, <3>2
    <3> QED
      BY <2>3, <3>1, <3>2
  <2>8. HasQuery(new, packet)
    <3>1. n + 1 \in 1..Len(new)
      BY <1>1, <2>3
    <3> QED
      BY <2>3, <2>5, <3>1 DEF HasQuery
  <2>9. Len(new) >= n /\ Len(new) <= DnsCapacity /\ Len(new) \in Nat
    BY <1>1, <2>1, <2>3
  <2> QED
    BY <1>8, <2>3, <2>7, <2>8, <2>9
<1> QED
  BY <1>2, <1>9, <1>10, <1>11

(* A packet that asks nothing leaves the counts as they are.               *)
LEMMA NoQueryKept ==
    ASSUME NEW table, QueriesAre(table), NEW w \in Seq(Traffic), QueriesOf(table, w),
           NEW packet \in Traffic, packet.query = NoQuery
    PROVE  QueriesOf(table, Append(w, packet))
<1> DEFINE w2 == Append(w, packet)
<1>1. \A i \in 1..Len(table) : table[i].domain # NoQuery
  <2>1. \A i \in 1..Len(table) : table[i] \in QueryEntry
    BY DEF QueriesAre
  <2> QED
    BY <2>1 DEF QueryEntry, Domains
<1>2. ASSUME NEW i \in 1..Len(table)
      PROVE  table[i].count = SumOf(Asking(w2, table[i].client, table[i].domain))
  <2> DEFINE a == SumOf(Asking(w, table[i].client, table[i].domain))
             b == SumOf(Asking(w2, table[i].client, table[i].domain))
  <2>1. a \in Int /\ b = a + Asks(packet, table[i].client, table[i].domain)
    BY AskingAppend
  <2>2. Asks(packet, table[i].client, table[i].domain) = 0
    BY <1>1 DEF Asks
  <2>3. table[i].count = a
    BY DEF QueriesOf
  <2> HIDE DEF a, b
  <2> QED
    BY <2>1, <2>2, <2>3 DEF b
<1>3. /\ Len(w2) = Len(w) + 1 /\ Len(w) \in Nat /\ w2[Len(w) + 1] = packet
      /\ \A k \in 1..Len(w) : w2[k] = w[k]
  OBVIOUS
<1>4. ASSUME NEW k \in 1..Len(w2)
      PROVE  w2[k].query = NoQuery \/ HasQuery(table, w2[k]) \/ Len(table) = DnsCapacity
  <2>1. CASE k \in 1..Len(w)
    BY <1>3, <2>1 DEF QueriesOf
  <2>2. CASE k = Len(w) + 1
    BY <1>3, <2>2
  <2>3. k \in 1..Len(w) \/ k = Len(w) + 1
    BY <1>3
  <2> QED
    BY <2>1, <2>2, <2>3
<1> HIDE DEF w2
<1>5. QueriesOf(table, w2)
  BY <1>2, <1>4 DEF QueriesOf
<1> QED
  BY <1>5 DEF w2

(* The DNS window counts the queries since the latest flush.               *)
QueriesInv == QueriesOf(dns, InWindow)

(* Every step keeps the DNS window counting the queries since the flush.   *)
LEMMA QueriesStep ==
    RingsInv /\ TablesInv /\ CountsInv /\ QueriesInv /\ [Next]_vars => QueriesInv'
<1> SUFFICES ASSUME RingsInv, TablesInv, CountsInv, QueriesInv, [Next]_vars PROVE QueriesInv'
  OBVIOUS
<1>1. CASE Idles
  BY <1>1 DEF Idles, tables, windows, QueriesInv, InWindow
<1>2. ASSUME NEW packet \in Traffic, Handled(packet) PROVE QueriesInv'
  <2>1. /\ Len(handled) \in Nat /\ Len(handled') = Len(handled) + 1
        /\ flushed \in 0..Len(handled) /\ InWindow \in Seq(Traffic)
        /\ SubSeq(handled', flushed + 1, Len(handled')) = Append(InWindow, packet)
    BY <1>2, WindowGrows DEF CountsInv
  <2>2. CASE Stays(packet)
    <3>1. dns' = QueriesWith(packet) /\ flushed' = flushed
      BY <2>2 DEF Stays, windows
    <3>2. InWindow' = Append(InWindow, packet)
      BY <2>1, <3>1 DEF InWindow
    <3>3. QueriesAre(dns) /\ QueriesOf(dns, InWindow)
      BY DEF TablesInv, QueriesInv
    <3>4. QueriesOf(QueriesWith(packet), Append(InWindow, packet))
      BY <2>1, <3>3, QueriesKept, NoQueryKept DEF QueriesWith
    <3>5. QueriesOf(dns', InWindow')
      BY <3>1, <3>2, <3>4
    <3> QED
      BY <3>5 DEF QueriesInv, QueriesOf, HasQuery, Asking, Asks, SameQuery
  <2>3. CASE dns' = <<>> /\ flushed' = Len(handled')
    <3>1. handled' \in Seq(Traffic)
      BY <1>2, ArrivedIs
    <3>2. InWindow' = <<>>
      BY <2>1, <2>3, <3>1 DEF InWindow
    <3>3. QueriesOf(<<>>, <<>>)
      BY DEF QueriesOf
    <3> QED
      BY <2>3, <3>2, <3>3 DEF QueriesInv, QueriesOf, HasQuery, Asking, Asks, SameQuery
  <2> QED
    BY <1>2, <2>2, <2>3 DEF Handled, Ends
<1> QED
  BY <1>1, <1>2, Steps

(* The number of queries that the DNS window compares with.                *)
LEMMA AskedIs ==
    ASSUME NEW client, NEW domain
    PROVE  Dns!Asked(client, domain) = SumOf(Asking(InWindow, client, domain))
<1>1. \A s : Dns!SumOf(s) = SumOf(s)
  BY DEF Dns!SumOf, Dns!FoldLeft, Dns!MapThenFoldSet, Dns!Max,
         SumOf, FoldLeft, MapThenFoldSet, Max
<1>2. Dns!Asked(client, domain) = Dns!SumOf(Asking(InWindow, client, domain))
  BY DEF Dns!Asked, Dns!HowMany, Queries, Asking, Asks
<1> QED
  BY <1>1, <1>2, Zenon

(* In the loop the DNS window keeps what it promises: every count is that  *)
(* of the queries since the latest flush, and a query is missing only from *)
(* a full table.                                                           *)
THEOREM QueriesCounted == Spec => []Dns!CountsExact
<1>1. Init => TablesInv /\ CountsInv /\ QueriesInv
  <2> SUFFICES ASSUME Init PROVE QueriesInv
    BY TablesAtInit
  <2>1. dns = <<>> /\ handled = <<>> /\ flushed = 0 /\ <<>> \in Seq({})
    BY DEF Init
  <2>2. InWindow = <<>>
    BY <2>1 DEF InWindow
  <2> QED
    BY <2>1, <2>2 DEF QueriesInv, QueriesOf
<1>2. RingsInv /\ TablesInv /\ CountsInv /\ QueriesInv => Dns!CountsExact
  <2> SUFFICES ASSUME RingsInv, TablesInv, CountsInv, QueriesInv PROVE Dns!CountsExact
    OBVIOUS
  <2>1. InWindow \in Seq(Traffic)
    <3>1. handled \in Seq(Traffic) /\ flushed \in 0..Len(handled)
      BY DEF RingsInv, CountsInv
    <3> QED
      BY <3>1 DEF InWindow
  <2>2. DOMAIN dns = 1..Len(dns)
    BY DEF TablesInv, QueriesAre
  <2>3. \A i \in DOMAIN dns : dns[i].count = Dns!Asked(dns[i].client, dns[i].domain)
    BY <2>2, AskedIs DEF QueriesInv, QueriesOf
  <2>4. ASSUME NEW client \in Addresses, NEW domain \in Domains, Dns!Asked(client, domain) > 0
        PROVE  \/ \E i \in DOMAIN dns : dns[i].client = client /\ dns[i].domain = domain
               \/ Len(dns) = DnsCapacity
    <3>1. SumOf(Asking(InWindow, client, domain)) > 0
      BY <2>4, AskedIs
    <3>2. PICK k \in 1..Len(InWindow) : /\ InWindow[k].flow.src = client
                                        /\ InWindow[k].query = domain
      <4>1. SumOf(Asking(InWindow, client, domain)) # 0
        BY <3>1
      <4> QED
        BY <2>1, <4>1, NobodyAsks
    <3>3. domain # NoQuery
      BY DEF Domains
    <3>4. HasQuery(dns, InWindow[k]) \/ Len(dns) = DnsCapacity
      BY <3>2, <3>3 DEF QueriesInv, QueriesOf
    <3> QED
      BY <2>2, <3>2, <3>4 DEF HasQuery, SameQuery
  <2> QED
    BY <2>3, <2>4 DEF Dns!CountsExact
<1> QED
  BY <1>1, <1>2, TablesStep, CountsStep, QueriesStep, RingsInvariant, PTL DEF Spec
=============================================================================
