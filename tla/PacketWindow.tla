---------------------------- MODULE PacketWindow ----------------------------
(***************************************************************************)
(* The sliding window of packet records behind the traffic statistics      *)
(* (src/src/packet_window.c): a ring of at most Capacity records, evicted  *)
(* from its head when they are older than Seconds or when the ring is      *)
(* full, and six unsigned 64-bit aggregates that are updated with every    *)
(* record that enters or leaves and never recomputed.                      *)
(*                                                                         *)
(* Time is what time() returns: it may jump either way when the clock is   *)
(* set.  overflow_logged only decides whether a line is logged and is left *)
(* out.                                                                    *)
(*                                                                         *)
(* A definition marked "Mutant of D" is a plausible bug: D with that body  *)
(* must violate a property.  No other definition uses it.                  *)
(***************************************************************************)
EXTENDS Sums, Sequences

CONSTANTS
    Capacity,   \* PACKET_WINDOW_CAPACITY
    Seconds,    \* PACKET_WINDOW_SECONDS
    Modulus,    \* 2^64
    Sizes,      \* packet sizes
    MaxTime,    \* bound: the clock stays in 0..MaxTime
    MaxPackets, \* bound: how many packets are pushed
    ClockJumps, \* whether the clock may be set back
    NoRecord    \* content of a slot never written

Protocols == {"tcp", "udp"}   \* parse_packet accepts nothing else
Packet == [size : Sizes, protocol : Protocols]
Record == [ts : 0..MaxTime, size : Sizes, protocol : Protocols]

Counters == {"total_packets", "tcp_packets", "udp_packets",
             "total_bytes", "tcp_bytes", "udp_bytes"}

PacketWindowAssumption ==
    /\ Capacity \in Nat \ {0} /\ Seconds \in Nat
    /\ Sizes \subseteq Nat
    /\ MaxTime \in Nat /\ MaxPackets \in Nat
    /\ ClockJumps \in BOOLEAN
    /\ NoRecord \notin Record
    /\ Modulus \in Nat \ {0} /\ Capacity < Modulus
    /\ \A s \in Sizes : Capacity * s < Modulus

VARIABLES
    records, head, count,  \* the ring
    totals,                \* the aggregates
    clock,                 \* time(NULL)
    arrived                \* history: the records of all packets, in order

win == <<records, head, count, totals>>
vars == <<win, clock, arrived>>

-----------------------------------------------------------------------------
(* The records in the window, oldest first.                                *)
Live == [i \in 1..count |-> records[(head + i - 1) % Capacity]]

(* What one record adds to an aggregate.                                   *)
Share(rec, counter) ==
    CASE counter = "total_packets" -> 1
      [] counter = "total_bytes"   -> rec.size
      [] counter = "tcp_packets"   -> IF rec.protocol = "tcp" THEN 1 ELSE 0
      [] counter = "tcp_bytes"     -> IF rec.protocol = "tcp" THEN rec.size ELSE 0
      [] counter = "udp_packets"   -> IF rec.protocol = "udp" THEN 1 ELSE 0
      [] counter = "udp_bytes"     -> IF rec.protocol = "udp" THEN rec.size ELSE 0

(* aggregate: (uint64_t)(-1) is Modulus - 1, and the sum wraps around.     *)
BytesOnly(t, rec, sign) ==   \* Mutant of Aggregate: packets stay
    [c \in Counters |-> IF sign < 0 /\ c \in {"tcp_packets", "udp_packets"} THEN t[c]
                        ELSE (t[c] + ((sign * Share(rec, c)) % Modulus)) % Modulus]
Aggregate(t, rec, sign) ==
    [c \in Counters |-> (t[c] + ((sign * Share(rec, c)) % Modulus)) % Modulus]

(* packet_window_evict_expired stops at the first record it must keep.     *)
InclusiveCutoff(ts, now) == ts <= now - Seconds   \* Mutant of Expired
Expired(ts, now) == ts < now - Seconds

ExpiredPrefix(now) ==
    CHOOSE k \in 0..count :
        /\ \A i \in 1..k : Expired(Live[i].ts, now)
        /\ k < count => ~Expired(Live[k + 1].ts, now)

(* packet_window_push: one more record goes when the ring is still full.   *)
NeverSaturated(kept) == FALSE   \* Mutant of Saturated
Saturated(kept) == kept = Capacity

Popped(now) ==
    LET k == ExpiredPrefix(now)
    IN  IF Saturated(count - k) THEN k + 1 ELSE k

Rewinds(popped) == (head - popped) % Capacity   \* Mutant of Advanced
Advanced(popped) == (head + popped) % Capacity

Push(packet, now) ==
    LET popped == Popped(now)
        kept == count - popped
        rec == [ts |-> now, size |-> packet.size, protocol |-> packet.protocol]
        remaining == FoldLeft(LAMBDA t, r : Aggregate(t, r, -1),
                              totals, SubSeq(Live, 1, popped))
    IN  /\ head' = Advanced(popped)
        /\ count' = kept + 1
        /\ records' = [records EXCEPT ![(Advanced(popped) + kept) % Capacity] = rec]
        /\ totals' = Aggregate(remaining, rec, 1)
        /\ arrived' = Append(arrived, rec)

(* packet_window_snapshot.                                                 *)
Snapshot == totals

-----------------------------------------------------------------------------
WindowInit ==
    /\ records = [i \in 0..(Capacity - 1) |-> NoRecord]
    /\ head = 0 /\ count = 0
    /\ totals = [c \in Counters |-> 0]
    /\ arrived = <<>>

Init == WindowInit /\ clock = 0

Arrive ==
    /\ Len(arrived) < MaxPackets
    /\ \E packet \in Packet : Push(packet, clock)
    /\ UNCHANGED clock

Tick ==
    /\ clock' \in IF ClockJumps THEN (0..MaxTime) \ {clock} ELSE (clock + 1)..MaxTime
    /\ UNCHANGED <<win, arrived>>

Terminated == Len(arrived) = MaxPackets /\ clock = MaxTime /\ UNCHANGED vars

Next == Arrive \/ Tick \/ Terminated

Spec == Init /\ [][Next]_vars

-----------------------------------------------------------------------------
(* The head stays in the ring and the ring within its capacity.            *)
TypeOK ==
    /\ records \in [0..(Capacity - 1) -> Record \cup {NoRecord}]
    /\ head \in 0..(Capacity - 1)
    /\ count \in 0..Capacity
    /\ totals \in [Counters -> 0..(Modulus - 1)]
    /\ clock \in 0..MaxTime
    /\ arrived \in Seq(Record)

(* The aggregates never drift: after any mix of arrivals, expiries,        *)
(* overflows and wrap-arounds they are the sums over exactly the records   *)
(* in the window, and no subtraction has borrowed.                         *)
Sum(counter, recs) == SumOf([i \in DOMAIN recs |-> Share(recs[i], counter)])
AggregatesExact == \A c \in Counters : totals[c] = Sum(c, Live)

(* The window is always an unbroken run of the latest packets.             *)
Newest(n) == SubSeq(arrived, Len(arrived) - n + 1, Len(arrived))
LatestKept == count <= Len(arrived) /\ Live = Newest(count)

(* As long as the clock has not been set back between packets, it holds    *)
(* every packet of the last Seconds seconds before the latest one (both    *)
(* ends included) that is among the latest Capacity packets, and no other. *)
Recent(rec) == rec.ts >= arrived[Len(arrived)].ts - Seconds
RecentKept ==
    LET forward == \A i, k \in DOMAIN arrived : i < k => arrived[i].ts <= arrived[k].ts
        InWindow(i) == i > Len(arrived) - count
    IN  forward => \A i \in DOMAIN arrived :
           InWindow(i) <=> Recent(arrived[i]) /\ i > Len(arrived) - Capacity

WindowExact == LatestKept /\ RecentKept

(* Even when the clock is set back, a record is thrown out only because it *)
(* had expired by the clock of that moment or because the ring was full.   *)
EvictedForAReason ==
    [][arrived' # arrived =>
          LET popped == count + 1 - count'
          IN  \/ \A i \in 1..popped : Live[i].ts < clock - Seconds
              \/ popped = 1 /\ count = Capacity]_vars
=============================================================================
