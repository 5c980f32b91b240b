------------------------------- MODULE FxRing -------------------------------
(***************************************************************************)
(* The forensic ring (src/src/fx_ring.c): the last Capacity packets, and   *)
(* the sample of the latest of them that goes with an alert.               *)
(*                                                                         *)
(* A definition marked "Mutant of D" is a plausible bug: D with that body  *)
(* must violate a property.  No other definition uses it.                  *)
(***************************************************************************)
EXTENDS Integers, Sequences, SequencesExt

CONSTANTS
    Capacity,    \* FX_RING_MAX
    SampleMax,   \* FX_SAMPLE_MAX
    Packets,
    MaxPackets,  \* bound: how many packets are pushed
    NoPacket     \* content of a slot never written

FxRingAssumption ==
    /\ Capacity \in Nat \ {0} /\ SampleMax \in Nat /\ MaxPackets \in Nat
    /\ NoPacket \notin Packets

VARIABLES
    packets, head, count,  \* the ring
    seen                   \* history: all packets, in order

ring == <<packets, head, count>>
vars == <<ring, seen>>

-----------------------------------------------------------------------------
Init ==
    /\ packets = [i \in 0..(Capacity - 1) |-> NoPacket]
    /\ head = 0 /\ count = 0
    /\ seen = <<>>

(* fx_ring_push: a full ring gives up its oldest packet.                   *)
NoWrap == IF count = Capacity THEN head + 1 ELSE head   \* Mutant of NextHead
NextHead == IF count = Capacity THEN (head + 1) % Capacity ELSE head

Push(packet) ==
    /\ packets' = [packets EXCEPT ![(head + count) % Capacity] = packet]
    /\ head' = NextHead
    /\ count' = IF count = Capacity THEN count ELSE count + 1
    /\ seen' = Append(seen, packet)

(* fx_ring_recent: from the newest packet backwards.                       *)
FromHead(i) == (head + i - 1) % Capacity   \* Mutant of Backwards
Backwards(i) == (head + count - i) % Capacity

Recent(max) ==
    [i \in 1..(IF count > max THEN max ELSE count) |-> packets[Backwards(i)]]

Arrive ==
    /\ Len(seen) < MaxPackets
    /\ \E packet \in Packets : Push(packet)

Terminated == Len(seen) = MaxPackets /\ UNCHANGED vars

Next == Arrive \/ Terminated

Spec == Init /\ [][Next]_vars

-----------------------------------------------------------------------------
(* The head stays in the ring and the ring within its capacity.            *)
TypeOK ==
    /\ packets \in [0..(Capacity - 1) -> Packets \cup {NoPacket}]
    /\ head \in 0..(Capacity - 1)
    /\ count \in 0..Capacity
    /\ seen \in Seq(Packets)

(* The sample of an alert is the latest packets, the newest first: as many *)
(* as are wanted, kept, and were ever seen.                                *)
SampleIsLatest ==
    \A max \in 0..SampleMax :
        LET n == CHOOSE n \in 0..max :
                    /\ n <= Capacity /\ n <= Len(seen)
                    /\ n = max \/ n = Capacity \/ n = Len(seen)
        IN  Recent(max) = Reverse(SubSeq(seen, Len(seen) - n + 1, Len(seen)))
=============================================================================
