----------------------------- MODULE FlowTable ------------------------------
(***************************************************************************)
(* The flows of one statistics window (src/src/flow_table.c): packet and   *)
(* byte counts per 5-tuple in a table of fixed capacity, the busiest flow  *)
(* of a protocol, and the scan signal: how many distinct destination       *)
(* endpoints one source reached, counted with a bitmap of hash slots.      *)
(*                                                                         *)
(* A flow is known by its source, its destination endpoint (address and    *)
(* port), its source port and its protocol; Hash is FNV-1a folded to 18    *)
(* bits, which may send two endpoints to one slot.                         *)
(*                                                                         *)
(* A definition marked "Mutant of D" is a plausible bug: D with that body  *)
(* must violate a property.  No other definition uses it.                  *)
(***************************************************************************)
EXTENDS Sums, Sequences, FiniteSetsExt

CONSTANTS
    Capacity,   \* FLOW_TABLE_CAPACITY
    Flows,      \* the 5-tuples on the wire: [src, dst, dport, sport, protocol]
    Sizes,      \* packet sizes
    Hash,       \* the slot of each endpoint <<dst, dport>>
    MaxPackets  \* bound: packets in one window

Protocols == {"tcp", "udp"}
Endpoint(flow) == <<flow.dst, flow.dport>>

FlowTableAssumption ==
    /\ Capacity \in Nat /\ Sizes \subseteq Nat /\ MaxPackets \in Nat
    /\ \A flow \in Flows : /\ flow.protocol \in Protocols
                           /\ Endpoint(flow) \in DOMAIN Hash

VARIABLES
    entries,  \* the table: [flow, packets, bytes], in order of appearance
    arrived   \* history: the packets of this window, in order

vars == <<entries, arrived>>

-----------------------------------------------------------------------------
(* flow_table_add.                                                         *)
Matches(a, b) == a = b   \* flow_matches

AddedTo(table, packet) ==
    IF \E i \in DOMAIN table : Matches(table[i].flow, packet.flow)
    THEN LET i == Min({k \in DOMAIN table : Matches(table[k].flow, packet.flow)})
         IN  [table EXCEPT ![i].packets = @ + 1, ![i].bytes = @ + packet.size]
    ELSE IF Len(table) >= Capacity
    THEN table
    ELSE Append(table, [flow |-> packet.flow, packets |-> 1, bytes |-> packet.size])

(* flow_table_top: the first of the entries with the most packets, or 0    *)
(* when no entry matches; protocol "any" matches every entry.              *)
Candidates(table, protocol) ==
    {i \in DOMAIN table : protocol = "any" \/ table[i].flow.protocol = protocol}

LastSeen(table, protocol) ==   \* Mutant of Top: the latest flow
    LET c == Candidates(table, protocol) IN IF c = {} THEN 0 ELSE Max(c)

Top(table, protocol) ==
    LET c == Candidates(table, protocol)
        most == Max({table[i].packets : i \in c})
    IN  IF c = {} THEN 0 ELSE Min({i \in c : table[i].packets = most})

(* flow_table_scan_fanout: the entries of a source that set a fresh bit.   *)
From(table, src) == {i \in DOMAIN table : table[i].flow.src = src}

EveryEntry(table, src) == From(table, src)   \* Mutant of FreshBits: no bitmap
NotCleared(table, src) ==   \* Mutant of FreshBits: never cleared
    {i \in From(table, src) :
        \A k \in DOMAIN table :
            k < i => Hash[Endpoint(table[k].flow)] # Hash[Endpoint(table[i].flow)]}
FreshBits(table, src) ==
    {i \in From(table, src) :
        \A k \in From(table, src) :
            k < i => Hash[Endpoint(table[k].flow)] # Hash[Endpoint(table[i].flow)]}

(* The highest count of all sources; the first source that has it; and the *)
(* target that set that source's last bit.                                 *)
ScanFanout(table) ==
    LET score == [i \in DOMAIN table |-> Cardinality(FreshBits(table, table[i].flow.src))]
        best == Max({score[i] : i \in DOMAIN table})
        winner == table[Min({i \in DOMAIN table : score[i] = best})].flow.src
    IN  IF table = <<>> THEN [count |-> 0]
        ELSE [count |-> best, src |-> winner,
              dst |-> table[Max(FreshBits(table, winner))].flow.dst]

-----------------------------------------------------------------------------
Init == entries = <<>> /\ arrived = <<>>

Add(packet) ==
    /\ entries' = AddedTo(entries, packet)
    /\ arrived' = Append(arrived, packet)

Arrive ==
    /\ Len(arrived) < MaxPackets
    /\ \E flow \in Flows, size \in Sizes : Add([flow |-> flow, size |-> size])

(* flow_table_reset, at the end of a window.                               *)
Kept == entries   \* Mutant of Cleared
Cleared == <<>>

Reset ==
    /\ arrived # <<>>
    /\ entries' = Cleared
    /\ arrived' = <<>>

Next == Arrive \/ Reset

Spec == Init /\ [][Next]_vars

-----------------------------------------------------------------------------
(* No flow has two entries, and the table never outgrows its capacity.     *)
TypeOK ==
    /\ \A i \in DOMAIN entries :
          /\ entries[i].flow \in Flows
          /\ entries[i].packets \in Nat \ {0} /\ entries[i].bytes \in Nat
    /\ \A i, k \in DOMAIN entries : i # k => entries[i].flow # entries[k].flow
    /\ Len(entries) <= Capacity

PacketsOf(flow) == HowMany(arrived, LAMBDA p : p.flow = flow)
BytesOf(flow) ==
    SumOf([i \in DOMAIN arrived |-> IF arrived[i].flow = flow THEN arrived[i].size ELSE 0])
Seen == {arrived[i].flow : i \in DOMAIN arrived}

(* An entry counts every packet of its flow in this window, whether or not *)
(* the table overflowed; a flow is missing only when the table is full.    *)
CountsExact ==
    /\ \A i \in DOMAIN entries :
          /\ entries[i].packets = PacketsOf(entries[i].flow)
          /\ entries[i].bytes = BytesOf(entries[i].flow)
    /\ \A flow \in Seen : (\E i \in DOMAIN entries : entries[i].flow = flow)
                              \/ Len(entries) = Capacity

(* The flow an alert names is a busiest one of its protocol among all the  *)
(* packets of the window, as long as the table did not overflow.           *)
TopIsBusiest ==
    Cardinality(Seen) <= Capacity =>
        \A protocol \in Protocols \cup {"any"} :
            LET same == {f \in Seen : protocol = "any" \/ f.protocol = protocol}
                top == Top(entries, protocol)
            IN  IF same = {} THEN top = 0
                ELSE /\ top # 0 /\ entries[top].flow \in same
                     /\ \A f \in same : PacketsOf(f) <= PacketsOf(entries[top].flow)

Reached(src) == {Endpoint(f) : f \in {g \in Seen : g.src = src}}

(* flow_table.c: "Rare hash collisions only ever undercount".  The scan    *)
(* signal never exceeds the endpoints its source really reached, so a      *)
(* PORT_SCAN alert is never an artefact of the bitmap, and it names a      *)
(* target of that source.                                                  *)
FanoutNeverOvercounts ==
    LET scan == ScanFanout(entries)
    IN  entries # <<>> => /\ scan.count <= Cardinality(Reached(scan.src))
                          /\ \E e \in Reached(scan.src) : e[1] = scan.dst

(* As long as the table did not overflow, no source whose own endpoints    *)
(* have slots of their own reached more of them than the signal says.      *)
FanoutExact ==
    Cardinality(Seen) <= Capacity =>
        \A f \in Seen :
            LET reached == Reached(f.src)
            IN  Cardinality({Hash[e] : e \in reached}) = Cardinality(reached)
                   => Cardinality(reached) <= ScanFanout(entries).count
=============================================================================
