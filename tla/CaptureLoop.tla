---------------------------- MODULE CaptureLoop -----------------------------
(***************************************************************************)
(* The capture thread (main in src/src/main.c): it receives a frame, feeds *)
(* the packet to the activity table, the flow table, the DNS window, the   *)
(* packet window and the forensic ring, and every StatsSeconds turns what  *)
(* they hold into one upload job (flush_window).  This module composes the *)
(* modules of those five parts; the Uploader module takes the jobs from    *)
(* uploader_submit onwards.                                                *)
(*                                                                         *)
(* The thread blocks in recvfrom.  SIGINT and SIGTERM only clear a flag;   *)
(* whether they interrupt recvfrom depends on the C library (musl and      *)
(* glibc restart it), so both outcomes are possible here.  The verdicts of *)
(* the detector depend on thresholds another thread sets: each check uses  *)
(* some element of Thresholds (the Detector module looks inside a check).  *)
(*                                                                         *)
(* A definition marked "Mutant of D" is a plausible bug: D with that body  *)
(* must violate a property.  No other definition uses it.                  *)
(***************************************************************************)
EXTENDS Sums, Sequences, FiniteSetsExt

CONSTANTS
    Traffic,          \* the packets: [flow, size, query], query a domain or NoQuery
    NoQuery, NoFlow, NoRecord,
    Thresholds,       \* what the detector may compare with: [udp, tcp, any]
    StatsSeconds,     \* STATS_WINDOW_SECONDS
    RulesSeconds,     \* RULES_SYNC_SECONDS
    MinEndpoints,     \* PORT_SCAN_MIN_ENDPOINTS
    MaxAlerts,        \* ANOMALY_MAX_ALERTS
    WindowSeconds, WindowCapacity, FlowCapacity, DnsCapacity,
    FxCapacity, FxSample, ActivityCapacity, RosterCapacity, OnlineSeconds,
    Modulus,          \* 2^64
    Hash,             \* of the endpoints, for the scan signal
    Leases,           \* what the DHCP lease file can hold
    MaxBoot,          \* bound: how long start-up takes
    MaxTime,          \* bound: the clock stays in 0..MaxTime
    MaxPackets,       \* bound: how many packets are handled
    ClockJumps        \* whether the clock may be set back

ASSUME CaptureLoopAssumption ==
    /\ \A t \in Thresholds : \A p \in {"udp", "tcp", "any"} : t[p] \in Nat \ {0}
    /\ StatsSeconds \in Nat \ {0} /\ RulesSeconds \in Nat
    /\ MinEndpoints \in Nat
    /\ MaxAlerts \in Nat /\ MaxAlerts >= 3   \* one for each threshold, and there are 4
    /\ MaxBoot \in 0..MaxTime

VARIABLES
    pc,               \* "check", "receive", "stopping", "stopped" or "failed"
    keep_running,     \* cleared by the signal handler
    clock,            \* time(NULL)
    window_start, last_rules_sync,
    records, head, count, totals,        \* the packet window
    fx_packets, fx_head, fx_count,       \* the forensic ring
    flows, dns, activity,                \* the three tables
    jobs,             \* the jobs handed to uploader_submit, in order
    arrived,          \* history: [ts, size, protocol] of all packets, in order
    handled,          \* history: all packets, in order
    flushed           \* history: how many of them the last flush ended with

tables == <<records, head, count, totals, fx_packets, fx_head, fx_count,
            flows, dns, activity, arrived, handled>>
windows == <<window_start, last_rules_sync, jobs, flushed>>
vars == <<pc, keep_running, clock, windows, tables>>

-----------------------------------------------------------------------------
Flows == {packet.flow : packet \in Traffic}
Sizes == {packet.size : packet \in Traffic}
Addresses == {flow.src : flow \in Flows}

Window == INSTANCE PacketWindow WITH
    Capacity <- WindowCapacity, Seconds <- WindowSeconds

Fx == INSTANCE FxRing WITH
    Capacity <- FxCapacity, SampleMax <- FxSample, NoPacket <- NoRecord,
    Packets <- Window!Record,
    packets <- fx_packets, head <- fx_head, count <- fx_count, seen <- arrived

InWindow == SubSeq(handled, flushed + 1, Len(handled))   \* since the last flush

Table == INSTANCE FlowTable WITH
    Capacity <- FlowCapacity, entries <- flows, arrived <- InWindow

Domains == {packet.query : packet \in Traffic} \ {NoQuery}
Queries == [i \in DOMAIN InWindow |->   \* no query is one for no domain
               [client |-> InWindow[i].flow.src, domain |-> InWindow[i].query]]
Dns == INSTANCE DnsWindow WITH
    Capacity <- DnsCapacity, Clients <- Addresses, MaxQueries <- MaxPackets,
    events <- dns, asked <- Queries

Roster == INSTANCE ClientRoster WITH
    Private <- Addresses, ActivityMax <- ActivityCapacity,
    ClientMax <- RosterCapacity, roster <- <<>>, heard <- <<>>

ASSUME PartsAssumption ==
    /\ Window!PacketWindowAssumption
    /\ Table!FlowTableAssumption
    /\ Dns!DnsWindowAssumption
    /\ Fx!FxRingAssumption
    /\ RosterCapacity \in Nat
    /\ IsFiniteSet(Traffic)
    /\ NoFlow \notin [flow : Flows, packets : Nat, bytes : Nat]
    /\ NoFlow \notin [src : Addresses, dst : {flow.dst : flow \in Flows}]
    /\ \A leases \in Leases : leases \in Seq(Range(leases))

-----------------------------------------------------------------------------
(* What the detector compares with the threshold of each kind of alert; a  *)
(* volume alert has protocol 0, which any flow matches.                    *)
Measured(stats, protocol) ==
    CASE protocol = "udp" -> stats["udp_packets"]
      [] protocol = "tcp" -> stats["tcp_packets"]
      [] protocol = "any" -> stats["total_bytes"]

Verdicts(stats, thresholds) ==
    LET Of(p) == IF Measured(stats, p) > thresholds[p] THEN <<p>> ELSE <<>>
    IN  Of("udp") \o Of("tcp") \o Of("any")

(* The entry an alert names, if there is one.                              *)
TopFlow(table, protocol) ==
    LET top == Table!Top(table, protocol) IN IF top = 0 THEN NoFlow ELSE table[top]

ThresholdAlerts(stats, table, thresholds) ==
    LET verdicts == Verdicts(stats, thresholds)
    IN  [i \in DOMAIN verdicts |->
            [kind |-> verdicts[i], flow |-> TopFlow(table, verdicts[i])]]

WithScan(alerts, table) ==
    LET scan == Table!ScanFanout(table)
    IN  IF Len(alerts) < MaxAlerts /\ scan.count >= MinEndpoints
        THEN Append(alerts, [kind |-> "scan", flow |-> [src |-> scan.src, dst |-> scan.dst]])
        ELSE alerts

(* flush_window: the job made of the tables of the window that ends now.   *)
Job(stats, table, queries, thresholds, leases, sync) ==
    LET alerts == WithScan(ThresholdAlerts(stats, table, thresholds), table)
    IN  [at |-> clock, window_seconds |-> clock - window_start,
         stats |-> stats, alerts |-> alerts, dns |-> queries, sync_ruleset |-> sync,
         fx |-> IF alerts = <<>> THEN <<>> ELSE (Fx!Recent(FxSample))',
         clients |-> Roster!Collected(leases, activity', clock)]

-----------------------------------------------------------------------------
Init ==
    /\ pc = "check" /\ keep_running = TRUE
    /\ clock \in 0..MaxBoot
    /\ window_start = 0 /\ last_rules_sync = clock
    /\ Window!WindowInit
    /\ fx_packets = [i \in 0..(FxCapacity - 1) |-> NoRecord]
    /\ fx_head = 0 /\ fx_count = 0
    /\ flows = <<>> /\ dns = <<>> /\ activity = <<>>
    /\ jobs = <<>> /\ handled = <<>> /\ flushed = 0

(* while (keep_running)                                                    *)
Forever == TRUE   \* Mutant of GoesOn
GoesOn == keep_running

Check ==
    /\ pc = "check"
    /\ pc' = IF GoesOn THEN "receive" ELSE "stopping"
    /\ UNCHANGED <<keep_running, clock, windows, tables>>

(* A frame that does not parse or that the protocol filter turns away.     *)
IgnoredFrame ==
    /\ pc = "receive"
    /\ pc' = "check"
    /\ UNCHANGED <<keep_running, clock, windows, tables>>

(* errno == EINTR                                                          *)
Interrupted ==
    /\ pc = "receive" /\ ~keep_running
    /\ pc' = "check"
    /\ UNCHANGED <<keep_running, clock, windows, tables>>

(* Any other error: main returns without uploader_stop.                    *)
ReceiveFails ==
    /\ pc = "receive"
    /\ pc' = "failed"
    /\ UNCHANGED <<keep_running, clock, windows, tables>>

EarlyDue == clock - window_start >= StatsSeconds - 1   \* Mutant of Due
Due == clock - window_start >= StatsSeconds

RestartsAlways == clock   \* Mutant of SyncedAt: any flush restarts the period
SyncDue == clock - last_rules_sync >= RulesSeconds
SyncedAt == IF SyncDue THEN clock ELSE last_rules_sync

(* What is left of the flow table and the DNS window after a flush.        *)
FlowsStay(table) == table   \* Mutant of FlowsAfter
FlowsAfter(table) == Table!Cleared
QueriesStay(queries) == queries   \* Mutant of QueriesAfter
QueriesAfter(queries) == Dns!Cleared

Flush(table, queries, inForce) ==
    /\ \E thresholds \in inForce, leases \in Leases :
          jobs' = Append(jobs, Job(totals', table, queries, thresholds, leases, SyncDue))
    /\ last_rules_sync' = SyncedAt
    /\ flows' = FlowsAfter(table) /\ dns' = QueriesAfter(queries)
    /\ flushed' = Len(handled')
    /\ window_start' = clock

(* The body of the loop for one packet, when the thresholds in force can be*)
(* any of inForce.                                                         *)
Handle(packet, inForce) ==
    LET flow == packet.flow
        table == Table!AddedTo(flows, packet)
        queries == IF packet.query = NoQuery THEN dns
                   ELSE Dns!AddedTo(dns, [client |-> flow.src, domain |-> packet.query])
    IN  /\ handled' = Append(handled, packet)
        /\ activity' = Roster!Touched(activity, flow.src, clock)
        /\ Window!Push([size |-> packet.size, protocol |-> flow.protocol], clock)
        /\ Fx!Push([ts |-> clock, size |-> packet.size, protocol |-> flow.protocol])
        /\ IF Due THEN Flush(table, queries, inForce)
           ELSE flows' = table /\ dns' = queries /\ UNCHANGED windows

PacketUnder(inForce) ==
    /\ pc = "receive"
    /\ Len(arrived) < MaxPackets
    /\ \E packet \in Traffic : Handle(packet, inForce)
    /\ pc' = "check"
    /\ UNCHANGED <<keep_running, clock>>

PacketFrame == PacketUnder(Thresholds)

(* uploader_stop, packet_capture_close, return EXIT_SUCCESS.               *)
Stop ==
    /\ pc = "stopping"
    /\ pc' = "stopped"
    /\ UNCHANGED <<keep_running, clock, windows, tables>>

Over == pc \in {"stopped", "failed"}

(* handle_signal, at any time.                                             *)
Signal ==
    /\ keep_running /\ ~Over
    /\ keep_running' = FALSE
    /\ UNCHANGED <<pc, clock, windows, tables>>

Tick ==
    /\ ~Over
    /\ clock' \in IF ClockJumps THEN (0..MaxTime) \ {clock} ELSE (clock + 1)..MaxTime
    /\ UNCHANGED <<pc, keep_running, windows, tables>>

Terminated == Over /\ UNCHANGED vars

Frame == IgnoredFrame \/ PacketFrame
Main == Check \/ Frame \/ Stop

Next == Main \/ Interrupted \/ ReceiveFails \/ Signal \/ Tick \/ Terminated

Spec == Init /\ [][Next]_vars

-----------------------------------------------------------------------------
(* Every part keeps its own invariants inside the loop, and a job fits its *)
(* arrays and covers a whole window.                                       *)
TypeOK ==
    /\ pc \in {"check", "receive", "stopping", "stopped", "failed"}
    /\ keep_running \in BOOLEAN
    /\ Window!TypeOK /\ Fx!TypeOK /\ Table!TypeOK /\ Dns!TypeOK
    /\ \A i \in DOMAIN jobs :
          /\ jobs[i].window_seconds >= StatsSeconds
          /\ Len(jobs[i].alerts) <= MaxAlerts /\ Len(jobs[i].fx) <= FxSample
          /\ Len(jobs[i].dns) <= DnsCapacity /\ Len(jobs[i].clients) <= RosterCapacity

SumOver(n(_)) == SumOf([i \in DOMAIN jobs |-> n(jobs[i])])

(* The statistics of successive jobs overlap in at most the packet that    *)
(* set off the flush between them: no packet is counted three times, and   *)
(* only those of the flushes twice, even when the clock is set back.       *)
CountedTwiceAtMost ==
    SumOver(LAMBDA job : job.stats["total_packets"])
        <= flushed + (IF jobs = <<>> THEN 0 ELSE Len(jobs) - 1)

(* Each DNS query is reported by exactly one job, whatever the windows: the*)
(* reports and the table under construction add up to the queries handled. *)
Reported(events, client, domain) ==
    SumOf([i \in DOMAIN events |->
              IF events[i].client = client /\ events[i].domain = domain
              THEN events[i].count ELSE 0])
QueriesReportedOnce ==
    Cardinality(Addresses \X Domains) <= DnsCapacity =>
        \A client \in Addresses, domain \in Domains :
            SumOver(LAMBDA job : Reported(job.dns, client, domain))
                + Reported(dns, client, domain)
              = HowMany(handled, LAMBDA p : p.flow.src = client /\ p.query = domain)

(* Two rulesets are never asked for within RulesSeconds, and no flush lets *)
(* a longer period pass without asking.                                    *)
RulesSyncPaced ==
    \A i \in DOMAIN jobs :
        LET recent == {k \in 1..(i - 1) : /\ jobs[k].sync_ruleset
                                          /\ jobs[i].at - jobs[k].at < RulesSeconds}
        IN  IF jobs[i].sync_ruleset THEN recent = {}
            ELSE recent # {} \/ jobs[i].at - MaxBoot < RulesSeconds

(* README: an alert includes the addresses "of the busiest matching flow   *)
(* (top talker) in that window".  The verdict comes from the sliding packet*)
(* window and the flow from a table that every flush empties; still the    *)
(* table holds a flow to name whenever it has not overflowed, because the  *)
(* window reaches back to a single packet of the flush before and no       *)
(* threshold is 0.                                                         *)
AlertNamesItsFlow ==
    Cardinality(Flows) <= FlowCapacity =>
        \A i \in DOMAIN jobs : \A k \in DOMAIN jobs[i].alerts :
            jobs[i].alerts[k].flow # NoFlow

PacketsOf(flow, packets) == HowMany(packets, LAMBDA p : p.flow = flow)

(* The flow an alert names is a busiest one of the alert's protocol among  *)
(* the packets since the flush before, and its packets are those packets.  *)
AlertsNameTopTalkers ==
    [][jobs' # jobs =>
          LET alerts == Last(jobs').alerts
              packets == SubSeq(handled', flushed + 1, Len(handled'))
          IN  \A i \in DOMAIN alerts :
                 alerts[i].kind # "scan" /\ alerts[i].flow # NoFlow =>
                    LET entry == alerts[i].flow
                        same == {f \in Flows : alerts[i].kind \in {"any", f.protocol}}
                    IN  /\ entry.flow \in same /\ entry.packets = PacketsOf(entry.flow, packets)
                        /\ Cardinality(Flows) <= FlowCapacity =>
                              \A f \in same : PacketsOf(f, packets) <= entry.packets]_vars

-----------------------------------------------------------------------------
(* README: "once per stats window (every 5 seconds), it sends [...] the    *)
(* aggregated traffic window": the windows of the jobs together count every*)
(* packet up to the last flush once.                                       *)
StatsAreTheWindow ==
    SumOver(LAMBDA job : job.stats["total_packets"]) = flushed
=============================================================================
