------------------------------ MODULE MCParts -------------------------------
(***************************************************************************)
(* Small instances of the parts that work on their own: those of Parts, the*)
(* packet window, and the other tables the capture loop feeds.  They share *)
(* no state, so one run explores them one at a time: part says which one is*)
(* used, and the others do not move.                                       *)
(***************************************************************************)
EXTENDS PacketWindow, Parts, FiniteSets

VARIABLES
    part,                            \* "fx", "flow", "dns", ...
    packets, fx_head, fx_count, seen,    \* of FxRing
    entries, f_arrived,              \* of FlowTable
    events, asked                    \* of DnsWindow

fxVars == <<packets, fx_head, fx_count, seen>>
flowVars == <<entries, f_arrived>>
dnsVars == <<events, asked>>
rosterVars == <<activity, roster, r_clock, heard>>
parserVars == <<frame, at, pos, name, reach>>
bodyVars == <<batch, b_at, b_i, b_body, b_pos>>
cpuVars == <<busy, idle, prev_total, prev_idle, read, report>>
fetchVars == <<g_pc, child, g_reply, printed, g_total, ruleset>>

-----------------------------------------------------------------------------
(* Host a tries two ports of c over two protocols and one port of b; host  *)
(* b opens two connections to the same endpoint of c.  Endpoints with the  *)
(* same port share a hash slot.                                            *)
Tuple(src, dst, dport, sport, protocol) ==
    [src |-> src, dst |-> dst, dport |-> dport, sport |-> sport, protocol |-> protocol]

MCFlows == { Tuple("a", "c", 1, 9, "tcp"), Tuple("a", "c", 2, 9, "tcp"),
             Tuple("a", "c", 2, 9, "udp"), Tuple("a", "b", 1, 9, "udp"),
             Tuple("b", "c", 1, 8, "tcp"), Tuple("b", "c", 1, 9, "tcp") }
MCHash == [e \in {<<flow.dst, flow.dport>> : flow \in MCFlows} |-> e[2]]

Fx == INSTANCE FxRing WITH
    Capacity <- 4, SampleMax <- 3, Packets <- {"p", "q", "r"}, MaxPackets <- 8,
    NoPacket <- NoRecord, head <- fx_head, count <- fx_count

Flow == INSTANCE FlowTable WITH
    Capacity <- 4, Flows <- MCFlows, Sizes <- {1, 2}, Hash <- MCHash, MaxPackets <- 5,
    arrived <- f_arrived

Dns == INSTANCE DnsWindow WITH
    Capacity <- 3, Clients <- {"a", "b"}, Domains <- {"x", "y"}, MaxQueries <- 6

MCLan == {"lan1", "lan2", "lan3"}
MCLeases == {<<>>, <<"lan2">>, <<"lan1", "lan3", "lan2">>, <<"wan", "lan1">>}

MCHosts == MCLan \cup {"wan"}

-----------------------------------------------------------------------------
(* Frames cut around every boundary of a header, with every header, and    *)
(* questions with every sequence of up to six bytes for a name; 64 is the  *)
(* smallest byte that is not the length of a label.                        *)
Header(length, type, version, ihl, protocol, dport, qdcount, response, bytes) ==
    [length |-> length, type |-> type, version |-> version, ihl |-> ihl,
     protocol |-> protocol, dport |-> dport, qdcount |-> qdcount,
     response |-> response, bytes |-> bytes]

MCLengths == {0, 13, 14, 33, 34, 37, 38, 41, 42, 45, 46, 53, 54, 57, 58, 60}
MCName(size) == SubSeq(<<1, 2, 0, 2, 2, 0, 1, 2, 0, 0>>, 1, IF size < 0 THEN 0 ELSE size)

AllFrames ==
    { Header(length, type, version, ihl, protocol, dport, qdcount, response,
             MCName(length - (34 + 4 * ihl))) :
        length \in MCLengths, type \in {"ip", "arp"}, version \in {4, 6},
        ihl \in {4, 5, 6}, protocol \in {"tcp", "udp", "icmp"}, dport \in {53, 80},
        qdcount \in {0, 1}, response \in BOOLEAN }
    \cup
    { Header(54 + Len(bytes), "ip", 4, 5, "udp", 53, 1, FALSE, bytes) :
        bytes \in SeqOf({0, 1, 2, 3, 64}, 6) }

MCFrames == AllFrames    \* a name of a constant: TLC evaluates the set once

(* Entries shorter than, as long as and longer than what is reserved.      *)
MCReserve == [dns |-> 5, clients |-> 4, forensics |-> 4]
AllBatches ==
    { [kind |-> kind, header |-> header, events |-> list] :
        kind \in {"dns", "clients"}, header \in {3, 8, 11, 12},
        list \in SeqOf([length : 1..5, known : {TRUE}], 3) }
    \cup
    { [kind |-> "forensics", header |-> header, events |-> list] :
        header \in {3, 8, 11, 12}, list \in SeqOf([length : {1, 3}, known : BOOLEAN], 4) }

MCBatches == AllBatches

(* Replies that fit the buffer, that the pipe helps along, that are longer.*)
AllRulesets == SeqOf({-1, -2, 0, 2}, 5)
MCRulesets == AllRulesets

ASSUME Flow!FlowTableAssumption /\ Dns!DnsWindowAssumption
ASSUME Roster!ClientRosterAssumption /\ Fx!FxRingAssumption /\ PacketWindowAssumption
ASSUME Parser!PacketParserAssumption /\ Body!BatchBodyAssumption
ASSUME Fetch!RulesetFetchAssumption /\ Cpu!CpuGaugeAssumption

-----------------------------------------------------------------------------
(* A parser, a sender and a fetch without work.                            *)
ParserIdle ==
    /\ frame = Header(0, "arp", 4, 5, "tcp", 80, 0, FALSE, <<>>)
    /\ at = "none" /\ pos = 0 /\ name = <<>> /\ reach = 0
BodyIdle == batch = "none" /\ b_at = "none" /\ b_i = 0 /\ b_body = <<>> /\ b_pos = 0
FetchIdle ==
    /\ g_pc = "none" /\ child = "none" /\ g_reply = <<>>
    /\ printed = 0 /\ g_total = 0 /\ ruleset = Fetch!Failure

PartsInit ==
    /\ part \in {"fx", "flow", "dns", "roster", "window", "parser", "body", "cpu", "fetch"}
    /\ Init /\ Fx!Init /\ Flow!Init /\ Dns!Init /\ Roster!Init /\ Cpu!Init
    /\ IF part = "parser" THEN Parser!Init ELSE ParserIdle
    /\ IF part = "body" THEN Body!Init ELSE BodyIdle
    /\ IF part = "fetch" THEN Fetch!Init ELSE FetchIdle

Others(moving) ==
    /\ moving # "fx" => UNCHANGED fxVars
    /\ moving # "flow" => UNCHANGED flowVars
    /\ moving # "dns" => UNCHANGED dnsVars
    /\ moving # "roster" => UNCHANGED rosterVars
    /\ moving # "window" => UNCHANGED vars
    /\ moving # "parser" => UNCHANGED parserVars
    /\ moving # "body" => UNCHANGED bodyVars
    /\ moving # "cpu" => UNCHANGED cpuVars
    /\ moving # "fetch" => UNCHANGED fetchVars

(* The parser or the fetch has returned, the sender has posted or given up.*)
Done ==
    /\ \/ at \in {"ignored", "packet", "query"} \/ b_at \in {"posted", "refused"}
       \/ g_pc = "returned"
    /\ Others("none")

PartsNext ==
    /\ UNCHANGED part
    /\ \/ part = "fx" /\ Fx!Next /\ Others("fx")
       \/ part = "flow" /\ Flow!Next /\ Others("flow")
       \/ part = "dns" /\ Dns!Next /\ Others("dns")
       \/ part = "roster" /\ Roster!Next /\ Others("roster")
       \/ part = "window" /\ Next /\ Others("window")
       \/ part = "parser" /\ Parser!Next /\ Others("parser")
       \/ part = "body" /\ Body!Next /\ Others("body")
       \/ part = "cpu" /\ Cpu!Next /\ Others("cpu")
       \/ part = "fetch" /\ Fetch!Next /\ Others("fetch")
       \/ Done

PartsSpec ==
    PartsInit /\ [][PartsNext]_<<part, vars, fxVars, flowVars, dnsVars, rosterVars,
                                 parserVars, bodyVars, cpuVars, fetchVars>>

-----------------------------------------------------------------------------
(* Every part keeps its shape: a table its capacity, no key listed twice, a*)
(* position its buffer.                                                    *)
PartsTypeOK ==
    /\ part = "fx" => Fx!TypeOK
    /\ part = "flow" => Flow!TypeOK
    /\ part = "dns" => Dns!TypeOK
    /\ part = "roster" => Roster!TypeOK
    /\ part = "window" => TypeOK
    /\ part = "parser" => Parser!TypeOK
    /\ part = "body" => Body!TypeOK
    /\ part = "fetch" => Fetch!TypeOK

(* FxRing!SampleIsLatest: the sample of an alert is the latest packets.    *)
SampleIsLatest == part = "fx" => Fx!SampleIsLatest

(* FlowTable!CountsExact, FlowTable!TopIsBusiest, DnsWindow!CountsExact:   *)
(* the counts survive a full table, and the top talker is a busiest flow.  *)
CountsExact ==
    /\ part = "flow" => Flow!CountsExact /\ Flow!TopIsBusiest
    /\ part = "dns" => Dns!CountsExact

(* FlowTable!FanoutNeverOvercounts and FanoutExact: shared hash slots only *)
(* ever undercount, and without them the scan signal misses nothing.       *)
FanoutSound == part = "flow" => Flow!FanoutNeverOvercounts /\ Flow!FanoutExact
=============================================================================
