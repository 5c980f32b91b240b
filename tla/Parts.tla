------------------------------- MODULE Parts --------------------------------
(***************************************************************************)
(* The parts of the agent that work on their own and that are small enough *)
(* to be stated side by side: the parser of frames, the bodies of messages,*)
(* the fetch of a ruleset, the CPU percentage of the heartbeat, and the    *)
(* roster of clients.  Each keeps its module; here their parameters and    *)
(* variables get names that do not clash, so that one model and one body of*)
(* proofs can be about all.                                                *)
(***************************************************************************)
EXTENDS Integers

CONSTANTS
    NameSize, Frames, Dot,                             \* of PacketParser
    BodySize, Reserve, Batches,                        \* of BatchBody
    BodyMax, PipeSize, Rulesets,                       \* of RulesetFetch
    WordModulus, IntModulus, IowaitGoesBack, MaxTicks, \* of CpuGauge
    Hosts, Private, ActivityMax, ClientMax, OnlineSeconds, Leases,
    RosterTime                                         \* of ClientRoster

VARIABLES
    frame, at, pos, name, reach,                       \* of PacketParser
    batch, b_at, b_i, b_body, b_pos,                   \* of BatchBody
    g_pc, child, g_reply, printed, g_total, ruleset,   \* of RulesetFetch
    busy, idle, prev_total, prev_idle, read, report,   \* of CpuGauge
    activity, roster, r_clock, heard                   \* of ClientRoster

Parser == INSTANCE PacketParser
Body == INSTANCE BatchBody WITH
    Size <- BodySize, at <- b_at, i <- b_i, body <- b_body, pos <- b_pos
Fetch == INSTANCE RulesetFetch WITH
    Replies <- Rulesets, pc <- g_pc, reply <- g_reply, total <- g_total
Cpu == INSTANCE CpuGauge
Roster == INSTANCE ClientRoster WITH
    Addresses <- Hosts, MaxTime <- RosterTime, clock <- r_clock

-----------------------------------------------------------------------------
(* PacketParser!ParsesExactly: no frame is read past its end, no name past *)
(* the end of dns_qname, and exactly the questions with a name are queries.*)
ParsesExactly == Parser!ParsesExactly

(* BatchBody!CutsOnlyTheTail: a message that is posted is well formed and  *)
(* lacks only events at its end, and only for want of room.                *)
CutsOnlyTheTail == Body!CutsOnlyTheTail

(* RulesetFetch!RulesetsAreWhole: a fetch that succeeds yields the ruleset *)
(* of the backend, whatever became of the transfer.                        *)
RulesetsAreWhole == Fetch!RulesetsAreWhole

(* CpuGauge!ReportsBusyShare: a heartbeat tells the share of busy time     *)
(* since the heartbeat before.                                             *)
ReportsBusyShare == Cpu!ReportsBusyShare

(* ClientRoster!StalestEvicted: a full table loses whom it saw longest ago.*)
StalestEvicted == Roster!StalestEvicted

(* ClientRoster!OnlineIsHonest: a mark of online is never out of date.     *)
OnlineIsHonest == Roster!OnlineIsHonest
=============================================================================
