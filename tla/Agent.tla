------------------------------- MODULE Agent --------------------------------
(***************************************************************************)
(* The whole agent (src/src/main.c): the capture thread of CaptureLoop and *)
(* the uploader thread of Uploader, joined where the code joins them.  A   *)
(* flush is a call of uploader_submit with the job it made, the end of the *)
(* loop is uploader_stop, a capture error leaves main without it, and a    *)
(* check of the detector uses the ruleset the uploader fetched last.       *)
(***************************************************************************)
EXTENDS Sums, Sequences, FiniteSets

CONSTANTS
    Traffic, NoQuery, NoFlow, NoRecord, StatsSeconds, RulesSeconds,
    MinEndpoints, MaxAlerts, WindowSeconds, WindowCapacity, FlowCapacity,
    DnsCapacity, FxCapacity, FxSample, ActivityCapacity, RosterCapacity,
    OnlineSeconds, Modulus, Hash, Leases, MaxBoot, MaxTime, MaxPackets,
    ClockJumps, Capacity, Rulesets, NoJob, NoRuleset,
    Defaults     \* the thresholds before any ruleset arrived

VARIABLES
    pc, keep_running, clock, window_start, last_rules_sync,
    records, head, count, totals, fx_packets, fx_head, fx_count,
    flows, dns, activity, jobs, arrived, handled, flushed,
    g_queue, g_head, g_count, g_dropped, g_running, g_started, ready,
    mpc, wpc, job, step, thresholds, submitted, taken, last,
    posted       \* history: the messages posted, as <<batch, kind>>

Loop == INSTANCE CaptureLoop WITH
    Thresholds <- Rulesets \cup {Defaults}

Up == INSTANCE Uploader WITH
    MaxJobs <- MaxPackets,
    Shapes <- [alerts : 0..MaxAlerts,
               extras : SUBSET {"dns", "clients", "forensics", "heartbeat", "rules"}]

ASSUME AgentAssumption ==
    Loop!CaptureLoopAssumption /\ Loop!PartsAssumption /\ Up!UploaderAssumption

loop ==
    <<pc, keep_running, clock, window_start, last_rules_sync, records, head,
      count, totals, fx_packets, fx_head, fx_count, flows, dns, activity, jobs,
      arrived, handled, flushed>>
uploader ==
    <<g_queue, g_head, g_count, g_dropped, g_running, g_started, ready, mpc, wpc,
      job, step, thresholds, submitted, taken, last>>
vars == <<loop, uploader, posted>>

-----------------------------------------------------------------------------
(* What run_job will post for a job.                                       *)
ShapeOf(j) ==
    [alerts |-> Len(j.alerts),
     extras |-> {"heartbeat"}
        \cup (IF j.dns # <<>> THEN {"dns"} ELSE {})
        \cup (IF j.clients # <<>> THEN {"clients"} ELSE {})
        \cup (IF j.fx # <<>> THEN {"forensics"} ELSE {})
        \cup (IF j.sync_ruleset THEN {"rules"} ELSE {})]

InForce == IF thresholds = NoRuleset THEN Defaults ELSE thresholds

Init == Loop!Init /\ Up!Init /\ posted = <<>>

Boot == Up!Start /\ UNCHANGED <<loop, posted>>

Quiet ==
    /\ mpc = "loop"
    /\ Loop!Check \/ Loop!IgnoredFrame
    /\ UNCHANGED <<uploader, posted>>

Interrupted ==
    /\ mpc = "loop"
    /\ Loop!Interrupted
    /\ UNCHANGED <<uploader, posted>>

(* A packet, and uploader_submit when it set off a flush.                  *)
Packet ==
    /\ mpc = "loop"
    /\ Loop!PacketUnder({InForce})
    /\ IF jobs' = jobs THEN UNCHANGED uploader
       ELSE Up!SubmitIgnored \/ Up!Submit(ShapeOf(Last(jobs')))
    /\ UNCHANGED posted

CaptureError == Loop!ReceiveFails /\ Up!CaptureError /\ UNCHANGED posted
ProcessEnd == Up!ProcessEnd /\ UNCHANGED <<loop, posted>>

(* uploader_stop, up to pthread_join and from there on.                    *)
StopBegins == pc = "stopping" /\ Up!Stop /\ UNCHANGED <<loop, posted>>
StopEnds == Loop!Stop /\ (Up!Join \/ Up!StopNotStarted) /\ UNCHANGED posted

Worker ==
    /\ Up!Wait \/ Up!Leave \/ Up!Take \/ Up!Return
    /\ UNCHANGED <<loop, posted>>

Posts ==
    /\ Up!Post
    /\ posted' = Append(posted, <<job.id, Up!Messages(job)[step]>>)
    /\ UNCHANGED loop

SpuriousWakeUp == Up!SpuriousWakeUp /\ UNCHANGED <<loop, posted>>

(* Signals and time, until the process is over.                            *)
Over == mpc \in {"exit", "dead"}

Outside == ~Over /\ (Loop!Signal \/ Loop!Tick) /\ UNCHANGED <<uploader, posted>>

Terminated == Over /\ UNCHANGED vars

Next ==
    \/ Boot \/ Quiet \/ Interrupted \/ Packet \/ CaptureError \/ ProcessEnd
    \/ StopBegins \/ StopEnds \/ Worker \/ Posts \/ SpuriousWakeUp
    \/ Outside \/ Terminated

Spec == Init /\ [][Next]_vars

(* Both threads run, frames keep arriving, and a post returns.             *)
FairSpec ==
    /\ Spec
    /\ WF_vars(Boot) /\ WF_vars(Quiet \/ Packet)
    /\ WF_vars(StopBegins) /\ WF_vars(StopEnds) /\ WF_vars(ProcessEnd)
    /\ WF_vars(Worker \/ Posts)

-----------------------------------------------------------------------------
(* A batch leaves the ring unsent only when it has waited for Capacity     *)
(* windows, so a request for a ruleset is lost only when the uploader has  *)
(* not come to it for that long (20 s), and an uploader that keeps that    *)
(* pace loses no telemetry.                                                *)
Waiting == {Up!Pending[i].id : i \in 1..g_count}

DroppedOnlyWhenOld ==
    [][taken' = taken =>
          \A id \in Waiting \ Waiting' :
              clock - jobs[id].at >= Capacity * StatsSeconds]_vars

(* What the backend is told never exceeds what was seen, whichever batches *)
(* were dropped and whichever posts failed or were counted by the backend  *)
(* all the same: queries are never reported twice, and the packets of the  *)
(* traffic windows exceed those handled by at most one per later window.   *)
Told(kind, n(_)) ==
    SumOf([i \in DOMAIN posted |-> IF posted[i][2] = kind THEN n(jobs[posted[i][1]]) ELSE 0])

BackendNeverOvercounts ==
    /\ \A client \in Loop!Addresses, domain \in Loop!Domains :
          Told("dns", LAMBDA j : Loop!Reported(j.dns, client, domain))
             <= HowMany(handled, LAMBDA p : p.flow.src = client /\ p.query = domain)
    /\ LET windows == Told("traffic", LAMBDA j : 1)
       IN  windows > 0 => Told("traffic", LAMBDA j : j.stats["total_packets"])
                             <= flushed + windows - 1

(* A signal ends the process, as long as frames arrive and posts return:   *)
(* through the loop, uploader_stop, the batch in flight and the join.      *)
SignalEndsProcess == ~keep_running ~> Over
=============================================================================
