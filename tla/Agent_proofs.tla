---------------------------- MODULE Agent_proofs ----------------------------
(***************************************************************************)
(* Proofs about the whole agent: it runs the capture loop and the uploader *)
(* as their modules have them, so that what is proved of each holds in the *)
(* process, and what follows from both together.                           *)
(***************************************************************************)
EXTENDS Agent, Integers, SequenceTheorems, TLAPS

(* The two parts with their lemmas and theorems.                           *)
LoopProofs == INSTANCE CaptureLoop_proofs WITH
    Thresholds <- Rulesets \cup {Defaults}

UpProofs == INSTANCE Uploader_proofs WITH
    MaxJobs <- MaxPackets,
    Shapes <- [alerts : 0..MaxAlerts,
               extras : SUBSET {"dns", "clients", "forensics", "heartbeat", "rules"}]

-----------------------------------------------------------------------------
(* The thresholds in force are a ruleset or the defaults.                  *)
ThresholdsKnown == thresholds \in Rulesets \cup {NoRuleset}

(* Every step leaves a ruleset or the defaults in force.                   *)
LEMMA ThresholdsStep == ThresholdsKnown /\ [Next]_vars => ThresholdsKnown'
<1> SUFFICES ASSUME ThresholdsKnown, [Next]_vars PROVE ThresholdsKnown'
  OBVIOUS
<1>1. CASE UNCHANGED thresholds
  BY <1>1 DEF ThresholdsKnown
<1>2. thresholds' = thresholds \/ thresholds' \in Rulesets
  BY DEF Next, vars, uploader, Boot, Quiet, Interrupted, Packet, CaptureError, ProcessEnd,
         StopBegins, StopEnds, Worker, Posts, SpuriousWakeUp, Outside, Terminated,
         Up!Start, Up!SubmitIgnored, Up!Submit, Up!StopNotStarted, Up!Stop, Up!Join,
         Up!CaptureError, Up!ProcessEnd, Up!Wait, Up!SpuriousWakeUp, Up!Leave, Up!Take,
         Up!Post, Up!Return
<1> QED
  BY <1>1, <1>2 DEF ThresholdsKnown

(* A packet handled under the ruleset in force is a packet handled under   *)
(* some ruleset or the defaults.                                           *)
LEMMA PacketIsFrame == ThresholdsKnown /\ Loop!PacketUnder({InForce}) => Loop!PacketFrame
<1> SUFFICES ASSUME ThresholdsKnown, Loop!PacketUnder({InForce}) PROVE Loop!PacketFrame
  OBVIOUS
<1>1. InForce \in Rulesets \cup {Defaults}
  BY DEF ThresholdsKnown, InForce
<1>2. ASSUME NEW table, NEW queries, Loop!Flush(table, queries, {InForce})
      PROVE  Loop!Flush(table, queries, Rulesets \cup {Defaults})
  BY <1>1, <1>2, Zenon DEF Loop!Flush
<1>3. ASSUME NEW packet, Loop!Handle(packet, {InForce})
      PROVE  Loop!Handle(packet, Rulesets \cup {Defaults})
  BY <1>2, <1>3, Zenon DEF Loop!Handle
<1> QED
  BY <1>3, Zenon DEF Loop!PacketFrame, Loop!PacketUnder

(* Each step of the agent is one of the capture loop or none of its        *)
(* business.                                                               *)
LEMMA LoopStep == ThresholdsKnown /\ [Next]_vars => [Loop!Next]_(Loop!vars)
<1> SUFFICES ASSUME ThresholdsKnown, Next PROVE [Loop!Next]_(Loop!vars)
  BY Zenon DEF vars, loop, Loop!vars, Loop!windows, Loop!tables
<1>1. UNCHANGED loop => UNCHANGED Loop!vars
  BY DEF loop, Loop!vars, Loop!windows, Loop!tables
<1> QED
  BY <1>1, PacketIsFrame, Zenon
     DEF Next, vars, Boot, Quiet, Interrupted, Packet, CaptureError, ProcessEnd,
         StopBegins, StopEnds, Worker, Posts, SpuriousWakeUp, Outside, Terminated,
         Loop!Next, Loop!Main, Loop!Frame

(* The agent runs the capture loop.                                        *)
THEOREM LoopRuns == Spec => Loop!Spec
<1>1. Init => ThresholdsKnown
  BY DEF Init, Up!Init, Up!BootRulesets, ThresholdsKnown
<1> QED
  BY <1>1, ThresholdsStep, LoopStep, PTL DEF Spec, Init, Loop!Spec
-----------------------------------------------------------------------------
(* The loop that the lemmas are about is the loop of the agent: its parts  *)
(* do the same.                                                            *)
LEMMA SameTables ==
    ASSUME NEW table, NEW packet, NEW p
    PROVE  /\ Loop!Table!AddedTo(table, packet) = LoopProofs!Table!AddedTo(table, packet)
           /\ Loop!Table!Top(table, p) = LoopProofs!Table!Top(table, p)
           /\ Loop!Table!ScanFanout(table) = LoopProofs!Table!ScanFanout(table)
           /\ Loop!Dns!AddedTo(table, packet) = LoopProofs!Dns!AddedTo(table, packet)
BY Zenon
      DEF Loop!Table!AddedTo, LoopProofs!Table!AddedTo, Loop!Table!Matches,
       LoopProofs!Table!Matches, Loop!Table!Min, LoopProofs!Table!Min, Loop!Table!Max,
       LoopProofs!Table!Max, Loop!Table!Top, LoopProofs!Table!Top, Loop!Table!Candidates,
       LoopProofs!Table!Candidates, Loop!Table!ScanFanout, LoopProofs!Table!ScanFanout,
       Loop!Table!FreshBits, LoopProofs!Table!FreshBits, Loop!Table!From,
       LoopProofs!Table!From, Loop!Table!Endpoint, LoopProofs!Table!Endpoint,
       Loop!Table!Cardinality, LoopProofs!Table!Cardinality, Loop!Dns!AddedTo,
       LoopProofs!Dns!AddedTo, Loop!Dns!Matches, LoopProofs!Dns!Matches, Loop!Dns!Full,
       LoopProofs!Dns!Full, Loop!Dns!Min, LoopProofs!Dns!Min

(* So do the activity table and the roster.                                *)
LEMMA SameRoster ==
    ASSUME NEW table, NEW ip, NEW now, NEW leases
    PROVE  /\ Loop!Roster!Touched(table, ip, now) = LoopProofs!Roster!Touched(table, ip, now)
           /\ Loop!Roster!Collected(leases, table, now)
                 = LoopProofs!Roster!Collected(leases, table, now)
BY Zenon
      DEF Loop!Addresses, LoopProofs!Addresses, Loop!Flows, LoopProofs!Flows,
       Loop!Roster!Touched, LoopProofs!Roster!Touched, Loop!Roster!At, LoopProofs!Roster!At,
       Loop!Roster!Oldest, LoopProofs!Roster!Oldest, Loop!Roster!Min, LoopProofs!Roster!Min,
       Loop!Roster!Collected, LoopProofs!Roster!Collected, Loop!Roster!Fitting,
       LoopProofs!Roster!Fitting, Loop!Roster!Online, LoopProofs!Roster!Online,
       Loop!Roster!WithinWindow, LoopProofs!Roster!WithinWindow

(* So do the two rings.                                                    *)
LEMMA SameRings ==
    ASSUME NEW packet, NEW now, NEW n
    PROVE  /\ Loop!Window!Push(packet, now) <=> LoopProofs!Window!Push(packet, now)
           /\ Loop!Fx!Push(packet) <=> LoopProofs!Fx!Push(packet)
           /\ (Loop!Fx!Recent(n))' = (LoopProofs!Fx!Recent(n))'
           /\ Loop!Window!WindowInit <=> LoopProofs!Window!WindowInit
<1>1. Loop!Window!Push(packet, now) <=> LoopProofs!Window!Push(packet, now)
  BY Zenon
      DEF Loop!Window!Push, LoopProofs!Window!Push, Loop!Window!Popped,
       LoopProofs!Window!Popped, Loop!Window!ExpiredPrefix, LoopProofs!Window!ExpiredPrefix,
       Loop!Window!Expired, LoopProofs!Window!Expired, Loop!Window!Live,
       LoopProofs!Window!Live, Loop!Window!Saturated, LoopProofs!Window!Saturated,
       Loop!Window!Advanced, LoopProofs!Window!Advanced, Loop!Window!Aggregate,
       LoopProofs!Window!Aggregate, Loop!Window!Counters, LoopProofs!Window!Counters,
       Loop!Window!Share, LoopProofs!Window!Share, Loop!Window!FoldLeft,
       LoopProofs!Window!FoldLeft, Loop!Window!MapThenFoldSet,
       LoopProofs!Window!MapThenFoldSet, Loop!Window!Max, LoopProofs!Window!Max
<1>2. /\ Loop!Fx!Push(packet) <=> LoopProofs!Fx!Push(packet)
      /\ (Loop!Fx!Recent(n))' = (LoopProofs!Fx!Recent(n))'
  BY Zenon
      DEF Loop!Fx!Push, LoopProofs!Fx!Push, Loop!Fx!NextHead, LoopProofs!Fx!NextHead,
       Loop!Fx!Recent, LoopProofs!Fx!Recent, Loop!Fx!Backwards, LoopProofs!Fx!Backwards,
       Loop!Fx!Min, LoopProofs!Fx!Min
<1>3. Loop!Window!WindowInit <=> LoopProofs!Window!WindowInit
  BY Zenon
      DEF Loop!Window!WindowInit, LoopProofs!Window!WindowInit, Loop!Window!Counters,
       LoopProofs!Window!Counters
<1> QED
  BY <1>1, <1>2, <1>3

(* A packet is handled alike.                                              *)
LEMMA SamePacket == Loop!PacketFrame => LoopProofs!PacketFrame
<1>1. ASSUME NEW packet, Loop!Handle(packet, Rulesets \cup {Defaults})
      PROVE  LoopProofs!Handle(packet, Rulesets \cup {Defaults})
  <2>1. ASSUME NEW table, NEW queries, Loop!Flush(table, queries, Rulesets \cup {Defaults})
        PROVE  LoopProofs!Flush(table, queries, Rulesets \cup {Defaults})
    <3>1. ASSUME NEW stats, NEW t, NEW leases, NEW sync
          PROVE  Loop!Job(stats, table, queries, t, leases, sync)
                    = LoopProofs!Job(stats, table, queries, t, leases, sync)
      <4>1. Loop!ThresholdAlerts(stats, table, t) = LoopProofs!ThresholdAlerts(stats, table, t)
        <5>1. \A p : Loop!TopFlow(table, p) = LoopProofs!TopFlow(table, p)
          <6>1. ASSUME NEW p PROVE Loop!Table!Top(table, p) = LoopProofs!Table!Top(table, p)
            BY SameTables
          <6> QED
            BY <6>1 DEF Loop!TopFlow, LoopProofs!TopFlow
        <5>2. Loop!Verdicts(stats, t) = LoopProofs!Verdicts(stats, t)
          BY Zenon
             DEF Loop!Verdicts, LoopProofs!Verdicts, Loop!Measured, LoopProofs!Measured
        <5> QED
          BY <5>1, <5>2, Zenon DEF Loop!ThresholdAlerts, LoopProofs!ThresholdAlerts
      <4>2. ASSUME NEW a PROVE Loop!WithScan(a, table) = LoopProofs!WithScan(a, table)
        <5>1. Loop!Table!ScanFanout(table) = LoopProofs!Table!ScanFanout(table)
          BY SameTables
        <5> QED
          BY <5>1, Zenon DEF Loop!WithScan, LoopProofs!WithScan
      <4> QED
        BY <4>1, <4>2, SameRings, SameRoster, Zenon DEF Loop!Job, LoopProofs!Job
    <3> QED
      BY <2>1, <3>1, Zenon
          DEF Loop!Flush, LoopProofs!Flush, Loop!SyncDue, LoopProofs!SyncDue, Loop!SyncedAt,
       LoopProofs!SyncedAt, Loop!FlowsAfter, LoopProofs!FlowsAfter, Loop!QueriesAfter,
       LoopProofs!QueriesAfter, Loop!Table!Cleared, LoopProofs!Table!Cleared,
       Loop!Dns!Cleared, LoopProofs!Dns!Cleared
  <2> QED
    BY <1>1, <2>1, SameTables, SameRings, SameRoster, Zenon
          DEF Loop!Handle, LoopProofs!Handle, Loop!Due, LoopProofs!Due, Loop!windows,
       LoopProofs!windows
<1> QED
  BY <1>1, Zenon
          DEF Loop!PacketFrame, LoopProofs!PacketFrame, Loop!PacketUnder, LoopProofs!PacketUnder

(* And so is everything else.                                              *)
LEMMA SameLoop == Loop!Spec => LoopProofs!Spec
<1>1. Loop!Init => LoopProofs!Init
  BY SameRings, Zenon DEF Loop!Init, LoopProofs!Init
<1>2. [Loop!Next]_(Loop!vars) => [LoopProofs!Next]_(LoopProofs!vars)
  BY SamePacket, Zenon
          DEF Loop!Next, LoopProofs!Next, Loop!Main, LoopProofs!Main, Loop!Frame,
       LoopProofs!Frame, Loop!Check, LoopProofs!Check, Loop!GoesOn, LoopProofs!GoesOn,
       Loop!IgnoredFrame, LoopProofs!IgnoredFrame, Loop!Stop, LoopProofs!Stop,
       Loop!Interrupted, LoopProofs!Interrupted, Loop!ReceiveFails, LoopProofs!ReceiveFails,
       Loop!Signal, LoopProofs!Signal, Loop!Tick, LoopProofs!Tick, Loop!Over,
       LoopProofs!Over, Loop!Terminated, LoopProofs!Terminated, Loop!vars, LoopProofs!vars,
       Loop!windows, LoopProofs!windows, Loop!tables, LoopProofs!tables
<1> QED
  BY <1>1, <1>2, PTL DEF Loop!Spec, LoopProofs!Spec

(* What the parts assume of their constants the agent assumes.             *)
LEMMA LoopAssumptions == LoopProofs!CaptureLoopAssumption /\ LoopProofs!PartsAssumption
BY AgentAssumption, Zenon
   DEF AgentAssumption, Loop!CaptureLoopAssumption, LoopProofs!CaptureLoopAssumption,
       Loop!PartsAssumption, LoopProofs!PartsAssumption,
       Loop!Window!PacketWindowAssumption, LoopProofs!Window!PacketWindowAssumption,
       Loop!Window!Record, LoopProofs!Window!Record, Loop!Window!Protocols,
       LoopProofs!Window!Protocols,
       Loop!Table!FlowTableAssumption, LoopProofs!Table!FlowTableAssumption,
       Loop!Table!Protocols, LoopProofs!Table!Protocols,
       Loop!Dns!DnsWindowAssumption, LoopProofs!Dns!DnsWindowAssumption,
       Loop!Fx!FxRingAssumption, LoopProofs!Fx!FxRingAssumption,
       Loop!Flows, LoopProofs!Flows, Loop!Sizes, LoopProofs!Sizes, Loop!Addresses,
       LoopProofs!Addresses, Loop!Domains, LoopProofs!Domains, Loop!Range, LoopProofs!Range,
       Loop!Table!Endpoint, LoopProofs!Table!Endpoint, Loop!IsFiniteSet, LoopProofs!IsFiniteSet

(* The invariants of the capture loop on which the agent's own rest.       *)
LoopInv ==
    /\ LoopProofs!RingsInv /\ LoopProofs!TablesInv /\ LoopProofs!JobsInv
    /\ LoopProofs!ReportedInv
    /\ LoopProofs!SpacedInv

(* What is proved of the capture loop holds in the agent.                  *)
LEMMA LoopInvariant == Spec => []LoopInv
<1>1. LoopProofs!Spec => []LoopProofs!RingsInv
  BY LoopAssumptions, LoopProofs!RingsInvariant
<1>2. LoopProofs!Spec => [](LoopProofs!PlaceInv /\ LoopProofs!TablesInv /\ LoopProofs!JobsInv)
  BY LoopAssumptions, LoopProofs!ShapesInvariant
<1>3. LoopProofs!Spec => []LoopProofs!ReportedInv
  BY LoopAssumptions, LoopProofs!ReportedInvariant
<1>4. LoopProofs!Spec => []LoopProofs!SpacedInv
  BY LoopAssumptions, LoopProofs!SpacedInvariant
<1> QED
  BY <1>1, <1>2, <1>3, <1>4, LoopRuns, SameLoop, PTL DEF LoopInv

-----------------------------------------------------------------------------
(* The uploader that the lemmas are about is the uploader of the agent.    *)
LEMMA SameUploader == Up!Spec => UpProofs!Spec
<1>1. Up!Init => UpProofs!Init
  BY Zenon DEF Up!Init, UpProofs!Init, Up!BootRulesets, UpProofs!BootRulesets
<1>2. [Up!Next]_(Up!vars) => [UpProofs!Next]_(UpProofs!vars)
  BY Zenon
     DEF Up!Init, UpProofs!Init, Up!Start, UpProofs!Start, Up!SubmitIgnored,
         UpProofs!SubmitIgnored, Up!Submit, UpProofs!Submit, Up!DropOldest,
         UpProofs!DropOldest, Up!StopNotStarted, UpProofs!StopNotStarted, Up!Stop,
         UpProofs!Stop, Up!Join, UpProofs!Join, Up!JoinReturns, UpProofs!JoinReturns,
         Up!CaptureError, UpProofs!CaptureError, Up!ProcessEnd, UpProofs!ProcessEnd,
         Up!Wait, UpProofs!Wait, Up!MustWait, UpProofs!MustWait, Up!SpuriousWakeUp,
         UpProofs!SpuriousWakeUp, Up!Leave, UpProofs!Leave, Up!Leaves, UpProofs!Leaves,
         Up!Take, UpProofs!Take, Up!Oldest, UpProofs!Oldest, Up!Post, UpProofs!Post,
         Up!GoOn, UpProofs!GoOn, Up!Messages, UpProofs!Messages, Up!Optional,
         UpProofs!Optional, Up!Return, UpProofs!Return, Up!Terminated,
         UpProofs!Terminated, Up!Main, UpProofs!Main, Up!Worker, UpProofs!Worker, Up!Next,
         UpProofs!Next, Up!vars, UpProofs!vars, Up!ring, UpProofs!ring, Up!lifecycle,
         UpProofs!lifecycle, Up!history, UpProofs!history, Up!Signalled,
         UpProofs!Signalled, Up!BootRulesets, UpProofs!BootRulesets
<1> QED
  BY <1>1, <1>2, PTL DEF Up!Spec, UpProofs!Spec

(* So are its batches.                                                     *)
LEMMA SameBatches ==
    /\ \A j : Up!Messages(j) = UpProofs!Messages(j)
    /\ Up!Pending = UpProofs!Pending
    /\ UpProofs!UploaderAssumption
BY AgentAssumption, Zenon
   DEF AgentAssumption, Up!Messages, UpProofs!Messages, Up!Optional, UpProofs!Optional,
       Up!Pending, UpProofs!Pending, Up!UploaderAssumption, UpProofs!UploaderAssumption,
       Up!Job, UpProofs!Job, Up!Extras, UpProofs!Extras

(* What is proved of the uploader holds of it.                             *)
LEMMA UploaderInvariant == Up!Spec => []UpProofs!IInv
<1>1. UpProofs!Spec => []UpProofs!IInv
  BY SameBatches, UpProofs!Invariance
<1> QED
  BY <1>1, SameUploader, PTL

(* A packet that sets off a flush leaves one job more, made now.           *)
LEMMA FlushIs ==
    ASSUME LoopInv, Loop!PacketUnder({InForce}), jobs' # jobs
    PROVE  /\ Len(jobs) \in Nat /\ Len(jobs') = Len(jobs) + 1
           /\ DOMAIN jobs = 1..Len(jobs) /\ DOMAIN jobs' = 1..(Len(jobs) + 1)
           /\ \A i \in 1..Len(jobs) : jobs'[i] = jobs[i]
           /\ Last(jobs') = jobs'[Len(jobs) + 1]
           /\ window_start' = clock /\ clock' = clock
<1>1. PICK packet : Loop!Handle(packet, {InForce})
  BY Zenon DEF Loop!PacketUnder
<1>2. PICK table, queries : Loop!Flush(table, queries, {InForce})
  BY <1>1, Zenon DEF Loop!Handle, Loop!windows
<1>3. PICK j : jobs' = Append(jobs, j)
  BY <1>2, Zenon DEF Loop!Flush
<1>4. window_start' = clock /\ clock' = clock
  BY <1>2 DEF Loop!Flush, Loop!PacketUnder
<1>5. LoopProofs!IsSeq(jobs)
  BY DEF LoopInv, LoopProofs!JobsInv
<1>6. /\ Len(jobs) \in Nat /\ Len(Append(jobs, j)) = Len(jobs) + 1
      /\ DOMAIN jobs = 1..Len(jobs) /\ DOMAIN Append(jobs, j) = 1..(Len(jobs) + 1)
      /\ \A i \in 1..Len(jobs) : Append(jobs, j)[i] = jobs[i]
  BY <1>5, LoopAssumptions, LoopProofs!OneMore
<1> QED
  BY <1>3, <1>4, <1>6 DEF Last

(* Every other step leaves the jobs as they are.                           *)
LEMMA JobsStay ==
    ASSUME [Next]_vars, ~Packet
    PROVE  jobs' = jobs
BY DEF Next, vars, loop, Boot, Quiet, Interrupted, CaptureError, ProcessEnd, StopBegins,
       StopEnds, Worker, Posts, SpuriousWakeUp, Outside, Terminated, Loop!Check,
       Loop!IgnoredFrame, Loop!Interrupted, Loop!ReceiveFails, Loop!Stop, Loop!Signal,
       Loop!Tick, Loop!windows

(* Each step of the agent is one of the uploader or none of its business:  *)
(* the batches that flushes hand over have the shape it expects.           *)
LEMMA UploaderStep == LoopInv /\ LoopInv' /\ [Next]_vars => [Up!Next]_(Up!vars)
<1> SUFFICES ASSUME LoopInv, LoopInv', [Next]_vars PROVE [Up!Next]_(Up!vars)
  OBVIOUS
<1>1. UNCHANGED uploader => UNCHANGED Up!vars
  BY DEF uploader, Up!vars, Up!ring, Up!lifecycle, Up!history
<1>2. CASE Packet
  <2>1. CASE jobs' = jobs
    BY <1>1, <1>2, <2>1 DEF Packet
  <2>2. CASE jobs' # jobs
    <3>1. /\ Len(jobs) \in Nat /\ Last(jobs') = jobs'[Len(jobs) + 1]
          /\ DOMAIN jobs' = 1..(Len(jobs) + 1)
      BY <1>2, <2>2, FlushIs DEF Packet
    <3>2. Len(jobs) + 1 \in DOMAIN jobs'
      BY <3>1
    <3>3. LoopProofs!JobFits(jobs'[Len(jobs) + 1])
      BY <3>2 DEF LoopInv, LoopProofs!JobsInv, LoopProofs!JobFits
    <3>4. ShapeOf(Last(jobs')) \in
             [alerts : 0..MaxAlerts,
              extras : SUBSET {"dns", "clients", "forensics", "heartbeat", "rules"}]
      BY <3>1, <3>3 DEF ShapeOf, LoopProofs!JobFits
    <3>5. Up!SubmitIgnored \/ Up!Submit(ShapeOf(Last(jobs')))
      BY <1>2, <2>2 DEF Packet
    <3> QED
      BY <3>4, <3>5, Zenon DEF Up!Next, Up!Main
  <2> QED
    BY <2>1, <2>2
<1>3. CASE ~Packet
  BY <1>1, <1>3, Zenon
     DEF Next, vars, Boot, Quiet, Interrupted, CaptureError, ProcessEnd, StopBegins, StopEnds,
         Worker, Posts, SpuriousWakeUp, Outside, Terminated, Up!Next, Up!Main, Up!Worker
<1> QED
  BY <1>2, <1>3

(* The agent runs the uploader.                                            *)
THEOREM UploaderRuns == Spec => Up!Spec
<1>1. LoopInv /\ LoopInv' /\ [Next]_vars => [Up!Next]_(Up!vars)
  BY UploaderStep
<1> QED
  BY <1>1, LoopInvariant, PTL DEF Spec, Init, Up!Spec

-----------------------------------------------------------------------------
(* The jobs are the batches, and what was posted: of each batch at most one*)
(* message of the two kinds that carry counts, batches in their order, and *)
(* of the batch in flight only messages before the next one.               *)
PostsInv ==
    /\ submitted = Len(jobs)
    /\ UpProofs!PostedInOrder(posted, last)
    /\ wpc = "run" => UpProofs!PostedBefore(posted, job, step)

(* A batch of which nothing was posted is newer than the last one posted.  *)
LEMMA BegunIsNewer ==
    UpProofs!IInv /\ wpc = "run" => /\ job.id \in Nat \ {0}
                                    /\ step = 1 => last[1] < job.id
<1> SUFFICES ASSUME UpProofs!IInv, wpc = "run"
             PROVE  job.id \in Nat \ {0} /\ (step = 1 => last[1] < job.id)
  OBVIOUS
<1> QED
  BY SameBatches, UpProofs!InFlightIs

(* Posting a message keeps all that.                                       *)
LEMMA PostKeeps ==
    ASSUME UpProofs!IInv, PostsInv, Posts
    PROVE  PostsInv'
<1>1. /\ wpc = "run" /\ wpc' = "run" /\ job' = job /\ step' = step + 1
      /\ step <= Len(Up!Messages(job)) /\ last' = <<job.id, step>>
      /\ submitted' = submitted /\ jobs' = jobs
      /\ posted' = Append(posted, <<job.id, Up!Messages(job)[step]>>)
  BY DEF Posts, Up!Post, Up!GoOn, Up!ring, Up!lifecycle, loop
<1>2. Up!Messages(job) = UpProofs!Messages(job)
  BY SameBatches
<1>3. /\ step <= Len(UpProofs!Messages(job))
      /\ posted' = Append(posted, <<job.id, UpProofs!Messages(job)[step]>>)
  BY <1>1, <1>2
<1>4. /\ UpProofs!PostedInOrder(posted', <<job.id, step>>)
      /\ UpProofs!PostedBefore(posted', job, step + 1)
  BY <1>1, <1>3, SameBatches, UpProofs!PostedOnce DEF PostsInv
<1>5. submitted' = Len(jobs')
  BY <1>1 DEF PostsInv
<1>6. UpProofs!PostedInOrder(posted, last)'
  BY <1>1, <1>4 DEF UpProofs!PostedInOrder
<1>7. UpProofs!Messages(job)' = UpProofs!Messages(job)
  BY <1>1 DEF UpProofs!Messages, UpProofs!Optional
<1>8. UpProofs!PostedBefore(posted, job, step)'
  BY <1>1, <1>4, <1>7 DEF UpProofs!PostedBefore
<1> QED
  BY <1>5, <1>6, <1>8 DEF PostsInv

(* A step that posts nothing and takes no batch, or takes a newer batch    *)
(* than any posted, keeps it too.                                          *)
LEMMA NothingPosted ==
    ASSUME PostsInv, posted' = posted, last' = last, submitted' = Len(jobs'), last[1] \in Nat,
           wpc' = "run" => \/ wpc = "run" /\ job' = job /\ step' = step
                           \/ job'.id \in Nat /\ last[1] < job'.id
    PROVE  PostsInv'
<1>1. ASSUME wpc' = "run", NEW i \in 1..Len(posted), posted[i][1] = job'.id
      PROVE  \E a \in 1..(step' - 1) : posted[i][2] = UpProofs!Messages(job)'[a]
  <2>1. posted[i][1] \in 1..last[1]
    BY DEF PostsInv, UpProofs!PostedInOrder
  <2>2. ~(last[1] < job'.id)
    BY <1>1, <2>1
  <2>3. wpc = "run" /\ job' = job /\ step' = step
    BY <1>1, <2>2
  <2>4. UpProofs!Messages(job)' = UpProofs!Messages(job)
    BY <2>3 DEF UpProofs!Messages, UpProofs!Optional
  <2> QED
    BY <1>1, <2>3, <2>4 DEF PostsInv, UpProofs!PostedBefore
<1> QED
  BY <1>1, Zenon DEF PostsInv, UpProofs!PostedInOrder, UpProofs!PostedBefore

(* Every step keeps it.                                                    *)
LEMMA PostsStep == LoopInv /\ UpProofs!IInv /\ UpProofs!IInv' /\ PostsInv /\ [Next]_vars => PostsInv'
<1> SUFFICES ASSUME LoopInv, UpProofs!IInv, UpProofs!IInv', PostsInv, [Next]_vars
             PROVE  PostsInv'
  OBVIOUS
<1>1. submitted = Len(jobs) /\ last[1] \in Nat
  BY DEF PostsInv, UpProofs!IInv, UpProofs!TypeOK
<1>2. CASE Posts
  BY <1>2, PostKeeps
<1>3. CASE Packet
  <2>1. CASE jobs' = jobs
    BY <1>1, <1>3, <2>1, NothingPosted DEF Packet, uploader
  <2>2. CASE jobs' # jobs
    <3>1. Len(jobs') = Len(jobs) + 1
      BY <1>3, <2>2, FlushIs DEF Packet
    <3>2. /\ submitted' = submitted + 1 /\ last' = last /\ job' = job /\ step' = step
          /\ posted' = posted /\ (wpc' = "run" => wpc = "run")
      BY <1>3, <2>2
         DEF Packet, Up!SubmitIgnored, Up!Submit, Up!Signalled, Up!lifecycle, Up!ring
    <3> QED
      BY <1>1, <3>1, <3>2, NothingPosted
  <2> QED
    BY <2>1, <2>2
<1>4. CASE Up!Take /\ UNCHANGED <<loop, posted>>
  <2>1. /\ step' = 1 /\ wpc' = "run" /\ last' = last /\ submitted' = submitted
        /\ jobs' = jobs /\ posted' = posted
    BY <1>4 DEF Up!Take, loop
  <2>2. (UpProofs!IInv /\ wpc = "run" => /\ job.id \in Nat \ {0}
                                         /\ step = 1 => last[1] < job.id)'
    BY BegunIsNewer, PTL
  <2> QED
    BY <1>1, <2>1, <2>2, NothingPosted
<1>5. CASE ~Posts /\ ~Packet /\ ~(Up!Take /\ UNCHANGED <<loop, posted>>)
  <2>1. jobs' = jobs
    BY <1>5, JobsStay
  <2>2. /\ posted' = posted /\ last' = last /\ submitted' = submitted
        /\ job' = job /\ step' = step /\ (wpc' = "run" => wpc = "run")
    BY <1>5
       DEF Next, vars, loop, uploader, Boot, Quiet, Interrupted, CaptureError, ProcessEnd,
           StopBegins, StopEnds, Worker, SpuriousWakeUp, Outside, Terminated,
           Up!Start, Up!StopNotStarted, Up!Stop, Up!Join, Up!CaptureError, Up!ProcessEnd,
           Up!Wait, Up!SpuriousWakeUp, Up!Leave, Up!Return, Up!Signalled,
           Up!ring, Up!lifecycle, Up!history
  <2> QED
    BY <1>1, <2>1, <2>2, NothingPosted
<1> QED
  BY <1>2, <1>3, <1>4, <1>5

(* What the proofs know of the agent: its posts, and both of its parts.    *)
AgentInv == LoopInv /\ UpProofs!IInv /\ PostsInv

(* It holds from the start on.                                             *)
LEMMA AgentInvariant == Spec => []AgentInv
<1>1. Init => PostsInv
  <2>1. <<>> \in Seq(Nat \X UpProofs!MessageKinds) /\ Len(<<>>) = 0
    OBVIOUS
  <2> QED
    BY <2>1 DEF Init, Up!Init, Loop!Init, PostsInv, UpProofs!PostedInOrder
<1> QED
  BY <1>1, PostsStep, LoopInvariant, UploaderInvariant, UploaderRuns, PTL DEF Spec, AgentInv

-----------------------------------------------------------------------------
(* The batches that wait are the latest ones.                              *)
LEMMA WaitingIs ==
    UpProofs!IInv => /\ Waiting = (submitted - g_count + 1)..submitted
                     /\ Waiting \subseteq Nat \ {0}
                     /\ submitted \in Nat /\ g_count \in 0..Capacity
<1>1. Waiting = {UpProofs!Pending[i].id : i \in 1..g_count}
  BY SameBatches DEF Waiting
<1> QED
  BY <1>1, SameBatches, UpProofs!WaitingIs, Zenon

(* A batch that was not taken leaves only when a flush needs its slot.     *)
LEMMA RingSteps ==
    ASSUME LoopInv, [Next]_vars, taken \in Nat, taken' = taken
    PROVE  \/ UNCHANGED <<g_queue, g_head, g_count>>
           \/ /\ Loop!PacketUnder({InForce}) /\ jobs' # jobs
              /\ submitted' = submitted + 1
              /\ g_count' = IF g_count = Capacity THEN g_count - 1 + 1 ELSE g_count + 1
<1>1. CASE Packet
  <2>1. CASE jobs' = jobs
    BY <1>1, <2>1 DEF Packet, uploader
  <2>2. CASE jobs' # jobs
    BY <1>1, <2>2 DEF Packet, Up!SubmitIgnored, Up!Submit, Up!DropOldest, Up!ring
  <2> QED
    BY <2>1, <2>2
<1>2. CASE ~Packet
  <2>1. taken' # taken + 1
    OBVIOUS
  <2> QED
    BY <1>2, <2>1
       DEF Next, vars, uploader, Boot, Quiet, Interrupted, CaptureError, ProcessEnd,
           StopBegins, StopEnds, Worker, Posts, SpuriousWakeUp, Outside, Terminated,
           Up!Start, Up!StopNotStarted, Up!Stop, Up!Join, Up!CaptureError, Up!ProcessEnd,
           Up!Wait, Up!SpuriousWakeUp, Up!Leave, Up!Take, Up!Post, Up!Return, Up!ring
<1> QED
  BY <1>1, <1>2

(* A batch that leaves the ring unsent has waited for Capacity windows, as *)
(* many as the flushes that came after its own.                            *)
LEMMA LostIsOld ==
    ASSUME AgentInv, AgentInv', [Next]_vars, taken' = taken, NEW id \in Waiting \ Waiting'
    PROVE  clock - jobs[id].at >= Capacity * StatsSeconds
<1> DEFINE n == Len(jobs)
<1>1. /\ Waiting = (submitted - g_count + 1)..submitted
      /\ Waiting \subseteq Nat \ {0}
      /\ submitted \in Nat /\ g_count \in 0..Capacity
  BY WaitingIs DEF AgentInv
<1>2. /\ Waiting' = (submitted' - g_count' + 1)..submitted'
      /\ submitted' \in Nat /\ g_count' \in 0..Capacity
  <2>1. (UpProofs!IInv => /\ Waiting = (submitted - g_count + 1)..submitted
                          /\ Waiting \subseteq Nat \ {0}
                          /\ submitted \in Nat /\ g_count \in 0..Capacity)'
    BY WaitingIs, PTL
  <2> QED
    BY <2>1 DEF AgentInv
<1>3. /\ Loop!PacketUnder({InForce}) /\ jobs' # jobs
      /\ submitted' = submitted + 1
      /\ g_count' = IF g_count = Capacity THEN g_count - 1 + 1 ELSE g_count + 1
  <2>1. ~UNCHANGED <<g_queue, g_head, g_count>>
    BY DEF Waiting, Up!Pending
  <2>2. taken \in Nat
    BY DEF AgentInv, UpProofs!IInv, UpProofs!TypeOK
  <2> QED
    BY <2>1, <2>2, RingSteps DEF AgentInv
<1>4. Capacity \in Nat \ {0} /\ n = submitted
  BY SameBatches DEF UpProofs!UploaderAssumption, AgentInv, PostsInv
<1>5. id = n - Capacity + 1 /\ id \in 1..n
  <2>1. /\ id \in Nat \ {0} /\ id >= submitted - g_count + 1 /\ id <= submitted
        /\ g_count \in Nat /\ Capacity \in Nat
    BY <1>1, <1>4
  <2>2. ~(id \in (submitted' - g_count' + 1)..submitted')
    BY <1>2
  <2>3. g_count = Capacity
    BY <1>3, <2>1, <2>2, <1>1
  <2>4. ~(id \in (submitted + 1 - Capacity + 1)..(submitted + 1))
    BY <1>1, <1>3, <2>1, <2>2, <2>3
  <2> QED
    BY <1>1, <1>4, <2>1, <2>3, <2>4
<1>6. /\ n \in Nat /\ Len(jobs') = n + 1 /\ DOMAIN jobs' = 1..(n + 1)
      /\ \A i \in 1..n : jobs'[i] = jobs[i]
      /\ window_start' = clock
  BY <1>3, FlushIs DEF AgentInv
<1> HIDE DEF n
<1>7. /\ jobs'[n + 1].at = clock
      /\ jobs'[n + 1].at - jobs'[id].at >= ((n + 1) - id) * StatsSeconds
  <2>1. n + 1 \in DOMAIN jobs' /\ id \in 1..(n + 1) /\ n + 1 # 0
    BY <1>5, <1>6
  <2> QED
    BY <1>6, <2>1 DEF AgentInv, LoopInv, LoopProofs!SpacedInv
<1>8. (n + 1) - id = Capacity
  BY <1>4, <1>5, <1>6
<1> QED
  BY <1>5, <1>6, <1>7, <1>8

(* A batch leaves the ring unsent only when it has waited for Capacity     *)
(* windows (20 seconds in the code), whatever the uploader, the posts and  *)
(* the clock do.                                                           *)
THEOREM LostOnlyWhenOld == Spec => DroppedOnlyWhenOld
<1>1. AgentInv /\ AgentInv' /\ [Next]_vars
         => [taken' = taken =>
                \A id \in Waiting \ Waiting' :
                   clock - jobs[id].at >= Capacity * StatsSeconds]_vars
  BY LostIsOld
<1> QED
  BY <1>1, AgentInvariant, PTL DEF Spec, DroppedOnlyWhenOld

-----------------------------------------------------------------------------
(* The sums of this module are those of the lemmas.                        *)
LEMMA SameSum ==
    ASSUME NEW s
    PROVE  SumOf(s) = LoopProofs!SumOf(s) /\ SumOf(s) = LoopProofs!Proven!SumOf(s)
BY Zenon
   DEF SumOf, LoopProofs!SumOf, LoopProofs!Proven!SumOf, FoldLeft, LoopProofs!FoldLeft,
       LoopProofs!Proven!FoldLeft, MapThenFoldSet, LoopProofs!MapThenFoldSet,
       LoopProofs!Proven!MapThenFoldSet, Max, LoopProofs!Max, LoopProofs!Proven!Max

(* What holds of sums in general: the sum of n ones,                       *)
LEMMA SumOfOnes ==
    ASSUME NEW n \in Nat
    PROVE  SumOf([i \in 1..n |-> 1]) = n
<1>1. LoopProofs!Proven!SumOf([i \in 1..n |-> 1]) = n
  BY LoopAssumptions, LoopProofs!Proven!SumOfOnes
     DEF LoopProofs!CaptureLoopAssumption, LoopProofs!PartsAssumption
<1> QED
  BY <1>1, SameSum, Zenon

(* sums that add up,                                                       *)
LEMMA SumOfBoth ==
    ASSUME NEW n \in Nat, NEW f, NEW g, NEW h, LoopProofs!Proven!EachIsSum(f, g, h, n)
    PROVE  SumOf(f) \in Int /\ SumOf(g) \in Int /\ SumOf(h) \in Int /\ SumOf(f) = SumOf(g) + SumOf(h)
<1>1. /\ LoopProofs!Proven!SumOf(f) \in Int /\ LoopProofs!Proven!SumOf(g) \in Int
      /\ LoopProofs!Proven!SumOf(h) \in Int
      /\ LoopProofs!Proven!SumOf(f) = LoopProofs!Proven!SumOf(g) + LoopProofs!Proven!SumOf(h)
  BY LoopAssumptions, LoopProofs!Proven!SumOfBoth
     DEF LoopProofs!CaptureLoopAssumption, LoopProofs!PartsAssumption
<1> QED
  BY <1>1, SameSum, Zenon

(* and the sum of some of the numbers.                                     *)
LEMMA SumOfPicked ==
    ASSUME NEW n \in Nat, NEW w \in Nat, NEW f, NEW g, NEW at,
           LoopProofs!Proven!Picked(g, f, at, n, w)
    PROVE  /\ g \in [1..n -> Nat]
           /\ SumOf(g) \in Int /\ SumOf(f) \in Int /\ SumOf(g) <= SumOf(f)
<1>1. /\ g \in [1..n -> Nat]
      /\ LoopProofs!Proven!SumOf(g) \in Int /\ LoopProofs!Proven!SumOf(f) \in Int
      /\ LoopProofs!Proven!SumOf(g) <= LoopProofs!Proven!SumOf(f)
  BY LoopAssumptions, LoopProofs!Proven!SumOfPicked
     DEF LoopProofs!CaptureLoopAssumption, LoopProofs!PartsAssumption
<1> QED
  BY <1>1, SameSum, Zenon

-----------------------------------------------------------------------------
(* What the backend was told with the messages of a kind when a batch i    *)
(* weighs f[i].                                                            *)
Weighed(kind, f) ==
    [i \in DOMAIN posted |-> IF posted[i][2] = kind THEN f[posted[i][1]] ELSE 0]

(* The batches posted, by their numbers.                                   *)
LEMMA PostedAre ==
    ASSUME AgentInv
    PROVE  /\ Len(posted) \in Nat /\ DOMAIN posted = 1..Len(posted)
           /\ Len(jobs) \in Nat /\ DOMAIN jobs = 1..Len(jobs)
           /\ \A i \in 1..Len(posted) : posted[i][1] \in 1..Len(jobs)
<1>1. posted \in Seq(Nat \X UpProofs!MessageKinds) /\ LoopProofs!IsSeq(jobs)
  BY DEF AgentInv, LoopInv, LoopProofs!JobsInv, PostsInv, UpProofs!PostedInOrder
<1>2. /\ Len(posted) \in Nat /\ DOMAIN posted = 1..Len(posted)
      /\ Len(jobs) \in Nat /\ DOMAIN jobs = 1..Len(jobs)
  BY <1>1 DEF LoopProofs!IsSeq
<1>3. last[1] \in Nat /\ last[1] <= Len(jobs)
  <2>1. /\ last \in Nat \X Nat /\ g_count \in Nat /\ last[1] <= submitted - g_count
        /\ submitted = Len(jobs)
    BY DEF AgentInv, PostsInv, UpProofs!IInv, UpProofs!TypeOK, UpProofs!InFlight
  <2> QED
    BY <1>2, <2>1
<1> QED
  BY <1>2, <1>3 DEF AgentInv, PostsInv, UpProofs!PostedInOrder

(* What the backend was told is no more than all the batches weigh: none   *)
(* was posted twice.                                                       *)
LEMMA ToldWithin ==
    ASSUME AgentInv, NEW kind \in {"traffic", "dns"}, NEW f \in [1..Len(jobs) -> Nat]
    PROVE  /\ Weighed(kind, f) \in [1..Len(posted) -> Nat]
           /\ SumOf(Weighed(kind, f)) \in Int /\ SumOf(f) \in Int
           /\ SumOf(Weighed(kind, f)) <= SumOf(f)
<1> DEFINE n == Len(posted)
           w == Len(jobs)
           g == Weighed(kind, f)
           at == [i \in 1..n |-> posted[i][1]]
<1>1. /\ n \in Nat /\ DOMAIN posted = 1..n /\ w \in Nat
      /\ \A i \in 1..n : posted[i][1] \in 1..w
  BY PostedAre
<1>2. \A k \in 1..n : \A i \in 1..(k - 1) :
         posted[i][2] = kind /\ posted[k][2] = kind => posted[i][1] < posted[k][1]
  BY DEF AgentInv, PostsInv, UpProofs!PostedInOrder
<1>3. f \in [1..w -> Nat]
  OBVIOUS
<1> HIDE DEF n, w
<1>4. \A i \in 1..n : g[i] = (IF posted[i][2] = kind THEN f[at[i]] ELSE 0) /\ at[i] = posted[i][1]
  BY <1>1 DEF Weighed
<1>5. DOMAIN g = 1..n /\ g = [i \in 1..n |-> g[i]]
  BY <1>1 DEF Weighed
<1> HIDE DEF g, at
<1>6. \A i \in 1..n : g[i] = 0 \/ (at[i] \in 1..w /\ g[i] = f[at[i]])
  BY <1>1, <1>4
<1>7. \A k \in 1..n : \A i \in 1..(k - 1) : g[i] # 0 /\ g[k] # 0 => at[i] < at[k]
  <2> TAKE k \in 1..n
  <2> TAKE i \in 1..(k - 1)
  <2>1. i \in 1..n
    BY <1>1
  <2> QED
    BY <1>2, <1>4, <2>1
<1>8. LoopProofs!Proven!Picked(g, f, at, n, w)
  BY <1>3, <1>5, <1>6, <1>7 DEF LoopProofs!Proven!Picked
<1> QED
  BY <1>1, <1>8, SumOfPicked, Zenon DEF g, n

(* Reports are summed alike in both.                                       *)
LEMMA SameReports ==
    ASSUME NEW table, NEW client, NEW domain
    PROVE  Loop!Reported(table, client, domain) = LoopProofs!Reported(table, client, domain)
<1>1. ASSUME NEW s PROVE Loop!SumOf(s) = LoopProofs!SumOf(s)
  BY Zenon
     DEF Loop!SumOf, LoopProofs!SumOf, Loop!FoldLeft, LoopProofs!FoldLeft,
         Loop!MapThenFoldSet, LoopProofs!MapThenFoldSet, Loop!Max, LoopProofs!Max
<1> QED
  BY <1>1, Zenon DEF Loop!Reported, LoopProofs!Reported

(* Queries: what the backend was told of a client and a domain is no more  *)
(* than was asked.                                                         *)
LEMMA QueriesWithin ==
    ASSUME AgentInv, NEW client \in Loop!Addresses, NEW domain \in Loop!Domains
    PROVE  Told("dns", LAMBDA j : Loop!Reported(j.dns, client, domain))
              <= HowMany(handled, LAMBDA p : p.flow.src = client /\ p.query = domain)
<1> DEFINE f == LoopProofs!Reports(jobs, client, domain)
           asked == LoopProofs!Asking(handled, client, domain)
           told == Told("dns", LAMBDA j : Loop!Reported(j.dns, client, domain))
           seen == HowMany(handled, LAMBDA p : p.flow.src = client /\ p.query = domain)
<1>1. /\ \A i \in 1..Len(jobs) : LoopProofs!QueriesAre(jobs[i].dns)
      /\ LoopProofs!AddsUp(client, domain) /\ LoopProofs!QueriesAre(dns)
      /\ DOMAIN jobs = 1..Len(jobs)
      /\ \A i \in 1..Len(posted) : posted[i][1] \in 1..Len(jobs)
      /\ DOMAIN posted = 1..Len(posted)
  BY PostedAre
     DEF AgentInv, LoopInv, LoopProofs!ReportedInv, LoopProofs!TablesInv, Loop!Addresses,
         LoopProofs!Addresses, Loop!Flows, LoopProofs!Flows, Loop!Domains, LoopProofs!Domains
<1>2. f \in [1..Len(jobs) -> Nat]
  <2>1. \A i \in 1..Len(jobs) : LoopProofs!Reported(jobs[i].dns, client, domain) \in Nat
    BY <1>1, LoopAssumptions, LoopProofs!ReportedIsNat
  <2> QED
    BY <1>1, <2>1 DEF LoopProofs!Reports
<1>3. /\ SumOf(Weighed("dns", f)) <= SumOf(f)
      /\ SumOf(Weighed("dns", f)) \in Int /\ SumOf(f) \in Int
  BY <1>2, ToldWithin
<1>4. told = SumOf(Weighed("dns", f))
  <2>1. ASSUME NEW i \in 1..Len(jobs)
        PROVE  Loop!Reported(jobs[i].dns, client, domain) = f[i]
    BY <1>1, SameReports DEF LoopProofs!Reports
  <2> HIDE DEF f
  <2>2. [i \in DOMAIN posted |-> IF posted[i][2] = "dns"
                                 THEN Loop!Reported(jobs[posted[i][1]].dns, client, domain) ELSE 0]
           = Weighed("dns", f)
    BY <1>1, <2>1 DEF Weighed
  <2> QED
    BY <2>2, Zenon DEF Told
<1>5. seen = SumOf(asked)
  BY DEF HowMany, LoopProofs!Asking, LoopProofs!Asks
<1> HIDE DEF f, asked, told, seen
<1>6. LoopProofs!Reported(dns, client, domain) \in Nat
  BY <1>1, LoopAssumptions, LoopProofs!ReportedIsNat
<1>7. /\ LoopProofs!SumOf(f) = SumOf(f) /\ LoopProofs!SumOf(asked) = SumOf(asked)
  BY SameSum
<1>8. /\ SumOf(asked) \in Int
      /\ SumOf(f) + LoopProofs!Reported(dns, client, domain) <= SumOf(asked)
  BY <1>1, <1>7 DEF LoopProofs!AddsUp, f, asked
<1>9. told <= seen
  BY <1>3, <1>4, <1>5, <1>6, <1>8
<1> QED
  BY <1>9 DEF told, seen

(* Packets: what the backend was told is no more than the packets up to the*)
(* last flush and one for each window but one.                             *)
LEMMA PacketsWithin ==
    ASSUME AgentInv, LoopProofs!OrderInv, LoopProofs!CountedInv
    PROVE  LET windows == Told("traffic", LAMBDA j : 1)
           IN  windows > 0 => Told("traffic", LAMBDA j : j.stats["total_packets"])
                                 <= flushed + windows - 1
<1> DEFINE n == Len(posted)
           w == Len(jobs)
           c == LoopProofs!PacketsCounted(jobs)
           d == [i \in 1..w |-> c[i] - 1]
           u == [i \in 1..w |-> 1]
           told == Told("traffic", LAMBDA j : j.stats["total_packets"])
           windows == Told("traffic", LAMBDA j : 1)
           C == Weighed("traffic", c)
           D == Weighed("traffic", d)
           U == Weighed("traffic", u)
<1>1. /\ n \in Nat /\ DOMAIN posted = 1..n /\ w \in Nat /\ DOMAIN jobs = 1..w
      /\ \A i \in 1..n : posted[i][1] \in 1..w
  BY PostedAre
<1>2. /\ \A i \in 1..w : c[i] = jobs[i].stats["total_packets"] /\ c[i] \in Nat \ {0}
      /\ c = [i \in 1..w |-> c[i]]
      /\ SumOf(c) <= flushed + (IF w = 0 THEN 0 ELSE w - 1)
  BY <1>1, SameSum DEF LoopProofs!CountedInv, LoopProofs!PacketsCounted
<1>3. flushed \in Int
  BY DEF LoopProofs!OrderInv
<1>4. /\ c \in [1..w -> Nat] /\ d \in [1..w -> Nat] /\ u \in [1..w -> Nat]
      /\ \A i \in 1..w : c[i] = d[i] + u[i] /\ u[i] = 1
  BY <1>1, <1>2
<1>5. SumOf(u) = w
  BY <1>1, SumOfOnes
<1>6. /\ told = SumOf(C)
      /\ windows = SumOf(U)
      /\ \A i \in 1..n : C[i] = D[i] + U[i]
  <2>1. [i \in DOMAIN posted |-> IF posted[i][2] = "traffic"
                                 THEN jobs[posted[i][1]].stats["total_packets"] ELSE 0] = C
    BY <1>1, <1>2 DEF Weighed
  <2>2. [i \in DOMAIN posted |-> IF posted[i][2] = "traffic" THEN 1 ELSE 0] = U
    BY <1>1 DEF Weighed
  <2>3. \A i \in 1..n : C[i] = D[i] + U[i]
    <3> HIDE DEF c, d, u
    <3> QED
      BY <1>1, <1>4 DEF Weighed
  <2>4. told = SumOf(C)
    BY <2>1, Zenon DEF Told
  <2>5. windows = SumOf(U)
    BY <2>2, Zenon DEF Told
  <2> QED
    BY <2>3, <2>4, <2>5
<1> SUFFICES ASSUME windows > 0 PROVE told <= flushed + windows - 1
  BY DEF told, windows
<1> HIDE DEF told, windows, n, w, c, d, u
<1>7. /\ C \in [1..n -> Nat] /\ D \in [1..n -> Nat] /\ U \in [1..n -> Nat]
      /\ SumOf(D) <= SumOf(d)
  BY <1>4, ToldWithin DEF n, w
<1> HIDE DEF C, D, U
<1>8. /\ SumOf(C) \in Int /\ SumOf(D) \in Int /\ SumOf(U) \in Int
      /\ SumOf(C) = SumOf(D) + SumOf(U)
  <2>1. /\ n \in Nat /\ C \in [1..n -> Int] /\ D \in [1..n -> Int] /\ U \in [1..n -> Int]
        /\ \A i \in 1..n : C[i] = D[i] + U[i]
    BY <1>1, <1>6, <1>7
  <2>2. LoopProofs!Proven!EachIsSum(C, D, U, n)
    BY <2>1 DEF LoopProofs!Proven!EachIsSum
  <2> QED
    BY <2>1, <2>2, SumOfBoth
<1>9. /\ SumOf(c) \in Int /\ SumOf(d) \in Int /\ SumOf(u) \in Int
      /\ SumOf(c) = SumOf(d) + SumOf(u)
  <2>1. /\ w \in Nat /\ c \in [1..w -> Int] /\ d \in [1..w -> Int] /\ u \in [1..w -> Int]
        /\ \A i \in 1..w : c[i] = d[i] + u[i]
    BY <1>1, <1>4
  <2>2. LoopProofs!Proven!EachIsSum(c, d, u, w)
    BY <2>1 DEF LoopProofs!Proven!EachIsSum
  <2> QED
    BY <2>1, <2>2, SumOfBoth
<1>10. w # 0
  <2>1. n # 0
    <3>1. ASSUME n = 0 PROVE FALSE
      <4>1. U = [i \in 1..0 |-> 1]
        BY <1>7, <3>1
      <4>2. SumOf(U) = 0
        BY <4>1, SumOfOnes
      <4> QED
        BY <1>6, <4>2
    <3> QED
      BY <3>1
  <2>2. posted[1][1] \in 1..w
    BY <1>1, <2>1
  <2> QED
    BY <1>1, <2>2
<1>11. SumOf(d) <= flushed - 1
  BY <1>1, <1>2, <1>3, <1>5, <1>9, <1>10
<1> QED
  BY <1>3, <1>6, <1>7, <1>8, <1>9, <1>11

(* The backend is never told of more queries or packets than there were,   *)
(* as long as the packet window is no longer than a statistics window (5   *)
(* seconds each in the code): whichever batches are dropped, whichever     *)
(* posts fail, and wherever the clock is set.                              *)
THEOREM NeverOvercounts ==
    WindowSeconds <= StatsSeconds => (Spec => []BackendNeverOvercounts)
<1> SUFFICES ASSUME WindowSeconds <= StatsSeconds PROVE Spec => []BackendNeverOvercounts
  OBVIOUS
<1>1. LoopProofs!Spec => [](LoopProofs!OrderInv /\ LoopProofs!CountedInv)
  BY LoopAssumptions, LoopProofs!CountedInvariant DEF LoopProofs!Steady
<1>2. AgentInv /\ LoopProofs!OrderInv /\ LoopProofs!CountedInv => BackendNeverOvercounts
  BY QueriesWithin, PacketsWithin DEF BackendNeverOvercounts
<1> QED
  BY <1>1, <1>2, AgentInvariant, LoopRuns, SameLoop, PTL
=============================================================================
