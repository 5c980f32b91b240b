# Verification of the OpenWrt edge agent

TLA+ models of the agent in `src/` (C, about 2,400 lines), the TLC runs that
check them on small instances, and machine-checked proofs about the uploader, the
capture loop with its tables, the process that composes the two, the detector, the
device identity, the HTTP client, the packet parser, the ruleset fetch, the CPU
gauge and the client roster.

The agent is one process with two threads. The capture thread (`main`) reads
frames from a raw socket, keeps five tables about the traffic, and every five
seconds makes an upload job of them. The uploader thread takes the jobs from a
ring of four and posts them to a backend over HTTP. The backend answers with
rulesets whose thresholds the capture thread uses.

    frame -> parse_packet -> client activity | flow table | DNS window
                             | packet window | forensic ring
                                     |  every 5 s
                             flush_window: detector, top flow, scan, sample
                                     |  uploader_submit
                             ring of 4 jobs -> uploader -> HTTP -> backend
             detector thresholds  <----------- ruleset --------------+

## 1. Inventory

| Component | State | Operations | Talks to | What is hard | What makes it correct |
| --- | --- | --- | --- | --- | --- |
| Telemetry uploader, `uploader.c` | ring, drop counter, two flags, mutex and condition variable | start, submit, stop; the thread's take and run_job | capture thread (shared ring), HTTP client, detector | two threads, overflow, wake-ups, stop against a slow post | newest jobs kept, every job accounted for, no lost wake-up, messages in order, stop returns, config outlives the thread |
| Capture loop, `main.c` | window start, last ruleset request, run flag | one iteration per frame; flush_window; signal handler; start and exit | all five tables, detector, uploader | signals against a blocking read, tables of different age in one job, clock steps | no packet counted three times, each query reported once, ruleset requests paced, alerts name their flow |
| Detector and rules, `anomaly_detector.c`, `rules_client.c` | three 64-bit thresholds without a lock | set_thresholds, check, fetch | uploader thread writes, capture thread reads | data race: two reads per use, split 64-bit accesses | a verdict is justified by some ruleset in force during the check; 0 is never a threshold; a fetched ruleset is that of a whole reply |
| Device identity, `backend_client.c` 21-65, 152-252 | device id, the id file | load, register, persist | backend, file system | lost replies, replies with another id, process end inside a file rewrite | the identity changes only by the backend's answer or a torn file, no needless new devices |
| Packet window, `packet_window.c` | ring of records, six unsigned aggregates | push (with eviction), snapshot | capture loop | wrap-around, saturation, unsigned borrow, clock set back | aggregates equal the sums over the ring; the ring is the latest packets |
| Flow table, `flow_table.c` | array of 5-tuples with counts | add, top, scan_fanout, reset | capture loop | table full, hash slots shared | exact counts, busiest flow, scan never overcounts |
| DNS window, `dns_window.c` | array of (client, domain, count) | add, reset | capture loop | table full | exact counts |
| Forensic ring, `fx_ring.c` | ring of packets | push, recent | capture loop | wrap-around, reading backwards | the sample is the latest packets |
| Client roster, `client_roster.c` | activity table; roster built from the lease file | touch, collect | capture loop, DHCP leases | eviction, boundary of the online window | stalest evicted, online is honest |
| Packet parser, `packet_parser.c` | none | parse_packet | capture loop | a variable header, the bounds of the walk over a DNS name | no byte read or written outside the frame or the name; queries are exactly the questions with a name |
| Telemetry payloads, `backend_client.c` 254-601 | previous CPU counters | send_* | uploader | batches cut to fit buffers, unsigned differences | a message is well formed and lacks only its tail; the CPU share is that since the heartbeat before |
| HTTP client, `http_client.c` | none | post, get | backend | timeouts, partial sends and replies, resets, SIGPIPE | success only for what the backend acted on; no id taken from a reply that is cut inside it; the call returns |
| Both threads together | | submit, stop, join; rulesets | | a slow uploader, failed posts, a signal at any moment | the backend is never told too much, batches are lost only when old, a signal ends the process |
| Packet capture, statistics record, logger, time format, scripts | | | | | not modelled: I/O, formatting, a plain record |

The hazards, each at its line and with the properties that would catch it, are
in `PROJECT.json`.

## 2. Modules

| Module | Models | Correspondence |
| --- | --- | --- |
| `LossyQueue` | what the uploader's queue promises | abstract: a bounded FIFO that discards its oldest element rather than wait |
| `Uploader` | both threads around the ring | one action per critical section (no section blocks while it holds the lock); `wpc = "check"` is the loop condition, `"waiting"` is inside `pthread_cond_wait`; each post is a step with two outcomes; `Shapes` says which messages a job carries |
| `Detector` | check against update | each load and store of a threshold is a step, or two where the machine has 32-bit words; the stores of one call become visible in any order |
| `DeviceIdentity` | starts of the process | loading, registering, adopting, truncating and writing are steps; the process may end between any two, and the environment may be changed before the next start; the backend is external: it keeps the id it is sent, answers with another device of this router or creates one, and may leave the id in its reply empty or out |
| `PacketWindow` | the sliding window | push with its eviction and saturation is one action; aggregates count modulo `Modulus` (2^64) |
| `FlowTable`, `DnsWindow`, `FxRing`, `ClientRoster` | the other tables | one action per call; loops over the table are written as quantifiers |
| `CaptureLoop` | `main` and `flush_window` | instantiates the five tables; one action per received frame, the whole body of the loop |
| `Agent` | the process | instantiates `CaptureLoop` and `Uploader`; a flush and its `uploader_submit` are one step, the end of the loop is `uploader_stop`, a capture error leaves without it |
| `PostExchange` | what a post promises | abstract: at most one acceptance, success only after it |
| `HttpPost` | `http_post_json` | both ways of posting; each socket call and each unit of request and reply is a step; `IdRead` is what `extract_json_string` makes of the body handed over; connection and backend are external and may stop, close or reset at any time |
| `PacketParser` | `parse_packet` | one action per header (check, reads, verdict) and per label |
| `BatchBody` | the messages for DNS, clients and forensics | one action per event; lengths only |
| `CpuGauge` | the CPU share of the heartbeat | one action per heartbeat; the kernel's counters are external |
| `RulesetFetch` | `rules_client_fetch` over `http_get` | each unit printed and read is a step; the child, `uclient-fetch`, is external and may fail at any time |
| `Parts` | | parser, message bodies, ruleset fetch, CPU gauge and roster side by side, under names that do not clash; no behaviour of its own |
| `Sums` | | `SumOf` and `HowMany`, for the counts that properties compare |
| `FoldFacts` | | induction over the numbers, and what a fold over a sequence is |
| `Uploader_proofs`, `DeviceIdentity_proofs`, `Detector_proofs`, `PacketWindow_proofs`, `CaptureLoop_proofs`, `Agent_proofs`, `Parts_proofs` | | the theorems of section 5; `Parts_proofs` has those of `HttpPost`, `PacketParser`, `BatchBody`, `RulesetFetch`, `CpuGauge` and `ClientRoster` |

`CaptureLoop` composes the five tables by `INSTANCE`; its `jobs` are the calls of
`uploader_submit`. `Agent` joins it with `Uploader`: the shape of a batch follows
from the job (`ShapeOf`), a check runs on the ruleset the uploader stored last,
and `posted` records which message of which job was posted. `Detector` looks
inside the call of `anomaly_detector_check` that `CaptureLoop` takes as one step,
and `HttpPost` inside the step `Uploader!Post` (it also is the post of
`DeviceIdentity`: a reply that is no 2xx for the agent after `Acts` is `ReplyLost`, a
2xx one whose `IdRead` is empty is `Replied` with `Absent`).

Each `MC*` module gives a module its small sets; its cfg files give the remaining
constants. `MCParts` explores the nine parts that work on their own in one run
(the five tables, parser, message bodies, CPU gauge, ruleset fetch): they share
no state, so a variable `part` chosen at the start says which of them moves. `Parts`
names those of them whose theorems are in `Parts_proofs`.

Addresses, domains and flows are opaque values. Logging (the `overflow_logged`
flags included), wording and formatting are left out. The code passes null
pointers nowhere, so its null checks are left out as well.

A definition marked *Mutant of D* is a plausible bug in the code behind D. It is
there to show that a property notices: with D replaced by it, TLC finds the
property violated. No specification uses one.

## 3. Runs

| Run | Bounds | Distinct states | Shows |
| --- | --- | --- | --- |
| `uploader` | ring of 3, 6 jobs | about 25,500 | all safety of both threads, `IInv`, refinement of `LossyQueue` with its liveness; `uploader_stop` returns, jobs leave the ring; two full turns of the ring with overflow |
| `detector` | words of 4 values, thresholds in one word, 32-bit accesses | about 247,000 | verdicts justified under the race |
| `detector_zero` | a ruleset that lacks keys | | violated: see findings |
| `identity` | 4 starts, each with or without a host and a pre-assigned id, 4 ids, any of them in a reply, writes can be cut off | about 60,400 | the identity changes only by the reply at hand or a write that is cut off, a pre-assigned id gives way to no other, no needless device, every device explained |
| `identity_torn` | the same | | violated: see findings |
| `parts` | flow table of 4 for 6 flows; DNS table of 3 for 4 pairs; forensic ring of 4, 8 packets; activity table of 2 for 3 clients; packet window of 3, 4 packets, clock set back and forward; frames of 16 lengths with every header, names of up to 6 bytes over {0, 1, 2, 3, 64} in a buffer of 5; bodies of 12 bytes, up to 4 events; counters up to 3; replies of up to 5 units in a buffer of 3 and a pipe of 1 | about 638,000 | what each part reports, against its definition |
| `capture_loop` | windows of 2 s, 4 packets, 7 s | about 256,000 | what successive jobs say of the traffic |
| `capture_loop_stats` | 3 packets | | violated: see findings |
| `http` | 2 addresses, request of 3 units, replies of 5 to 11 units in a buffer of 10, bodies in one of 4, ids of up to 2 letters where 1 is kept, both schemes | about 11,100 | a post implements `PostExchange`, a cut reply yields no part of an id, plain posts return |
| `http_reset`, `http_silent` | the same, plain or TLS | | violated: see findings |
| `agent` | ring of 2, windows of 1 s, ruleset period of 2 s, 4 packets, 4 s | about 94,000 | what reaches the backend, what is lost and when, and that a signal ends the process |

Why the bounds are enough. Each table is smaller than what is put into it, so
that overflow, eviction and wrap-around happen, several times for the rings.
Times are as small as the order of events allows: a packet before, on and after
each boundary, with at least two windows one after the other. `capture_loop`
keeps the relation of the code that both windows have the same length
(`STATS_WINDOW_SECONDS` and `PACKET_WINDOW_SECONDS` are 5). The modulus is only
assumed to exceed what a full window can hold, as 2^64 does. The frames of
`parts` end on, before and after the end of every header, for three header
lengths; the names reach, miss and exceed the buffer by one byte, and 64 is the
least byte that is no length of a label. The bodies have entries shorter than,
as long as and longer than the reserve. A reply of the ruleset fetch fits its
buffer, exceeds it by what the pipe holds, and by more. A reply of `http` can be cut after any
unit: inside the status, the headers and the id, by the backend, by the response
buffer (one reply is a unit too long for it) and by that of the body (another is too
long for that only); one id is too long for `device_id`, one is empty. In `agent` the ring overflows
with every message of the oldest batches unsent; the same run with 5 packets and
5 seconds (543,000 states) passes too. `capture_loop` also passes with a clock that may
be set back (7 million states); the run keeps it forward, and the theorems of
section 5 do not need it to be. No state is restricted except by the bounds named in the modules.

No run disables the deadlock check. Where a program has really ended, or where
a bound has been reached, the module has a `Terminated` step.

### Fairness

* `Uploader!Fairness`: the scheduler runs the uploader thread and the joining
  thread (weak fairness of `Worker`, `Join`, `ProcessEnd`). That a post returns
  is part of it: over plain HTTP `connect_to` sets a timeout of 3 s on each
  socket call; over TLS the code sets none, so there it is an assumption about the
  backend. Nothing is assumed of traffic, signals or spurious wake-ups.
* `HttpPost!FairSpec`: the thread runs, and a call on a socket with a timeout
  returns, which `connect_to` provides for plain HTTP. Nothing is assumed of the
  backend or the network, which is why `PlainReturns` says something (a backend
  that sends a byte at a time cannot hold a post: the buffer of the reply fills
  up) and why `AlwaysReturns` fails over TLS.
* `Agent!FairSpec`: both threads run, a post returns (`PlainReturns`), and frames
  keep arriving. The last is an assumption about the network that the code does
  not provide, and the point of `SignalEndsProcess`: a signal alone does not wake
  the thread where `recvfrom` is restarted.

## 4. Findings

* `detector_zero`. Each threshold is read twice without a lock
  (`anomaly_detector.c:42-43`). A ruleset that clears it in between makes one
  check use 0, and every packet raises an alert, although the header promises
  that 0 means "not set".
* `identity_torn`. The id file is truncated at every start before it is written
  again (`backend_client.c:58`). A crash in between makes the router a new
  device. `StableUntilTorn` shows that nothing but a write that is cut off, or the
  backend's own answer, makes the device change its id, and `DevicesExplained` that
  every further device of the backend comes from a life that ended without an id in
  the file, or from an exchange of the id by the backend.
* `capture_loop_stats`. The uploaded traffic window is a sliding one, sampled by
  the first packet after five seconds (`main.c:294-301`). With sparse traffic,
  packets are in no window; the packet that sets off a flush can be in two.
  `CountedTwiceAtMost` shows it is never worse than that one packet per flush,
  and `AlertNamesItsFlow` that an alert still always finds a flow to name.
* `http_reset`. `send_all` (`http_client.c:27`) neither passes `MSG_NOSIGNAL` nor
  is SIGPIPE ignored: a backend that closes while a request is being sent can end
  the agent, where the README promises that networking failures never stop the
  capture. Over TLS the library ignores SIGPIPE when it connects.
* `http_silent`. Over TLS no socket call has a timeout (`http_client.c:251`): a
  backend that falls silent holds `main` when it registers, before the first
  packet is captured, or the uploader, and then also the end of the agent.

Noted beside the runs: a label of a DNS name may contain the byte 0, which ends
`dns_qname` for its readers, so that the name that is counted can be a prefix of
the name that was asked for, or empty. `ParsesExactly` is about the characters
copied. And `sync_ruleset` (`main.c:169`) fetches nothing without a device id,
where the comment at `main.c:243` calls the fetch independent of registration;
`Uploader!BootRulesets` has what the code does.

## 5. Proofs

Every theorem holds for all values of the constants that satisfy the named
assumption of its module. `TypeCorrect` and `Invariance` are, in every module, the
type invariant and the inductive invariant; in `Parts_proofs`, where `HttpPost` has
these names, those of the other parts are `ParserInvariance`, `BodyInvariance`,
`FetchInvariance`, `CpuInvariance` and `RosterInvariance`.

| Module | Theorem | Statement |
| --- | --- | --- |
| `Uploader_proofs` | `Invariance`, `TypeCorrect`, `NewestSurvive`, `NoneUnaccounted`, `WakeUpsArrive`, `ConfigSafe` | `Spec => []IInv` and its parts: the safety invariants of the run `uploader` |
| | `Ordered`, `Complete`, `StopsPromptly` | the action properties `MessagesInOrder`, `BatchesRunToTheEnd` (a failed post never costs the rest of its batch) and `NothingBegunAfterStop`; the last two are in no run |
| | `Refinement` | `Spec => QueueSpec`: the ring implements `LossyQueue` |
| `DeviceIdentity_proofs` | `IdentityStable`, `PreassignedKept`, `DevicesPaid` | the safety invariants of the run `identity` |
| | `NoNeedlessDevice` | its action property `NewDeviceOnlyWhenNew` |
| `Detector_proofs` | `VerdictsHold` | `Sensible => (Spec => []VerdictsJustified)` |
| `PacketWindow_proofs` | `AggregatesHold`, `WindowHolds`, `EvictionsHold` | aggregates are the sums over the ring, the ring holds the latest packets and every recent one there is room for, and nothing is evicted without a reason |
| `CaptureLoop_proofs` | `PartsHold` | the packet window and the forensic ring keep their promises inside the loop |
| | `SyncsPaced` | `RulesSyncPaced` |
| | `CountedTwice` | `Steady => (Spec => []CountedTwiceAtMost)` |
| | `TableHolds` | the flow table keeps `CountsExact`, `TopIsBusiest`, `FanoutNeverOvercounts` and `FanoutExact` inside the loop |
| | `QueriesCounted` | the DNS window keeps `CountsExact` inside the loop |
| | `FlowsNamed` | `Steady => (Spec => []AlertNamesItsFlow)` |
| | `TopTalkersNamed` | the action property `AlertsNameTopTalkers`: the flow an alert names is the busiest of its kind in the window, counted from the packets |
| | `QueriesReported` | `QueriesReportedOnce`: jobs and table together report each query exactly once |
| `Agent_proofs` | `LoopRuns`, `UploaderRuns` | `Spec => Loop!Spec`, `Spec => Up!Spec`: inside the process the capture loop and the uploader each behave as their modules say, so that every theorem about them holds of the process |
| | `LostOnlyWhenOld` | the action property `DroppedOnlyWhenOld`: a batch that is lost has waited for `Capacity` statistics windows |
| | `NeverOvercounts` | `WindowSeconds <= StatsSeconds => (Spec => []BackendNeverOvercounts)` |
| `Parts_proofs` | `IdsWhole` | `RegistersWhole`: wherever a reply is cut, the id it carries is taken (cut to what `device_id` holds) or none, and none only if a part of the reply is missing or it names none |
| | `Refinement` | `Spec => ExchangeSpec`: a post is accepted at most once and reports success only after that |
| | `Parses` | `ParsesExactly` of `PacketParser`: no byte beyond the frame is read, none beyond `dns_qname` written, and a frame is a query exactly if it is a question with a name that fits |
| | `TailCut` | `CutsOnlyTheTail` of `BatchBody`: a message that is posted is a well-formed list of the first events, all of them if they fit with the reserve to spare, and a batch is refused only for want of room |
| | `RulesetsWhole` | `RulesetsAreWhole` of `RulesetFetch`: a fetch that succeeds yields the numbers of the whole reply if it fits the buffer, and of a longer one at most the number that is cut is wrong |
| | `Reports` | `ReportsBusyShare` of `CpuGauge` |
| | `Evictions` | `StalestEvicted` of `ClientRoster` |
| | `OnlineHonest` | its action property `OnlineIsHonest`, for finitely many addresses |
| `FoldFacts` | `FoldOfNothing`, `FoldOfAppend` | a fold over the empty sequence, and over a sequence with one element more |

### Assumptions

Constants are assumed to be what the code makes of them: capacities of at least
1, times natural numbers, an id of the environment that the backend does not
issue, and, for the packet window, that the counters are wide enough for a full
window (`PacketWindowAssumption`; 512 packets of at most 64 KB against 2^64). The
proofs of the window take it as a hypothesis, since `CaptureLoop` derives it
from its own `PartsAssumption`. `AgentAssumption` is what the loop and the uploader
assume, and no more; both values of `ClockJumps` satisfy it, whereas the run
`agent` keeps the clock forward. In `Parts_proofs` the assumption of a part is a
hypothesis of its theorems: a frame has the bytes its length says
(`PacketParserAssumption`), a message reserves at least the two bytes that close
it (`BatchBodyAssumption`; 256 and 512), the words of the gauge hold what it computes with
(`CpuGaugeAssumption`; `200 * MaxTicks` against 2^64). Some theorems need more, and say so:

* `Steady` (and the hypothesis of `NeverOvercounts`, which is the same) is
  `WindowSeconds <= StatsSeconds`; both windows have 5 s in the code.
  With a packet window longer than a statistics window, `AlertNamesItsFlow` is
  false: packets of an earlier statistics window raise an alert, and the flow
  table has forgotten them. Nothing is assumed of the clock.
* `Sensible` says that all rulesets set the same thresholds, each to a value that
  one access of the machine can store. Without the first half the race of section
  4 (`detector_zero`) is there; without the second a check may use half of a
  threshold.
* `OnlineHonest` counts clients, and so takes the addresses (of 32 bits) to be
  finitely many.

### Uploader

The inductive invariant `IInv` adds two parts to the safety invariants.
`Lifecycle` ties the flags to the program points of both threads. Without it,
`Accounted` could not survive `Start` (jobs would be in the ring before there is
a thread), nor `NoLostWakeUp` and `ConfigOutlivesUploader` the steps of `Stop`
and `Join`. `InFlight` says that the job in hand is older than all jobs in the
ring and that `last` is the message before `step`. Without it, `MessagesInOrder`
could fail when a new job is begun. `FreshestKept` is used for it: ids in the
ring are consecutive.

The argument for the ring is made once. `RingView` is a stretch of a circular
array as a sequence; `RingViewTail` and `RingViewAppend` say that moving the head
drops the first element and that writing the first free slot appends. From them
come `TakeRing` and `SubmitRing`, which serve both the invariant and the
refinement. The arithmetic of the modulus is in `ModStays`, `ModWraps` and
`SlotAfter`.

### Device identity, HTTP client, detector

`DeviceIdentity`: nothing is assumed of the ids in the replies. `Kept` adds to
`StableUntilTorn` what the next start needs: outside a write that has not been cut off,
the file holds `identity`, and it holds no id if none was ever written. `Paid` makes `DevicesExplained`
inductive by counting one device less while the file is empty and the process has
not yet registered.

`HttpPost`: `Judged` says that a status other than -1 was read from the reply at
hand, that only a backend that acted replies with a success, and that the status
stays -1 until the call returns; it carries the refinement. `IdsWhole` rests on what
the code's searches find: a body has one key, where the lead ends (`ReplyBodyIs`), the
first occurrence of a unit is unique and lies where the part that arrived has it
(`FirstFound`), and that part is the whole body exactly if nothing was cut
(`ArrivedIs`). From these `IdReadIs` computes `IdRead` for every length of what was
read: behind the key no quote comes before the one that closes the id, so that a body
cut in front of it yields nothing.

`Detector`: memory holds, by dimension, the ruleset in force or the one being
stored (`MemoryInv`); a running check has both among its candidates
(`CandidatesInv`); what has been read of a threshold is a candidate or 0, and a
threshold once found set stays set (`LoadedInv`). That is what makes the second
read of `anomaly_detector.c:42-43` harmless under `Sensible`, and only then.

### Parser, message bodies, ruleset fetch, CPU gauge, client roster

`PacketParser`: the reference that `ParsesExactly` compares with is a division of
the bytes into labels (`Naming`), the code is a walk. `WalkInv` says that any
division agrees with the walk so far, and that what is copied is what was
passed. Where the walk stops, `AgreesWith` settles whether there is a division at
all; `NoneBetween`, that no label starts inside another, is what a step of the
walk needs. The rest is the order of the bounds: each read lies below a length
that an earlier header check has compared (`reach`).

`BatchBody`: `Composed` says that the buffer holds the events taken so far, woven
with separators, in as many bytes as their lengths add up to, and that the last
entry began where the reserve was still free; `Full` says why no further event was
taken. The length of a message grows with the events in it (`KnownGrows`), so that a
message that fits with the reserve to spare never meets the condition that stops it
(`WhenFull`), and the closing brackets lack room only behind an entry longer than
what was reserved for it. "Which events have an entry" and "how long is a message"
are folds, unfolded one event at a time by the lemmas of `FoldFacts`.

`RulesetFetch`: what was printed and not read is in the pipe (`Transferred`), and a
child that exits with success has printed the whole reply; so all of a reply that
is taken is in the buffer or in the pipe. `CutNumber` compares a text with
its beginning: the only number of the beginning that is neither missing nor that of the
text is one whose digits go on behind the cut.

`CpuGauge`: the unsigned differences are those of the ticks in between, since
neither they nor a hundred times as much reach the modulus; 100 less the idle
share, rounded down, is the busy share rounded up (`Complement`). When idle
time went back the percentage is within 0..100 because it is clamped, and that is
all that is stated of it.

`ClientRoster`: `ActivityInv` joins the table to the history: an entry's `last_seen`
is when its client was heard last, and a client without an entry was heard no
later than anybody in the table, which is full. Hence whom an eviction
hits, and why a missing mark of online is owed to as many other clients as the table has
places (`FullTableBusier`, by counting).

### Capture loop and its tables

The window's promises hold only together (`WindowInv`): what is subtracted from
the aggregates when a record is evicted is what was once added to them because
the ring is the tail of the history (`LatestKept`), and no borrow occurs because
the sums of a full window are below the modulus. `WindowExact` is `LatestKept`
with `RecentKept`: no packet of the last `Seconds` is missing unless the ring is
full of later ones. `CaptureLoop_proofs` takes these facts over by
`INSTANCE PacketWindow_proofs`.

For the loop itself each property has its own invariant beside the common
`RingsInv` (window, forensic ring and the histories belong together):

* `SpacedInv`: successive flushes are `StatsSeconds` or more apart, each by the clock
  that ended it. The agent needs it.
* `PacedInv`: the latest request for a ruleset is in `jobs`, or was made at the
  start. Without it nothing relates `last_rules_sync` to the jobs.
* `OrderInv`: packets before the latest flush are older than it, later ones came
  too early for the next. That holds even if the clock is set back, since a clock
  behind the latest flush puts the next one off. `OldestKept` of the packet window
  says that what stays in it begins no earlier than behind an unexpired record;
  under `Steady` the two leave at most one packet of the flush before in the window
  (`WindowAtFlush`). `CountedInv` then bounds what the jobs count.
* `TablesInv`, `CountsInv`: the entries of the flow table are distinct, and each
  counts the packets of its flow since the latest flush, while every flow has a
  place or the table is full. `JobsInv` is the type of the jobs, `PlaceInv` that
  of the program points.
* `TableHolds` needs no more than these two. Two facts carry it: a fold over the
  table that keeps the better entry ends with the first of the best ones
  (`TopIs`, `ScanIs`), and the entries that set a bit of a source map one-to-one to
  endpoints it reached (`BitsReached`), while with a place for every flow each
  slot of such an endpoint has an entry that sets its bit (`SlotsSet`).
* `QueriesInv` says the same of the DNS window: an entry counts the queries of its
  client for its domain since the latest flush, and a query is missing only from a
  full table (`QueriesKept`). A packet without a query changes none of the counts
  (`NoQueryKept`).
* `NamedInv`: an alert's threshold is at least 1, so at least two packets of its
  protocol are in the window, and by `WindowAtFlush` one of them came since the
  flush before and is in the flow table.
* `ReportedInv`: for each client and domain, jobs plus table never exceed what was
  asked, and equal it if the table has room for every pair (the premise of
  `QueriesReportedOnce`).

### Agent

Every step of the process is a step of the loop or leaves the loop's variables
alone (`LoopStep`), and the same for the uploader (`UploaderStep`). The second
half is not free: a flush submits the shape that `ShapeOf` computes of the new
job, which must be one of `Shapes`, and the thresholds must be a ruleset
(`ThresholdsKnown`). Hence `LoopRuns` and `UploaderRuns`, and with them all
invariants of the parts (`LoopInv`, `UpProofs!IInv`) for the process.

Neither part knows the other's view of a batch: for the uploader it is a number,
for the loop a place in `jobs`. `PostsInv` joins the two: as many batches were
submitted as there are jobs; `posted` holds of each batch at most one message of
each of the two kinds that carry counts, batches in their order; and of the
batch in flight only messages that come before `step`. That a shape never names
a kind twice (`OnceTogether`) and that a batch once left is never begun again
(`InFlight` of the uploader) make it inductive (`PostedOnce`).

* `LostOnlyWhenOld`: the batch that is overwritten is the one submitted `Capacity`
  flushes before the new one, since ids in the ring are consecutive
  (`FreshestKept`), and by `SpacedInv` those flushes took `StatsSeconds` each.
* `NeverOvercounts`: what was posted is a part of the jobs in their order
  (`Picked`), so its sum is at most that of the jobs (`SumOfPicked`). For queries
  `ReportedInv` bounds the sum of the jobs. For packets `CountedInv` allows one
  packet too many for each job but the first, and a job that was lost must not
  lend its packet to those that were posted: one packet is taken off every job,
  the sums of what is left are compared, and one is given back per posted job.

### Induction over data

Sums over sequences are folds, which the provers do not unfold by themselves.
`FoldFacts` takes the definition of the fold of the community modules apart
once: it is the last value of a function on the sets `1..k`
(`FoldsExist`, `FoldsStep`), which gives `FoldOfAppend` by the principle of
induction over the numbers in the form `Induction`, with the property a set and
not an operator. The lemmas about sums (appending, removing the first elements,
comparing two sequences, a part of a sequence against the whole) follow from these
two.

### Only model-checked

* Liveness: `ShutdownCompletes`, `QueueFairSpec`, `PlainReturns`,
  `SignalEndsProcess`. The prover handles neither ENABLED nor fairness.
* Of the parts of `MCParts`: `CountsExact`, `FanoutSound` and `SampleIsLatest` of the
  tables on their own. Within the loop, where the tables are used, the promises of
  the flow table (`TableHolds`), the DNS window (`QueriesCounted`), the packet window
  and the forensic ring (`PartsHold`) are proved.

No module uses a RECURSIVE operator, so that every module can be proved about.

## 6. Not modelled, and why

Packet capture, logger, time format and scripts do only I/O and formatting. The
traffic statistics are a record, `Counters` in `PacketWindow`. Of the ruleset
fetch, the URL, the version string (it is only logged) and numbers of 2^64 or
more are left out; `uclient-fetch` has a timeout of its own, which is not the
code's. The uploader and the detector take the outcome of a fetch, a ruleset or
a failure, as an input. The traffic, alert and heartbeat messages have
a fixed size and no state but that of `CpuGauge`. A request longer than
`HTTP_REQUEST_MAX` is the failure of `Build`. A reply has at most one `deviceId`
key, with a string for its value; in `DeviceIdentity` ids fit `device_id` (one of
64 bytes or more is cut, at the same place each time: that is in `HttpPost`). How long the agent can be silent
when the clock is set back is not stated: nothing bounds it but the step itself. JSON and HTTP texts
are abstracted to what they carry. A threshold of 2^32 or more on a 32-bit
machine can be torn by the race in `Detector`; `detector` covers the
thresholds that fit one word, which is every sensible one.

## 7. Plan

Done: the modules of section 2 and the theorems of section 5. What is left is
to prove more: the counts of `FlowTable` and `DnsWindow` on their own, along the
lemmas that `CaptureLoop_proofs` has for them.
