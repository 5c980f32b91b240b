------------------------------ MODULE Uploader ------------------------------
(***************************************************************************)
(* The telemetry uploader (src/src/uploader.c) and the part of main        *)
(* (src/src/main.c) that starts it, feeds it and stops it.                 *)
(*                                                                         *)
(* Two threads share a ring of Capacity batches: the capture thread        *)
(* submits one batch per statistics window and must never block; the       *)
(* uploader thread takes the oldest batch and posts its messages one by    *)
(* one.  Everything shared is accessed under g_lock and no critical        *)
(* section blocks while it holds the lock, so each critical section is one *)
(* action.  pthread_cond_wait releases the lock and sleeps atomically; a   *)
(* thread that wakes re-acquires the lock and evaluates the loop condition *)
(* again, which is program point "check".                                  *)
(*                                                                         *)
(* A definition marked "Mutant of D" is a plausible bug: D with that body  *)
(* must violate a property.  No other definition uses it.                  *)
(***************************************************************************)
EXTENDS Integers, Sequences

CONSTANTS
    Capacity,   \* UPLOAD_QUEUE_CAPACITY
    MaxJobs,    \* bound: how many batches the capture thread submits
    Shapes,     \* what a batch can carry
    Rulesets,   \* the rulesets the backend can answer with
    NoJob,      \* content of a slot never written
    NoRuleset   \* the thresholds before any ruleset arrived

(* The messages a batch may or may not carry, beside the traffic window    *)
(* and the alerts.                                                         *)
Extras == {"dns", "clients", "forensics", "heartbeat", "rules"}

Job == [id : 1..MaxJobs, shape : Shapes]

ASSUME UploaderAssumption ==
    /\ Capacity \in Nat \ {0}
    /\ MaxJobs \in Nat
    /\ Shapes \subseteq [alerts : Nat, extras : SUBSET Extras]
    /\ NoJob \notin Job

VARIABLES
    g_queue, g_head, g_count,  \* the ring
    g_dropped,                 \* batches overwritten before they were sent
    g_running, g_started,      \* life cycle flags
    ready,                     \* backend_ready(): fixed before the start
    mpc,                       \* where the capture (main) thread is
    wpc,                       \* where the uploader thread is
    job, step,                 \* the uploader's own copy, its next message
    thresholds,                \* the ruleset in force in the detector
    submitted, taken, last     \* history: batches handed over, batches
                               \* begun, the last message attempted

ring == <<g_queue, g_head, g_count>>
lifecycle == <<g_running, g_started, ready>>
history == <<submitted, taken, last>>
vars == <<ring, g_dropped, lifecycle, mpc, wpc, job, step, thresholds, history>>

-----------------------------------------------------------------------------
(* The messages run_job posts for a batch, in its order.                   *)
Optional(shape, kind) == IF kind \in shape.extras THEN <<kind>> ELSE <<>>

Messages(j) ==
    <<"traffic">> \o [i \in 1..j.shape.alerts |-> "alert"]
      \o Optional(j.shape, "dns") \o Optional(j.shape, "clients")
      \o Optional(j.shape, "forensics") \o Optional(j.shape, "heartbeat")
      \o Optional(j.shape, "rules")

(* pthread_cond_signal: the uploader is the only thread that ever waits.   *)
NoWakeUp(pc) == pc   \* Mutant of Signalled: the signal is forgotten
Signalled(pc) == IF pc = "waiting" THEN "check" ELSE pc

(* The loop condition around pthread_cond_wait.                            *)
WaitIgnoresStop == g_count = 0   \* Mutant of MustWait: the flag is not read
MustWait == g_running /\ g_count = 0

-----------------------------------------------------------------------------
(* main tries to fetch a ruleset before it starts the uploader             *)
(* (sync_ruleset).                                                         *)
BootRulesets == {NoRuleset} \cup (IF ready THEN Rulesets ELSE {})

Init ==
    /\ g_queue = [i \in 0..(Capacity - 1) |-> NoJob]
    /\ g_head = 0 /\ g_count = 0 /\ g_dropped = 0
    /\ g_running = FALSE /\ g_started = FALSE
    /\ ready \in BOOLEAN
    /\ mpc = "boot" /\ wpc = "none"
    /\ job = NoJob /\ step = 1
    /\ thresholds \in BootRulesets
    /\ submitted = 0 /\ taken = 0 /\ last = <<0, 0>>

(* uploader_start: pthread_create may fail, and main then goes on without  *)
(* an uploader.  The new thread reads none of what main writes after       *)
(* pthread_create, so the call is one action.                              *)
Start ==
    /\ mpc = "boot"
    /\ mpc' = "loop"
    /\ \E created \in BOOLEAN :
          /\ g_running' = created
          /\ g_started' = created
          /\ wpc' = IF created THEN "check" ELSE "none"
    /\ UNCHANGED <<ring, g_dropped, ready, job, step, thresholds, history>>

(* uploader_submit on an uploader that did not start: the batch is lost.   *)
SubmitIgnored ==
    /\ mpc = "loop"
    /\ ~g_started
    /\ submitted < MaxJobs
    /\ submitted' = submitted + 1
    /\ UNCHANGED <<ring, g_dropped, lifecycle, mpc, wpc, job, step,
                   thresholds, taken, last>>

(* uploader_submit: when the ring is full its oldest batch makes room.     *)
KeepOldest == <<g_head, g_count - 1>>       \* Mutant of DropOldest: newest is overwritten
NoWrap == <<g_head + 1, g_count - 1>>       \* Mutant of DropOldest: head leaves the ring
ClearAll == <<g_head, 0>>                   \* Mutant of DropOldest: the ring is emptied
DropOldest == <<(g_head + 1) % Capacity, g_count - 1>>

Submit(shape) ==
    /\ mpc = "loop"
    /\ g_started
    /\ submitted < MaxJobs
    /\ LET full == g_count = Capacity
           room == IF full THEN DropOldest ELSE <<g_head, g_count>>
           tail == (room[1] + room[2]) % Capacity
       IN  /\ g_head' = room[1]
           /\ g_count' = room[2] + 1
           /\ g_queue' = [g_queue EXCEPT ![tail] =
                             [id |-> submitted + 1, shape |-> shape]]
           /\ g_dropped' = IF full THEN g_dropped + 1 ELSE g_dropped
    /\ submitted' = submitted + 1
    /\ wpc' = Signalled(wpc)
    /\ UNCHANGED <<lifecycle, mpc, job, step, thresholds, taken, last>>

(* The capture loop ends after a signal; uploader_stop.                    *)
StopNotStarted ==
    /\ mpc = "loop"
    /\ ~g_started
    /\ mpc' = "exit"
    /\ UNCHANGED <<ring, g_dropped, lifecycle, wpc, job, step, thresholds, history>>

Stop ==
    /\ mpc = "loop"
    /\ g_started
    /\ g_running' = FALSE
    /\ wpc' = Signalled(wpc)
    /\ mpc' = "join"
    /\ UNCHANGED <<ring, g_dropped, g_started, ready, job, step, thresholds, history>>

JoinReturnsEarly == wpc # "waiting"   \* Mutant of JoinReturns
JoinReturns == wpc = "exited"

Join ==
    /\ mpc = "join"
    /\ JoinReturns
    /\ g_started' = FALSE
    /\ mpc' = "exit"
    /\ UNCHANGED <<ring, g_dropped, g_running, ready, wpc, job, step, thresholds,
                   history>>

(* A capture error ends main without uploader_stop: the uploader thread    *)
(* goes on until the process is gone.                                      *)
CaptureError ==
    /\ mpc = "loop"
    /\ mpc' = "failing"
    /\ UNCHANGED <<ring, g_dropped, lifecycle, wpc, job, step, thresholds, history>>

ProcessEnd ==
    /\ mpc = "failing"
    /\ mpc' = "dead"
    /\ wpc' = IF wpc = "none" THEN "none" ELSE "dead"
    /\ UNCHANGED <<ring, g_dropped, lifecycle, job, step, thresholds, history>>

-----------------------------------------------------------------------------
(* uploader_main: one pass through the critical section.                   *)
Wait ==
    /\ wpc = "check"
    /\ MustWait
    /\ wpc' = "waiting"
    /\ UNCHANGED <<ring, g_dropped, lifecycle, mpc, job, step, thresholds, history>>

(* POSIX lets pthread_cond_wait return without a signal.                   *)
SpuriousWakeUp ==
    /\ wpc = "waiting"
    /\ wpc' = "check"
    /\ UNCHANGED <<ring, g_dropped, lifecycle, mpc, job, step, thresholds, history>>

DrainsFirst == ~g_running /\ g_count = 0   \* Mutant of Leaves: sends the rest
Leaves == ~g_running

Leave ==
    /\ wpc = "check"
    /\ Leaves
    /\ wpc' = "exited"
    /\ UNCHANGED <<ring, g_dropped, lifecycle, mpc, job, step, thresholds, history>>

Newest ==   \* Mutant of Oldest: a stack
    g_queue[(g_head + g_count - 1) % Capacity]

Oldest == g_queue[g_head]

Take ==
    /\ wpc = "check"
    /\ ~MustWait /\ ~Leaves
    /\ job' = Oldest
    /\ step' = 1
    /\ g_head' = (g_head + 1) % Capacity
    /\ g_count' = g_count - 1
    /\ taken' = taken + 1
    /\ wpc' = "run"
    /\ UNCHANGED <<g_queue, g_dropped, lifecycle, mpc, thresholds, submitted, last>>

(* run_job: each message is posted whatever became of the one before; a    *)
(* ruleset that was fetched goes to the detector.                          *)

GiveUp(delivered) ==   \* Mutant of GoOn: a failed post ends the batch
    IF delivered THEN step + 1 ELSE Len(Messages(job)) + 1

GoOn(delivered) == step + 1

Post ==
    /\ wpc = "run"
    /\ ready
    /\ step <= Len(Messages(job))
    /\ \E delivered \in BOOLEAN :
          /\ step' = GoOn(delivered)
          /\ IF delivered /\ Messages(job)[step] = "rules"
             THEN thresholds' \in Rulesets
             ELSE UNCHANGED thresholds
    /\ last' = <<job.id, step>>
    /\ UNCHANGED <<ring, g_dropped, lifecycle, mpc, wpc, job, submitted, taken>>

Return ==
    /\ wpc = "run"
    /\ ready => step > Len(Messages(job))
    /\ wpc' = "check"
    /\ UNCHANGED <<ring, g_dropped, lifecycle, mpc, job, step, thresholds, history>>

-----------------------------------------------------------------------------
(* main has returned, or the process is gone.                              *)
Terminated == mpc \in {"exit", "dead"} /\ UNCHANGED vars

Main ==
    \/ Start \/ SubmitIgnored \/ (\E shape \in Shapes : Submit(shape))
    \/ StopNotStarted \/ Stop \/ Join \/ CaptureError \/ ProcessEnd

Worker == Wait \/ Leave \/ Take \/ Post \/ Return

Next == Main \/ Worker \/ SpuriousWakeUp \/ Terminated

Spec == Init /\ [][Next]_vars

(* The scheduler runs the uploader thread and the thread that joins it.    *)
(* A post returns because both socket directions have a timeout (over TLS: *)
(* assumed).  Nothing is assumed of traffic, of signals, or of spurious    *)
(* wake-ups.                                                               *)
Fairness == WF_vars(Worker) /\ WF_vars(Join) /\ WF_vars(ProcessEnd)

FairSpec == Spec /\ Fairness

-----------------------------------------------------------------------------
Slots == 0..(Capacity - 1)

(* Every variable has the type its C declaration and use give it; the head *)
(* stays inside the ring and the count within its capacity.                *)
TypeOK ==
    /\ g_queue \in [Slots -> Job \cup {NoJob}]
    /\ g_head \in Slots
    /\ g_count \in 0..Capacity
    /\ g_dropped \in Nat
    /\ g_running \in BOOLEAN /\ g_started \in BOOLEAN /\ ready \in BOOLEAN
    /\ mpc \in {"boot", "loop", "join", "exit", "failing", "dead"}
    /\ wpc \in {"none", "check", "waiting", "run", "exited", "dead"}
    /\ job \in Job \cup {NoJob}
    /\ step \in Nat \ {0}
    /\ thresholds \in Rulesets \cup {NoRuleset}
    /\ submitted \in 0..MaxJobs
    /\ taken \in Nat
    /\ last \in Nat \X Nat

(* The batches in the ring, oldest first.                                  *)
Pending == [i \in 1..g_count |-> g_queue[(g_head + i - 1) % Capacity]]

(* The ring holds exactly the newest g_count batches handed over, in the   *)
(* order they came: overflow costs the oldest telemetry, never the newest, *)
(* and neither wrapping around nor racing with the uploader loses or       *)
(* repeats one.                                                            *)
FreshestKept ==
    \A i \in 1..g_count : /\ Pending[i] # NoJob
                          /\ Pending[i].id = submitted - g_count + i

(* No batch is lost without being counted: each one handed to a started    *)
(* uploader is in the ring, was begun by the uploader, or is in g_dropped. *)
Accounted == wpc # "none" => submitted = g_dropped + g_count + taken

(* No lost wake-up: the uploader is never asleep while there is a batch to *)
(* send or a stop request to obey.                                         *)
NoLostWakeUp == wpc = "waiting" => g_running /\ g_count = 0

(* main returns normally only after the uploader thread is over: the       *)
(* backend_config the uploader reads lives in main's stack frame.          *)
ConfigOutlivesUploader == mpc = "exit" => wpc \in {"none", "exited"}

(* The strengthening that makes the invariants above inductive.  Lifecycle *)
(* ties the flags to the two program points: the uploader exists exactly   *)
(* when it was started, and nothing was queued or sent before that.        *)
Lifecycle ==
    /\ mpc \in {"loop", "failing"} => (g_started <=> wpc # "none")
    /\ mpc \in {"loop", "failing"} => (g_running <=> g_started)
    /\ mpc \in {"boot", "join"} => ~g_running
    /\ mpc = "boot" => ~g_started /\ wpc = "none" /\ submitted = 0
    /\ mpc = "join" => wpc # "none"
    /\ wpc = "none" => g_count = 0 /\ g_dropped = 0 /\ taken = 0
    /\ wpc = "exited" => ~g_running
    /\ wpc = "dead" => mpc = "dead"
    /\ mpc = "dead" => wpc \in {"none", "dead"}
    /\ mpc = "exit" => wpc \in {"none", "exited"}

(* What the uploader attempted last, relative to the batch it holds and to *)
(* the batches still in the ring, which are all newer.                     *)
InFlight ==
    /\ last[1] <= submitted - g_count
    /\ wpc = "run" =>
          /\ job # NoJob
          /\ job.id <= submitted - g_count
          /\ step <= Len(Messages(job)) + 1
          /\ \/ step = 1 /\ last[1] < job.id
             \/ step > 1 /\ last = <<job.id, step - 1>>

IInv == TypeOK /\ FreshestKept /\ Accounted /\ NoLostWakeUp /\ Lifecycle /\ InFlight

(* Every message is attempted at most once, messages of one batch in       *)
(* run_job's order and batches in the order they were submitted: nothing   *)
(* is sent again, reordered or skipped within a batch.                     *)
MessagesInOrder ==
    [][last' # last =>
         \/ last'[1] = last[1] /\ last'[2] = last[2] + 1
         \/ last'[1] > last[1] /\ last'[2] = 1]_vars

(* A failed post never costs the later messages of its batch: a batch the  *)
(* uploader is done with (and could send at all) was attempted to its end. *)
BatchesRunToTheEnd ==
    [][wpc = "run" /\ wpc' = "check" /\ ready
         => last = <<job.id, Len(Messages(job))>>]_vars

(* After a stop request the uploader begins no batch, so stopping takes at *)
(* most the rest of the batch in flight.                                   *)
NothingBegunAfterStop == [][~g_running => taken' = taken]_vars

(* The uploader implements the lossy queue; a process that is gone closed  *)
(* its queue.                                                              *)
Queue == INSTANCE LossyQueue
           WITH Elem <- Job, pending <- Pending, current <- job,
                open <- g_running /\ mpc # "dead"

QueueSpec == Queue!Spec

(* The same with the promise that an open queue is taken from.             *)
QueueFairSpec == Queue!FairSpec

(* uploader_stop returns: the join cannot wait for ever.                   *)
ShutdownCompletes == mpc = "join" ~> mpc = "exit"
=============================================================================
