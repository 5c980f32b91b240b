------------------------------ MODULE CpuGauge ------------------------------
(***************************************************************************)
(* The CPU percentage of a heartbeat (read_cpu_percent and                 *)
(* backend_send_heartbeat in src/src/backend_client.c): the share of busy  *)
(* time since the previous call, from counters of the kernel that only     *)
(* grow, but for iowait, which is part of the idle time and may go back.   *)
(*                                                                         *)
(* Arithmetic is unsigned: modulo 2^64 (WordModulus), and the percentage   *)
(* is converted to an int of 2^32 values (IntModulus).                     *)
(*                                                                         *)
(* A definition marked "Mutant of D" is a plausible bug: D with that body  *)
(* must violate a property.  No other definition uses it.                  *)
(***************************************************************************)
EXTENDS Integers

CONSTANTS
    WordModulus, IntModulus,
    IowaitGoesBack,  \* whether the kernel takes idle time back
    MaxTicks         \* bound: the counters stay in 0..MaxTicks

(* Both are wide enough for the ticks of a system that runs for ages, and  *)
(* an int for 100.                                                         *)
CpuGaugeAssumption ==
    /\ MaxTicks \in Nat
    /\ WordModulus \in Nat /\ 200 * MaxTicks + 100 < WordModulus
    /\ IntModulus \in Nat /\ 202 <= IntModulus

VARIABLES
    busy, idle,              \* external: the counters of /proc/stat, in two sums
    prev_total, prev_idle,   \* the static variables
    read,                    \* history: the counters of the last reading
    report                   \* the percentage of the last heartbeat, with the
                             \* reading it starts from and the one it ends with

gauge == <<prev_total, prev_idle, read, report>>
vars == <<busy, idle, gauge>>

NoReport == [percent |-> -1]
Counters == [busy |-> busy, idle |-> idle]
Total == busy + idle

-----------------------------------------------------------------------------
(* A difference is not negative, and the product may wrap around.          *)
Unsigned(n) == n % WordModulus
AsInt(n) == LET low == n % IntModulus
          IN  IF low < IntModulus \div 2 THEN low ELSE low - IntModulus

NotClamped(n) == n   \* Mutant of Clamped: an int is sent as it is
Clamped(n) == IF n < 0 THEN 0 ELSE IF n > 100 THEN 100 ELSE n

FirstSample == prev_total = 0 \/ Total <= prev_total

Percent ==
    LET dt == IF FirstSample THEN Total ELSE Total - prev_total
        di == IF FirstSample THEN idle ELSE Unsigned(idle - prev_idle)
    IN  IF dt = 0 THEN -1
        ELSE Clamped(AsInt(Unsigned(100 - Unsigned(di * 100) \div dt)))

NotKept == prev_idle   \* Mutant of IdleKept: the idle time of the first reading stays
IdleKept == idle

(* A heartbeat reads /proc/stat, which may fail, and names the percentage  *)
(* when /proc/meminfo could be read too.                                   *)
Heartbeat ==
    /\ prev_total' = Total /\ prev_idle' = IdleKept
    /\ read' = Counters
    /\ report' \in { NoReport,
                     IF Percent = -1 THEN NoReport
                     ELSE [percent |-> Percent, from |-> read, to |-> Counters] }
    /\ UNCHANGED <<busy, idle>>

HeartbeatWithoutCpu ==
    /\ report' = NoReport
    /\ UNCHANGED <<busy, idle, prev_total, prev_idle, read>>

(* Time passes, and iowait may be corrected downwards.                     *)
Passes ==
    /\ busy' \in busy..MaxTicks
    /\ idle' \in (IF IowaitGoesBack /\ idle > 0 THEN idle - 1 ELSE idle)..MaxTicks
    /\ UNCHANGED gauge

-----------------------------------------------------------------------------
Init ==
    /\ busy = 0 /\ idle = 0
    /\ prev_total = 0 /\ prev_idle = 0
    /\ read = [busy |-> 0, idle |-> 0] /\ report = NoReport

Next == Heartbeat \/ HeartbeatWithoutCpu \/ Passes

Spec == Init /\ [][Next]_vars

-----------------------------------------------------------------------------
(* What a heartbeat says is a percentage and, unless the idle time went    *)
(* back since the reading before, the share of busy time since then, in    *)
(* full per cents rounded up, whatever readings failed or were not sent in *)
(* between.  When no time has passed it is the share since boot.           *)
Share(b, total) == (100 * b + total - 1) \div total

ReportsBusyShare ==
    report # NoReport =>
        LET b == report.to.busy - report.from.busy
            d == report.to.idle - report.from.idle
        IN  /\ report.percent \in 0..100
            /\ d >= 0 => report.percent =
                  IF b + d > 0 THEN Share(b, b + d)
                  ELSE Share(report.to.busy, report.to.busy + report.to.idle)
=============================================================================
