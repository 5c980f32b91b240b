------------------------------ MODULE Detector ------------------------------
(***************************************************************************)
(* The anomaly detector (src/src/anomaly_detector.c) and the thresholds it *)
(* shares between two threads: the uploader thread stores a ruleset it     *)
(* fetched (src/src/rules_client.c) while the capture thread may be inside *)
(* anomaly_detector_check.  The three thresholds are volatile uint64_t     *)
(* with no lock or barrier around them: a store or a load is one step      *)
(* where the machine accesses 64 bits at once and two, in either order,    *)
(* where it has 32-bit words, and the stores of one call become visible to *)
(* the other core in any order (the agent runs on multi-core ARM routers). *)
(* A threshold in force is read twice: once for the test against 0, once   *)
(* for its value.                                                          *)
(*                                                                         *)
(* A definition marked "Mutant of D" is a plausible bug: D with that body  *)
(* must violate a property.  No other definition uses it.                  *)
(***************************************************************************)
EXTENDS Integers, Sequences, SequencesExt

CONSTANTS
    Atomic64,   \* whether a 64-bit access is a single step
    Base,       \* the number of values of one word (2^32)
    Rulesets,   \* what a fetch can yield, by dimension; 0: the key is missing
    Windows,    \* what a window can amount to, by dimension
    Environments, \* what the ANOMALY_* variables parse to, by dimension;
                \* 0: unset, malformed or 0
    Default     \* the compiled-in thresholds, by dimension

(* udp_packets, tcp_packets and total_bytes.                               *)
Dim == {"udp", "tcp", "bytes"}
Words == {"lo", "hi"}

MaxAlerts == 4   \* ANOMALY_MAX_ALERTS

ASSUME DetectorAssumption ==
    /\ Atomic64 \in BOOLEAN
    /\ Base \in Nat \ {0, 1}
    /\ Rulesets \subseteq [Dim -> 0..(Base * Base - 1)]
    /\ Windows \subseteq [Dim -> Nat]
    /\ Environments \subseteq [Dim -> Nat]
    /\ Default \in [Dim -> Nat \ {0}]

VARIABLES
    memory,     \* the three thresholds as they lie in memory, by word
    env,        \* the process environment: never changes
    storing,    \* the ruleset the uploader thread is storing, or Idle
    stored,     \* the words it has stored: pairs <<dimension, word>>
    stats,      \* the window under check
    at,         \* what the capture thread is doing: <<dimension, read>>
    loaded,     \* the words of the current read it has
    alerts,     \* the dimensions it raised an alert for, in order
    inForce,    \* history: the ruleset stored last
    candidates  \* history: by dimension, the thresholds the detector could
                \* rightly use at some point of this check

writer == <<storing, stored, inForce>>
reader == <<stats, at, loaded, alerts>>
vars == <<memory, env, writer, reader, candidates>>

-----------------------------------------------------------------------------
NotSet == [d \in Dim |-> 0]
Idle == [d \in Dim |-> -1]

Split(v) == [w \in Words |-> IF w = "lo" THEN v % Base ELSE v \div Base]
Joined(words) == words["hi"] * Base + words["lo"]

(* The parts in which a 64-bit value is loaded or stored.                  *)
Parts == IF Atomic64 THEN {Words} ELSE {{w} : w \in Words}

(* env_threshold: anything but a positive number leaves the default.       *)
EnvTaken(d) == env[d]   \* Mutant of Fallback: 0 is taken for a threshold
Fallback(d) == IF env[d] > 0 THEN env[d] ELSE Default[d]

(* The threshold a ruleset means for a dimension: its own, else that of    *)
(* the environment, else the compiled one, of which 0 is none.             *)
Meant(ruleset, d) ==
    CASE ruleset[d] > 0 -> ruleset[d]
      [] ruleset[d] = 0 /\ env[d] > 0 -> env[d]
      [] OTHER -> Default[d]

Checking == at[2] \in {"test", "use"}
Storing == storing # Idle

-----------------------------------------------------------------------------
(* The thresholds start at 0; main then tries a first fetch before there   *)
(* is an uploader thread (sync_ruleset).                                   *)
Init ==
    /\ inForce \in Rulesets \cup {NotSet}
    /\ memory = [d \in Dim |-> Split(inForce[d])]
    /\ env \in Environments
    /\ storing = Idle /\ stored = {}
    /\ stats = [d \in Dim |-> 0]
    /\ at = <<"udp", "done">> /\ loaded = [w \in {} |-> 0] /\ alerts = <<>>
    /\ candidates = [d \in Dim |-> {Meant(inForce, d)}]

(* rules_client_fetch succeeded; a key the reply lacks leaves a 0.  (When  *)
(* the fetch fails nothing is stored.)                                     *)
Fetch ==
    /\ ~Storing
    /\ storing' \in Rulesets
    /\ candidates' = [d \in Dim |->
          IF Checking THEN candidates[d] \cup {Meant(storing', d)} ELSE candidates[d]]
    /\ UNCHANGED <<memory, env, stored, reader, inForce>>

(* anomaly_detector_set_thresholds: one of its stores becomes visible.     *)
ClearsFirst(d, w) == IF memory[d][w] # 0 THEN 0 ELSE Split(storing[d])[w]  \* Mutant of StoredWord
StoredWord(d, w) == Split(storing[d])[w]

Store(d) ==
    /\ Storing
    /\ \E part \in Parts :
          /\ \A w \in part : <<d, w>> \notin stored
          /\ memory' = [memory EXCEPT ![d] =
                           [w \in Words |-> IF w \in part THEN StoredWord(d, w) ELSE @[w]]]
          /\ stored' = stored \cup {<<d, w>> : w \in part}
    /\ UNCHANGED <<env, storing, inForce, reader, candidates>>

SetReturns ==
    /\ Storing
    /\ stored = Dim \X Words
    /\ inForce' = storing
    /\ storing' = Idle /\ stored' = {}
    /\ UNCHANGED <<memory, env, reader, candidates>>

-----------------------------------------------------------------------------
(* flush_window calls anomaly_detector_check on the finished window.       *)
Check ==
    /\ at[2] = "done"
    /\ stats' \in Windows
    /\ at' = <<"udp", "test">>
    /\ loaded' = [w \in {} |-> 0]
    /\ alerts' = <<>>
    /\ candidates' = [d \in Dim |->
          {Meant(inForce, d)} \cup IF Storing THEN {Meant(storing, d)} ELSE {}]
    /\ UNCHANGED <<memory, env, writer>>

(* One step of reading the threshold of the dimension at hand.             *)
Load ==
    /\ Checking
    /\ \E part \in Parts :
          /\ part \cap DOMAIN loaded = {}
          /\ loaded' = [w \in DOMAIN loaded \cup part |->
                           IF w \in part THEN memory[at[1]][w] ELSE loaded[w]]
    /\ UNCHANGED <<memory, env, writer, stats, at, alerts, candidates>>

(* The first read is complete: if (backend_x_threshold > 0).               *)
Read == DOMAIN loaded = Words

TestPositive ==
    /\ at[2] = "test" /\ Read /\ Joined(loaded) > 0
    /\ at' = <<at[1], "use">>
    /\ loaded' = [w \in {} |-> 0]
    /\ UNCHANGED <<memory, env, writer, stats, alerts, candidates>>

(* Comparing the window with the threshold t and going on to the next      *)
(* dimension.                                                              *)
Exceeds(t) == stats[at[1]] > t

Decide(t) ==
    /\ alerts' = IF Exceeds(t) /\ Len(alerts) < MaxAlerts
                 THEN Append(alerts, at[1]) ELSE alerts
    /\ at' = CASE at[1] = "udp" -> <<"tcp", "test">>
               [] at[1] = "tcp" -> <<"bytes", "test">>
               [] at[1] = "bytes" -> <<"bytes", "done">>
    /\ loaded' = [w \in {} |-> 0]
    /\ UNCHANGED <<memory, env, writer, stats, candidates>>

DecideOnFallback ==
    /\ at[2] = "test" /\ Read /\ Joined(loaded) = 0
    /\ Decide(Fallback(at[1]))

DecideOnBackend ==
    /\ at[2] = "use" /\ Read
    /\ Decide(Joined(loaded))

Uploader == Fetch \/ (\E d \in Dim : Store(d)) \/ SetReturns
Capture == Check \/ Load \/ TestPositive \/ DecideOnFallback \/ DecideOnBackend

Next == Uploader \/ Capture

Spec == Init /\ [][Next]_vars

-----------------------------------------------------------------------------
(* Memory holds words, a read has collected words, the alerts are distinct *)
(* dimensions.                                                             *)
TypeOK ==
    /\ memory \in [Dim -> [Words -> 0..(Base - 1)]]
    /\ env \in Environments
    /\ storing \in Rulesets \cup {Idle}
    /\ stored \subseteq Dim \X Words
    /\ stats \in [Dim -> Nat]
    /\ at \in Dim \X {"test", "use", "done"}
    /\ DOMAIN loaded \subseteq Words
    /\ \A w \in DOMAIN loaded : loaded[w] \in 0..(Base - 1)
    /\ alerts \in Seq(Dim) /\ IsInjective(alerts)
    /\ inForce \in Rulesets \cup {NotSet}
    /\ \A d \in Dim : candidates[d] \subseteq Nat \ {0}

(* Every verdict of a finished check is one some ruleset justifies that    *)
(* was in force, or being put in force, during the check: an alert is      *)
(* above one of those thresholds, a silence at or below one.  Without an   *)
(* update during the check the verdicts are exact.                         *)
VerdictsJustified ==
    at[2] = "done" =>
        \A d \in Dim :
            IF \E i \in DOMAIN alerts : alerts[i] = d
            THEN \E t \in candidates[d] : stats[d] > t
            ELSE \E t \in candidates[d] : stats[d] <= t

(* anomaly_detector.h: "A value of 0 leaves that dimension on its          *)
(* env/compiled default."  A check that is about to use the value of a     *)
(* backend threshold must not use 0.                                       *)
ZeroIsNoThreshold ==
    at[2] = "use" /\ Read => Joined(loaded) # 0
=============================================================================
