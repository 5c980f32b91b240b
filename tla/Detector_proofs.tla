--------------------------- MODULE Detector_proofs ---------------------------
(***************************************************************************)
(* Proofs about Detector, for 64-bit and 32-bit machines, every word size, *)
(* every set of rulesets, windows and environments.                        *)
(***************************************************************************)
EXTENDS Detector, TLAPS

-----------------------------------------------------------------------------
(* The dimensions whose verdict has been reached, in the order in which a  *)
(* check takes them.                                                       *)
Before(d) ==
    CASE d = "udp" -> {} [] d = "tcp" -> {"udp"} [] d = "bytes" -> {"udp", "tcp"}

Decided == IF at[2] = "done" THEN Dim ELSE Before(at[1])

Alerted(d) == \E i \in DOMAIN alerts : alerts[i] = d

(* No more alerts than verdicts: ANOMALY_MAX_ALERTS never cuts any off.    *)
AlertsInv ==
    /\ \A i \in DOMAIN alerts : alerts[i] \in Decided
    /\ \A i, j \in DOMAIN alerts : alerts[i] = alerts[j] => i = j
    /\ at[2] # "done" =>
         Len(alerts) <= (CASE at[1] = "udp" -> 0 [] at[1] = "tcp" -> 1 [] at[1] = "bytes" -> 2)

(* The state of both threads has its shape.                                *)
Shapes ==
    /\ memory \in [Dim -> [Words -> 0..(Base - 1)]]
    /\ env \in Environments
    /\ storing \in Rulesets \cup {Idle}
    /\ stored \subseteq Dim \X Words
    /\ stats \in [Dim -> Nat]
    /\ at \in Dim \X {"test", "use", "done"}
    /\ DOMAIN loaded \subseteq Words
    /\ loaded \in [DOMAIN loaded -> 0..(Base - 1)]
    /\ alerts \in Seq(Dim)
    /\ inForce \in Rulesets \cup {NotSet}
    /\ candidates \in [Dim -> SUBSET (Nat \ {0})]

-----------------------------------------------------------------------------
(* Rulesets that agree on the dimensions they set, to thresholds that one  *)
(* access can store.                                                       *)
Sensible ==
    \A d \in Dim :
        /\ (\A r \in Rulesets : r[d] > 0) \/ (\A r \in Rulesets : r[d] = 0)
        /\ Atomic64 \/ \A r \in Rulesets : r[d] < Base

(* What a threshold in memory, or what has been read of one, amounts to:   *)
(* where words are accessed one by one, the lower one says it all.         *)
Whole(words) == IF Atomic64 THEN Joined(words) ELSE words["lo"]

(* Memory holds the ruleset in force or, by dimension, the one that is     *)
(* being stored.                                                           *)
MemoryInv ==
    /\ ~Storing => stored = {}
    /\ \A d \in Dim :
          /\ Atomic64 \/ memory[d]["hi"] = 0
          /\ Whole(memory[d]) = inForce[d] \/ (Storing /\ Whole(memory[d]) = storing[d])
          /\ <<d, "lo">> \in stored => Whole(memory[d]) = storing[d]

(* A check may use the ruleset in force and the one being stored.          *)
CandidatesInv ==
    Checking => \A d \in Dim :
        /\ Meant(inForce, d) \in candidates[d]
        /\ Storing => Meant(storing, d) \in candidates[d]

(* A value that a check may have for the threshold of a dimension.         *)
Stands(v, d) == IF v > 0 THEN v \in candidates[d] ELSE Fallback(d) \in candidates[d]

(* What has been read of a threshold stands, and a threshold found set is  *)
(* still set.                                                              *)
LoadedInv ==
    /\ Atomic64 => DOMAIN loaded \in {{}, Words}
    /\ Checking =>
         /\ "hi" \in DOMAIN loaded => Atomic64 \/ loaded["hi"] = 0
         /\ "lo" \in DOMAIN loaded =>
               /\ Stands(Whole(loaded), at[1])
               /\ Whole(loaded) > 0 => Whole(memory[at[1]]) > 0
               /\ at[2] = "use" => Whole(loaded) > 0
         /\ at[2] = "use" => Whole(memory[at[1]]) > 0

(* The verdicts reached so far are justified.                              *)
Justified(d) ==
    IF Alerted(d) THEN \E t \in candidates[d] : stats[d] > t
                  ELSE \E t \in candidates[d] : stats[d] <= t

VerdictsInv == \A d \in Decided : Justified(d)

IInv == Shapes /\ AlertsInv /\ MemoryInv /\ CandidatesInv /\ LoadedInv /\ VerdictsInv

-----------------------------------------------------------------------------
(* A value that is split into words and joined again is the same value.    *)
LEMMA SplitJoined ==
    ASSUME NEW v \in 0..(Base * Base - 1)
    PROVE  /\ Split(v) \in [Words -> 0..(Base - 1)]
           /\ Joined(Split(v)) = v
           /\ v < Base => Split(v)["lo"] = v /\ Split(v)["hi"] = 0
<1>1. Base \in Nat /\ Base > 1
  BY DetectorAssumption
<1>2. /\ v % Base \in 0..(Base - 1) /\ v \div Base \in Nat
      /\ v = Base * (v \div Base) + (v % Base)
  BY <1>1, Z3
<1>3. v \div Base < Base
  <2>1. SUFFICES ASSUME v \div Base >= Base PROVE FALSE
    BY <1>1, <1>2
  <2>2. Base * (v \div Base) >= Base * Base
    BY <1>1, <1>2, <2>1, Z3
  <2> QED
    BY <1>1, <1>2, <2>2
<1>4. v < Base => v % Base = v /\ v \div Base = 0
  BY <1>1, <1>2, Z3
<1>5. Split(v)["lo"] = v % Base /\ Split(v)["hi"] = v \div Base
  BY DEF Split, Words
<1>6. Joined(Split(v)) = v
  <2>1. (v \div Base) * Base = Base * (v \div Base)
    BY <1>1, <1>2, Z3
  <2> QED
    BY <1>2, <1>5, <2>1 DEF Joined
<1>7. Split(v) \in [Words -> 0..(Base - 1)]
  BY <1>1, <1>2, <1>3 DEF Split, Words
<1> QED
  BY <1>4, <1>5, <1>6, <1>7

(* Words make up a natural number; with an upper one of 0 it is the lower. *)
LEMMA JoinedType ==
    ASSUME NEW words \in [Words -> 0..(Base - 1)]
    PROVE  /\ Joined(words) \in Nat
           /\ words["hi"] = 0 => Joined(words) = words["lo"]
<1>1. Base \in Nat /\ words["hi"] \in Nat /\ words["lo"] \in Nat
  BY DetectorAssumption DEF Words
<1>2. words["hi"] * Base \in Nat /\ (words["hi"] = 0 => words["hi"] * Base = 0)
  BY <1>1, Z3
<1> QED
  BY <1>1, <1>2 DEF Joined

(* What a ruleset means is a positive threshold: its own or the fallback.  *)
LEMMA MeantType ==
    ASSUME NEW r, r \in Rulesets \cup {NotSet, Idle}, env \in Environments, NEW d \in Dim
    PROVE  /\ Meant(r, d) \in Nat \ {0}
           /\ Fallback(d) \in Nat \ {0}
           /\ r[d] > 0 => Meant(r, d) = r[d]
           /\ r[d] = 0 => Meant(r, d) = Fallback(d)
<1>1. env[d] \in Nat /\ Default[d] \in Nat \ {0}
  BY DetectorAssumption
<1>2. r[d] \in Int
  BY DetectorAssumption DEF NotSet, Idle
<1> QED
  BY <1>1, <1>2 DEF Meant, Fallback

(* The ruleset being stored is one that was fetched.                       *)
LEMMA StoringType ==
    ASSUME Shapes, NEW d \in Dim
    PROVE  /\ Storing => storing \in Rulesets /\ storing[d] \in 0..(Base * Base - 1)
           /\ Idle \notin Rulesets
<1>1. Idle["udp"] = -1
  BY DEF Idle, Dim
<1>2. \A r \in Rulesets : r[d] \in 0..(Base * Base - 1) /\ r["udp"] \in 0..(Base * Base - 1)
  BY DetectorAssumption DEF Dim
<1>3. Idle \notin Rulesets
  BY <1>1, <1>2, DetectorAssumption
<1> QED
  BY <1>2, <1>3 DEF Shapes, Storing

-----------------------------------------------------------------------------
(* The shape of the state at the start.                                    *)
LEMMA InitShapes == Init => Shapes /\ AlertsInv
<1> SUFFICES ASSUME Init PROVE Shapes /\ AlertsInv
  OBVIOUS
<1>1. \A d \in Dim : inForce[d] \in 0..(Base * Base - 1)
  <2>1. Base * Base - 1 \in Nat
    <3>1. Base \in Nat /\ Base > 1
      BY DetectorAssumption
    <3> QED
      BY <3>1, Z3
  <2>2. CASE inForce = NotSet
    BY <2>1, <2>2 DEF NotSet
  <2>3. CASE inForce \in Rulesets
    BY <2>3, DetectorAssumption
  <2> QED
    BY <2>2, <2>3 DEF Init
<1>2. memory \in [Dim -> [Words -> 0..(Base - 1)]]
  BY <1>1, SplitJoined DEF Init
<1>3. candidates \in [Dim -> SUBSET (Nat \ {0})]
  BY MeantType DEF Init
<1> QED
  BY <1>2, <1>3 DEF Init, Shapes, AlertsInv, Decided, Dim

(* What the decision on a dimension appends, and where it leads.           *)
LEMMA DecideAlerts ==
    ASSUME Shapes, AlertsInv, Checking, NEW t, Decide(t)
    PROVE  /\ at[1] \in Dim \ Before(at[1])
           /\ at' \in Dim \X {"test", "use", "done"}
           /\ Decided' = Before(at[1]) \cup {at[1]}
           /\ alerts' \in Seq(Dim)
           /\ alerts' = IF Exceeds(t) THEN Append(alerts, at[1]) ELSE alerts
           /\ AlertsInv'
<1>1. at[1] \in Dim \ Before(at[1]) /\ at[2] # "done"
  BY DEF Shapes, Checking, Before, Dim
<1>2. at' \in Dim \X {"test", "use", "done"} /\ Decided' = Before(at[1]) \cup {at[1]}
  BY <1>1 DEF Decide, Decided, Before, Dim
<1>3. alerts \in Seq(Dim) /\ Len(alerts) < MaxAlerts
  BY <1>1 DEF Shapes, AlertsInv, MaxAlerts, Dim
<1>4. alerts' = IF Exceeds(t) THEN Append(alerts, at[1]) ELSE alerts
  BY <1>3 DEF Decide
<1>5. alerts' \in Seq(Dim)
  BY <1>1, <1>3, <1>4
<1>6. \A i \in DOMAIN alerts : alerts[i] \in Before(at[1])
  BY <1>1 DEF AlertsInv, Decided
<1>7. \A i \in DOMAIN alerts' : alerts'[i] \in Decided'
  BY <1>2, <1>3, <1>4, <1>6
<1>8. \A i, j \in DOMAIN alerts' : alerts'[i] = alerts'[j] => i = j
  BY <1>1, <1>3, <1>4, <1>6 DEF AlertsInv
<1>9. at'[2] # "done" =>
         Len(alerts') <= (CASE at'[1] = "udp" -> 0 [] at'[1] = "tcp" -> 1 [] at'[1] = "bytes" -> 2)
  <2>1. Len(alerts') <= Len(alerts) + 1 /\ Len(alerts) \in Nat /\ Len(alerts') \in Nat
    BY <1>3, <1>4
  <2>2. CASE at[1] = "udp"
    BY <1>1, <2>1, <2>2 DEF Decide, AlertsInv
  <2>3. CASE at[1] = "tcp"
    BY <1>1, <2>1, <2>3 DEF Decide, AlertsInv
  <2>4. CASE at[1] = "bytes"
    BY <2>4 DEF Decide
  <2> QED
    BY <1>1, <2>2, <2>3, <2>4 DEF Dim
<1> QED
  BY <1>1, <1>2, <1>4, <1>5, <1>7, <1>8, <1>9 DEF AlertsInv

(* A check decides while it is checking.                                   *)
LEMMA DecisionsAre ==
    ASSUME DecideOnFallback \/ DecideOnBackend
    PROVE  /\ Checking /\ Read
           /\ \E t : /\ Decide(t)
                     /\ t = IF at[2] = "test" THEN Fallback(at[1]) ELSE Joined(loaded)
                     /\ at[2] = "test" => Joined(loaded) = 0
<1>1. CASE DecideOnFallback
  BY <1>1 DEF DecideOnFallback, Checking
<1>2. CASE DecideOnBackend
  BY <1>2 DEF DecideOnBackend, Checking
<1> QED
  BY <1>1, <1>2

(* Every step keeps the shape and the order of the alerts.                 *)
LEMMA ShapesPreserved == Shapes /\ AlertsInv /\ [Next]_vars => (Shapes /\ AlertsInv)'
<1> SUFFICES ASSUME Shapes, AlertsInv, [Next]_vars PROVE Shapes' /\ AlertsInv'
  OBVIOUS
<1> USE DEF writer, reader
<1>1. CASE Fetch
  <2>1. storing' \in Rulesets \cup {NotSet, Idle} /\ env \in Environments
    BY <1>1 DEF Fetch, Shapes
  <2>2. \A d \in Dim : Meant(storing', d) \in Nat \ {0}
    BY <2>1, MeantType
  <2>3. candidates' \in [Dim -> SUBSET (Nat \ {0})]
    BY <1>1, <2>2 DEF Fetch, Shapes
  <2> QED
    BY <1>1, <2>3 DEF Fetch, Shapes, AlertsInv, Decided
<1>2. ASSUME NEW d \in Dim, Store(d) PROVE Shapes' /\ AlertsInv'
  <2>1. PICK part \in Parts :
          /\ memory' = [memory EXCEPT ![d] =
                           [w \in Words |-> IF w \in part THEN StoredWord(d, w) ELSE @[w]]]
          /\ stored' = stored \cup {<<d, w>> : w \in part}
    BY <1>2 DEF Store
  <2>2. part \subseteq Words
    BY DEF Parts
  <2>3. Split(storing[d]) \in [Words -> 0..(Base - 1)]
    BY <1>2, StoringType, SplitJoined DEF Store
  <2>4. [w \in Words |-> IF w \in part THEN StoredWord(d, w) ELSE memory[d][w]]
          \in [Words -> 0..(Base - 1)]
    BY <2>3 DEF StoredWord, Shapes
  <2>5. memory' \in [Dim -> [Words -> 0..(Base - 1)]]
    BY <2>1, <2>4 DEF Shapes
  <2>6. stored' \subseteq Dim \X Words
    BY <2>1, <2>2 DEF Shapes
  <2> QED
    BY <1>2, <2>5, <2>6 DEF Store, Shapes, AlertsInv, Decided
<1>3. CASE SetReturns
  BY <1>3, StoringType DEF SetReturns, Shapes, AlertsInv, Decided, Storing
<1>4. CASE Check
  <2>1. \A d \in Dim : Meant(inForce, d) \in Nat \ {0} /\ Meant(storing, d) \in Nat \ {0}
    BY MeantType DEF Shapes
  <2>2. candidates' \in [Dim -> SUBSET (Nat \ {0})]
    BY <1>4, <2>1 DEF Check
  <2>3. stats' \in [Dim -> Nat]
    BY <1>4, DetectorAssumption DEF Check
  <2> QED
    BY <1>4, <2>2, <2>3 DEF Check, Shapes, AlertsInv, Decided, Dim
<1>5. CASE Load
  <2>1. PICK part \in Parts :
          loaded' = [w \in DOMAIN loaded \cup part |->
                       IF w \in part THEN memory[at[1]][w] ELSE loaded[w]]
    BY <1>5 DEF Load
  <2>2. part \subseteq Words /\ at[1] \in Dim
    BY DEF Parts, Shapes
  <2>3. DOMAIN loaded' \subseteq Words /\ loaded' \in [DOMAIN loaded' -> 0..(Base - 1)]
    BY <2>1, <2>2 DEF Shapes
  <2> QED
    BY <1>5, <2>3 DEF Load, Shapes, AlertsInv, Decided
<1>6. CASE TestPositive
  BY <1>6 DEF TestPositive, Shapes, AlertsInv, Decided
<1>7. CASE DecideOnFallback \/ DecideOnBackend
  <2>1. PICK t : Decide(t) /\ Checking
    BY <1>7, DecisionsAre
  <2> QED
    BY <2>1, DecideAlerts DEF Decide, Shapes
<1>8. CASE UNCHANGED vars
  BY <1>8 DEF vars, Shapes, AlertsInv, Decided
<1> QED
  BY <1>1, <1>2, <1>3, <1>4, <1>5, <1>6, <1>7, <1>8 DEF Next, Uploader, Capture

(* Whatever the rulesets, the state keeps its shape, an alert names a      *)
(* dimension at most once, and every threshold a check may use is positive.*)
THEOREM TypeCorrect == Spec => []TypeOK
<1>1. Shapes /\ AlertsInv => TypeOK
  BY DEF Shapes, AlertsInv, TypeOK, IsInjective
<1> QED
  BY <1>1, InitShapes, ShapesPreserved, PTL DEF Spec

-----------------------------------------------------------------------------
(* A ruleset being stored is sensible: it fits a single access, and it     *)
(* sets a dimension that the one in force sets.                            *)
LEMMA StoringSensible ==
    ASSUME Sensible, Shapes, Storing, NEW d \in Dim
    PROVE  /\ storing \in Rulesets /\ storing[d] \in Nat
           /\ Whole(Split(storing[d])) = storing[d]
           /\ Atomic64 \/ (Split(storing[d])["hi"] = 0 /\ Split(storing[d])["lo"] = storing[d])
           /\ inForce[d] > 0 => storing[d] > 0
<1>1. storing \in Rulesets /\ storing[d] \in 0..(Base * Base - 1)
  BY StoringType
<1>2. Atomic64 \/ (Split(storing[d])["hi"] = 0 /\ Split(storing[d])["lo"] = storing[d])
  BY <1>1, SplitJoined DEF Sensible
<1>3. Whole(Split(storing[d])) = storing[d]
  BY <1>1, <1>2, SplitJoined DEF Whole
<1>4. inForce[d] > 0 => storing[d] > 0
  BY <1>1 DEF Sensible, Shapes, NotSet
<1> QED
  BY <1>1, <1>2, <1>3, <1>4

(* A store leaves a dimension as it was or puts the new threshold there.   *)
LEMMA StoreWhole ==
    ASSUME Sensible, Shapes, MemoryInv, NEW d \in Dim, Store(d)
    PROVE  \A e \in Dim :
              /\ Atomic64 \/ memory'[e]["hi"] = 0
              /\ \/ Whole(memory'[e]) = Whole(memory[e])
                 \/ Whole(memory'[e]) = storing[e]
              /\ <<e, "lo">> \in stored' => Whole(memory'[e]) = storing[e]
<1> TAKE e \in Dim
<1>a. Storing
  BY DEF Store
<1>1. PICK part \in Parts :
        /\ memory' = [memory EXCEPT ![d] =
                         [w \in Words |-> IF w \in part THEN StoredWord(d, w) ELSE @[w]]]
        /\ stored' = stored \cup {<<d, w>> : w \in part}
  BY DEF Store
<1>2. CASE e # d
  BY <1>1, <1>2 DEF Shapes, MemoryInv
<1>3. CASE e = d
  <2>1. memory'[d] = [w \in Words |-> IF w \in part THEN Split(storing[d])[w] ELSE memory[d][w]]
    BY <1>1 DEF Shapes, StoredWord
  <2>2. CASE Atomic64
    <3>1. Split(storing[d]) \in [Words -> 0..(Base - 1)] /\ part = Words
      BY <1>a, <2>2, StoringType, SplitJoined DEF Parts
    <3>2. memory'[d] = Split(storing[d])
      BY <2>1, <3>1
    <3> QED
      BY <1>a, <1>3, <2>2, <3>2, StoringSensible
  <2>3. CASE ~Atomic64
    <3>1. /\ memory'[d]["hi"] = 0
          /\ memory'[d]["lo"] = IF "lo" \in part THEN storing[d] ELSE memory[d]["lo"]
      BY <1>a, <2>1, <2>3, StoringSensible DEF MemoryInv, Words
    <3>2. <<d, "lo">> \in stored' => "lo" \in part \/ <<d, "lo">> \in stored
      BY <1>1
    <3> QED
      BY <1>3, <2>3, <3>1, <3>2 DEF Whole, MemoryInv
  <2> QED
    BY <2>2, <2>3
<1> QED
  BY <1>2, <1>3

(* The threshold a dimension has in memory stands in a check.              *)
LEMMA MemoryStands ==
    ASSUME Shapes, MemoryInv, CandidatesInv, Checking, NEW d \in Dim
    PROVE  Stands(Whole(memory[d]), d)
<1>1. ASSUME NEW r \in Rulesets \cup {NotSet, Idle}, Whole(memory[d]) = r[d], r[d] >= 0,
             Meant(r, d) \in candidates[d]
      PROVE  Stands(Whole(memory[d]), d)
  <2>1. r[d] \in Nat
    BY <1>1, DetectorAssumption DEF NotSet, Idle
  <2> QED
    BY <1>1, <2>1, MeantType DEF Stands, Shapes
<1>2. CASE Whole(memory[d]) = inForce[d]
  <2>1. inForce[d] >= 0
    BY DetectorAssumption DEF Shapes, NotSet
  <2> QED
    BY <1>1, <1>2, <2>1 DEF CandidatesInv, Shapes
<1>3. CASE Storing /\ Whole(memory[d]) = storing[d]
  BY <1>1, <1>3, StoringType DEF CandidatesInv, Shapes
<1> QED
  BY <1>2, <1>3 DEF MemoryInv

(* A threshold that is set stays set, whatever is stored.                  *)
LEMMA SetStays ==
    ASSUME Sensible, Shapes, MemoryInv, NEW d \in Dim, Store(d), NEW e \in Dim,
           Whole(memory[e]) > 0
    PROVE  Whole(memory'[e]) > 0
<1>1. Storing
  BY DEF Store
<1>2. Whole(memory[e]) = inForce[e] \/ Whole(memory[e]) = storing[e]
  BY DEF MemoryInv
<1>3. storing[e] > 0
  BY <1>1, <1>2, StoringSensible
<1> QED
  BY <1>3, StoreWhole

(* A complete read amounts to what Whole says of it.                       *)
LEMMA ReadWhole ==
    ASSUME Shapes, LoadedInv, Checking, Read
    PROVE  Joined(loaded) = Whole(loaded) /\ Joined(loaded) \in Nat
<1>1. loaded \in [Words -> 0..(Base - 1)]
  BY DEF Shapes, Read
<1>2. Atomic64 \/ loaded["hi"] = 0
  BY DEF LoadedInv, Read, Words
<1> QED
  BY <1>1, <1>2, JoinedType DEF Whole

-----------------------------------------------------------------------------
(* At the start both threads know the same ruleset.                        *)
LEMMA InitIInv == Sensible => (Init => IInv)
<1> SUFFICES ASSUME Sensible, Init PROVE IInv
  OBVIOUS
<1>1. Shapes /\ AlertsInv
  BY InitShapes
<1>2. \A d \in Dim : inForce[d] \in 0..(Base * Base - 1) /\ (Atomic64 \/ inForce[d] < Base)
  <2>1. Base \in Nat /\ Base > 1
    BY DetectorAssumption
  <2>2. Base * Base \in Nat /\ Base * Base > 0
    BY <2>1, Z3
  <2>3. CASE inForce = NotSet
    BY <2>1, <2>2, <2>3 DEF NotSet
  <2>4. CASE inForce \in Rulesets
    BY <2>4, DetectorAssumption DEF Sensible
  <2> QED
    BY <2>3, <2>4 DEF Init
<1>3. MemoryInv
  BY <1>2, SplitJoined DEF Init, MemoryInv, Whole
<1>4. CandidatesInv /\ LoadedInv
  BY DEF Init, CandidatesInv, LoadedInv, Checking
<1>5. VerdictsInv
  <2>1. \A d \in Dim : candidates[d] = {Meant(inForce, d)} /\ Meant(inForce, d) \in Nat
    BY MeantType DEF Init
  <2>2. \A d \in Dim : stats[d] = 0 /\ ~Alerted(d)
    BY DEF Init, Alerted
  <2>3. \A d \in Dim : Justified(d)
    BY <2>1, <2>2 DEF Justified
  <2> QED
    BY <1>1, <2>3 DEF VerdictsInv, Decided, Before, Shapes, Dim
<1> QED
  BY <1>1, <1>3, <1>4, <1>5 DEF IInv

(* The uploader thread: a fetch, a store, the end of the stores.           *)
LEMMA UploaderStep == Sensible => (IInv /\ Uploader /\ Shapes' /\ AlertsInv' => IInv')
<1> SUFFICES ASSUME Sensible, IInv, Uploader, Shapes', AlertsInv'
             PROVE  MemoryInv' /\ CandidatesInv' /\ LoadedInv' /\ VerdictsInv'
  BY DEF IInv
<1>a. Shapes /\ MemoryInv /\ CandidatesInv /\ LoadedInv /\ VerdictsInv
  BY DEF IInv
<1>b. UNCHANGED <<env, stats, at, loaded, alerts>>
  BY DEF Uploader, Fetch, Store, SetReturns, reader
<1>c. /\ (Checking <=> Checking') /\ Decided' = Decided
      /\ \A d : (Alerted(d) <=> Alerted(d)')
      /\ \A d : Fallback(d)' = Fallback(d)
      /\ \A r, d : Meant(r, d)' = Meant(r, d)
  BY <1>b DEF Checking, Decided, Alerted, Fallback, Meant
<1>1. CASE Fetch
  <2>1. \A d \in Dim : candidates[d] \subseteq candidates'[d]
    BY <1>1, <1>a DEF Fetch, Shapes
  <2>2. MemoryInv'
    BY <1>1, <1>a DEF Fetch, MemoryInv, Storing
  <2>3. CandidatesInv'
    BY <1>1, <1>a, <1>b, <1>c, <2>1 DEF Fetch, CandidatesInv, Meant
  <2>4. LoadedInv'
    <3>1. UNCHANGED memory
      BY <1>1 DEF Fetch
    <3>2. at[1] \in Dim
      BY <1>a DEF Shapes
    <3> QED
      BY <1>a, <1>b, <1>c, <2>1, <3>1, <3>2 DEF LoadedInv, Stands, Fallback, Checking
  <2>5. VerdictsInv'
    <3>1. Decided \subseteq Dim
      BY <1>a DEF Decided, Before, Dim, Shapes
    <3>2. \A d \in Dim : Justified(d) => Justified(d)'
      BY <1>b, <1>c, <2>1 DEF Justified
    <3> QED
      BY <1>a, <1>c, <3>1, <3>2 DEF VerdictsInv
  <2> QED
    BY <2>2, <2>3, <2>4, <2>5
<1>2. ASSUME NEW d \in Dim, Store(d)
      PROVE  MemoryInv' /\ CandidatesInv' /\ LoadedInv' /\ VerdictsInv'
  <2>1. UNCHANGED <<storing, inForce, candidates>> /\ Storing
    BY <1>2 DEF Store
  <2>2. MemoryInv'
    <3>1. ASSUME NEW e \in Dim
          PROVE  Whole(memory'[e]) = inForce[e] \/ Whole(memory'[e]) = storing[e]
      BY <1>2, <1>a, StoreWhole DEF MemoryInv
    <3> QED
      BY <1>2, <1>a, <2>1, <3>1, StoreWhole DEF MemoryInv, Storing
  <2>3. CandidatesInv'
    BY <1>a, <1>b, <1>c, <2>1 DEF CandidatesInv, Storing
  <2>4. LoadedInv'
    <3>1. at[1] \in Dim
      BY <1>a DEF Shapes
    <3>2. Whole(memory[at[1]]) > 0 => Whole(memory'[at[1]]) > 0
      BY <1>2, <1>a, <3>1, SetStays
    <3> QED
      BY <1>a, <1>b, <1>c, <2>1, <3>2 DEF LoadedInv, Stands, Fallback, Checking
  <2>5. VerdictsInv'
    BY <1>a, <1>b, <1>c, <2>1 DEF VerdictsInv, Justified
  <2> QED
    BY <2>2, <2>3, <2>4, <2>5
<1>3. CASE SetReturns
  <2>1. UNCHANGED <<memory, candidates>> /\ inForce' = storing /\ ~Storing' /\ stored' = {}
    BY <1>3 DEF SetReturns, Storing
  <2>2. MemoryInv'
    <3>1. ASSUME NEW d \in Dim PROVE Whole(memory[d]) = storing[d]
      <4>1. <<d, "lo">> \in stored
        BY <1>3 DEF SetReturns, Words
      <4> QED
        BY <1>a, <4>1 DEF MemoryInv
    <3> QED
      BY <1>a, <2>1, <3>1 DEF MemoryInv
  <2>3. CandidatesInv'
    BY <1>3, <1>a, <1>b, <1>c, <2>1 DEF CandidatesInv, SetReturns, Meant
  <2>4. LoadedInv'
    BY <1>a, <1>b, <1>c, <2>1 DEF LoadedInv, Stands, Fallback, Checking
  <2>5. VerdictsInv'
    BY <1>a, <1>b, <1>c, <2>1 DEF VerdictsInv, Justified
  <2> QED
    BY <2>2, <2>3, <2>4, <2>5
<1> QED
  BY <1>1, <1>2, <1>3 DEF Uploader

(* The capture thread: a check begins, reads, and decides.                 *)
LEMMA CaptureStep == Sensible => (IInv /\ Capture /\ Shapes' /\ AlertsInv' => IInv')
<1> SUFFICES ASSUME Sensible, IInv, Capture, Shapes', AlertsInv'
             PROVE  MemoryInv' /\ CandidatesInv' /\ LoadedInv' /\ VerdictsInv'
  BY DEF IInv
<1>a. Shapes /\ AlertsInv /\ MemoryInv /\ CandidatesInv /\ LoadedInv /\ VerdictsInv
  BY DEF IInv
<1>b. UNCHANGED <<memory, env, storing, stored, inForce>> /\ (Storing <=> Storing')
  BY DEF Capture, Check, Load, TestPositive, DecideOnFallback, DecideOnBackend, Decide, writer,
         Storing
<1>c. MemoryInv'
  BY <1>a, <1>b DEF MemoryInv
<1>1. CASE Check
  <2>1. at' = <<"udp", "test">> /\ DOMAIN loaded' = {}
    BY <1>1 DEF Check
  <2>2. CandidatesInv'
    BY <1>1, <1>b DEF Check, CandidatesInv, Meant
  <2>3. LoadedInv'
    BY <2>1 DEF LoadedInv
  <2>4. VerdictsInv'
    BY <2>1 DEF VerdictsInv, Decided, Before
  <2> QED
    BY <1>c, <2>2, <2>3, <2>4
<1>2. CASE Load
  <2>1. PICK part \in Parts :
          /\ part \cap DOMAIN loaded = {}
          /\ loaded' = [w \in DOMAIN loaded \cup part |->
                           IF w \in part THEN memory[at[1]][w] ELSE loaded[w]]
    BY <1>2 DEF Load
  <2>2. UNCHANGED <<stats, at, alerts, candidates>> /\ Checking /\ Checking'
    BY <1>2 DEF Load, Checking
  <2>3. at[1] \in Dim /\ memory[at[1]] \in [Words -> 0..(Base - 1)]
    BY <1>a DEF Shapes
  <2>4. CandidatesInv' /\ VerdictsInv'
    BY <1>a, <1>b, <2>2
       DEF CandidatesInv, VerdictsInv, Meant, Checking, Decided, Justified, Alerted
  <2>5. Stands(Whole(memory[at[1]]), at[1])
    BY <1>a, <2>2, <2>3, MemoryStands
  <2>6. LoadedInv'
    <3>1. CASE Atomic64
      <4>1. part = Words /\ DOMAIN loaded = {}
        BY <1>a, <2>1, <3>1 DEF Parts, LoadedInv, Words
      <4>2. loaded' = memory[at[1]]
        BY <2>1, <2>3, <4>1
      <4>3. DOMAIN loaded' = Words
        BY <2>3, <4>2
      <4> QED
        BY <1>a, <1>b, <2>2, <2>5, <3>1, <4>2, <4>3 DEF LoadedInv, Stands, Fallback, Checking
    <3>2. CASE ~Atomic64
      <4>1. memory[at[1]]["hi"] = 0
        BY <1>a, <2>3, <3>2 DEF MemoryInv
      <4>2. "hi" \in DOMAIN loaded' => loaded'["hi"] = 0
        BY <1>a, <2>1, <2>2, <3>2, <4>1 DEF LoadedInv
      <4>3. CASE "lo" \in part
        <5>1. Whole(loaded') = Whole(memory[at[1]])
          BY <2>1, <3>2, <4>3 DEF Whole
        <5> QED
          BY <1>a, <1>b, <2>2, <2>5, <3>2, <4>2, <5>1 DEF LoadedInv, Stands, Fallback, Checking
      <4>4. CASE "lo" \notin part
        <5>1. "lo" \in DOMAIN loaded' =>
                "lo" \in DOMAIN loaded /\ Whole(loaded') = Whole(loaded)
          BY <2>1, <3>2, <4>4 DEF Whole
        <5> QED
          BY <1>a, <1>b, <2>2, <3>2, <4>2, <5>1 DEF LoadedInv, Stands, Fallback, Checking
      <4> QED
        BY <4>3, <4>4
    <3> QED
      BY <3>1, <3>2
  <2> QED
    BY <1>c, <2>4, <2>6
<1>3. CASE TestPositive
  <2>1. /\ UNCHANGED <<stats, alerts, candidates>> /\ Checking /\ Checking' /\ Read
        /\ at[2] = "test" /\ at' = <<at[1], "use">> /\ DOMAIN loaded' = {} /\ Joined(loaded) > 0
    BY <1>3 DEF TestPositive, Checking
  <2>2. CandidatesInv' /\ VerdictsInv'
    BY <1>a, <1>b, <2>1
       DEF CandidatesInv, VerdictsInv, Meant, Checking, Decided, Justified, Alerted
  <2>3. Whole(memory'[at[1]]) > 0
    BY <1>a, <1>b, <2>1, ReadWhole DEF LoadedInv, Read, Words
  <2>4. LoadedInv'
    BY <2>1, <2>3 DEF LoadedInv
  <2> QED
    BY <1>c, <2>2, <2>4
<1>4. CASE DecideOnFallback \/ DecideOnBackend
  <2>1. PICK t : /\ Decide(t)
                 /\ t = IF at[2] = "test" THEN Fallback(at[1]) ELSE Joined(loaded)
                 /\ at[2] = "test" => Joined(loaded) = 0
    BY <1>4, DecisionsAre
  <2>2. Checking /\ Read
    BY <1>4, DecisionsAre
  <2>3. /\ at[1] \in Dim \ Before(at[1])
        /\ Decided' = Before(at[1]) \cup {at[1]}
        /\ alerts' = IF Exceeds(t) THEN Append(alerts, at[1]) ELSE alerts
    BY <1>a, <2>1, <2>2, DecideAlerts
  <2>4. UNCHANGED <<stats, candidates>> /\ DOMAIN loaded' = {}
    BY <2>1 DEF Decide
  <2>5. CandidatesInv'
    BY <1>a, <1>b, <2>2, <2>4 DEF CandidatesInv, Meant
  <2>6. LoadedInv'
    <3>1. at'[2] \in {"test", "done"}
      BY <2>1, <2>3 DEF Decide, Dim
    <3> QED
      BY <2>4, <3>1 DEF LoadedInv
  <2>7. t \in candidates[at[1]] /\ t \in Nat
    <3>1. Joined(loaded) = Whole(loaded) /\ Joined(loaded) \in Nat /\ "lo" \in DOMAIN loaded
      BY <1>a, <2>2, ReadWhole DEF Read, Words
    <3>2. Stands(Whole(loaded), at[1]) /\ (at[2] = "use" => Whole(loaded) > 0)
      BY <1>a, <2>2, <3>1 DEF LoadedInv
    <3>3. t \in candidates[at[1]]
      BY <2>1, <2>2, <3>1, <3>2 DEF Stands, Checking
    <3> QED
      BY <1>a, <2>3, <3>3 DEF Shapes
  <2>8. alerts \in Seq(Dim) /\ \A i \in DOMAIN alerts : alerts[i] \in Before(at[1])
    BY <1>a, <2>2 DEF Shapes, AlertsInv, Decided, Checking
  <2>9. ASSUME NEW d \in Before(at[1]) PROVE Justified(d)'
    <3>1. Justified(d) /\ d # at[1]
      BY <1>a, <2>2, <2>3 DEF VerdictsInv, Decided, Checking
    <3>2. Alerted(d)' <=> Alerted(d)
      BY <2>3, <2>8, <3>1 DEF Alerted
    <3> QED
      BY <2>4, <3>1, <3>2 DEF Justified
  <2>10. ASSUME NEW d \in {at[1]} PROVE Justified(d)'
    <3>1. stats[d] \in Nat
      BY <1>a, <2>3 DEF Shapes
    <3>2. CASE Exceeds(t)
      <4>1. Len(alerts) + 1 \in DOMAIN alerts' /\ alerts'[Len(alerts) + 1] = d
        BY <2>3, <2>8, <3>2
      <4>2. \E i \in DOMAIN alerts' : alerts'[i] = d
        BY <4>1
      <4> QED
        BY <2>4, <2>7, <3>2, <4>2 DEF Justified, Alerted, Exceeds
    <3>3. CASE ~Exceeds(t)
      <4>1. ~\E i \in DOMAIN alerts' : alerts'[i] = d
        BY <2>3, <2>8, <3>3
      <4>2. stats[d] <= t
        BY <2>7, <3>1, <3>3 DEF Exceeds
      <4> QED
        BY <2>4, <2>7, <4>1, <4>2 DEF Justified, Alerted
    <3> QED
      BY <3>2, <3>3
  <2>11. VerdictsInv'
    BY <2>3, <2>9, <2>10 DEF VerdictsInv
  <2> QED
    BY <1>c, <2>5, <2>6, <2>11
<1> QED
  BY <1>1, <1>2, <1>3, <1>4 DEF Capture

(* The invariant holds as long as the backend's rulesets are sensible.     *)
THEOREM Invariance == Sensible => (Spec => []IInv)
<1> SUFFICES ASSUME Sensible PROVE Spec => []IInv
  OBVIOUS
<1>1. Init => IInv
  BY InitIInv
<1>2. IInv /\ [Next]_vars => IInv'
  <2> SUFFICES ASSUME IInv, [Next]_vars PROVE IInv'
    OBVIOUS
  <2>1. Shapes' /\ AlertsInv'
    BY ShapesPreserved DEF IInv
  <2>2. CASE UNCHANGED vars
    BY <2>2, <2>1 DEF IInv, vars, writer, reader, MemoryInv, CandidatesInv, LoadedInv, VerdictsInv,
                      Storing, Checking, Stands, Meant, Fallback, Decided, Justified, Alerted
  <2> QED
    BY <2>1, <2>2, UploaderStep, CaptureStep DEF Next
<1> QED
  BY <1>1, <1>2, PTL DEF Spec

(* A check that races with an update reaches no verdict that neither the   *)
(* old nor the new ruleset justifies, whatever the order of the loads and  *)
(* the stores, provided the rulesets are sensible: no dimension is set by  *)
(* some and left out by others, and no threshold needs a second access.    *)
THEOREM VerdictsHold == Sensible => (Spec => []VerdictsJustified)
<1>1. IInv => VerdictsJustified
  BY DEF IInv, VerdictsInv, VerdictsJustified, Decided, Justified, Alerted
<1> QED
  BY <1>1, Invariance, PTL
=============================================================================
