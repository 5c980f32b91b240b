------------------------ MODULE DeviceIdentity_proofs ------------------------
(***************************************************************************)
(* Proofs about DeviceIdentity, for every set of ids (an infinite one      *)
(* included) and every number of starts of the process.                    *)
(***************************************************************************)
EXTENDS DeviceIdentity, Integers, FiniteSetTheorems, TLAPS

-----------------------------------------------------------------------------
(* The strengthening that makes the invariants inductive.  Where the       *)
(* process is says what it holds: only an agent with a backend registers,  *)
(* it registers once, under the id it loaded, and it persists an id.       *)
Progress ==
    /\ pc \notin {"down", "running"} => host
    /\ pc = "register" => device_id = LoadedId(given) /\ exchanges < boots
    /\ pc \in {"persist", "write"} => device_id # NoId
    /\ pc = "write" => file = NoId
    /\ pc # "down" => blanks < boots

(* As long as no write was cut off, the file holds the identity, except    *)
(* inside a write, and so does the agent, unless it was assigned another   *)
(* or the reply to this start carried one.                                 *)
Kept ==
    ~torn =>
        IF identity = NoId THEN file \in {Absent, NoId}
        ELSE /\ pc # "write" => file = identity
             /\ Known => device_id \in {identity, response}

(* A life that has not registered yet, or that is over, has paid for every *)
(* device if there is no id in the file.                                   *)
Paid ==
    /\ IsFiniteSet(devices)
    /\ Cardinality(devices) <=
          IF Persisted = NoId /\ pc \in {"down", "register"} THEN blanks + exchanges
          ELSE 1 + blanks + exchanges

IInv == TypeOK /\ Progress /\ PreassignedWins /\ Kept /\ Paid

-----------------------------------------------------------------------------
(* The three constants that are no issued id are distinct.                 *)
LEMMA Distinct ==
    /\ EnvId # NoId /\ NoId # Absent /\ EnvId # Absent
    /\ EnvId \notin Ids /\ NoId \notin Ids /\ Absent \notin Ids
    /\ MaxBoots \in Nat
<1>1. \A x, y : IsFiniteSet({x, y}) /\ Cardinality({x, y}) <= 2
  <2> TAKE x, y
  <2>1. IsFiniteSet({x}) /\ Cardinality({x}) = 1
    BY FS_Singleton
  <2>2. /\ IsFiniteSet({x} \cup {y})
        /\ Cardinality({x} \cup {y}) = IF y \in {x} THEN Cardinality({x})
                                       ELSE Cardinality({x}) + 1
    BY <2>1, FS_AddElement
  <2>3. {x} \cup {y} = {x, y}
    OBVIOUS
  <2> QED
    BY <2>1, <2>2, <2>3
<1>2. ASSUME EnvId = NoId \/ NoId = Absent \/ EnvId = Absent
      PROVE  \E x, y : {EnvId, NoId, Absent} = {x, y}
  <2>1. CASE EnvId = Absent
    <3>1. {EnvId, NoId, Absent} = {EnvId, NoId}
      BY <2>1
    <3> QED
      BY <3>1
  <2>2. CASE EnvId = NoId \/ NoId = Absent
    <3>1. {EnvId, NoId, Absent} = {EnvId, Absent}
      BY <2>2
    <3> QED
      BY <3>1
  <2> QED
    BY <1>2, <2>1, <2>2
<1>3. ~(EnvId = NoId \/ NoId = Absent \/ EnvId = Absent)
  <2> SUFFICES ASSUME EnvId = NoId \/ NoId = Absent \/ EnvId = Absent
               PROVE  FALSE
    OBVIOUS
  <2>1. PICK x, y : {EnvId, NoId, Absent} = {x, y}
    BY <1>2
  <2>2. Cardinality({EnvId, NoId, Absent}) <= 2
    BY <1>1, <2>1
  <2>3. Cardinality({EnvId, NoId, Absent}) = 3
    BY DeviceIdentityAssumption
  <2> QED
    BY <2>2, <2>3
<1> QED
  BY <1>3, DeviceIdentityAssumption

(* The first process of the router starts with the invariant.              *)
LEMMA InitIInv == Init => IInv
<1> SUFFICES ASSUME Init PROVE IInv
  OBVIOUS
<1> USE DEF Init
<1>1. TypeOK
  <2>1. file \in devices \cup {Absent} /\ devices \subseteq Ids
    OBVIOUS
  <2>2. identity \in devices \cup {NoId}
    BY <2>1
  <2>3. blanks \in 0..boots /\ boots \in 0..MaxBoots
    BY Distinct
  <2>4. exchanges \in 0..boots
    OBVIOUS
  <2> QED
    BY <2>1, <2>2, <2>3, <2>4 DEF TypeOK
<1>2. Progress /\ PreassignedWins
  BY DEF Progress, PreassignedWins
<1>3. Kept
  BY Distinct DEF Kept, Known
<1>4. Paid
  <2>1. CASE file = Absent
    <3>1. devices = {}
      BY <2>1, Distinct
    <3> QED
      BY <3>1, FS_EmptySet DEF Paid
  <2>2. CASE file \in Ids
    <3>1. devices = {file} /\ Persisted # NoId
      BY <2>2, Distinct DEF Persisted
    <3>2. IsFiniteSet(devices) /\ Cardinality(devices) = 1
      BY <3>1, FS_Singleton
    <3> QED
      BY <3>1, <3>2 DEF Paid
  <2> QED
    BY <2>1, <2>2
<1> QED
  BY <1>1, <1>2, <1>3, <1>4 DEF IInv

-----------------------------------------------------------------------------
(* What the backend makes of a registration: the id in the reply is the   *)
(* pre-assigned one or a device of this router, and a new one is owed to an*)
(* agent without an identity or to an exchange.                            *)
LEMMA HandledEffect ==
    ASSUME IInv, pc = "register", UNCHANGED blanks,
           NEW id \in Ids \cup {EnvId}, Handled(id)
    PROVE  /\ id \in devices' \cup {EnvId} /\ id # NoId
           /\ devices \subseteq devices' /\ devices' \subseteq Ids
           /\ devices' # devices /\ device_id = NoId
                 => given = NoId /\ (identity = NoId \/ torn)
           /\ exchanges' \in 0..boots
           /\ IsFiniteSet(devices') /\ Cardinality(devices') <= 1 + blanks' + exchanges'
<1> USE DEF IInv
<1>a. TypeOK /\ Progress /\ Paid
  OBVIOUS
<1>b. Cardinality(devices) \in Nat /\ blanks \in Nat /\ exchanges \in Nat /\ boots \in Nat
  BY <1>a, Distinct, FS_CardinalityType DEF Paid, TypeOK
<1>1. CASE UNCHANGED <<devices, exchanges>> /\ (id = device_id \/ id \in devices) /\ id # NoId
  <2>1. Cardinality(devices) <= 1 + blanks + exchanges
    BY <1>a, <1>b DEF Paid
  <2> QED
    BY <1>1, <1>a, <1>b, <2>1, Distinct DEF TypeOK, Paid
<1>2. CASE /\ id \in Ids \ devices /\ devices' = devices \cup {id}
           /\ exchanges' = IF device_id = NoId THEN exchanges ELSE exchanges + 1
  <2>1. IsFiniteSet(devices') /\ Cardinality(devices') = Cardinality(devices) + 1
    BY <1>2, <1>a, FS_AddElement DEF Paid
  <2>2. exchanges' \in 0..boots
    BY <1>2, <1>a, <1>b DEF Progress
  <2>3. device_id = NoId => /\ given = NoId /\ (identity = NoId \/ torn)
                            /\ Cardinality(devices) <= blanks + exchanges
    <3> SUFFICES ASSUME device_id = NoId
                 PROVE  /\ given = NoId /\ (identity = NoId \/ torn)
                        /\ Cardinality(devices) <= blanks + exchanges
      OBVIOUS
    <3>1. given = NoId /\ Persisted = NoId
      BY <1>a DEF Progress, LoadedId
    <3>2. identity = NoId \/ torn
      BY <1>a, <3>1, Distinct DEF Kept, Persisted, TypeOK
    <3> QED
      BY <1>a, <3>1, <3>2 DEF Paid
  <2>4. Cardinality(devices') <= 1 + blanks' + exchanges'
    BY <1>2, <1>a, <1>b, <2>1, <2>3 DEF Paid
  <2>5. id \in devices' \cup {EnvId} /\ id # NoId /\ devices \subseteq devices' /\ devices' \subseteq Ids
    BY <1>2, <1>a, Distinct DEF TypeOK
  <2> QED
    BY <2>1, <2>2, <2>3, <2>4, <2>5
<1> QED
  BY <1>1, <1>2, <1>a, Distinct DEF Handled, TypeOK

(* Every action keeps the variables in their types.                        *)
LEMMA TypePreserved == IInv /\ [Next]_vars => TypeOK'
<1> SUFFICES ASSUME IInv, [Next]_vars PROVE TypeOK'
  OBVIOUS
<1> USE Distinct DEF TypeOK, environment, history
<1>0. TypeOK /\ Progress
  BY DEF IInv
<1>1. CASE Boot
  BY <1>0, <1>1 DEF Boot, LoadedId, Persisted
<1>2. CASE RegisterFails \/ CannotOpen
  BY <1>0, <1>2 DEF RegisterFails, CannotOpen
<1>3. CASE ReplyLost
  <2>1. PICK id \in Ids \cup {EnvId} : Handled(id)
    BY <1>3 DEF ReplyLost
  <2>2. devices \subseteq devices' /\ devices' \subseteq Ids /\ exchanges' \in 0..boots
    BY <1>3, <2>1, HandledEffect DEF ReplyLost
  <2> QED
    BY <1>0, <1>3, <2>2 DEF ReplyLost
<1>4. CASE Replied
  <2>1. PICK id \in Ids \cup {EnvId} : Handled(id) /\ response' \in {id, NoId, Absent}
    BY <1>4 DEF Replied
  <2>2. /\ devices \subseteq devices' /\ devices' \subseteq Ids
        /\ id \in devices' \cup {EnvId} /\ exchanges' \in 0..boots
    BY <1>4, <2>1, HandledEffect DEF Replied
  <2> QED
    BY <1>0, <1>4, <2>1, <2>2 DEF Replied
<1>5. CASE Adopt
  BY <1>0, <1>5 DEF Adopt, Adopted
<1>6. CASE Truncate
  BY <1>0, <1>6 DEF Truncate
<1>7. CASE Write
  BY <1>0, <1>7 DEF Write, Written
<1>8. CASE WriteFails
  BY <1>0, <1>8 DEF WriteFails, CutOff
<1>9. CASE Down
  <2>1. blanks' \in 0..boots'
    BY <1>0, <1>9 DEF Down, Progress
  <2>2. torn' \in BOOLEAN
    BY <1>0, <1>9 DEF Down, CutOff
  <2> QED
    BY <1>0, <1>9, <2>1, <2>2 DEF Down
<1>10. CASE UNCHANGED vars
  BY <1>0, <1>10 DEF vars
<1> QED
  BY <1>1, <1>2, <1>3, <1>4, <1>5, <1>6, <1>7, <1>8, <1>9, <1>10 DEF Next, Terminated

(* The process holds what its progress says, and an assigned id gives way  *)
(* to none but that of the reply.                                          *)
LEMMA ProgressPreserved == IInv /\ [Next]_vars => Progress' /\ PreassignedWins'
<1> SUFFICES ASSUME IInv, [Next]_vars PROVE Progress' /\ PreassignedWins'
  OBVIOUS
<1> USE DEF environment, history
<1>0. TypeOK /\ Progress /\ PreassignedWins
  BY DEF IInv
<1>1. CASE Boot
  <2>1. blanks < boots' /\ exchanges' < boots'
    BY <1>0, <1>1, Distinct DEF Boot, TypeOK
  <2> QED
    BY <1>0, <1>1, <2>1 DEF Boot, Progress, PreassignedWins, LoadedId, Persisted
<1>2. CASE RegisterFails \/ CannotOpen \/ WriteFails
  BY <1>0, <1>2 DEF RegisterFails, CannotOpen, WriteFails, Progress, PreassignedWins
<1>3. CASE ReplyLost
  BY <1>0, <1>3 DEF ReplyLost, Progress, PreassignedWins
<1>4. CASE Replied
  BY <1>0, <1>4 DEF Replied, Progress, PreassignedWins, LoadedId
<1>5. CASE Adopt
  BY <1>0, <1>5, Distinct DEF Adopt, Adopted, Progress, PreassignedWins, TypeOK
<1>6. CASE Truncate
  BY <1>0, <1>6 DEF Truncate, Progress, PreassignedWins
<1>7. CASE Write
  BY <1>0, <1>7 DEF Write, Progress, PreassignedWins
<1>9. CASE Down
  BY <1>0, <1>9 DEF Down, Progress, PreassignedWins
<1>10. CASE UNCHANGED vars
  BY <1>0, <1>10 DEF vars, Progress, PreassignedWins, LoadedId, Persisted
<1> QED
  BY <1>1, <1>2, <1>3, <1>4, <1>5, <1>6, <1>7, <1>9, <1>10 DEF Next, Terminated

(* The identity is kept.                                                   *)
LEMMA KeptPreserved == IInv /\ [Next]_vars => Kept'
<1> SUFFICES ASSUME IInv, [Next]_vars, ~torn'
             PROVE  IF identity' = NoId THEN file' \in {Absent, NoId}
                    ELSE /\ pc' # "write" => file' = identity'
                         /\ Known' => device_id' \in {identity', response'}
  BY DEF Kept
<1> USE DEF environment, history, Known
<1>0. TypeOK /\ Progress /\ Kept
  BY DEF IInv
<1>1. CASE Boot
  BY <1>0, <1>1, Distinct DEF Boot, Kept, LoadedId, Persisted, TypeOK
<1>2. CASE RegisterFails \/ CannotOpen
  BY <1>0, <1>2 DEF RegisterFails, CannotOpen, Kept, Progress
<1>3. CASE ReplyLost
  BY <1>0, <1>3 DEF ReplyLost, Kept
<1>4. CASE Replied
  BY <1>0, <1>4, Distinct DEF Replied, Kept, Progress, LoadedId, Persisted, TypeOK
<1>5. CASE Adopt
  BY <1>0, <1>5 DEF Adopt, Adopted, Kept, Progress
<1>6. CASE Truncate
  BY <1>0, <1>6 DEF Truncate, Kept, Progress
<1>7. CASE Write
  BY <1>0, <1>7 DEF Write, Written, Kept, Progress
<1>8. CASE WriteFails
  BY <1>0, <1>8 DEF WriteFails, CutOff, Kept, Progress
<1>9. CASE Down
  BY <1>0, <1>9 DEF Down, CutOff, Kept, Progress
<1>10. CASE UNCHANGED vars
  BY <1>0, <1>10 DEF vars, Kept
<1> QED
  BY <1>1, <1>2, <1>3, <1>4, <1>5, <1>6, <1>7, <1>8, <1>9, <1>10 DEF Next, Terminated

(* The devices are paid for.                                               *)
LEMMA PaidPreserved == IInv /\ [Next]_vars => Paid'
<1> SUFFICES ASSUME IInv, [Next]_vars PROVE Paid'
  OBVIOUS
<1> USE DEF environment, history
<1>0. TypeOK /\ Progress /\ Paid
  BY DEF IInv
<1>a. Cardinality(devices) \in Nat /\ blanks \in Nat /\ exchanges \in Nat
  BY <1>0, Distinct, FS_CardinalityType DEF Paid, TypeOK
<1> USE <1>0, <1>a DEF Paid
<1>1. CASE Boot
  BY <1>1 DEF Boot, Persisted
<1>2. CASE RegisterFails \/ CannotOpen \/ WriteFails \/ Adopt
  BY <1>2 DEF RegisterFails, CannotOpen, WriteFails, Adopt
<1>3. CASE ReplyLost
  <2>1. PICK id \in Ids \cup {EnvId} : Handled(id)
    BY <1>3 DEF ReplyLost
  <2>2. IsFiniteSet(devices') /\ Cardinality(devices') <= 1 + blanks' + exchanges'
    BY <1>3, <2>1, HandledEffect DEF ReplyLost
  <2> QED
    BY <1>3, <2>2 DEF ReplyLost
<1>4. CASE Replied
  <2>1. PICK id \in Ids \cup {EnvId} : Handled(id)
    BY <1>4 DEF Replied
  <2>2. IsFiniteSet(devices') /\ Cardinality(devices') <= 1 + blanks' + exchanges'
    BY <1>4, <2>1, HandledEffect DEF Replied
  <2> QED
    BY <1>4, <2>2 DEF Replied
<1>6. CASE Truncate \/ Write
  BY <1>6 DEF Truncate, Write
<1>9. CASE Down
  BY <1>9 DEF Down, Persisted
<1>10. CASE UNCHANGED vars
  BY <1>10 DEF vars, Persisted
<1> QED
  BY <1>1, <1>2, <1>3, <1>4, <1>6, <1>9, <1>10 DEF Next, Terminated

-----------------------------------------------------------------------------
(* The invariant holds in every state of every behaviour: whatever fails   *)
(* or is lost, and wherever the process ends.                              *)
THEOREM Invariance == Spec => []IInv
<1>1. IInv /\ [Next]_vars => IInv'
  BY TypePreserved, ProgressPreserved, KeptPreserved, PaidPreserved DEF IInv
<1> QED
  BY InitIInv, <1>1, PTL DEF Spec

(* The ids in memory, in the file and in a reply are the pre-assigned one, *)
(* ids the backend issued to this router, or none.                         *)
THEOREM TypeCorrect == Spec => []TypeOK
BY Invariance, PTL DEF IInv

(* Once an id was written, every later start works under the one written   *)
(* last or the one it is answered, unless a write of the file was cut off. *)
THEOREM IdentityStable == Spec => []StableUntilTorn
<1>1. IInv => StableUntilTorn
  BY DEF IInv, Kept, StableUntilTorn, Known
<1> QED
  BY <1>1, Invariance, PTL

(* A pre-assigned id gives way to none but that of this start's reply.     *)
THEOREM PreassignedKept == Spec => []PreassignedWins
BY Invariance, PTL DEF IInv

(* Devices do not pile up: there is at most one more than there were lives *)
(* that ended with no id in the file and exchanges by the backend.         *)
THEOREM DevicesPaid == Spec => []DevicesExplained
<1>1. IInv => DevicesExplained
  <2> SUFFICES ASSUME IInv PROVE DevicesExplained
    OBVIOUS
  <2>1. Cardinality(devices) \in Nat /\ blanks \in Nat /\ exchanges \in Nat
    BY Distinct, FS_CardinalityType DEF IInv, Paid, TypeOK
  <2> QED
    BY <2>1 DEF IInv, Paid, DevicesExplained
<1> QED
  BY <1>1, Invariance, PTL

(* Only an agent without an identity makes the backend create a device.    *)
THEOREM NoNeedlessDevice == Spec => NewDeviceOnlyWhenNew
<1>1. IInv /\ [Next]_vars
        => [devices' # devices /\ device_id = NoId
               => given = NoId /\ (identity = NoId \/ torn)]_vars
  <2> SUFFICES ASSUME IInv, Next, devices' # devices, device_id = NoId
               PROVE  given = NoId /\ (identity = NoId \/ torn)
    OBVIOUS
  <2>1. pc = "register" /\ UNCHANGED blanks /\ \E id \in Ids \cup {EnvId} : Handled(id)
    BY DEF Next, Boot, RegisterFails, ReplyLost, Replied, Adopt, CannotOpen, Truncate,
           Write, WriteFails, Down, Terminated, vars, environment, history
  <2> QED
    BY <2>1, HandledEffect
<1> QED
  BY <1>1, Invariance, PTL DEF Spec, NewDeviceOnlyWhenNew
=============================================================================
