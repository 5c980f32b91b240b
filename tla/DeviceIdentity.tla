--------------------------- MODULE DeviceIdentity ---------------------------
(***************************************************************************)
(* How the agent gets and keeps its device id: backend_config_load and     *)
(* backend_register (src/src/backend_client.c), called once per process by *)
(* main.  The id comes from the DEVICE_ID variable, else from a file, else *)
(* from the backend; a successful registration rewrites the file.  The     *)
(* process can be killed between any two steps and is started again (the   *)
(* init script respawns it), under an environment that the administrator   *)
(* may have changed; the file survives, as do the devices the backend      *)
(* created.                                                                *)
(*                                                                         *)
(* The backend is external.  It need not answer with the id the agent sent:*)
(* the agent takes over whatever id the reply carries, the empty one       *)
(* included.                                                               *)
(*                                                                         *)
(* A definition marked "Mutant of D" is a plausible bug: D with that body  *)
(* must violate a property.  No other definition uses it.                  *)
(***************************************************************************)
EXTENDS Naturals, FiniteSets

CONSTANTS
    Ids,        \* the device ids the backend can issue
    EnvId,      \* the pre-assigned id, when DEVICE_ID is set
    NoId,       \* the empty string
    Absent,     \* there is no id file, or no deviceId in the reply
    MaxBoots    \* bound: how often the process is started

ASSUME DeviceIdentityAssumption ==
    /\ Cardinality({EnvId, NoId, Absent}) = 3
    /\ Ids \cap {EnvId, NoId, Absent} = {}
    /\ MaxBoots \in Nat

VARIABLES
    host, given,   \* of this start: BACKEND_HOST is set; DEVICE_ID
    pc,            \* what main is about to do
    device_id,     \* cfg->device_id
    response,      \* the deviceId in the reply to the registration
    file,          \* content of DEVICE_ID_FILE; NoId: it is empty
    devices,       \* the devices the backend created for this router
    boots,
    identity,      \* history: the id last written to the file as a whole
    blanks,        \* history: how many lives ended with no id in the file
    torn,          \* history: the latest write of the file was cut off, and
                   \* an id had been written before
    exchanges      \* history: how often the backend answered an agent that
                   \* sent an id with a new device

environment == <<host, given>>
history == <<identity, blanks, torn, exchanges>>
vars == <<environment, pc, device_id, response, file, devices, boots, history>>

-----------------------------------------------------------------------------
(* The file may hold an id this router was issued in earlier lives.        *)
Init ==
    /\ host \in BOOLEAN /\ given \in {NoId, EnvId}
    /\ pc = "down"
    /\ device_id = NoId /\ response = Absent
    /\ file \in Ids \cup {Absent}
    /\ devices = Ids \cap {file}
    /\ boots = 0
    /\ identity = IF file = Absent THEN NoId ELSE file
    /\ blanks = 0 /\ torn = FALSE /\ exchanges = 0

(* read_device_id_file fails on a file that is missing or empty.           *)
AnyContent == file   \* Mutant of Persisted: no check of the read
Persisted == IF file = Absent THEN NoId ELSE file

(* backend_config_load, when DEVICE_ID is the id env.                      *)
FileFirst(env) == IF Persisted # NoId THEN Persisted ELSE env  \* Mutant of LoadedId
FileIgnored(env) == env                                        \* Mutant of LoadedId
LoadedId(env) == IF env # NoId THEN env ELSE Persisted

Boot ==
    /\ pc = "down"
    /\ boots < MaxBoots
    /\ boots' = boots + 1
    /\ host' \in BOOLEAN /\ given' \in {NoId, EnvId}
    /\ IF host'
       THEN pc' = "register" /\ device_id' = LoadedId(given')
       ELSE pc' = "running" /\ device_id' = NoId
    /\ response' = Absent
    /\ UNCHANGED <<file, devices, history>>

-----------------------------------------------------------------------------
(* backend_register: the request never arrives, or the reply is no 2xx and *)
(* the backend did nothing.                                                *)
RegisterFails ==
    /\ pc = "register"
    /\ pc' = "running"
    /\ UNCHANGED <<environment, device_id, response, file, devices, boots, history>>

(* The backend handles the request: it keeps the id it is sent, answers    *)
(* with a device it has already created for this router, or creates one.   *)
Handled(id) ==
    \/ /\ \/ device_id # NoId /\ id = device_id
          \/ id \in devices
       /\ UNCHANGED <<devices, exchanges>>
    \/ /\ id \in Ids \ devices
       /\ devices' = devices \cup {id}
       /\ exchanges' = IF device_id = NoId THEN exchanges ELSE exchanges + 1

(* The reply is lost (or over a limit, or late): the agent sees a failure. *)
ReplyLost ==
    /\ pc = "register"
    /\ \E id \in Ids \cup {EnvId} : Handled(id)
    /\ pc' = "running"
    /\ UNCHANGED <<environment, device_id, response, file, boots,
                   identity, blanks, torn>>

(* A 2xx reply: with the id, with an empty one, or without a deviceId the  *)
(* agent can extract.                                                      *)
Replied ==
    /\ pc = "register"
    /\ \E id \in Ids \cup {EnvId} :
          /\ Handled(id)
          /\ response' \in {id, NoId, Absent}
    /\ pc' = "adopt"
    /\ UNCHANGED <<environment, device_id, file, boots, identity, blanks, torn>>

(* An id the reply carries replaces the agent's, wherever that came from;  *)
(* an agent without an id has failed to register.                          *)
Adopted == IF response # Absent THEN response ELSE device_id

Adopt ==
    /\ pc = "adopt"
    /\ device_id' = Adopted
    /\ pc' = IF Adopted = NoId THEN "running" ELSE "persist"
    /\ UNCHANGED <<environment, response, file, devices, boots, history>>

(* write_device_id_file: fopen(path, "w") fails, or truncates the file;    *)
(* the id gets there with fclose.                                          *)
CannotOpen ==
    /\ pc = "persist"
    /\ pc' = "running"
    /\ UNCHANGED <<environment, device_id, response, file, devices, boots, history>>

Truncate ==
    /\ pc = "persist"
    /\ file' = NoId
    /\ pc' = "write"
    /\ UNCHANGED <<environment, device_id, response, devices, boots, history>>

WritesReply == response   \* Mutant of Written: the reply, not the adopted id
Written == device_id

Write ==
    /\ pc = "write"
    /\ file' = Written
    /\ identity' = device_id /\ torn' = FALSE
    /\ pc' = "running"
    /\ UNCHANGED <<environment, device_id, response, devices, boots, blanks, exchanges>>

(* fprintf and fclose are not checked: on a full disk nothing is written.  *)
CutOff == torn \/ identity # NoId

WriteFails ==
    /\ pc = "write"
    /\ pc' = "running"
    /\ torn' = CutOff
    /\ UNCHANGED <<environment, device_id, response, file, devices, boots,
                   identity, blanks, exchanges>>

(* The process is killed or exits, at any point.                           *)
Down ==
    /\ pc # "down"
    /\ pc' = "down"
    /\ device_id' = NoId /\ response' = Absent
    /\ blanks' = IF Persisted = NoId THEN blanks + 1 ELSE blanks
    /\ torn' = IF pc = "write" THEN CutOff ELSE torn
    /\ UNCHANGED <<environment, file, devices, boots, identity, exchanges>>

Terminated == pc = "down" /\ boots = MaxBoots /\ UNCHANGED vars

Next ==
    \/ Boot
    \/ RegisterFails \/ ReplyLost \/ Replied \/ Adopt
    \/ CannotOpen \/ Truncate \/ Write \/ WriteFails
    \/ Down \/ Terminated

Spec == Init /\ [][Next]_vars

-----------------------------------------------------------------------------
(* An id is the empty string, the pre-assigned one or one the backend      *)
(* issued to this router; the file holds such an id or is missing.         *)
TypeOK ==
    /\ host \in BOOLEAN /\ given \in {NoId, EnvId}
    /\ pc \in {"down", "register", "adopt", "persist", "write", "running"}
    /\ device_id \in devices \cup {EnvId, NoId}
    /\ response \in devices \cup {EnvId, NoId, Absent}
    /\ file \in devices \cup {EnvId, NoId, Absent}
    /\ devices \subseteq Ids
    /\ boots \in 0..MaxBoots
    /\ identity \in devices \cup {EnvId, NoId}
    /\ blanks \in 0..boots /\ exchanges \in 0..boots /\ torn \in BOOLEAN

(* README.md, DEVICE_ID_FILE: the file gives "a stable identity across     *)
(* restarts".  Once an id was written, every later start works under the   *)
(* one written last, or under what the backend answers to that start       *)
(* (unless the administrator assigned another or turned the backend off).  *)
Known == host /\ given = NoId /\ identity # NoId /\ pc # "down"
StableIdentity == Known => device_id \in {identity, response}

(* Lost replies, failed registrations and a process that ends anywhere but *)
(* inside a write of the id file never cost the identity, one that the     *)
(* backend exchanged or the administrator assigned in between included.    *)
StableUntilTorn == Known /\ ~torn => device_id \in {identity, response}

(* A pre-assigned id gives way to no id that an earlier start was given and*)
(* wrote to the file; only the reply to the registration of this start can *)
(* replace it, and the next start begins with it again.                    *)
PreassignedWins ==
    host /\ given # NoId /\ pc # "down" => device_id \in {given, response}

(* The backend is asked for a new device only by an agent that has no      *)
(* identity: none pre-assigned, and none persisted that was not torn.      *)
NewDeviceOnlyWhenNew ==
    [][devices' # devices /\ device_id = NoId
          => given = NoId /\ (identity = NoId \/ torn)]_vars

(* However the process and its file writes are cut off, devices do not     *)
(* pile up: every device after the first is owed to a life of the process  *)
(* that ended with no id in the file, or to an exchange by the backend.    *)
DevicesExplained == Cardinality(devices) <= 1 + blanks + exchanges
=============================================================================
