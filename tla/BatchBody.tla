------------------------------ MODULE BatchBody -----------------------------
(***************************************************************************)
(* The bodies of the three messages that carry a list (backend_send_dns,   *)
(* backend_send_clients, backend_send_forensics in                         *)
(* src/src/backend_client.c).  Each is written into a buffer of Size bytes *)
(* entry by entry, and cut where the buffer might not hold another one.    *)
(*                                                                         *)
(* Text is counted in bytes: an entry is its length after json_escape, and *)
(* whether the sender knows its protocol.  A body is, after its header, a  *)
(* sequence of events, by their number, and separators.  The device id is  *)
(* not empty (backend_ready): DeviceIdentity has what happens without one. *)
(*                                                                         *)
(* A definition marked "Mutant of D" is a plausible bug: D with that body  *)
(* must violate a property.  No other definition uses it.                  *)
(***************************************************************************)
EXTENDS Integers, Sequences, SequencesExt

CONSTANTS
    Size,      \* DNS_BODY_MAX, CLIENTS_BODY_MAX, FORENSICS_BODY_MAX
    Reserve,   \* 512 for dns, 256 for clients and forensics
    Batches    \* [kind, header, events]: calls of the three functions

BatchBodyAssumption ==
    /\ Size \in Nat \ {0}
    /\ \A b \in Batches :
          /\ Reserve[b.kind] \in Nat /\ Reserve[b.kind] >= 2
          /\ b.header \in Nat
          /\ b.events \in Seq([length : Nat, known : BOOLEAN])

Separator == 0

VARIABLES
    batch,     \* the arguments
    at,        \* "header", "entries", "closing", "posted" or "refused"
    i,         \* events looked at
    body, pos  \* what the buffer holds after its header, and how much in all

vars == <<batch, at, i, body, pos>>

-----------------------------------------------------------------------------
(* What is in a sequence of numbers but the zeros.                         *)
Numbered(s) == FoldLeft(LAMBDA list, k : IF k = 0 THEN list ELSE Append(list, k), <<>>, s)

Entries == Numbered(body)

(* snprintf at pos succeeds when the text and a final 0 fit.               *)
Fits(length) == length < Size - pos

Unreserved == TRUE   \* Mutant of Reserved: entries are written to the brim
Reserved == pos + Reserve[batch.kind] < Size

(* An event of a protocol that is neither TCP nor UDP is passed over.      *)
Skipped(event) == batch.kind = "forensics" /\ ~event.known

ByIndex == i = 0   \* Mutant of First: wrong after a skipped event
First == IF batch.kind = "forensics" THEN Entries = <<>> ELSE i = 0

Written(event) == (IF First THEN 0 ELSE 1) + event.length

-----------------------------------------------------------------------------
Init ==
    /\ batch \in Batches
    /\ at = "header" /\ i = 0 /\ body = <<>> /\ pos = 0

Header ==
    /\ at = "header"
    /\ IF batch.events # <<>> /\ Fits(batch.header)
       THEN at' = "entries" /\ pos' = batch.header
       ELSE at' = "refused" /\ UNCHANGED pos
    /\ UNCHANGED <<batch, i, body>>

Upcoming == batch.events[i + 1]

Skip ==
    /\ at = "entries" /\ i < Len(batch.events) /\ Skipped(Upcoming)
    /\ i' = i + 1
    /\ UNCHANGED <<batch, at, body, pos>>

Entry ==
    /\ at = "entries" /\ i < Len(batch.events) /\ ~Skipped(Upcoming)
    /\ Reserved /\ Fits(Written(Upcoming))
    /\ body' = body \o (IF First THEN <<>> ELSE <<Separator>>) \o <<i + 1>>
    /\ pos' = pos + Written(Upcoming)
    /\ i' = i + 1
    /\ UNCHANGED <<batch, at>>

(* The list ends, or is cut; what a failed snprintf left behind pos is     *)
(* overwritten by the closing brackets.                                    *)
EndOfEntries ==
    /\ at = "entries"
    /\ \/ i = Len(batch.events)
       \/ i < Len(batch.events) /\ ~Skipped(Upcoming) /\ ~(Reserved /\ Fits(Written(Upcoming)))
    /\ at' = "closing"
    /\ UNCHANGED <<batch, i, body, pos>>

(* "]}"; forensics posts no empty list.                                    *)
Close ==
    /\ at = "closing"
    /\ IF (batch.kind = "forensics" => Entries # <<>>) /\ Fits(2)
       THEN at' = "posted" /\ pos' = pos + 2
       ELSE at' = "refused" /\ UNCHANGED pos
    /\ UNCHANGED <<batch, i, body>>

Next == Header \/ Skip \/ Entry \/ EndOfEntries \/ Close

Spec == Init /\ [][Next]_vars

-----------------------------------------------------------------------------
(* The buffer is never overrun.                                            *)
TypeOK ==
    /\ batch \in Batches
    /\ at \in {"header", "entries", "closing", "posted", "refused"}
    /\ i \in 0..Len(batch.events)
    /\ pos \in 0..(Size - 1)

(* The numbers of the events that have an entry, and the length of a body  *)
(* with entries for some of them.                                          *)
Known == Numbered([k \in DOMAIN batch.events |->
                      IF Skipped(batch.events[k]) THEN 0 ELSE k])
Length(k) == batch.events[k].length
Whole(numbers) ==
    IF numbers = <<>> THEN batch.header + 2
    ELSE FoldLeft(LAMBDA n, length : n + 1 + length, batch.header + 1,
                  [j \in DOMAIN numbers |-> Length(numbers[j])])

(* A body that is posted is a list, with separators between its entries    *)
(* only, of the first events in their order; every event, when the body    *)
(* has the reserve to spare; and not none, when the header leaves room for *)
(* the reserve and the first entry keeps to it.  A batch is refused, and   *)
(* all its events are lost, only when there is nothing to post, the header *)
(* leaves no room, or an entry is longer than what is reserved for it.     *)
CutsOnlyTheTail ==
    /\ at = "posted" =>
         /\ \E n \in 0..Len(Known) :
               /\ body = [k \in 1..(2 * n - 1) |->
                            IF k % 2 = 0 THEN Separator ELSE Known[(k + 1) \div 2]]
               /\ pos = Whole(SubSeq(Known, 1, n))
         /\ Whole(Known) < Size - Reserve[batch.kind] => Entries = Known
         /\ /\ Known # <<>> /\ batch.header + Reserve[batch.kind] < Size
            /\ Length(Known[1]) < Reserve[batch.kind]
            => Entries # <<>>
    /\ at = "refused" =>
         \/ Known = <<>> \/ batch.header + Reserve[batch.kind] >= Size
         \/ \E k \in DOMAIN Known : Length(Known[k]) + 3 > Reserve[batch.kind]
=============================================================================
