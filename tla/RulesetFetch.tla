---------------------------- MODULE RulesetFetch ----------------------------
(***************************************************************************)
(* rules_client_fetch (src/src/rules_client.c) and the http_get under it   *)
(* (src/src/http_client.c): a child process, uclient-fetch, prints the     *)
(* reply of the backend into a pipe, the agent reads as much as its buffer *)
(* holds, closes the pipe, and judges by the exit status of the child      *)
(* whether to look for the three thresholds in what it read.               *)
(*                                                                         *)
(* A reply is a sequence of units: digits, and keys with all that is       *)
(* between a key and its number.  The child is external: it exits with 0   *)
(* only when it has printed the whole reply, otherwise its transfer fails  *)
(* or times out, or it is killed by writing to the closed pipe.  Numbers   *)
(* stay below 2^64, and the version is only logged: both are left out.     *)
(*                                                                         *)
(* A definition marked "Mutant of D" is a plausible bug: D with that body  *)
(* must violate a property.  No other definition uses it.                  *)
(***************************************************************************)
EXTENDS Integers, Sequences, SequencesExt

CONSTANTS
    BodyMax,   \* RULESET_RESP_MAX - 1, in units
    PipeSize,  \* what the pipe holds
    Replies    \* what the backend may answer

RulesetFetchAssumption ==
    BodyMax \in Nat /\ PipeSize \in Nat /\ Replies \subseteq Seq(Int)

Keys == [udp |-> -1, tcp |-> -2, bytes |-> -3]
Digits == 0..9

VARIABLES
    pc,         \* "get", "read", "closed", or "returned"
    child,      \* "none", "prints", "done" (exit status 0) or "failed"
    reply,      \* what the backend answers
    printed,    \* units of it the child has printed
    total,      \* units of it the agent has read
    ruleset     \* what the fetch returns, or Failure

vars == <<pc, child, reply, printed, total, ruleset>>

Failure == [d \in DOMAIN Keys |-> -1]

-----------------------------------------------------------------------------
(* extract_json_number: the digits after the first occurrence of the key,  *)
(* and the 0 of the memset when there are none.                            *)
Value(digits) == FoldLeft(LAMBDA v, digit : 10 * v + digit, 0, digits)

NumberAfter(text, key) ==
    LET rest == IF Contains(text, key)
                THEN SubSeq(text, SelectInSeq(text, LAMBDA u : u = key) + 1, Len(text))
                ELSE <<>>
        other == SelectInSeq(rest, LAMBDA u : u \notin Digits)
    IN  Value(IF other = 0 THEN rest ELSE SubSeq(rest, 1, other - 1))

Extracted(text) == [d \in DOMAIN Keys |-> NumberAfter(text, Keys[d])]

Body == SubSeq(reply, 1, total)

-----------------------------------------------------------------------------
Init ==
    /\ pc = "get" /\ child = "none"
    /\ reply \in Replies
    /\ printed = 0 /\ total = 0 /\ ruleset = Failure

(* No memory, no device id, a URL that is not safe, no child.              *)
Refused ==
    /\ pc = "get"
    /\ pc' = "returned"
    /\ UNCHANGED <<child, reply, printed, total, ruleset>>

Popen ==
    /\ pc = "get"
    /\ pc' = "read" /\ child' = "prints"
    /\ UNCHANGED <<reply, printed, total, ruleset>>

(* fread returns what there is until the buffer is full; 0 is the end of   *)
(* what a child printed that is gone.                                      *)
Fread ==
    /\ pc = "read" /\ total < BodyMax /\ total < printed
    /\ total' = total + 1
    /\ UNCHANGED <<pc, child, reply, printed, ruleset>>

ReadingEnds ==
    /\ pc = "read"
    /\ total = BodyMax \/ (total = printed /\ child # "prints")
    /\ pc' = "closed"
    /\ UNCHANGED <<child, reply, printed, total, ruleset>>

(* pclose waits for the child.                                             *)
AnyExit == TRUE   \* Mutant of Accepted: the exit status is not looked at
Accepted == child = "done"

Pclose ==
    /\ pc = "closed" /\ child # "prints"
    /\ pc' = "returned"
    /\ ruleset' = IF Accepted THEN Extracted(Body) ELSE Failure
    /\ UNCHANGED <<child, reply, printed, total>>

-----------------------------------------------------------------------------
(* The child.  A write to the closed pipe kills it.                        *)
Prints ==
    /\ child = "prints" /\ pc = "read"
    /\ printed < Len(reply) /\ printed - total < PipeSize
    /\ printed' = printed + 1
    /\ UNCHANGED <<pc, child, reply, total, ruleset>>

Exits ==
    /\ child = "prints" /\ printed = Len(reply)
    /\ child' = "done"
    /\ UNCHANGED <<pc, reply, printed, total, ruleset>>

Breaks ==
    /\ child = "prints"
    /\ child' = "failed"
    /\ UNCHANGED <<pc, reply, printed, total, ruleset>>

Next ==
    \/ Refused \/ Popen \/ Fread \/ ReadingEnds \/ Pclose
    \/ Prints \/ Exits \/ Breaks

Spec == Init /\ [][Next]_vars

-----------------------------------------------------------------------------
(* The agent reads what was printed, into its buffer.                      *)
TypeOK ==
    /\ pc \in {"get", "read", "closed", "returned"}
    /\ child \in {"none", "prints", "done", "failed"}
    /\ reply \in Replies
    /\ printed \in 0..Len(reply) /\ total \in 0..printed /\ total <= BodyMax
    /\ ruleset = Failure \/ \A d \in DOMAIN Keys : ruleset[d] >= 0

(* The thresholds the agent goes on with are those of the whole reply,     *)
(* however the transfer went, when the reply fits the buffer.  A longer    *)
(* one is only taken when what is left over fits the pipe, and then each   *)
(* threshold is that of the reply, none, or the one number the end of the  *)
(* buffer cuts.                                                            *)
RulesetsAreWhole ==
    pc = "returned" /\ ruleset # Failure =>
        /\ Len(reply) <= BodyMax + PipeSize
        /\ Len(reply) <= BodyMax => ruleset = Extracted(reply)
        /\ \A d \in DOMAIN Keys :
              ruleset[d] \notin {0, Extracted(reply)[d]} =>
                  /\ BodyMax < Len(reply)
                  /\ reply[BodyMax] \in Digits /\ reply[BodyMax + 1] \in Digits
=============================================================================
