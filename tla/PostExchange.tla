---------------------------- MODULE PostExchange ----------------------------
(***************************************************************************)
(* What one call of http_post_json promises to its caller, whatever the    *)
(* network does: a success is only ever reported for a request the backend *)
(* acted on.  The converse is not promised: the backend may act on a       *)
(* request that was, or will be, reported as failed, but never twice.      *)
(***************************************************************************)

VARIABLES
    outcome,    \* "pending", "ok", "failed", or "dead": the process is gone
    accepted    \* whether the backend acted on the request

vars == <<outcome, accepted>>

Init == outcome = "pending" /\ accepted = FALSE

Accept == ~accepted /\ accepted' = TRUE /\ UNCHANGED outcome

Succeed == outcome = "pending" /\ accepted /\ outcome' = "ok" /\ UNCHANGED accepted

Fail ==
    /\ outcome = "pending"
    /\ outcome' \in {"failed", "dead"}
    /\ UNCHANGED accepted

Next == Accept \/ Succeed \/ Fail

Spec == Init /\ [][Next]_vars
=============================================================================
