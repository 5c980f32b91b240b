----------------------------- MODULE LossyQueue -----------------------------
(***************************************************************************)
(* What the telemetry queue between the capture thread and the uploader    *)
(* thread promises, without its ring buffer, its lock or its condition     *)
(* variable: a bounded first-in first-out queue that never makes the       *)
(* producer wait.  Offering to a full queue discards the oldest element.   *)
(* Once closed, nothing goes in or out.                                    *)
(***************************************************************************)
EXTENDS Naturals, Sequences

CONSTANTS Capacity, \* the number of elements the queue can hold
          Elem      \* the elements offered to it

VARIABLES pending,  \* the elements waiting, oldest first
          current,  \* the element handed out last (anything, at first)
          open      \* whether the queue is open

vars == <<pending, current, open>>

(* The queue starts closed: it opens when its consumer starts.             *)
Init == pending = <<>> /\ open = FALSE

Open == /\ ~open
        /\ pending = <<>>
        /\ open' = TRUE
        /\ UNCHANGED <<pending, current>>

Kept == IF Len(pending) = Capacity THEN Tail(pending) ELSE pending

Offer(e) == /\ open
            /\ pending' = Append(Kept, e)
            /\ UNCHANGED <<current, open>>

Take == /\ open
        /\ pending # <<>>
        /\ current' = Head(pending)
        /\ pending' = Tail(pending)
        /\ UNCHANGED open

Close == /\ open
         /\ open' = FALSE
         /\ UNCHANGED <<pending, current>>

Next == Open \/ (\E e \in Elem : Offer(e)) \/ Take \/ Close

Spec == Init /\ [][Next]_vars

(* An open queue that holds something is eventually taken from.            *)
FairSpec == Spec /\ WF_vars(Take)
=============================================================================
