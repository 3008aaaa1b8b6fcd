-------------------------- MODULE ConditionalOrder --------------------------
(***************************************************************************)
(* What risk/order_queue.py promises of one queued order: it waits until   *)
(* its gate clears, then reaches the broker at most once, or is cancelled  *)
(* and never reaches it.                                                   *)
(***************************************************************************)
CONSTANTS Ids   \* order ids

VARIABLES
    status,  \* the life of each order
    fired    \* orders the broker has accepted

Init == status = [o \in Ids |-> "absent"] /\ fired = {}

Enqueue(o) ==
    /\ status[o] = "absent"
    /\ status' = [status EXCEPT ![o] = "PENDING"]
    /\ UNCHANGED fired

Cancel(o) ==
    /\ status[o] = "PENDING"
    /\ status' = [status EXCEPT ![o] = "CANCELLED"]
    /\ UNCHANGED fired

Fire(o) ==
    /\ status[o] = "PENDING"
    /\ status' = [status EXCEPT ![o] = "EXECUTED"]
    /\ fired' = fired \union {o}

Fail(o) ==
    /\ status[o] = "PENDING"
    /\ status' = [status EXCEPT ![o] = "FAILED"]
    /\ UNCHANGED fired

Next == \E o \in Ids : Enqueue(o) \/ Cancel(o) \/ Fire(o) \/ Fail(o)

Spec == Init /\ [][Next]_<<status, fired>>

=============================================================================
