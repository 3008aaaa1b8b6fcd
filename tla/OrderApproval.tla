--------------------------- MODULE OrderApproval ---------------------------
(***************************************************************************)
(* What execution/live_gate.py promises of one live order (its docstring,  *)
(* lines 11-18): it waits for a human, is decided at most once or expires, *)
(* and only an approved order is ever submitted.                           *)
(***************************************************************************)
CONSTANTS Ids   \* trade ids

VARIABLE status \* the life of each order

Statuses == {"absent", "pending", "approved", "rejected", "expired", "submitted"}

Moves == {<<"absent", "pending">>, <<"pending", "approved">>,
          <<"pending", "rejected">>, <<"pending", "expired">>,
          <<"approved", "submitted">>}

Init == status = [o \in Ids |-> "absent"]

\* One operation of the gate: each order stays or makes one legal move.
Operation ==
    /\ status' \in [Ids -> Statuses]
    /\ \A o \in Ids : status'[o] # status[o] => <<status[o], status'[o]>> \in Moves

Spec == Init /\ [][Operation]_status

=============================================================================
