------------------------------ MODULE LiveGate ------------------------------
(***************************************************************************)
(* execution/live_gate.py: the human-approval queue.                       *)
(*                                                                         *)
(* logs/live_pending_orders.json is rewritten whole by every operation:    *)
(* read, change, write_text.  Two threads of one process do so without a   *)
(* lock: the trading loop (queue_order, mark_submitted) and the dashboard  *)
(* (approve_order, reject_order, list_pending).  write_text truncates the  *)
(* file first, so a write has two steps and a reader between them gets [].  *)
(***************************************************************************)
EXTENDS Integers, FiniteSets

CONSTANTS
    Ids,          \* trade ids, one uuid per queued order
    Timeout,      \* APPROVAL_TIMEOUT_MIN
    MaxTime,      \* bound: last clock value
    MaxRestarts,  \* bound: crashes of the process
    MaxOverlaps,  \* bound: operations begun during one of the other thread
    Corrupt       \* model value: file truncated or garbled

ASSUME GateAssumption ==
    /\ Timeout \in Nat \ {0} /\ MaxTime \in Nat
    /\ MaxRestarts \in Nat /\ MaxOverlaps \in Nat

Threads  == {"trader", "dashboard"}
Statuses == {"absent", "pending", "approved", "rejected", "expired", "submitted"}
Rows     == [Ids -> Statuses]
NoRows   == [o \in Ids |-> "absent"]

ASSUME CorruptAssumption == Corrupt \notin Rows

VARIABLES
    file,     \* the pending file: a status per row, or Corrupt
    expires,  \* expires_at of each row, 0 while the order is not queued
    pc,       \* per thread: "idle", "read" (holds new rows), "writing"
    rows,     \* per thread: the rows it is about to write
    request,  \* per thread: the operation under way
    raced,    \* per thread: another write ended during its own
    now,      \* the clock
    live,     \* controller.state.live_mode
    shadow,   \* ids appended to live_shadow.jsonl
    approvedLog, \* ids appended to live_approved.jsonl
    fillsLog, \* ids appended to live_fills.jsonl
    reviews,  \* history: decisions on each id that the reviewer was told of
    clicked,  \* history: time at which the approval of an id was read
    overlaps, \* history: operations begun while the other thread was in one
    crashes   \* bound used up

gateVars == <<file, expires, pc, rows, request, raced, now, live, shadow,
              approvedLog, fillsLog, reviews, clicked, overlaps, crashes>>

Logs    == <<shadow, approvedLog, fillsLog, reviews>>
Nothing == [op |-> "none"]
Requests == {Nothing} \union [op : {"refuse", "list"}]
            \union [op : {"queue", "approve", "reject", "submit"}, id : Ids]

-----------------------------------------------------------------------------
\* _read_pending: a file that does not parse reads as no rows.
ReadPending == IF file = Corrupt THEN NoRows ELSE file

\* _prune_expired
Pruned(r) ==
    [o \in Ids |-> IF r[o] = "pending" /\ expires[o] <= now THEN "expired" ELSE r[o]]

GateInit ==
    /\ file = NoRows
    /\ expires = [o \in Ids |-> 0]
    /\ pc = [t \in Threads |-> "idle"]
    /\ rows = [t \in Threads |-> NoRows]
    /\ request = [t \in Threads |-> Nothing]
    /\ raced = [t \in Threads |-> FALSE]
    /\ now = 1
    /\ live \in BOOLEAN
    /\ shadow = {} /\ approvedLog = {} /\ fillsLog = {}
    /\ reviews = [o \in Ids |-> 0]
    /\ clicked = [o \in Ids |-> 0]
    /\ overlaps = 0
    /\ crashes = 0

Alone == \A t \in Threads : pc[t] = "idle"

CanStart(t) ==
    /\ pc[t] = "idle"
    /\ Alone \/ overlaps < MaxOverlaps

\* The operation has read the file and computed the rows it will write.
Reads(t, req, r) ==
    /\ overlaps' = IF Alone THEN overlaps ELSE overlaps + 1
    /\ pc' = [pc EXCEPT ![t] = "read"]
    /\ rows' = [rows EXCEPT ![t] = r]
    /\ request' = [request EXCEPT ![t] = req]

\* queue_order in live mode: prune what was read and append the new row.
QueueLive(o) ==
    /\ live
    /\ CanStart("trader")
    /\ expires[o] = 0
    /\ o \notin shadow
    /\ expires' = [expires EXCEPT ![o] = now + Timeout]
    /\ Reads("trader", [op |-> "queue", id |-> o],
             [Pruned(ReadPending) EXCEPT ![o] = "pending"])
    /\ UNCHANGED <<file, raced, now, live, Logs, clicked, crashes>>

\* queue_order in shadow mode: logged and dropped.
QueueShadow(o) ==
    /\ ~ live
    /\ pc["trader"] = "idle"
    /\ expires[o] = 0
    /\ o \notin shadow
    /\ shadow' = shadow \union {o}
    /\ UNCHANGED <<file, expires, pc, rows, request, raced, now, live,
                   approvedLog, fillsLog, reviews, clicked, overlaps, crashes>>

\* Variant: no prune before the decision.
ApproveUnpruned(o) ==
    /\ CanStart("dashboard")
    /\ ReadPending[o] = "pending"
    /\ Reads("dashboard", [op |-> "approve", id |-> o],
             [ReadPending EXCEPT ![o] = "approved"])
    /\ clicked' = [clicked EXCEPT ![o] = now]
    /\ UNCHANGED <<file, expires, raced, now, live, Logs, crashes>>

\* approve_order: a row still pending after the prune becomes approved; the
\* rows are written back either way.
Approve(o) ==
    /\ CanStart("dashboard")
    /\ LET r == Pruned(ReadPending) IN
         \/ /\ r[o] = "pending"
            /\ Reads("dashboard", [op |-> "approve", id |-> o],
                     [r EXCEPT ![o] = "approved"])
            /\ clicked' = [clicked EXCEPT ![o] = now]
         \/ /\ r[o] # "pending"
            /\ Reads("dashboard", [op |-> "refuse"], r)
            /\ UNCHANGED clicked
    /\ UNCHANGED <<file, expires, raced, now, live, Logs, crashes>>

\* Variant: a row already approved can still be rejected.
RejectApproved(o) ==
    /\ CanStart("dashboard")
    /\ Pruned(ReadPending)[o] \in {"pending", "approved"}
    /\ Reads("dashboard", [op |-> "reject", id |-> o],
             [Pruned(ReadPending) EXCEPT ![o] = "rejected"])
    /\ UNCHANGED <<file, expires, raced, now, live, Logs, clicked, crashes>>

\* reject_order
Reject(o) ==
    /\ CanStart("dashboard")
    /\ LET r == Pruned(ReadPending) IN
         \/ /\ r[o] = "pending"
            /\ Reads("dashboard", [op |-> "reject", id |-> o],
                     [r EXCEPT ![o] = "rejected"])
         \/ /\ r[o] # "pending"
            /\ Reads("dashboard", [op |-> "refuse"], r)
    /\ UNCHANGED <<file, expires, raced, now, live, Logs, clicked, crashes>>

\* list_pending, called by every GET of the dashboard's data: a read that
\* writes the file back.
ListPending ==
    /\ CanStart("dashboard")
    /\ Reads("dashboard", [op |-> "list"], Pruned(ReadPending))
    /\ UNCHANGED <<file, expires, raced, now, live, Logs, clicked, crashes>>

\* Variant: the status of the row is not looked at.
MarkSubmittedUnchecked(o) ==
    /\ CanStart("trader")
    /\ ReadPending[o] # "absent"
    /\ Reads("trader", [op |-> "submit", id |-> o],
             [ReadPending EXCEPT ![o] = "submitted"])
    /\ UNCHANGED <<file, expires, raced, now, live, Logs, clicked, crashes>>

\* mark_submitted: no prune, and no write unless the row is approved.  It is
\* there for an executor that the program does not have; it may be called at
\* any time, and nothing obliges anyone to call it.
MarkSubmitted(o) ==
    /\ CanStart("trader")
    /\ ReadPending[o] = "approved"
    /\ Reads("trader", [op |-> "submit", id |-> o],
             [ReadPending EXCEPT ![o] = "submitted"])
    /\ UNCHANGED <<file, expires, raced, now, live, Logs, clicked, crashes>>

-----------------------------------------------------------------------------
\* _write_pending, first half: open for writing truncates.
BeginWrite(t) ==
    /\ pc[t] = "read"
    /\ pc' = [pc EXCEPT ![t] = "writing"]
    /\ file' = Corrupt
    /\ raced' = [raced EXCEPT ![t] = FALSE]
    /\ UNCHANGED <<expires, rows, request, now, live, Logs, clicked, overlaps,
                   crashes>>

\* What the caller of a finished operation is told, and the line it appends.
Conclude(req) ==
    /\ approvedLog' = IF req.op = "approve" THEN approvedLog \union {req.id}
                      ELSE approvedLog
    /\ reviews' = IF req.op \in {"approve", "reject"}
                    THEN [reviews EXCEPT ![req.id] = @ + 1] ELSE reviews
    /\ fillsLog' = IF req.op = "submit" THEN fillsLog \union {req.id} ELSE fillsLog
    /\ UNCHANGED shadow

\* _write_pending, second half.  If another write ended during this one, the
\* shorter text leaves the tail of the longer behind it: the file may be
\* garbled.
EndWrite(t) ==
    /\ pc[t] = "writing"
    /\ \/ file' = rows[t]
       \/ raced[t] /\ file' = Corrupt
    /\ pc' = [pc EXCEPT ![t] = "idle"]
    /\ raced' = [u \in Threads |-> u # t /\ pc[u] = "writing"]
    /\ Conclude(request[t])
    /\ request' = [request EXCEPT ![t] = Nothing]
    /\ rows' = [rows EXCEPT ![t] = NoRows]
    /\ UNCHANGED <<expires, now, live, clicked, overlaps, crashes>>

Clock ==
    /\ now < MaxTime
    /\ now' = now + 1
    /\ UNCHANGED <<file, expires, pc, rows, request, raced, live, Logs,
                   clicked, overlaps, crashes>>

\* The process dies with both its threads and is started again, in the mode
\* the controller's file then has.
CrashRestart ==
    /\ crashes < MaxRestarts
    /\ crashes' = crashes + 1
    /\ pc' = [t \in Threads |-> "idle"]
    /\ rows' = [t \in Threads |-> NoRows]
    /\ request' = [t \in Threads |-> Nothing]
    /\ raced' = [t \in Threads |-> FALSE]
    /\ live' \in BOOLEAN
    /\ UNCHANGED <<file, expires, now, Logs, clicked, overlaps>>

GateNext ==
    \/ \E o \in Ids : QueueLive(o) \/ QueueShadow(o) \/ Approve(o) \/ Reject(o)
                        \/ MarkSubmitted(o)
    \/ ListPending
    \/ \E t \in Threads : BeginWrite(t) \/ EndWrite(t)
    \/ Clock
    \/ CrashRestart

GateSpec == GateInit /\ [][GateNext]_gateVars

-----------------------------------------------------------------------------
\* Every variable has its type.
GateTypeOK ==
    /\ file \in Rows \union {Corrupt}
    /\ expires \in [Ids -> Nat]
    /\ pc \in [Threads -> {"idle", "read", "writing"}]
    /\ rows \in [Threads -> Rows]
    /\ request \in [Threads -> Requests]
    /\ raced \in [Threads -> BOOLEAN]
    /\ now \in Nat /\ live \in BOOLEAN
    /\ overlaps \in Nat /\ crashes \in Nat
    /\ shadow \subseteq Ids /\ approvedLog \subseteq Ids /\ fillsLog \subseteq Ids
    /\ reviews \in [Ids -> Nat]
    /\ clicked \in [Ids -> Nat]

Contents == {file} \union {rows[t] : t \in Threads}

\* However the two threads' rewrites interleave, and whatever stale rows bring
\* an expired order back to pending, no order is approved at or after its
\* expiry.
NoLateApproval ==
    \A o \in Ids : clicked[o] # 0 => clicked[o] < expires[o]

\* No lost or repeated write forges a decision: a row approved or submitted,
\* in the file or in a thread's hands, was approved by the reviewer, and one
\* expired is past its time.
NoForgedStatus ==
    \A r \in Contents \ {Corrupt} : \A o \in Ids :
       /\ r[o] \in {"approved", "submitted"} => clicked[o] # 0
       /\ r[o] = "expired" => expires[o] <= now
       /\ r[o] # "absent" => expires[o] # 0 /\ o \notin shadow

\* The order behind each trade id, as soon as a write that changes it begins.
Status ==
    IF \E t \in Threads : pc[t] = "writing"
      THEN rows[CHOOSE t \in Threads : pc[t] = "writing"]
      ELSE ReadPending

Promise == INSTANCE OrderApproval WITH status <- Status

\* With the operations one at a time and no crash, the gate keeps the promise
\* of its docstring.
KeepsPromise == Promise!Spec

\* Without a lock an order can be decided again: a stale rewrite brings it back
\* to pending after its decision.  It takes one operation begun during another
\* for each decision beyond the first; crashes, truncated reads, garbled files
\* and retries of the reviewer give none.
DecidedOnce == \A o \in Ids : reviews[o] <= 1 + overlaps

\* "Approved orders the executor hasn't picked up yet" (live_gate.py:149):
\* at rest, list_approved_ready returns every logged approval not yet filled.
ApprovedIsReady ==
    (\A t \in Threads : pc[t] = "idle")
       => \A o \in approvedLog \ fillsLog : ReadPending[o] = "approved"

=============================================================================
