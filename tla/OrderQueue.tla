----------------------------- MODULE OrderQueue -----------------------------
(***************************************************************************)
(* risk/order_queue.py: orders that wait for a gate.                       *)
(*                                                                         *)
(* logs/order_queue.json is read whole at the start of every operation and *)
(* written whole at its end.  execute_pending sends orders to the broker   *)
(* between the two, one every few seconds, in a process of its own         *)
(* (python -m risk.order_queue); enqueue and cancel run in others.  No     *)
(* operation takes a lock, and write_text truncates the file before it     *)
(* writes, so a save has two steps and a reader between them gets [].      *)
(***************************************************************************)
EXTENDS Integers, FiniteSets

CONSTANTS
    Ids,         \* order ids
    Orders,      \* per id: its gate ("AFTER_DATE", "AFTER_EVENT" or
                 \* "CONDITIONAL"), day, condition and whether its side is known
    Workers,     \* processes that run execute_pending
    Clients,     \* processes that enqueue and cancel
    MaxDay,      \* bound: last day
    MaxRuns,     \* bound: calls of execute_pending
    MaxCrashes,  \* bound: processes killed, or ended by an exception that no
                 \* except of theirs catches
    MaxOverlaps, \* bound: operations begun during one of another process
    Doubtful,    \* TRUE: place_order or _audit may raise after the broker has
                 \* accepted the order
    Corrupt      \* model value: a file cut short

ASSUME QueueAssumption ==
    /\ MaxDay \in Nat /\ MaxRuns \in Nat /\ MaxCrashes \in Nat
    /\ MaxOverlaps \in Nat /\ Doubtful \in BOOLEAN
    /\ Workers \intersect Clients = {}
    /\ Orders \in [Ids -> [gate : {"AFTER_DATE", "AFTER_EVENT", "CONDITIONAL"},
                           day : Nat, nonHawkish : BOOLEAN, sideKnown : BOOLEAN]]

Statuses == {"absent", "PENDING", "EXECUTED", "CANCELLED", "FAILED"}
Rows     == [Ids -> Statuses]
NoRows   == [o \in Ids |-> "absent"]
Procs    == Workers \union Clients

ASSUME CorruptNotRows == Corrupt \notin Rows

VARIABLES
    file,      \* logs/order_queue.json: a status per row, or Corrupt
    pc,        \* per process: "idle", "busy" (has read), "saving"
    queue,     \* per process: the rows it read, as it has changed them
    todo,      \* per worker: triggered orders not yet handled
    target,    \* per client: the one order it is about to save, or {}
    raced,     \* per process: another save ended during its own
    today,     \* the day
    enqueued,  \* ids given to an enqueue
    accepted,  \* history: orders accepted by the broker, per id
    cancelled, \* history: cancellations that returned True, per id
    overlaps,  \* history: operations begun during one of another process
    runs,      \* bound used up
    crashes    \* bound used up, and history: processes killed

vars == <<file, pc, queue, todo, target, raced, today, enqueued, accepted,
          cancelled, overlaps, runs, crashes>>

Outcome == <<accepted, cancelled>>

-----------------------------------------------------------------------------
\* _load_queue: what does not parse is an empty queue.
Load == IF file = Corrupt THEN NoRows ELSE file

\* Variant: the day of the gate itself counts as past.
CanTriggerOnTheDay(o, bullish) ==
    /\ Orders[o].gate # "CONDITIONAL"
    /\ today >= Orders[o].day
    /\ Orders[o].gate = "AFTER_EVENT" /\ Orders[o].nonHawkish => bullish

\* _can_trigger over one load.  The non-hawkish condition asks the quote
\* server, whose answer is "bullish" here; it counts as met when no answer
\* comes.
CanTrigger(o, bullish) ==
    CASE Orders[o].gate = "AFTER_DATE"  -> today > Orders[o].day
      [] Orders[o].gate = "AFTER_EVENT" ->
            /\ today > Orders[o].day
            /\ Orders[o].nonHawkish => bullish
      [] Orders[o].gate = "CONDITIONAL" -> FALSE

Triggered(bullish) ==
    {o \in Ids : Load[o] = "PENDING" /\ CanTrigger(o, bullish)}

Init ==
    /\ file = NoRows
    /\ pc = [p \in Procs |-> "idle"]
    /\ queue = [p \in Procs |-> NoRows]
    /\ todo = [w \in Workers |-> {}]
    /\ target = [p \in Clients |-> {}]
    /\ raced = [p \in Procs |-> FALSE]
    /\ today = 1
    /\ enqueued = {}
    /\ accepted = [o \in Ids |-> 0]
    /\ cancelled = [o \in Ids |-> 0]
    /\ overlaps = 0 /\ runs = 0 /\ crashes = 0

Alone == \A p \in Procs : pc[p] = "idle"

CanStart(p) ==
    /\ pc[p] = "idle"
    /\ Alone \/ overlaps < MaxOverlaps

Busy(p, rows) ==
    /\ overlaps' = IF Alone THEN overlaps ELSE overlaps + 1
    /\ pc' = [pc EXCEPT ![p] = "busy"]
    /\ queue' = [queue EXCEPT ![p] = rows]

Idle(p) ==
    /\ pc' = [pc EXCEPT ![p] = "idle"]
    /\ queue' = [queue EXCEPT ![p] = NoRows]

\* The client has found o PENDING and is about to save it CANCELLED.
Cancels(p, o) == o \in target[p] /\ queue[p][o] = "CANCELLED"

\* enqueue: read and append.
Enqueue(p, o) ==
    /\ CanStart(p)
    /\ o \notin enqueued
    /\ enqueued' = enqueued \union {o}
    /\ Busy(p, [Load EXCEPT ![o] = "PENDING"])
    /\ target' = [target EXCEPT ![p] = {o}]
    /\ UNCHANGED <<file, todo, raced, today, Outcome, runs, crashes>>

\* cancel: read; a row still PENDING will be written back CANCELLED,
\* otherwise False is returned and nothing written.
Cancel(p, o) ==
    /\ CanStart(p)
    /\ Load[o] = "PENDING"
    /\ Busy(p, [Load EXCEPT ![o] = "CANCELLED"])
    /\ target' = [target EXCEPT ![p] = {o}]
    /\ UNCHANGED <<file, todo, raced, today, enqueued, Outcome, runs, crashes>>

\* _save_queue, first half: open for writing truncates.
OpenSave(p) ==
    /\ pc[p] = "busy"
    /\ pc' = [pc EXCEPT ![p] = "saving"]
    /\ file' = Corrupt
    /\ raced' = [raced EXCEPT ![p] = FALSE]
    /\ UNCHANGED <<queue, todo, target, today, enqueued, Outcome, overlaps,
                   runs, crashes>>

\* A save under way learns that p's has ended.
SaveEnded(p) == raced' = [q \in Procs |-> q # p /\ pc[q] = "saving"]

\* Its second half, and the return of the operation.  If another save ended
\* during this one, the shorter text leaves the tail of the longer behind it.
EndSave(p) ==
    /\ pc[p] = "saving"
    /\ \/ file' = queue[p]
       \/ raced[p] /\ file' = Corrupt
    /\ SaveEnded(p)
    /\ Idle(p)
    /\ target' = [q \in Clients |-> IF q = p THEN {} ELSE target[q]]
    /\ cancelled' = [o \in Ids |->
                       IF p \in Clients /\ Cancels(p, o) THEN cancelled[o] + 1
                                                       ELSE cancelled[o]]
    /\ UNCHANGED <<todo, today, enqueued, accepted, overlaps, runs, crashes>>

ClientSave(p) == OpenSave(p)

\* execute_pending: read, and collect what its gate lets through.  With
\* nothing triggered it returns at once.
StartRun(w, bullish) ==
    /\ CanStart(w)
    /\ runs < MaxRuns
    /\ Triggered(bullish) # {}
    /\ runs' = runs + 1
    /\ todo' = [todo EXCEPT ![w] = Triggered(bullish)]
    /\ Busy(w, Load)
    /\ UNCHANGED <<file, target, raced, today, enqueued, Outcome, crashes>>

\* One pass of the loop: an unknown side never reaches the broker.
Handle(w, o, status) ==
    /\ pc[w] = "busy"
    /\ o \in todo[w]
    /\ todo' = [todo EXCEPT ![w] = @ \ {o}]
    /\ queue' = [queue EXCEPT ![w][o] = status]
    /\ UNCHANGED <<file, pc, target, raced, today, enqueued, cancelled, overlaps,
                   runs, crashes>>

SkipUnknownSide(w, o) ==
    /\ ~ Orders[o].sideKnown
    /\ Handle(w, o, "FAILED")
    /\ UNCHANGED accepted

PlaceAccepted(w, o) ==
    /\ Orders[o].sideKnown
    /\ Handle(w, o, "EXECUTED")
    /\ accepted' = [accepted EXCEPT ![o] = @ + 1]

\* Variant: the return code of place_order is not looked at.
PlaceUnchecked(w, o) ==
    /\ Orders[o].sideKnown
    /\ Handle(w, o, "EXECUTED")
    /\ UNCHANGED accepted

PlaceRefused(w, o) ==
    /\ Orders[o].sideKnown
    /\ Handle(w, o, "FAILED")
    /\ UNCHANGED accepted

\* The broker took the order and the call, or the audit line, raised.
PlaceDoubtful(w, o) ==
    /\ Doubtful
    /\ Orders[o].sideKnown
    /\ Handle(w, o, "FAILED")
    /\ accepted' = [accepted EXCEPT ![o] = @ + 1]

\* Variant: the save forgotten.
EndRunUnsaved(w) ==
    /\ pc[w] = "busy"
    /\ todo[w] = {}
    /\ Idle(w)
    /\ UNCHANGED <<file, todo, target, raced, today, enqueued, Outcome, overlaps,
                   runs, crashes>>

\* The one save, after the last order.
EndRun(w) ==
    /\ todo[w] = {}
    /\ OpenSave(w)

\* A process killed.  Inside its save it leaves the file truncated, cut short
\* or, at the very end, written.
Crash(p) ==
    /\ pc[p] # "idle"
    /\ crashes < MaxCrashes
    /\ crashes' = crashes + 1
    /\ \/ UNCHANGED file
       \/ pc[p] = "saving" /\ file' \in {Corrupt, queue[p]}
    /\ SaveEnded(p)
    /\ Idle(p)
    /\ todo' = [w \in Workers |-> IF w = p THEN {} ELSE todo[w]]
    /\ target' = [q \in Clients |-> IF q = p THEN {} ELSE target[q]]
    /\ UNCHANGED <<today, enqueued, Outcome, overlaps, runs>>

NextDay ==
    /\ today < MaxDay
    /\ today' = today + 1
    /\ UNCHANGED <<file, pc, queue, todo, target, raced, enqueued, Outcome,
                   overlaps, runs, crashes>>

Work(w) ==
    \/ \E o \in Ids : \/ SkipUnknownSide(w, o) \/ PlaceAccepted(w, o)
                      \/ PlaceRefused(w, o) \/ PlaceDoubtful(w, o)
    \/ EndRun(w)

Next ==
    \/ \E p \in Clients, o \in Ids : Enqueue(p, o) \/ Cancel(p, o)
    \/ \E p \in Clients : ClientSave(p)
    \/ \E w \in Workers, bullish \in BOOLEAN : StartRun(w, bullish)
    \/ \E w \in Workers : Work(w)
    \/ \E p \in Procs : EndSave(p) \/ Crash(p)
    \/ NextDay

Spec == Init /\ [][Next]_vars

-----------------------------------------------------------------------------
\* Every variable has its type.
TypeOK ==
    /\ file \in Rows \union {Corrupt}
    /\ pc \in [Procs -> {"idle", "busy", "saving"}]
    /\ queue \in [Procs -> Rows]
    /\ todo \in [Workers -> SUBSET Ids]
    /\ target \in [Clients -> SUBSET Ids]
    /\ raced \in [Procs -> BOOLEAN]
    /\ today \in Nat
    /\ enqueued \subseteq Ids
    /\ accepted \in [Ids -> Nat] /\ cancelled \in [Ids -> Nat]
    /\ overlaps \in Nat /\ runs \in Nat /\ crashes \in Nat

\* However runs, clients and crashes interleave, no order reaches the broker
\* before its gate has cleared or with a side the program does not know, and
\* every acceptance belongs to a separate run.
OnlyClearedGates ==
    \A o \in Ids : accepted[o] > 0 =>
       /\ Orders[o].gate # "CONDITIONAL"
       /\ Orders[o].sideKnown
       /\ today > Orders[o].day
       /\ accepted[o] <= runs

\* Overlapping runs, lost saves and crashes never invent an execution: a row
\* marked EXECUTED in the file or in any process was accepted by the broker.
ExecutedWasAccepted ==
    \A rows \in ({file} \ {Corrupt}) \union {queue[p] : p \in Procs} :
       \A o \in Ids : rows[o] = "EXECUTED" => accepted[o] > 0

\* An order is sent, or its cancellation confirmed, once.  Statuses are saved
\* after the loop only and no operation takes a lock, so a run that is killed,
\* or an operation begun during another, may each let it be sent or cancelled
\* once more; lost saves, truncated and garbled files, days and doubtful
\* answers of the broker give none.
SentOrCancelledOnce ==
    \A o \in Ids : accepted[o] + cancelled[o] <= 1 + crashes + overlaps

\* The rows as the run at work has changed them, or as a client saves them.
Status ==
    CASE \E w \in Workers : pc[w] # "idle" ->
            queue[CHOOSE w \in Workers : pc[w] # "idle"]
      [] (\A w \in Workers : pc[w] = "idle") /\ \E p \in Clients : pc[p] = "saving" ->
            queue[CHOOSE p \in Clients : pc[p] = "saving"]
      [] OTHER -> Load

Promise == INSTANCE ConditionalOrder
             WITH status <- Status, fired <- {o \in Ids : accepted[o] > 0}

\* With operations one at a time, no crash and no doubtful answer, a queued
\* order keeps the promise of ConditionalOrder: it is executed at most once,
\* and never after its cancellation.
KeepsPromise == Promise!Spec

\* "one canonical state file" (order_queue.py:17): with nothing running, an
\* order the file calls PENDING has not been sent.
FileIsCanonical ==
    (\A p \in Procs : pc[p] = "idle")
       => \A o \in Ids : Load[o] = "PENDING" => accepted[o] = 0

=============================================================================
