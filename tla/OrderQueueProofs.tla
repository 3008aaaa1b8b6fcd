-------------------------- MODULE OrderQueueProofs --------------------------
(* What holds of OrderQueue for any orders, gates, workers and clients,      *)
(* however the unlocked operations interleave and the processes are killed:  *)
(* what is sent was cleared, what is called executed was sent, and how often *)
(* one order can be sent or cancelled.                                       *)
EXTENDS OrderQueue, FiniteSetTheorems, TLAPS

(* The workers that still hold an order: each can add one acceptance to it. *)
Holders(o) == {w \in Workers : o \in todo[w]}

(* Only cleared gates are in a worker's hands, and only in a running one's. *)
TodoCleared ==
    \A w \in Workers :
       /\ pc[w] # "busy" => todo[w] = {}
       /\ \A o \in todo[w] : Orders[o].gate # "CONDITIONAL" /\ today > Orders[o].day

(* Every acceptance, made or still to come, has a run of its own. *)
RunsPaid ==
    \A o \in Ids : IsFiniteSet(Holders(o)) /\ accepted[o] + Cardinality(Holders(o)) <= runs

(* A sent order had its gate open and a side. *)
SentWasCleared ==
    \A o \in Ids : accepted[o] > 0 =>
       Orders[o].gate # "CONDITIONAL" /\ Orders[o].sideKnown /\ today > Orders[o].day

IInv == TypeOK /\ TodoCleared /\ RunsPaid /\ SentWasCleared /\ ExecutedWasAccepted

-----------------------------------------------------------------------------
(* Reading the file always gives rows, and they invent no execution. *)
LEMMA LoadGivesRows ==
    ASSUME TypeOK, ExecutedWasAccepted
    PROVE  /\ NoRows \in Rows
           /\ Load \in Rows
           /\ \A o \in Ids : Load[o] = "EXECUTED" => accepted[o] > 0
<1>1. NoRows \in Rows /\ \A o \in Ids : NoRows[o] # "EXECUTED"
  BY DEF NoRows, Rows, Statuses
<1>2. CASE file = Corrupt
  BY <1>1, <1>2 DEF Load
<1>3. CASE file # Corrupt
  BY <1>1, <1>3 DEF Load, TypeOK, ExecutedWasAccepted
<1> QED
  BY <1>2, <1>3

LEMMA InitIInv == Init => IInv
<1> SUFFICES ASSUME Init
             PROVE  IInv
  OBVIOUS
<1> USE DEF Init
<1>1. NoRows \in Rows
  BY DEF NoRows, Rows, Statuses
<1>2. TypeOK
  BY <1>1 DEF TypeOK
<1>3. \A o \in Ids : Holders(o) = {}
  BY DEF Holders
<1>4. RunsPaid
  BY <1>3, FS_EmptySet DEF RunsPaid
<1>5. ExecutedWasAccepted
  BY DEF ExecutedWasAccepted, NoRows
<1> QED
  BY <1>2, <1>4, <1>5 DEF IInv, TodoCleared, SentWasCleared

(* What a client or a killed process does to the invariant of the runs:      *)
(* nothing, as long as no worker gains an order.                             *)
LEMMA NothingSent ==
    ASSUME IInv, TypeOK', UNCHANGED <<accepted, runs>>, today' >= today,
           \A w \in Workers : todo'[w] \subseteq todo[w] /\ (pc'[w] # "busy" => todo'[w] = {}),
           ExecutedWasAccepted'
    PROVE  IInv'
<1> USE DEF IInv
<1>1. TodoCleared'
  BY QueueAssumption DEF TodoCleared, TypeOK
<1>2. RunsPaid'
  <2> SUFFICES ASSUME NEW o \in Ids
               PROVE  IsFiniteSet(Holders(o)') /\ accepted[o] + Cardinality(Holders(o)') <= runs
    BY DEF RunsPaid
  <2>1. Holders(o)' \subseteq Holders(o) /\ IsFiniteSet(Holders(o))
    BY DEF Holders, RunsPaid
  <2>2. /\ IsFiniteSet(Holders(o)') /\ Cardinality(Holders(o)') <= Cardinality(Holders(o))
        /\ Cardinality(Holders(o)) \in Nat /\ Cardinality(Holders(o)') \in Nat
    BY <2>1, FS_Subset, FS_CardinalityType
  <2> QED
    BY <2>2 DEF RunsPaid, TypeOK
<1>3. SentWasCleared'
  BY QueueAssumption DEF SentWasCleared, TypeOK
<1> QED
  BY <1>1, <1>2, <1>3

(* Starting an operation: the process holds what it read, changed by r. *)
LEMMA BusyHonest ==
    ASSUME TypeOK, ExecutedWasAccepted, NEW p \in Procs, NEW r \in Rows, Busy(p, r),
           UNCHANGED <<file, accepted>>, \A o \in Ids : r[o] = "EXECUTED" => accepted[o] > 0
    PROVE  /\ ExecutedWasAccepted' /\ overlaps' \in Nat
           /\ pc' \in [Procs -> {"idle", "busy", "saving"}] /\ queue' \in [Procs -> Rows]
<1>1. /\ pc' \in [Procs -> {"idle", "busy", "saving"}] /\ queue' \in [Procs -> Rows]
      /\ \A q \in Procs : queue'[q] = r \/ queue'[q] = queue[q]
  BY Zenon DEF Busy, TypeOK
<1>2. overlaps' \in Nat
  BY DEF Busy, TypeOK
<1> QED
  BY <1>1, <1>2 DEF ExecutedWasAccepted

(* Ending one: its rows may become the file, and it holds none any more. *)
LEMMA IdleHonest ==
    ASSUME TypeOK, ExecutedWasAccepted, NEW p \in Procs, Idle(p),
           file' \in {file, Corrupt, queue[p]}, UNCHANGED accepted
    PROVE  /\ ExecutedWasAccepted'
           /\ pc' \in [Procs -> {"idle", "busy", "saving"}] /\ queue' \in [Procs -> Rows]
           /\ file' \in Rows \union {Corrupt}
<1>1. NoRows \in Rows /\ \A o \in Ids : NoRows[o] # "EXECUTED"
  BY DEF NoRows, Rows, Statuses
<1>2. /\ pc' \in [Procs -> {"idle", "busy", "saving"}] /\ queue' \in [Procs -> Rows]
      /\ \A q \in Procs : queue'[q] = NoRows \/ queue'[q] = queue[q]
  BY <1>1, Zenon DEF Idle, TypeOK
<1>3. file' \in Rows \union {Corrupt}
  BY DEF TypeOK
<1> QED
  BY <1>1, <1>2, <1>3 DEF ExecutedWasAccepted

LEMMA ClientReads ==
    ASSUME IInv, NEW p \in Clients, NEW o \in Ids, Enqueue(p, o) \/ Cancel(p, o)
    PROVE  IInv'
<1> USE DEF IInv
<1>1. p \in Procs /\ \A w \in Workers : w # p /\ w \in Procs
  BY QueueAssumption DEF Procs
<1>2. PICK s \in {"PENDING", "CANCELLED"} : Busy(p, [Load EXCEPT ![o] = s])
  BY DEF Enqueue, Cancel
<1>3. PICK r : r = [Load EXCEPT ![o] = s]
  OBVIOUS
<1>4. r \in Rows /\ \A i \in Ids : r[i] = "EXECUTED" => accepted[i] > 0
  BY <1>3, LoadGivesRows DEF Rows, Statuses
<1>5. /\ UNCHANGED <<file, todo, raced, today, accepted, cancelled, runs, crashes>>
      /\ target' \in [Clients -> SUBSET Ids] /\ enqueued' \subseteq Ids
  BY DEF Enqueue, Cancel, TypeOK, Outcome
<1>6. /\ ExecutedWasAccepted' /\ overlaps' \in Nat
      /\ pc' \in [Procs -> {"idle", "busy", "saving"}] /\ queue' \in [Procs -> Rows]
  BY <1>1, <1>2, <1>3, <1>4, <1>5, BusyHonest
<1>7. TypeOK'
  BY <1>5, <1>6 DEF TypeOK
<1>8. \A w \in Workers : pc'[w] = pc[w]
  BY <1>1, <1>2 DEF Busy, TypeOK
<1> QED
  BY <1>5, <1>6, <1>7, <1>8, NothingSent DEF TodoCleared, TypeOK

(* Opening the file for the save: it reads as no rows until it is written.   *)
LEMMA OpenSaveStep ==
    ASSUME IInv, NEW p \in Procs, OpenSave(p), p \in Workers => todo[p] = {}
    PROVE  IInv'
<1> USE DEF IInv
<1>1. /\ pc' = [pc EXCEPT ![p] = "saving"] /\ file' = Corrupt
      /\ UNCHANGED <<queue, todo, target, today, enqueued, accepted, cancelled, overlaps, runs, crashes>>
  BY DEF OpenSave, Outcome
<1>2. TypeOK'
  BY DEF OpenSave, Outcome, TypeOK
<1>3. ExecutedWasAccepted'
  BY <1>1 DEF ExecutedWasAccepted
<1>4. \A w \in Workers : todo[w] \subseteq todo[w] /\ (pc'[w] # "busy" => todo[w] = {})
  BY <1>1 DEF TodoCleared, TypeOK, Procs
<1> QED
  BY <1>1, <1>2, <1>3, <1>4, NothingSent DEF TypeOK

LEMMA EndSaveStep ==
    ASSUME IInv, NEW p \in Procs, EndSave(p)
    PROVE  IInv'
<1> USE DEF IInv
<1>1. /\ pc[p] = "saving" /\ Idle(p) /\ file' \in {file, Corrupt, queue[p]}
      /\ UNCHANGED <<todo, today, enqueued, accepted, overlaps, runs, crashes>>
  BY DEF EndSave
<1>2. /\ ExecutedWasAccepted'
      /\ pc' \in [Procs -> {"idle", "busy", "saving"}] /\ queue' \in [Procs -> Rows]
      /\ file' \in Rows \union {Corrupt}
  BY <1>1, IdleHonest
<1>3. /\ target' \in [Clients -> SUBSET Ids] /\ raced' \in [Procs -> BOOLEAN]
      /\ cancelled' \in [Ids -> Nat]
  BY DEF EndSave, SaveEnded, TypeOK
<1>4. TypeOK'
  BY <1>1, <1>2, <1>3 DEF TypeOK
<1>5. \A w \in Workers : todo[w] \subseteq todo[w] /\ (pc'[w] # "busy" => todo[w] = {})
  BY <1>1 DEF Idle, TodoCleared, TypeOK, Procs
<1> QED
  BY <1>1, <1>2, <1>4, <1>5, NothingSent DEF TypeOK

(* A run that starts takes one more of the runs for each order it holds. *)
LEMMA StartRunStep ==
    ASSUME IInv, NEW w \in Workers, NEW bullish \in BOOLEAN, StartRun(w, bullish)
    PROVE  IInv'
<1> USE DEF IInv
<1>1. /\ w \in Procs /\ pc[w] = "idle" /\ todo[w] = {}
      /\ runs' = runs + 1 /\ todo' = [todo EXCEPT ![w] = Triggered(bullish)] /\ Busy(w, Load)
      /\ UNCHANGED <<file, target, raced, today, enqueued, accepted, cancelled, crashes>>
  BY DEF StartRun, CanStart, Procs, TodoCleared, Outcome
<1>2. Triggered(bullish) \subseteq Ids
      /\ \A o \in Triggered(bullish) : Orders[o].gate # "CONDITIONAL" /\ today > Orders[o].day
  BY QueueAssumption DEF Triggered, CanTrigger
<1>3. Load \in Rows /\ \A o \in Ids : Load[o] = "EXECUTED" => accepted[o] > 0
  BY LoadGivesRows
<1>4. PICK r \in Rows : r = Load
  BY <1>3
<1>5. /\ ExecutedWasAccepted' /\ overlaps' \in Nat
      /\ pc' \in [Procs -> {"idle", "busy", "saving"}] /\ queue' \in [Procs -> Rows]
  BY <1>1, <1>3, <1>4, BusyHonest
<1>6. /\ todo' \in [Workers -> SUBSET Ids]
      /\ todo'[w] = Triggered(bullish) /\ \A v \in Workers : v # w => todo'[v] = todo[v]
  BY <1>1, <1>2 DEF TypeOK
<1>7. TypeOK'
  BY <1>1, <1>5, <1>6 DEF TypeOK
<1>8. pc'[w] = "busy" /\ \A v \in Workers : v # w => pc'[v] = pc[v]
  BY <1>1 DEF Busy, TypeOK, Procs
<1>9. TodoCleared'
  BY <1>1, <1>2, <1>6, <1>8 DEF TodoCleared
<1>10. RunsPaid'
  <2> SUFFICES ASSUME NEW o \in Ids
               PROVE  IsFiniteSet(Holders(o)') /\ accepted[o] + Cardinality(Holders(o)') <= runs + 1
    BY <1>1 DEF RunsPaid
  <2>1. IsFiniteSet(Holders(o)) /\ accepted[o] + Cardinality(Holders(o)) <= runs
    BY DEF RunsPaid
  <2>2. Holders(o)' \in {Holders(o), Holders(o) \union {w}} /\ w \notin Holders(o)
    BY <1>1, <1>6 DEF Holders
  <2>3. IsFiniteSet(Holders(o) \union {w}) /\ Cardinality(Holders(o) \union {w}) = Cardinality(Holders(o)) + 1
    BY <2>1, <2>2, FS_AddElement
  <2>4. Cardinality(Holders(o)) \in Nat
    BY <2>1, FS_CardinalityType
  <2>5. CASE Holders(o)' = Holders(o)
    BY <2>1, <2>4, <2>5 DEF TypeOK
  <2>6. CASE Holders(o)' = Holders(o) \union {w}
    BY <2>1, <2>3, <2>4, <2>6 DEF TypeOK
  <2> QED
    BY <2>2, <2>5, <2>6
<1>11. SentWasCleared'
  BY <1>1 DEF SentWasCleared
<1> QED
  BY <1>5, <1>7, <1>9, <1>10, <1>11

(* The loop of execute_pending lets go of an order when it sends it. *)
LEMMA WorkStep ==
    ASSUME IInv, NEW w \in Workers, Work(w)
    PROVE  IInv'
<1> USE DEF IInv
<1>1. w \in Procs
  BY DEF Procs
<1>2. ASSUME NEW o \in Ids, NEW s \in {"EXECUTED", "FAILED"}, Handle(w, o, s),
             \/ accepted' = accepted /\ s = "FAILED"
             \/ accepted' = [accepted EXCEPT ![o] = @ + 1] /\ Orders[o].sideKnown
      PROVE  IInv'
  <2>1. /\ o \in todo[w] /\ pc[w] = "busy" /\ todo' = [todo EXCEPT ![w] = @ \ {o}]
        /\ queue' = [queue EXCEPT ![w][o] = s]
        /\ UNCHANGED <<file, pc, target, raced, today, enqueued, cancelled, overlaps, runs, crashes>>
    BY <1>2 DEF Handle
  <2>2. /\ accepted' \in [Ids -> Nat] /\ \A i \in Ids : i # o => accepted'[i] = accepted[i]
        /\ accepted'[o] \in {accepted[o], accepted[o] + 1}
        /\ s = "EXECUTED" => accepted'[o] > 0
        /\ accepted'[o] # accepted[o] => Orders[o].sideKnown
    BY <1>2 DEF TypeOK
  <2>3. /\ todo' \in [Workers -> SUBSET Ids] /\ todo'[w] = todo[w] \ {o}
        /\ \A v \in Workers : v # w => todo'[v] = todo[v]
    BY <2>1 DEF TypeOK
  <2>4. /\ queue' \in [Procs -> Rows] /\ queue'[w][o] = s
        /\ \A i \in Ids : i # o => queue'[w][i] = queue[w][i]
        /\ \A q \in Procs : q # w => queue'[q] = queue[q]
    BY <1>1, <2>1 DEF TypeOK, Rows, Statuses
  <2>5. TypeOK'
    BY <2>1, <2>2, <2>3, <2>4 DEF TypeOK
  <2>6. TodoCleared'
    BY <2>1, <2>3 DEF TodoCleared
  <2>7. RunsPaid'
    <3> SUFFICES ASSUME NEW i \in Ids
                 PROVE  IsFiniteSet(Holders(i)') /\ accepted'[i] + Cardinality(Holders(i)') <= runs
      BY <2>1 DEF RunsPaid
    <3>1. IsFiniteSet(Holders(i)) /\ accepted[i] + Cardinality(Holders(i)) <= runs
      BY DEF RunsPaid
    <3>2. CASE i = o
      <4>1. Holders(o)' = Holders(o) \ {w} /\ w \in Holders(o)
        BY <2>1, <2>3 DEF Holders
      <4>2. IsFiniteSet(Holders(o) \ {w}) /\ Cardinality(Holders(o) \ {w}) = Cardinality(Holders(o)) - 1
        BY <3>1, <3>2, <4>1, FS_RemoveElement
      <4>3. Cardinality(Holders(o)) \in Nat
        BY <3>1, <3>2, FS_CardinalityType
      <4> QED
        BY <2>2, <3>1, <3>2, <4>1, <4>2, <4>3 DEF TypeOK
    <3>3. CASE i # o
      <4>1. Holders(i)' = Holders(i)
        BY <2>3, <3>3 DEF Holders, TypeOK
      <4> QED
        BY <2>2, <3>1, <3>3, <4>1
    <3> QED
      BY <3>2, <3>3
  <2>8. SentWasCleared'
    BY <2>1, <2>2 DEF SentWasCleared, TodoCleared, TypeOK
  <2>9. ExecutedWasAccepted'
    <3>1. \A i \in Ids : accepted[i] > 0 => accepted'[i] > 0
      BY <2>2 DEF TypeOK
    <3>2. \A q \in Procs, i \in Ids : queue'[q][i] = "EXECUTED" => accepted'[i] > 0
      BY <2>2, <2>4, <3>1 DEF ExecutedWasAccepted
    <3> QED
      BY <2>1, <3>1, <3>2 DEF ExecutedWasAccepted
  <2> QED
    BY <2>5, <2>6, <2>7, <2>8, <2>9
<1>3. ASSUME NEW o \in Ids,
             SkipUnknownSide(w, o) \/ PlaceAccepted(w, o) \/ PlaceRefused(w, o) \/ PlaceDoubtful(w, o)
      PROVE  IInv'
  BY <1>2, <1>3, Zenon DEF SkipUnknownSide, PlaceAccepted, PlaceRefused, PlaceDoubtful
<1>4. CASE EndRun(w)
  BY <1>1, <1>4, OpenSaveStep DEF EndRun
<1> QED
  BY <1>3, <1>4 DEF Work

(* A killed process takes its orders with it; those it sent stay counted. *)
LEMMA CrashStep ==
    ASSUME IInv, NEW p \in Procs, Crash(p)
    PROVE  IInv'
<1> USE DEF IInv
<1>1. /\ Idle(p) /\ SaveEnded(p) /\ file' \in {file, Corrupt, queue[p]} /\ crashes' = crashes + 1
      /\ todo' = [w \in Workers |-> IF w = p THEN {} ELSE todo[w]]
      /\ target' = [q \in Clients |-> IF q = p THEN {} ELSE target[q]]
      /\ UNCHANGED <<today, enqueued, accepted, cancelled, overlaps, runs>>
  BY DEF Crash, Outcome
<1>2. /\ ExecutedWasAccepted'
      /\ pc' \in [Procs -> {"idle", "busy", "saving"}] /\ queue' \in [Procs -> Rows]
      /\ file' \in Rows \union {Corrupt}
  BY <1>1, IdleHonest
<1>3. TypeOK'
  BY <1>1, <1>2 DEF TypeOK, SaveEnded
<1>4. \A w \in Workers : todo'[w] \subseteq todo[w] /\ (w # p => pc'[w] = pc[w] /\ todo'[w] = todo[w])
                         /\ (w = p => todo'[w] = {})
  BY <1>1 DEF Idle, TypeOK, Procs
<1> QED
  BY <1>1, <1>2, <1>3, <1>4, NothingSent DEF TodoCleared, TypeOK

LEMMA StepIInv == IInv /\ [Next]_vars => IInv'
<1> SUFFICES ASSUME IInv, [Next]_vars
             PROVE  IInv'
  OBVIOUS
<1>1. ASSUME NEW p \in Clients, NEW o \in Ids, Enqueue(p, o) \/ Cancel(p, o)
      PROVE  IInv'
  BY <1>1, ClientReads
<1>2. ASSUME NEW p \in Clients, ClientSave(p)
      PROVE  IInv'
  BY <1>2, OpenSaveStep, QueueAssumption DEF ClientSave, Procs
<1>3. ASSUME NEW w \in Workers, NEW bullish \in BOOLEAN, StartRun(w, bullish)
      PROVE  IInv'
  BY <1>3, StartRunStep
<1>4. ASSUME NEW w \in Workers, Work(w)
      PROVE  IInv'
  BY <1>4, WorkStep
<1>5. ASSUME NEW p \in Procs, EndSave(p) \/ Crash(p)
      PROVE  IInv'
  BY <1>5, EndSaveStep, CrashStep
<1>6. CASE NextDay
  <2>1. TypeOK' /\ ExecutedWasAccepted'
    BY <1>6 DEF NextDay, IInv, TypeOK, ExecutedWasAccepted, Outcome
  <2> QED
    BY <1>6, <2>1, NothingSent DEF NextDay, IInv, TodoCleared, TypeOK, Outcome
<1>7. CASE UNCHANGED vars
  <2>1. \A o \in Ids : Holders(o)' = Holders(o)
    BY <1>7 DEF vars, Holders
  <2> QED
    BY <1>7, <2>1 DEF vars, Outcome, IInv, TypeOK, TodoCleared, RunsPaid, SentWasCleared, ExecutedWasAccepted
<1> QED
  BY <1>1, <1>2, <1>3, <1>4, <1>5, <1>6, <1>7 DEF Next

(* Every variable keeps its type through runs, edits and kills. *)
THEOREM TypeCorrect == Spec => []TypeOK
  BY InitIInv, StepIInv, PTL DEF Spec, IInv

(* _can_trigger is asked once, before a run of several seconds; still no     *)
(* order is sent before its gate cleared or with an unknown side, and an     *)
(* order is never sent more often than execute_pending was run.              *)
THEOREM GatesHold == Spec => []OnlyClearedGates
<1>1. IInv => OnlyClearedGates
  <2> SUFFICES ASSUME IInv, NEW o \in Ids
               PROVE  accepted[o] <= runs
    BY DEF IInv, SentWasCleared, OnlyClearedGates
  <2>1. IsFiniteSet(Holders(o)) /\ accepted[o] + Cardinality(Holders(o)) <= runs
    BY DEF IInv, RunsPaid
  <2> QED
    BY <2>1, FS_CardinalityType DEF IInv, TypeOK
<1> QED
  BY <1>1, InitIInv, StepIInv, PTL DEF Spec

(* A row that says EXECUTED, in the file or in any process, was accepted by  *)
(* the broker, whatever saves were lost on the way.                          *)
THEOREM NoExecutionInvented == Spec => []ExecutedWasAccepted
  BY InitIInv, StepIInv, PTL DEF Spec, IInv

-----------------------------------------------------------------------------
(***************************************************************************)
(* How often an order is sent or cancelled.  A process claims an order     *)
(* that its rows have PENDING, since it may send it or write it back, and  *)
(* a client one whose cancellation it is about to confirm.  What was sent  *)
(* and cancelled and the claims together never exceed one more than the    *)
(* kills and the overlaps: a lone operation claims only what the file has  *)
(* PENDING, one begun during another pays with an overlap, and what a      *)
(* killed run had sent and not saved is paid by its kill.                  *)
(***************************************************************************)
Claims(p, o) ==
    /\ pc[p] # "idle"
    /\ queue[p][o] = "PENDING" \/ (p \in Clients /\ Cancels(p, o))

Claimants(o) == {p \in Procs : Claims(p, o)}

Settled(o) == accepted[o] + cancelled[o]

Paid(o) ==
    /\ IsFiniteSet(Claimants(o))
    /\ Settled(o) + Cardinality(Claimants(o)) <= 1 + crashes + overlaps

Unknown(o) ==
    /\ accepted[o] = 0 /\ cancelled[o] = 0
    /\ file # Corrupt => file[o] # "PENDING"
    /\ \A p \in Procs : queue[p][o] # "PENDING"
    /\ \A p \in Clients : o \notin target[p]

CInv ==
    /\ \A o \in Ids : Paid(o)
    /\ Alone => \A o \in Ids : Load[o] = "PENDING" => Settled(o) <= crashes + overlaps
    /\ \A o \in Ids : o \notin enqueued => Unknown(o)
    /\ \A w \in Workers : \A o \in todo[w] : queue[w][o] = "PENDING"

LEMMA CInit == Init => CInv
<1> SUFFICES ASSUME Init
             PROVE  CInv
  OBVIOUS
<1>1. \A o \in Ids : Claimants(o) = {} /\ Settled(o) = 0
  BY DEF Init, Claimants, Claims, Settled
<1>2. \A o \in Ids : NoRows[o] # "PENDING" /\ Load[o] # "PENDING"
  BY DEF NoRows, Load, Init
<1> QED
  BY <1>1, <1>2, FS_EmptySet DEF Init, CInv, Paid, Unknown, Procs

(* One process more may claim an order, if an overlap pays for it or if it   *)
(* works alone and what was settled leaves room.                             *)
LEMMA OneMoreClaim ==
    ASSUME TypeOK, NEW o \in Ids, Paid(o), NEW p \in Procs,
           Claimants(o)' \subseteq Claimants(o) \union {p},
           UNCHANGED <<accepted, cancelled, crashes>>,
           \/ overlaps' = overlaps + 1
           \/ overlaps' = overlaps /\ Claimants(o) = {}
              /\ (p \in Claimants(o)' => Settled(o) <= crashes + overlaps)
           \/ overlaps' = overlaps /\ Claimants(o)' \subseteq Claimants(o)
    PROVE  Paid(o)'
<1> DEFINE C == Claimants(o)
           D == Claimants(o)'
<1>1. IsFiniteSet(C) /\ Cardinality(C) \in Nat /\ Settled(o) + Cardinality(C) <= 1 + crashes + overlaps
  BY FS_CardinalityType DEF Paid
<1>2. IsFiniteSet(C \union {p}) /\ Cardinality(C \union {p}) \in Nat
      /\ Cardinality(C \union {p}) <= Cardinality(C) + 1
  <2> HIDE DEF C
  <2>1. IsFiniteSet(C \union {p})
        /\ Cardinality(C \union {p}) = IF p \in C THEN Cardinality(C) ELSE Cardinality(C) + 1
    BY <1>1, FS_AddElement
  <2> QED
    BY <1>1, <2>1
<1>3. IsFiniteSet(D) /\ Cardinality(D) \in Nat /\ Cardinality(D) <= Cardinality(C) + 1
      /\ (D \subseteq C => Cardinality(D) <= Cardinality(C))
  BY <1>1, <1>2, FS_Subset, FS_CardinalityType
<1>4. Settled(o) \in Nat /\ Settled(o)' = Settled(o) /\ overlaps \in Nat /\ crashes \in Nat
  BY DEF Settled, TypeOK
<1>5. C = {} => Cardinality(C) = 0
  BY FS_EmptySet
<1>6. C = {} /\ p \notin D => D \subseteq C
  OBVIOUS
<1> HIDE DEF C, D
<1>7. Settled(o)' + Cardinality(D) <= 1 + crashes' + overlaps'
  <2>1. CASE overlaps' = overlaps + 1
    BY <1>1, <1>3, <1>4, <2>1
  <2>2. CASE overlaps' = overlaps /\ D \subseteq C
    BY <1>1, <1>3, <1>4, <2>2
  <2>3. CASE overlaps' = overlaps /\ C = {} /\ (p \in D => Settled(o) <= crashes + overlaps)
    <3>1. CASE p \in D
      BY <1>1, <1>3, <1>4, <1>5, <2>3, <3>1
    <3>2. CASE p \notin D
      BY <1>6, <2>2, <2>3, <3>2
    <3> QED
      BY <3>1, <3>2
  <2> QED
    BY <2>1, <2>2, <2>3 DEF C, D
<1> QED
  BY <1>3, <1>7 DEF Paid, D

(* A claim given up leaves room for one settlement. *)
LEMMA OneClaimLess ==
    ASSUME TypeOK, NEW o \in Ids, Paid(o), NEW p \in Procs,
           Claimants(o)' \subseteq Claimants(o) \ {p},
           Settled(o)' \in {Settled(o), Settled(o) + 1},
           Settled(o)' # Settled(o) => p \in Claimants(o),
           overlaps' = overlaps, crashes' \in {crashes, crashes + 1}
    PROVE  /\ Paid(o)'
           /\ p \in Claimants(o) => Settled(o) <= crashes + overlaps
           /\ crashes' = crashes + 1 => Settled(o)' <= crashes' + overlaps'
<1> DEFINE C == Claimants(o)
           D == Claimants(o)'
<1>1. IsFiniteSet(C) /\ Cardinality(C) \in Nat /\ Settled(o) + Cardinality(C) <= 1 + crashes + overlaps
  BY FS_CardinalityType DEF Paid
<1>2. IsFiniteSet(C \ {p}) /\ Cardinality(C \ {p}) \in Nat
      /\ Cardinality(C \ {p}) = IF p \in C THEN Cardinality(C) - 1 ELSE Cardinality(C)
  BY <1>1, FS_RemoveElement, FS_CardinalityType
<1>3. IsFiniteSet(D) /\ Cardinality(D) \in Nat /\ Cardinality(D) <= Cardinality(C \ {p})
  BY <1>2, FS_Subset, FS_CardinalityType
<1>4. Settled(o) \in Nat /\ overlaps \in Nat /\ crashes \in Nat
  BY DEF Settled, TypeOK
<1> HIDE DEF C, D
<1>5. Settled(o)' + Cardinality(D) <= 1 + crashes' + overlaps'
  BY <1>1, <1>2, <1>3, <1>4 DEF C
<1>6. p \in C => Settled(o) <= crashes + overlaps
  BY <1>1, <1>2, <1>4
<1>7. crashes' = crashes + 1 => Settled(o)' <= crashes' + overlaps'
  BY <1>1, <1>2, <1>4 DEF C
<1> QED
  BY <1>3, <1>5, <1>6, <1>7 DEF Paid, C, D

(* An operation that starts claims what the file has PENDING, or an order    *)
(* that nobody knew.                                                         *)
LEMMA CStart ==
    ASSUME IInv, CInv, NEW p \in Procs, NEW r \in Rows, pc[p] = "idle", Busy(p, r),
           UNCHANGED <<file, accepted, cancelled, crashes>>,
           enqueued \subseteq enqueued', target' \in [Clients -> SUBSET Ids],
           \A q \in Clients : q # p => target'[q] = target[q],
           \A w \in Workers : todo'[w] = todo[w] \/ (w = p /\ \A o \in todo'[w] : r[o] = "PENDING"),
           \A w \in Workers : w = p => todo[w] = {},
           \A o \in Ids : r[o] = "PENDING" \/ (p \in Clients /\ o \in target'[p])
              => Load[o] = "PENDING" \/ (o \notin enqueued /\ o \in enqueued')
    PROVE  CInv'
<1>1. TypeOK /\ \A o \in Ids : Paid(o)
  BY DEF IInv, CInv
<1>2. /\ pc'[p] = "busy" /\ queue'[p] = r
      /\ \A q \in Procs : q # p => pc'[q] = pc[q] /\ queue'[q] = queue[q]
      /\ overlaps' = IF Alone THEN overlaps ELSE overlaps + 1
  BY <1>1, Zenon DEF Busy, TypeOK
<1>3. \A o \in Ids : Load[o] = "PENDING" => file # Corrupt /\ file[o] = "PENDING" /\ o \in enqueued
  BY DEF Load, NoRows, CInv, Unknown
<1>4. ASSUME NEW o \in Ids
      PROVE  /\ Claimants(o)' \subseteq Claimants(o) \union {p}
             /\ p \in Claimants(o)' => r[o] = "PENDING" \/ (p \in Clients /\ o \in target'[p])
             /\ Alone => Claimants(o) = {}
  BY <1>2 DEF Claimants, Claims, Cancels, Alone
<1>5. ASSUME NEW o \in Ids, o \notin enqueued
      PROVE  Settled(o) = 0 /\ Claimants(o) = {}
  BY <1>5 DEF CInv, Unknown, Settled, Claimants, Claims, Cancels
<1>6. \A o \in Ids : Paid(o)'
  <2> SUFFICES ASSUME NEW o \in Ids
               PROVE  Paid(o)'
    OBVIOUS
  <2>1. Settled(o) = 0 => Settled(o) <= crashes + overlaps
    BY <1>1 DEF TypeOK
  <2>2. Alone /\ p \in Claimants(o)' => Settled(o) <= crashes + overlaps
    BY <1>4, <1>5, <2>1 DEF CInv
  <2> QED
    BY <1>1, <1>2, <1>4, <2>2, OneMoreClaim
<1>7. ~ Alone'
  BY <1>2 DEF Alone
<1>8. ASSUME NEW o \in Ids, o \notin enqueued'
      PROVE  Unknown(o)'
  <2>1. o \notin enqueued /\ Unknown(o)
    BY <1>8 DEF CInv
  <2>2. r[o] # "PENDING" /\ (p \in Clients => o \notin target'[p])
    BY <1>3, <1>8, <2>1
  <2> QED
    BY <1>2, <2>1, <2>2 DEF Unknown
<1>9. \A w \in Workers : \A o \in todo'[w] : queue'[w][o] = "PENDING"
  BY <1>2 DEF CInv, Procs
<1> QED
  BY <1>6, <1>7, <1>8, <1>9 DEF CInv

LEMMA CStarts ==
    ASSUME IInv, CInv,
           \/ \E p \in Clients, o \in Ids : Enqueue(p, o) \/ Cancel(p, o)
           \/ \E w \in Workers, bullish \in BOOLEAN : StartRun(w, bullish)
    PROVE  CInv'
<1>1. TypeOK /\ Load \in Rows
  BY LoadGivesRows DEF IInv
<1>2. \A o \in Ids : Load[o] = "PENDING" => o \in enqueued
  BY DEF Load, NoRows, CInv, Unknown
<1>3. ASSUME NEW p \in Clients, NEW o \in Ids, NEW s \in {"PENDING", "CANCELLED"},
             CanStart(p), Busy(p, [Load EXCEPT ![o] = s]), target' = [target EXCEPT ![p] = {o}],
             UNCHANGED <<file, todo, accepted, cancelled, crashes>>, enqueued \subseteq enqueued',
             Load[o] = "PENDING" \/ (o \notin enqueued /\ o \in enqueued')
      PROVE  CInv'
  <2> DEFINE r == [Load EXCEPT ![o] = s]
  <2>1. r \in Rows /\ \A i \in Ids : i # o => r[i] = Load[i]
    BY <1>1, <1>3 DEF Rows, Statuses
  <2>2. p \in Procs /\ pc[p] = "idle" /\ \A w \in Workers : w # p
    BY <1>3, QueueAssumption DEF CanStart, Procs
  <2>3. target' \in [Clients -> SUBSET Ids] /\ target'[p] = {o}
        /\ \A q \in Clients : q # p => target'[q] = target[q]
    BY <1>1, <1>3 DEF TypeOK
  <2>4. Busy(p, r)
    BY <1>3
  <2> HIDE DEF r
  <2> QED
    BY <1>3, <2>1, <2>2, <2>3, <2>4, CStart
<1>4. ASSUME NEW p \in Clients, NEW o \in Ids, Enqueue(p, o) \/ Cancel(p, o)
      PROVE  CInv'
  BY <1>3, <1>4 DEF Enqueue, Cancel, Outcome
<1>5. ASSUME NEW w \in Workers, NEW bullish \in BOOLEAN, StartRun(w, bullish)
      PROVE  CInv'
  <2>1. /\ w \in Procs /\ pc[w] = "idle" /\ todo[w] = {} /\ w \notin Clients
        /\ todo' = [todo EXCEPT ![w] = Triggered(bullish)] /\ Busy(w, Load)
        /\ UNCHANGED <<file, target, enqueued, accepted, cancelled, crashes>>
    BY <1>5, QueueAssumption DEF StartRun, CanStart, Procs, IInv, TodoCleared, Outcome
  <2>2. \A o \in Triggered(bullish) : Load[o] = "PENDING"
    BY DEF Triggered
  <2>3. todo'[w] = Triggered(bullish) /\ \A v \in Workers : v # w => todo'[v] = todo[v]
    BY <1>1, <2>1 DEF TypeOK
  <2> QED
    BY <1>1, <2>1, <2>2, <2>3, CStart DEF TypeOK
<1> QED
  BY <1>4, <1>5

(* Sending an order turns the run's claim on it into a settlement. *)
LEMMA CWork ==
    ASSUME IInv, CInv, NEW w \in Workers, NEW o \in Ids, NEW s \in {"EXECUTED", "FAILED"},
           Handle(w, o, s),
           accepted' = accepted \/ accepted' = [accepted EXCEPT ![o] = @ + 1]
    PROVE  CInv'
<1>1. /\ TypeOK /\ w \in Procs /\ w \notin Clients
      /\ o \in todo[w] /\ pc[w] = "busy" /\ todo' = [todo EXCEPT ![w] = @ \ {o}]
      /\ queue' = [queue EXCEPT ![w][o] = s]
      /\ UNCHANGED <<file, pc, target, raced, today, enqueued, cancelled, overlaps, runs, crashes>>
  BY QueueAssumption DEF Handle, IInv, Procs
<1>2. /\ queue'[w][o] = s /\ \A i \in Ids : i # o => queue'[w][i] = queue[w][i]
      /\ \A q \in Procs : q # w => queue'[q] = queue[q]
  BY <1>1 DEF TypeOK, Rows, Statuses
<1>3. todo'[w] = todo[w] \ {o} /\ \A v \in Workers : v # w => todo'[v] = todo[v]
  BY <1>1 DEF TypeOK
<1>4. queue[w][o] = "PENDING" /\ w \in Claimants(o)
  BY <1>1 DEF CInv, Claimants, Claims
<1>5. \A i \in Ids : Settled(i)' \in {Settled(i), Settled(i) + 1} /\ (i # o => Settled(i)' = Settled(i))
  BY <1>1 DEF Settled, TypeOK
<1>6. Claimants(o)' \subseteq Claimants(o) \ {w}
      /\ \A i \in Ids : i # o => Claimants(i)' = Claimants(i)
  BY <1>1, <1>2 DEF Claimants, Claims, Cancels
<1>7. \A i \in Ids : Paid(i)'
  <2>1. Paid(o)'
    BY <1>1, <1>4, <1>5, <1>6, OneClaimLess DEF CInv
  <2>2. ASSUME NEW i \in Ids, i # o
        PROVE  Paid(i)'
    BY <1>1, <1>5, <1>6, <2>2 DEF CInv, Paid
  <2> QED
    BY <2>1, <2>2
<1>8. ~ Alone'
  BY <1>1 DEF Alone
<1>9. ASSUME NEW i \in Ids, i \notin enqueued'
      PROVE  Unknown(i)'
  <2>1. Unknown(i) /\ i # o
    BY <1>1, <1>4, <1>9 DEF CInv, Unknown
  <2>2. accepted'[i] = accepted[i]
    BY <1>1, <2>1 DEF TypeOK
  <2> QED
    BY <1>1, <1>2, <2>1, <2>2 DEF Unknown
<1>10. \A v \in Workers : \A i \in todo'[v] : queue'[v][i] = "PENDING"
  BY <1>1, <1>2, <1>3 DEF CInv, Procs, TypeOK
<1> QED
  BY <1>7, <1>8, <1>9, <1>10 DEF CInv

LEMMA COpenSave ==
    ASSUME IInv, CInv, NEW p \in Procs, OpenSave(p)
    PROVE  CInv'
<1>1. /\ pc[p] = "busy" /\ pc' = [pc EXCEPT ![p] = "saving"] /\ file' = Corrupt
      /\ UNCHANGED <<queue, todo, target, enqueued, accepted, cancelled, overlaps, crashes>>
  BY DEF OpenSave, Outcome
<1>2. pc'[p] = "saving" /\ \A q \in Procs : q # p => pc'[q] = pc[q]
  BY <1>1 DEF IInv, TypeOK
<1>3. \A o \in Ids : Claimants(o)' = Claimants(o)
  BY <1>1, <1>2 DEF Claimants, Claims, Cancels
<1> QED
  BY <1>1, <1>2, <1>3 DEF CInv, Paid, Settled, Unknown, Alone

(* The end of a save, or of a process, gives up what it claims: what its     *)
(* rows have PENDING is in the file again, or lost, and what it cancelled is *)
(* confirmed.                                                                *)
LEMMA CEnd ==
    ASSUME IInv, CInv, NEW p \in Procs, EndSave(p) \/ Crash(p)
    PROVE  CInv'
<1>1. /\ TypeOK /\ pc[p] # "idle" /\ Idle(p) /\ file' \in {file, Corrupt, queue[p]}
      /\ UNCHANGED <<enqueued, accepted, overlaps>>
      /\ target' = [q \in Clients |-> IF q = p THEN {} ELSE target[q]]
      /\ \A w \in Workers : todo'[w] \subseteq todo[w] /\ (w = p => todo'[w] = {})
      /\ crashes' \in {crashes, crashes + 1}
  BY DEF EndSave, Crash, Outcome, IInv, TodoCleared, TypeOK
<1>2. /\ pc'[p] = "idle" /\ queue'[p] = NoRows
      /\ \A q \in Procs : q # p => pc'[q] = pc[q] /\ queue'[q] = queue[q]
  BY <1>1, Zenon DEF Idle, TypeOK
<1>3. \A o \in Ids : /\ cancelled'[o] \in {cancelled[o], cancelled[o] + 1}
                     /\ cancelled'[o] # cancelled[o] => p \in Clients /\ Cancels(p, o)
                     /\ crashes' # crashes => cancelled'[o] = cancelled[o]
  BY DEF EndSave, Crash, Outcome
<1>4. /\ EndSave(p) => file' \in {queue[p], Corrupt} /\ crashes' = crashes
      /\ ~ EndSave(p) => crashes' = crashes + 1
  BY DEF EndSave, Crash
<1>5. ASSUME NEW o \in Ids
      PROVE  /\ Claimants(o)' \subseteq Claimants(o) \ {p}
             /\ Settled(o)' \in {Settled(o), Settled(o) + 1}
             /\ Settled(o)' # Settled(o) => p \in Claimants(o) /\ queue[p][o] = "CANCELLED"
             /\ queue[p][o] = "PENDING" => p \in Claimants(o)
  <2>1. Claimants(o)' \subseteq Claimants(o) \ {p}
    BY <1>1, <1>2 DEF Claimants, Claims, Cancels
  <2>2. Settled(o)' \in {Settled(o), Settled(o) + 1} /\ (Settled(o)' # Settled(o) => cancelled'[o] # cancelled[o])
    BY <1>1, <1>3 DEF Settled, TypeOK
  <2> QED
    BY <1>1, <1>3, <2>1, <2>2 DEF Claimants, Claims, Cancels
<1>6. ASSUME NEW o \in Ids
      PROVE  /\ Paid(o)'
             /\ p \in Claimants(o) => Settled(o) <= crashes + overlaps
             /\ crashes' = crashes + 1 => Settled(o)' <= crashes' + overlaps'
  BY <1>1, <1>5, OneClaimLess DEF CInv
<1>7. ASSUME NEW o \in Ids, Load'[o] = "PENDING"
      PROVE  Settled(o)' <= crashes' + overlaps'
  <2>1. CASE EndSave(p)
    <3>1. queue[p][o] = "PENDING"
      BY <1>4, <1>7, <2>1 DEF Load, NoRows
    <3> QED
      BY <1>1, <1>4, <1>5, <1>6, <2>1, <3>1
  <2>2. CASE ~ EndSave(p)
    BY <1>4, <1>6, <2>2
  <2> QED
    BY <2>1, <2>2
<1>8. ASSUME NEW o \in Ids, o \notin enqueued'
      PROVE  Unknown(o)'
  <2>1. Unknown(o) /\ queue[p][o] # "PENDING"
    BY <1>1, <1>8 DEF CInv, Unknown
  <2>2. cancelled'[o] = 0
    BY <1>3, <2>1 DEF Unknown, Cancels
  <2>3. NoRows[o] # "PENDING" /\ (file' # Corrupt => file'[o] # "PENDING")
    BY <1>1, <2>1 DEF Unknown, NoRows
  <2>4. \A q \in Clients : o \notin target'[q]
    BY <1>1, <2>1 DEF Unknown
  <2> QED
    BY <1>1, <1>2, <2>1, <2>2, <2>3, <2>4 DEF Unknown
<1>9. \A w \in Workers : \A o \in todo'[w] : queue'[w][o] = "PENDING"
  BY <1>1, <1>2 DEF CInv, Procs
<1> QED
  BY <1>6, <1>7, <1>8, <1>9 DEF CInv

LEMMA CNext == IInv /\ CInv /\ [Next]_vars => CInv'
<1> SUFFICES ASSUME IInv, CInv, [Next]_vars
             PROVE  CInv'
  OBVIOUS
<1>1. CASE \/ \E p \in Clients, o \in Ids : Enqueue(p, o) \/ Cancel(p, o)
           \/ \E w \in Workers, bullish \in BOOLEAN : StartRun(w, bullish)
  BY <1>1, CStarts
<1>2. ASSUME NEW p \in Clients, ClientSave(p)
      PROVE  CInv'
  BY <1>2, COpenSave DEF ClientSave, Procs
<1>3. ASSUME NEW w \in Workers, Work(w)
      PROVE  CInv'
  <2>1. ASSUME NEW o \in Ids,
               SkipUnknownSide(w, o) \/ PlaceAccepted(w, o) \/ PlaceRefused(w, o) \/ PlaceDoubtful(w, o)
        PROVE  CInv'
    BY <2>1, CWork, Zenon DEF SkipUnknownSide, PlaceAccepted, PlaceRefused, PlaceDoubtful
  <2>2. CASE EndRun(w)
    BY <2>2, COpenSave DEF EndRun, Procs
  <2> QED
    BY <1>3, <2>1, <2>2 DEF Work
<1>4. ASSUME NEW p \in Procs, EndSave(p) \/ Crash(p)
      PROVE  CInv'
  BY <1>4, CEnd
<1>5. CASE NextDay \/ UNCHANGED vars
  <2>1. UNCHANGED <<file, pc, queue, todo, target, enqueued, accepted, cancelled, overlaps, crashes>>
    BY <1>5 DEF NextDay, vars, Outcome
  <2>2. \A o \in Ids : Claimants(o)' = Claimants(o)
    BY <2>1 DEF Claimants, Claims, Cancels
  <2> QED
    BY <2>1, <2>2 DEF CInv, Paid, Settled, Unknown, Alone, Load
<1> QED
  BY <1>1, <1>2, <1>3, <1>4, <1>5 DEF Next

(* execute_pending saves once, after its loop, and takes no lock.  Whatever  *)
(* is killed, overlaps, is lost, garbled or answered in doubt, an order is   *)
(* sent or its cancellation confirmed at most once more than there were      *)
(* kills and operations begun during one of another process.                 *)
THEOREM SettledIsBounded == Spec => []SentOrCancelledOnce
<1>1. Init => IInv /\ CInv
  BY InitIInv, CInit
<1>2. IInv /\ CInv /\ [Next]_vars => (IInv /\ CInv)'
  BY StepIInv, CNext
<1>3. IInv /\ CInv => SentOrCancelledOnce
  <2> SUFFICES ASSUME IInv, CInv, NEW o \in Ids
               PROVE  Settled(o) <= 1 + crashes + overlaps
    BY DEF SentOrCancelledOnce, Settled
  <2>1. Paid(o) /\ Cardinality(Claimants(o)) \in Nat
    BY FS_CardinalityType DEF CInv, Paid
  <2> QED
    BY <2>1 DEF Paid, Settled, IInv, TypeOK
<1> QED
  BY <1>1, <1>2, <1>3, PTL DEF Spec
=============================================================================
