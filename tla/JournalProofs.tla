-------------------- MODULE JournalProofs --------------------
(***************************************************************************)
(* Theorems about the trader's journal: its rows against the broker's      *)
(* positions, and what becomes of one row until it is closed.              *)
(***************************************************************************)
EXTENDS TradeBook, PositionLife, DataTheorems, SequenceTheorems, FiniteSetTheorems, TLAPS

(***************************************************************************)
(* TradeBook, for any symbols, rows, quotes and positions, and however the *)
(* scripts, the kills and the trades by hand fall: the types, that an      *)
(* informed close order only shrinks a position, what rows can leave the   *)
(* file, that a row is closed once and its pnl booked.                     *)
(***************************************************************************)

(* Outside a pass nothing is left to look at and no close order is out; an   *)
(* entry waits for the file only during the scan.                            *)
PassOK ==
    /\ pc \notin {"exits", "flatten"} => todo = {} /\ order = NoOrder
    /\ entry # NoOrder => pc = "scan"

(* An order in flight was priced, and an informed one is for what was held.  *)
Informed(o) ==
    LET row == journal[o.row]
    IN  /\ Quoted(row)
        /\ o.known => /\ Direction(row.side) * o.held > 0
                      /\ o.qty <= Size(o.held)
OrderOK == order # NoOrder => Informed(order)

(* While the journal may still be written back it has, as the file has when   *)
(* it is not being written, every row that nothing has exposed.               *)
KeptOK == EntriesStay /\ (pc \in Holding => Safe \subseteq Ids(journal))

IInv == TypeOK /\ PassOK /\ OrderOK /\ KeptOK

(* The rows of a file have ids of their own, given out before, and an open   *)
(* row has no pnl yet.                                                       *)
IdsOK(rows, next) ==
    /\ \A i, j \in DOMAIN rows : rows[i].id = rows[j].id => i = j
    /\ \A i \in DOMAIN rows : rows[i].id < next
    /\ \A i \in OpenRows(rows) : rows[i].pnl = Blank

(* The ids of the rows that a pass may still close. *)
LiveIds(rows) == {rows[i].id : i \in OpenRows(rows)} \intersect (1..MaxRows)

\* From the first look at a row until its pnl is counted.
Passing == {"exits", "exited", "flatten"} \union Saving

(* A row that is open was closed at the broker no more often than work was   *)
(* cut short: in the journal at any time, in the file as long as the pass    *)
(* has closed nothing, for then the file is written over.                    *)
ClosesOK ==
    /\ \A i \in 1..MaxRows : i >= nextId => sent[i] = 0
    /\ pc \in Holding => \A i \in LiveIds(journal) : sent[i] <= cuts
    /\ pass.closed = 0 => \A i \in LiveIds(file) : sent[i] <= cuts

(* What was earned is in the journal, and in the file but for this pass,      *)
(* which a save settles.                                                      *)
PnlOK ==
    /\ pass.closed = 0 => pass.pnl = 0
    /\ pc \notin Passing => pass = EmptyPass
    /\ cuts = 0 /\ pc \notin Saving \union {"exited"} => Pnl(file) + pass.pnl = earned
    /\ cuts = 0 /\ pc \in Holding => Pnl(journal) = earned

BooksOK ==
    /\ IdsOK(file, nextId) /\ IdsOK(journal, nextId)
    /\ ClosedOnce /\ ClosesOK /\ PnlOK

-----------------------------------------------------------------------------
(* Closing a row changes neither what it is nor where it stands. *)
LEMMA ClosedRow ==
    ASSUME NEW row \in Row, NEW pnl \in Int
    PROVE  /\ MarkGone(row) \in Row /\ MarkGone(row).id = row.id
           /\ MarkClosed(row, pnl) \in Row /\ MarkClosed(row, pnl).id = row.id
<1>1. MarkGone(row) \in Row /\ MarkGone(row).id = row.id
  BY Zenon DEF MarkGone, Row
<1>2. MarkClosed(row, pnl) \in Row /\ MarkClosed(row, pnl).id = row.id
  BY Zenon DEF MarkClosed, Row
<1> QED
  BY <1>1, <1>2

(* Replacing one row of a journal by a closed form of it. *)
LEMMA RowReplaced ==
    ASSUME NEW rows \in Seq(Row), NEW i \in DOMAIN rows, NEW new \in Row, new.id = rows[i].id,
           NEW others, others \subseteq OpenRows(rows)
    PROVE  LET now == [rows EXCEPT ![i] = new]
           IN  now \in Seq(Row) /\ others \ {i} \subseteq OpenRows(now) /\ Ids(now) = Ids(rows)
<1> DEFINE now == [rows EXCEPT ![i] = new]
<1>1. now \in Seq(Row) /\ DOMAIN now = DOMAIN rows
  BY ExceptSeq
<1>2. now[i] = new /\ \A j \in DOMAIN rows : j # i => now[j] = rows[j]
  BY Zenon
<1>3. \A j \in DOMAIN rows : now[j].id = rows[j].id
  BY <1>2
<1> HIDE DEF now
<1>4. others \ {i} \subseteq OpenRows(now)
  BY <1>1, <1>2 DEF OpenRows
<1>5. Ids(now) = Ids(rows)
  BY <1>1, <1>3 DEF Ids
<1> QED
  BY <1>1, <1>4, <1>5 DEF now

(* A new row for a position that is held. *)
LEMMA NewRowType ==
    ASSUME NEW id \in Nat, NEW by \in {"bot", "adopted"}, NEW c \in Codes, NEW held \in Int \ {0}
    PROVE  NewRow(id, by, c, held) \in Row /\ NewRow(id, by, c, held).by = by
BY DEF NewRow, Row, SideOf, Size

-----------------------------------------------------------------------------
(* What the assumption says, in the form the steps need. *)
LEMMA ConstantTypes ==
    /\ MaxMishaps \in Nat
    /\ \A n \in Positions : n \in Int
    /\ \A n \in Moves : n \in Int
<1>1. MaxMishaps \in Nat
  BY Zenon, TradeBookAssumption
<1>2. \A n \in Positions : n \in Int
  BY Zenon, TradeBookAssumption
<1>3. \A n \in Moves : n \in {-1, 0, 1}
  BY Zenon, TradeBookAssumption
<1>4. \A n \in {-1, 0, 1} : n \in Int
  OBVIOUS
<1> QED
  BY <1>1, <1>2, <1>3, <1>4

(* A row that is still to be looked at. *)
LEMMA TodoRow ==
    ASSUME TypeOK, NEW i \in todo
    PROVE  /\ i \in DOMAIN journal /\ journal[i] \in Row
           /\ journal[i].code \in Codes /\ journal[i].side \in {"LONG", "SHORT"}
           /\ journal[i].qty \in Nat \ {0} /\ journal[i].id \in Nat
<1>1. i \in DOMAIN journal
  BY DEF TypeOK, CycleOK, OpenRows
<1>2. journal[i] \in Row
  BY <1>1 DEF TypeOK, CycleOK
<1>3. \A row \in Row : /\ row.code \in Codes /\ row.side \in {"LONG", "SHORT"}
                      /\ row.qty \in Nat \ {0} /\ row.id \in Nat
  BY DEF Row
<1> QED
  BY <1>1, <1>2, <1>3

LEMMA InitIInv == ASSUME Init PROVE IInv
<1> USE TradeBookAssumption DEF Init
<1>1. SharedOK
  <2>1. IsPlan(NoPlan)
    BY DEF IsPlan, NoPlan
  <2>2. broker \in [Codes -> Int]
    BY ConstantTypes
  <2>3. 0 + 0 <= MaxMishaps
    <3>1. MaxMishaps \in Nat
      BY Zenon, ConstantTypes
    <3> QED
      BY <3>1
  <2>4. sent \in [1..MaxRows -> Nat]
    BY Zenon, 0 \in Nat
  <2> QED
    BY <2>1, <2>2, <2>3, <2>4 DEF SharedOK, Forms
<1>2. CycleOK
  BY DEF CycleOK, NoQuotes, EmptyPass, Fresh, Counters, OpenRows
<1>3. PassOK /\ OrderOK /\ KeptOK
  BY DEF PassOK, OrderOK, KeptOK, EntriesStay, Safe, Holding, Saving
<1> QED
  BY <1>1, <1>2, <1>3 DEF IInv, TypeOK

(* Steps that leave the file alone, no save under way, and the ids of the      *)
(* journal too if it may still be written back.                               *)
LEMMA KeptAlone ==
    ASSUME KeptOK, UNCHANGED <<file, nextId, exposed>>, pc \notin Saving, pc' \notin Saving,
           pc' \in Holding => pc \in Holding /\ Ids(journal') = Ids(journal)
    PROVE  KeptOK'
<1>1. Safe' = Safe /\ Ids(file') = Ids(file)
  BY DEF Safe
<1>2. EntriesStay'
  BY <1>1 DEF KeptOK, EntriesStay
<1>3. pc' \in Holding => Safe' \subseteq Ids(journal')
  BY <1>1 DEF KeptOK
<1> QED
  BY <1>2, <1>3 DEF KeptOK

(* The file is opened for a save, and the journal kept. *)
LEMMA KeptOpened ==
    ASSUME KeptOK, pc \in Holding, pc' \in Saving, UNCHANGED <<journal, nextId, exposed>>
    PROVE  KeptOK'
<1>1. Safe' = Safe /\ Ids(journal') = Ids(journal)
  BY DEF Safe
<1> QED
  BY <1>1 DEF KeptOK, EntriesStay

(* The journal takes the place of the file. *)
LEMMA KeptSaved ==
    ASSUME KeptOK, pc \in Holding, file' = journal, UNCHANGED <<nextId, exposed>>,
           pc' \in Holding => journal' = journal
    PROVE  KeptOK'
<1>1. Safe' = Safe /\ Safe \subseteq Ids(file')
  BY DEF Safe, KeptOK
<1> QED
  BY <1>1 DEF KeptOK, EntriesStay

(* A cycle that ends leaves nothing of itself behind. *)
LEMMA IdleOK ==
    ASSUME NEW counters \in Counters, GoIdle(counters)
    PROVE  CycleOK' /\ PassOK' /\ OrderOK' /\ pc' \notin Holding
<1> USE DEF GoIdle
<1>1. CycleOK'
  <2>1. journal' \in Seq(Row) /\ todo' \subseteq OpenRows(journal)'
    BY DEF OpenRows
  <2>2. move' \in [Codes -> Moves \cup {Blank}] /\ pass' \in [pnl : Int, closed : Nat]
    BY DEF NoQuotes, EmptyPass
  <2> QED
    BY <2>1, <2>2 DEF CycleOK
<1>2. PassOK' /\ OrderOK'
  BY DEF PassOK, OrderOK
<1>3. pc' \notin Holding
  BY DEF Holding, Saving
<1> QED
  BY <1>1, <1>2, <1>3

(* A cycle that ends with the file good, or with nothing to ask of it. *)
LEMMA KeptIdle ==
    ASSUME KeptOK, UNCHANGED nextId, pc' \notin Holding,
           \/ UNCHANGED <<file, exposed>> /\ pc \notin Saving
           \/ exposed' = 1..(nextId - 1)
    PROVE  KeptOK'
<1>1. CASE UNCHANGED <<file, exposed>> /\ pc \notin Saving
  BY <1>1, KeptAlone DEF Holding
<1>2. CASE exposed' = 1..(nextId - 1)
  BY <1>2 DEF KeptOK, EntriesStay, Safe
<1> QED
  BY <1>1, <1>2

(* The start of a pass over rows that are already in the journal. *)
LEMMA PassStarts ==
    ASSUME NEW rows, StartPass(rows)
    PROVE  /\ todo' = OpenRows(rows)
           /\ move' \in [Codes -> Moves \cup {Blank}]
           /\ pass' \in [pnl : Int, closed : Nat]
BY DEF StartPass, EmptyPass

LEMMA BeginCycleOK == ASSUME IInv, BeginCycle PROVE IInv'
<1> USE DEF IInv, TypeOK, BeginCycle, book, disk, scripts, bounded, history
<1>1. SharedOK'
  BY DEF SharedOK, IsPlan
<1>2. todo = {} /\ order = NoOrder /\ entry = NoOrder
  BY DEF PassOK
<1>3. KeptOK'
  BY DEF KeptOK, EntriesStay, Safe, Ids, Holding, Saving
<1>4. CASE OpenRows(file) = {}
  BY <1>1, <1>2, <1>3, <1>4 DEF CycleOK, PassOK, OrderOK, SharedOK, OpenRows, Holding
<1>5. CASE OpenRows(file) # {}
  <2>1. StartPass(file) /\ pc' = "exits"
    BY <1>5
  <2>2. CycleOK'
    BY <1>2, <2>1, PassStarts DEF CycleOK, SharedOK, OpenRows, Holding
  <2> QED
    BY <1>1, <1>2, <1>3, <2>1, <2>2 DEF PassOK, OrderOK
<1> QED
  BY <1>4, <1>5

LEMMA SkipRowOK == ASSUME IInv, NEW i, SkipRow(i) PROVE IInv'
<1> USE DEF IInv, TypeOK, SkipRow, Looking, book, disk, scripts, bounded, history
<1>1. SharedOK'
  BY DEF SharedOK, IsPlan
<1>2. CycleOK'
  BY DEF CycleOK, OpenRows
<1>3. PassOK' /\ OrderOK'
  BY DEF PassOK, OrderOK
<1>kept. KeptOK'
  BY KeptAlone DEF IInv, Holding, Saving
<1> QED
  BY <1>1, <1>2, <1>3, <1>kept

LEMMA CloseZombieOK == ASSUME IInv, NEW i, CloseZombie(i) PROVE IInv'
<1> USE DEF IInv, TypeOK, CloseZombie, Looking, book, disk, scripts, bounded, history
<1>1. SharedOK'
  BY DEF SharedOK, IsPlan
<1>2. i \in DOMAIN journal /\ journal[i] \in Row
  BY DEF CycleOK, OpenRows
<1>4. /\ journal' \in Seq(Row) /\ todo' \subseteq OpenRows(journal')
      /\ Ids(journal') = Ids(journal)
  <2>1. MarkGone(journal[i]) \in Row /\ MarkGone(journal[i]).id = journal[i].id
    BY <1>2, ClosedRow, 0 \in Int
  <2> QED
    BY <1>2, <2>1, RowReplaced DEF CycleOK
<1>5. CycleOK'
  BY <1>4 DEF CycleOK
<1>6. PassOK' /\ OrderOK'
  BY <1>4 DEF PassOK, OrderOK
<1>kept. KeptOK'
  BY <1>4, KeptAlone DEF IInv, Holding, Saving
<1> QED
  BY <1>1, <1>5, <1>6, <1>kept

(* Both kinds of order are for a row that is quoted; only the informed one    *)
(* must be capped.                                                            *)
LEMMA SendOrderOK ==
    ASSUME IInv, NEW i, Looking(i), Quoted(journal[i]), NEW qty \in Nat \ {0},
           NEW known \in BOOLEAN, SendOrder(i, qty, known),
           known => /\ ~Gone(journal[i])
                    /\ qty <= Size(broker[journal[i].code])
    PROVE  IInv'
<1> USE DEF IInv, TypeOK, SendOrder, Looking, book, disk, scripts, bounded, history
<1>1. SharedOK'
  BY DEF SharedOK, IsPlan
<1>2. /\ i \in todo /\ i \in DOMAIN journal /\ journal[i] \in Row
      /\ journal[i].code \in Codes /\ journal[i].side \in {"LONG", "SHORT"}
  BY TodoRow
<1>3. broker[journal[i].code] \in Int
  BY <1>2 DEF SharedOK
<1>4. CycleOK'
  BY <1>2, <1>3 DEF CycleOK, OpenRows
<1>5. OrderOK'
  <2>1. /\ order'.row = i /\ order'.qty = qty /\ order'.known = known
        /\ order'.held = broker[journal[i].code]
    OBVIOUS
  <2>2. Direction(journal[i].side) \in Int
    BY DEF Direction
  <2>3. known => Direction(journal[i].side) * broker[journal[i].code] > 0
    <3> DEFINE x == Direction(journal[i].side) * broker[journal[i].code]
    <3>1. x \in Int
      BY <1>3, <2>2
    <3>2. known => ~(x <= 0)
      BY DEF Gone
    <3> HIDE DEF x
    <3>3. known => x > 0
      BY <3>1, <3>2
    <3> QED
      BY <3>3 DEF x
  <2> QED
    BY <2>1, <2>3 DEF OrderOK, Informed, Quoted
<1>6. PassOK'
  BY DEF PassOK
<1>kept. KeptOK'
  BY KeptAlone DEF IInv, Holding, Saving
<1> QED
  BY <1>1, <1>4, <1>5, <1>6, <1>kept

LEMMA SendCloseOK == ASSUME IInv, NEW i, SendClose(i) PROVE IInv'
<1>1. /\ journal[i] \in Row /\ journal[i].qty \in Nat \ {0} /\ journal[i].code \in Codes
      /\ journal[i].side \in {"LONG", "SHORT"}
  BY TodoRow DEF SendClose, Looking, IInv
<1>2. broker[journal[i].code] \in Int
  BY <1>1 DEF IInv, TypeOK, SharedOK
<1>3. broker[journal[i].code] # 0
  BY <1>1, <1>2 DEF SendClose, Gone, Direction
<1>4. /\ CappedQty(journal[i]) \in Nat \ {0}
      /\ CappedQty(journal[i]) <= Size(broker[journal[i].code])
  BY <1>1, <1>2, <1>3 DEF CappedQty, Size
<1> QED
  BY <1>4, SendOrderOK DEF SendClose, MayClose

LEMMA SendBlindOK == ASSUME IInv, NEW i, SendBlind(i) PROVE IInv'
<1>1. journal[i].qty \in Nat \ {0}
  BY TodoRow DEF SendBlind, Looking, IInv
<1> QED
  BY <1>1, SendOrderOK DEF SendBlind, MayClose

(* What an order in flight is about. *)
LEMMA OrderFacts ==
    ASSUME IInv, order # NoOrder
    PROVE  /\ order.row \in todo /\ order.row \in DOMAIN journal /\ journal[order.row] \in Row
           /\ journal[order.row].code \in Codes /\ journal[order.row].side \in {"LONG", "SHORT"}
           /\ order.qty \in Nat \ {0} /\ order.held \in Int
           /\ move[journal[order.row].code] \in Int
           /\ pc \in {"exits", "flatten"}
<1>1. order.row \in todo /\ order.qty \in Nat \ {0} /\ order.held \in Int
  BY DEF IInv, TypeOK, CycleOK
<1>2. order.row \in DOMAIN journal /\ journal[order.row] \in Row
  BY <1>1, TodoRow DEF IInv
<1>3. journal[order.row].code \in Codes /\ journal[order.row].side \in {"LONG", "SHORT"}
  BY <1>1, TodoRow DEF IInv
<1>4. move[journal[order.row].code] \in Int
  <2>1. move[journal[order.row].code] # Blank
    BY DEF IInv, OrderOK, Informed, Quoted
  <2>2. move[journal[order.row].code] \in Moves
    BY <1>3, <2>1 DEF IInv, TypeOK, CycleOK
  <2> QED
    BY <2>2, ConstantTypes
<1>5. pc \in {"exits", "flatten"}
  BY DEF IInv, PassOK
<1> QED
  BY <1>1, <1>2, <1>3, <1>4, <1>5

LEMMA FillOK ==
    ASSUME IInv, order # NoOrder, FillOrder
    PROVE  broker' \in [Codes -> Int] /\ sent' \in [1..MaxRows -> Nat]
<1> DEFINE row == journal[order.row]
<1>1. broker \in [Codes -> Int] /\ sent \in [1..MaxRows -> Nat]
  BY DEF IInv, TypeOK, SharedOK
<1>2. row.code \in Codes /\ row.side \in {"LONG", "SHORT"} /\ order.qty \in Int
  BY OrderFacts
<1>3. broker[row.code] - Direction(row.side) * order.qty \in Int
  BY <1>1, <1>2 DEF Direction
<1>4. broker' \in [Codes -> Int]
  BY <1>1, <1>3 DEF FillOrder
<1>5. sent' \in [1..MaxRows -> Nat]
  <2>1. \A id \in 1..MaxRows : sent[id] + 1 \in Nat
    BY <1>1
  <2> QED
    BY Zenon, <1>1, <2>1 DEF FillOrder
<1> QED
  BY <1>4, <1>5

LEMMA CloseFilledOK == ASSUME IInv, CloseFilled PROVE IInv'
<1> DEFINE row == journal[order.row]
           pnl == Direction(row.side) * move[row.code] * order.qty
<1>1. order # NoOrder /\ FillOrder /\ order' = NoOrder
  BY DEF CloseFilled
<1>2. /\ order.row \in todo /\ order.row \in DOMAIN journal /\ row \in Row
      /\ pc \in {"exits", "flatten"} /\ pnl \in Int
  BY <1>1, OrderFacts DEF Direction
<1> HIDE DEF pnl
<1>3. /\ journal' = [journal EXCEPT ![order.row] = MarkClosed(@, pnl)]
      /\ pass' = [pnl |-> pass.pnl + pnl, closed |-> pass.closed + 1]
      /\ earned' = earned + pnl /\ todo' = todo \ {order.row}
      /\ UNCHANGED <<disk, pc, move, entry, placed, kept, counted, scripts, bounded, nextId, exposed>>
  BY DEF CloseFilled, pnl
<1>4. SharedOK'
  <2>1. broker' \in [Codes -> Int] /\ sent' \in [1..MaxRows -> Nat]
    BY <1>1, FillOK
  <2>2. earned' \in Int
    BY <1>2, <1>3 DEF IInv, TypeOK, SharedOK
  <2> QED
    BY <1>3, <2>1, <2>2 DEF IInv, TypeOK, SharedOK, IsPlan, disk, scripts, bounded
<1>6. /\ journal' \in Seq(Row) /\ todo' \subseteq OpenRows(journal')
      /\ Ids(journal') = Ids(journal)
  <2>1. MarkClosed(row, pnl) \in Row /\ MarkClosed(row, pnl).id = row.id
    BY <1>2, ClosedRow
  <2> QED
    BY <1>2, <1>3, <2>1, RowReplaced DEF IInv, TypeOK, CycleOK
<1>7. pass' \in [pnl : Int, closed : Nat]
  BY <1>2, <1>3 DEF IInv, TypeOK, CycleOK
<1>8. CycleOK'
  BY <1>1, <1>3, <1>6, <1>7 DEF IInv, TypeOK, CycleOK
<1>9. PassOK' /\ OrderOK'
  BY <1>1, <1>2, <1>3, <1>6 DEF IInv, PassOK, OrderOK
<1>kept. KeptOK'
  BY <1>2, <1>3, <1>6, KeptAlone DEF IInv, Holding, Saving, disk
<1> QED
  BY <1>4, <1>8, <1>9, <1>kept DEF IInv, TypeOK

LEMMA CloseRefusedOK == ASSUME IInv, CloseRefused PROVE IInv'
<1> USE DEF IInv, TypeOK, CloseRefused, book, disk, scripts, bounded, history
<1>1. SharedOK'
  BY DEF SharedOK, IsPlan
<1>2. CycleOK'
  BY DEF CycleOK, OpenRows
<1>3. PassOK' /\ OrderOK' /\ KeptOK'
  <2>1. pc \in {"exits", "flatten"}
    BY OrderFacts
  <2> QED
    BY <2>1, KeptAlone DEF PassOK, OrderOK, Holding, Saving
<1> QED
  BY <1>1, <1>2, <1>3

LEMMA AnswerLostOK == ASSUME IInv, AnswerLost PROVE IInv'
<1>1. order # NoOrder /\ FillOrder /\ order' = NoOrder /\ todo' = todo \ {order.row}
  BY DEF AnswerLost
<1>2. pc \in {"exits", "flatten"}
  BY <1>1, OrderFacts
<1>3. SharedOK'
  <2>1. broker' \in [Codes -> Int] /\ sent' \in [1..MaxRows -> Nat]
    BY <1>1, FillOK
  <2>2. cuts' \in Nat /\ outside' + cuts' <= MaxMishaps
    BY ConstantTypes DEF AnswerLost, MayCut, IInv, TypeOK, SharedOK
  <2> QED
    BY <2>1, <2>2 DEF AnswerLost, IInv, TypeOK, SharedOK, IsPlan, disk, scripts
<1>4. CycleOK'
  BY <1>1 DEF AnswerLost, IInv, TypeOK, CycleOK, OpenRows
<1>5. PassOK' /\ OrderOK'
  BY <1>1, <1>2 DEF AnswerLost, IInv, PassOK, OrderOK
<1>kept. KeptOK'
  BY <1>2, KeptAlone DEF IInv, Holding, Saving, AnswerLost, disk
<1> QED
  BY <1>3, <1>4, <1>5, <1>kept DEF IInv, TypeOK

(* The counters after a pass that was not abandoned. *)
LEMMA AfterExitsType ==
    ASSUME NEW pnl \in Int, counted \in Counters
    PROVE  AfterExits(pnl) \in Counters
BY DEF AfterExits, Counters

(* The file is opened for a save: no order is out, and the journal is kept. *)
LEMMA OpenSaveOK ==
    ASSUME IInv, pc \in Holding, todo = {}, order = NoOrder, entry = NoOrder,
           NEW step \in Saving, OpenSave(step),
           UNCHANGED <<broker, journal, todo, move, order, entry, pass, placed, kept, counted,
                       scripts, bounded, history>>
    PROVE  IInv'
<1> USE DEF OpenSave, Saving, scripts, bounded, history
<1>1. SharedOK'
  BY DEF IInv, TypeOK, SharedOK, IsPlan, Forms
<1>2. CycleOK'
  BY DEF IInv, TypeOK, CycleOK, Holding, OpenRows
<1>3. PassOK' /\ OrderOK'
  BY DEF PassOK, OrderOK
<1>4. KeptOK'
  BY KeptOpened DEF IInv
<1> QED
  BY <1>1, <1>2, <1>3, <1>4 DEF IInv, TypeOK

(* Outside the two passes and the scan nothing is under way. *)
LEMMA Quiet ==
    ASSUME IInv, pc \notin {"exits", "flatten", "scan"}
    PROVE  todo = {} /\ order = NoOrder /\ entry = NoOrder
BY DEF IInv, PassOK

LEMMA EndExitsOK == ASSUME IInv, EndExits PROVE IInv'
BY OpenSaveOK DEF EndExits, PassDone, IInv, PassOK, Holding, Saving

LEMMA ResaveOK == ASSUME IInv, Resave PROVE IInv'
BY OpenSaveOK, Quiet DEF Resave, Holding, Saving

(* The journal takes the file's place, which settles what shared state there is. *)
LEMMA CloseSaveShared ==
    ASSUME IInv, CloseSave, UNCHANGED <<broker, scripts, bounded, history>>
    PROVE  SharedOK'
BY DEF CloseSave, Forms, IInv, TypeOK, SharedOK, CycleOK, IsPlan, scripts, bounded, history

LEMMA CountExitsOK ==
    ASSUME IInv, pc \in {"save", "resave"}, NEW counters \in Counters, CountExits(counters)
    PROVE  CycleOK' /\ PassOK' /\ OrderOK'
<1> USE DEF CountExits
<1>1. todo = {} /\ order = NoOrder /\ entry = NoOrder
  BY Quiet
<1>2. move' \in [Codes -> Moves \cup {Blank}] /\ pass' \in [pnl : Int, closed : Nat]
  BY DEF NoQuotes, EmptyPass
<1>3. CycleOK'
  BY <1>1, <1>2 DEF IInv, TypeOK, CycleOK, OpenRows, Holding
<1> QED
  BY <1>1, <1>3 DEF PassOK, OrderOK

LEMMA SaveExitsOK == ASSUME IInv, SaveExits PROVE IInv'
<1>1. SharedOK'
  BY CloseSaveShared DEF SaveExits
<1>2. KeptOK'
  <2>1. pc \in Holding /\ journal' = journal /\ UNCHANGED <<nextId, exposed>> /\ file' = journal
    BY DEF SaveExits, CloseSave, CountExits, Holding, Saving, history
  <2> QED
    BY <2>1, KeptSaved DEF IInv
<1>3. CASE pass.pnl = 0
  <2>1. CountExits(counted) /\ counted \in Counters /\ pc = "save"
    BY <1>3 DEF SaveExits, IInv, TypeOK, CycleOK
  <2> QED
    BY <1>1, <1>2, <2>1, CountExitsOK DEF IInv, TypeOK
<1>4. CASE pass.pnl # 0
  <2>1. /\ pc = "save" /\ pc' = "exited"
        /\ UNCHANGED <<journal, todo, move, order, entry, pass, placed, kept, counted>>
    BY <1>4 DEF SaveExits
  <2>2. CycleOK'
    BY <2>1 DEF IInv, TypeOK, CycleOK, OpenRows, Holding
  <2>3. PassOK' /\ OrderOK'
    BY <2>1, Quiet DEF PassOK, OrderOK
  <2> QED
    BY <1>1, <1>2, <2>2, <2>3 DEF IInv, TypeOK
<1> QED
  BY <1>3, <1>4

LEMMA ResaveExitsOK == ASSUME IInv, ResaveExits PROVE IInv'
<1>1. SharedOK'
  BY CloseSaveShared DEF ResaveExits
<1>2. /\ pc = "resave" /\ pc \in Holding /\ file' = journal /\ UNCHANGED <<nextId, exposed>>
      /\ counted \in Counters /\ kept \in Counters /\ pass.pnl \in Int
  BY DEF ResaveExits, CloseSave, Holding, Saving, history, IInv, TypeOK, CycleOK
<1>3. CASE GoIdle(kept)
  <2>1. CycleOK' /\ PassOK' /\ OrderOK' /\ pc' \notin Holding
    BY <1>2, <1>3, IdleOK
  <2>2. KeptOK'
    BY <1>2, <2>1, KeptSaved DEF IInv
  <2> QED
    BY <1>1, <2>1, <2>2 DEF IInv, TypeOK
<1>4. CASE CountExits(AfterExits(pass.pnl))
  <2>1. AfterExits(pass.pnl) \in Counters
    BY <1>2, AfterExitsType
  <2>2. CycleOK' /\ PassOK' /\ OrderOK'
    BY <1>2, <1>4, <2>1, CountExitsOK
  <2>3. KeptOK'
    BY <1>2, <1>4, KeptSaved DEF IInv, CountExits
  <2> QED
    BY <1>1, <2>2, <2>3 DEF IInv, TypeOK
<1> QED
  BY <1>3, <1>4 DEF ResaveExits

LEMMA StartFlattenOK == ASSUME IInv, StartFlatten PROVE IInv'
<1> USE DEF IInv, TypeOK, StartFlatten, book, disk, scripts, bounded, history
<1>1. SharedOK'
  BY DEF SharedOK, IsPlan
<1>2. StartPass(journal) /\ pc' = "flatten" /\ pc = "session"
  OBVIOUS
<1>3. todo = {} /\ order = NoOrder /\ entry = NoOrder
  BY DEF PassOK
<1>4. CycleOK'
  BY <1>3, <1>2, PassStarts DEF CycleOK, OpenRows, Holding
<1>5. PassOK' /\ OrderOK'
  BY <1>2, <1>3 DEF PassOK, OrderOK
<1>kept. KeptOK'
  BY KeptAlone DEF IInv, Holding, Saving
<1> QED
  BY <1>1, <1>4, <1>5, <1>kept

LEMMA NoFlattenOK == ASSUME IInv, NoFlatten PROVE IInv'
<1> USE DEF IInv, TypeOK, NoFlatten, book, disk, scripts, bounded, history
<1>1. SharedOK'
  BY DEF SharedOK, IsPlan
<1>2. CycleOK'
  BY DEF CycleOK, OpenRows
<1>3. PassOK' /\ OrderOK'
  BY DEF PassOK, OrderOK
<1>kept. KeptOK'
  BY KeptAlone DEF IInv, Holding, Saving
<1> QED
  BY <1>1, <1>2, <1>3, <1>kept

LEMMA CountFlattenOK ==
    ASSUME IInv, CountFlatten, todo = {}, order = NoOrder, entry = NoOrder,
           UNCHANGED <<journal, todo, order, entry, placed, kept>>
    PROVE  CycleOK' /\ PassOK' /\ OrderOK' /\ pc' \notin Holding
<1> USE DEF CountFlatten
<1>1. counted' \in Counters
  <2>1. counted \in Counters /\ pass.pnl \in Int
    BY DEF IInv, TypeOK, CycleOK
  <2> QED
    BY <2>1 DEF Counters
<1>2. move' \in [Codes -> Moves \cup {Blank}] /\ pass' \in [pnl : Int, closed : Nat]
  BY DEF NoQuotes, EmptyPass
<1>3. CycleOK'
  BY <1>1, <1>2 DEF IInv, TypeOK, CycleOK, OpenRows
<1>4. PassOK' /\ OrderOK'
  BY DEF PassOK, OrderOK
<1>5. pc' \notin Holding
  BY DEF Holding, Saving
<1> QED
  BY <1>3, <1>4, <1>5

LEMMA EndFlattenOK == ASSUME IInv, EndFlatten PROVE IInv'
<1>1. todo = {} /\ order = NoOrder /\ entry = NoOrder /\ pc = "flatten"
  BY DEF EndFlatten, PassDone, IInv, PassOK
<1>2. CASE FlattenSaved
  <2>1. "flattenSave" \in Saving /\ pc \in Holding
    BY <1>1 DEF Saving, Holding
  <2>2. OpenSave("flattenSave")
    BY <1>2 DEF EndFlatten
  <2> QED
    BY <1>1, <1>2, <2>1, <2>2, OpenSaveOK DEF EndFlatten
<1>3. CASE ~FlattenSaved
  <2>1. CountFlatten /\ UNCHANGED <<disk, broker, scripts, bounded, history>>
    BY <1>3 DEF EndFlatten
  <2>2. SharedOK'
    BY <2>1 DEF IInv, TypeOK, SharedOK, IsPlan, disk, scripts, bounded, history
  <2>3. CycleOK' /\ PassOK' /\ OrderOK' /\ pc' \notin Holding
    BY <1>1, <2>1, CountFlattenOK DEF EndFlatten
  <2>4. KeptOK'
    BY <1>1, <2>1, <2>3, KeptIdle DEF IInv, disk, history, Saving
  <2> QED
    BY <2>2, <2>3, <2>4 DEF IInv, TypeOK
<1> QED
  BY <1>2, <1>3

LEMMA SaveFlattenOK == ASSUME IInv, SaveFlatten PROVE IInv'
<1>1. todo = {} /\ order = NoOrder /\ entry = NoOrder /\ pc \in Holding
  BY Quiet DEF SaveFlatten, Holding, Saving
<1>2. SharedOK'
  BY CloseSaveShared DEF SaveFlatten
<1>3. CycleOK' /\ PassOK' /\ OrderOK' /\ pc' \notin Holding
  BY <1>1, CountFlattenOK DEF SaveFlatten
<1>4. KeptOK'
  BY <1>1, <1>3, KeptSaved DEF SaveFlatten, CloseSave, IInv, history
<1> QED
  BY <1>2, <1>3, <1>4 DEF IInv, TypeOK

LEMMA ReturnEarlyOK == ASSUME IInv, ReturnEarly PROVE IInv'
<1>1. SharedOK'
  BY DEF ReturnEarly, IInv, TypeOK, SharedOK, IsPlan, book, disk, scripts, bounded, history
<1>2. CycleOK' /\ PassOK' /\ OrderOK' /\ pc' \notin Holding
  BY IdleOK DEF ReturnEarly, IInv, TypeOK, CycleOK
<1>3. KeptOK'
  BY <1>2, KeptIdle DEF ReturnEarly, IInv, book, disk, history, Saving
<1> QED
  BY <1>1, <1>2, <1>3 DEF IInv, TypeOK

LEMMA EndCycleOK == ASSUME IInv, EndCycle PROVE IInv'
<1>1. SharedOK'
  BY DEF EndCycle, IInv, TypeOK, SharedOK, IsPlan, book, disk, scripts, bounded, history
<1>2. CycleOK' /\ PassOK' /\ OrderOK' /\ pc' \notin Holding
  BY IdleOK DEF EndCycle, IInv, TypeOK, CycleOK
<1>3. KeptOK'
  BY <1>2, KeptIdle DEF EndCycle, IInv, book, disk, history, Saving
<1> QED
  BY <1>1, <1>2, <1>3 DEF IInv, TypeOK

LEMMA ScanOK == ASSUME IInv, Scan PROVE IInv'
<1>1. SharedOK'
  BY DEF Scan, IInv, TypeOK, SharedOK, IsPlan, book, disk, scripts, bounded, history
<1>kept. KeptOK'
  <2>1. UNCHANGED <<file, nextId, exposed>> /\ pc = "account" /\ pc' \in {"idle", "scan"}
    BY DEF Scan, GoIdle, book, disk, history
  <2> QED
    BY <2>1, KeptAlone DEF IInv, Holding, Saving
<1>2. CASE GoIdle(kept)
  BY <1>1, <1>2, <1>kept, IdleOK DEF IInv, TypeOK, CycleOK
<1>3. CASE ~GoIdle(kept)
  <2>1. /\ pc = "account" /\ pc' = "scan" /\ journal' = file
        /\ counted' = [counted EXCEPT !.losses = IF @ >= CooldownAfterLosses THEN 0 ELSE @]
        /\ UNCHANGED <<file, todo, move, entry, order, pass, placed, kept>>
    BY <1>3 DEF Scan, book, disk
  <2>2. todo = {} /\ order = NoOrder
    BY <2>1 DEF IInv, PassOK
  <2>3. counted' \in Counters
    <3>1. counted \in Counters
      BY DEF IInv, TypeOK, CycleOK
    <3>2. (IF counted.losses >= CooldownAfterLosses THEN 0 ELSE counted.losses) \in Nat
      BY <3>1 DEF Counters
    <3> QED
      BY Zenon, <2>1, <3>1, <3>2 DEF Counters
  <2>4. journal' \in Seq(Row)
    BY <2>1 DEF IInv, TypeOK, SharedOK
  <2>5. CycleOK'
    BY <2>1, <2>2, <2>3, <2>4 DEF IInv, TypeOK, CycleOK
  <2>6. PassOK' /\ OrderOK'
    BY <2>1, <2>2 DEF IInv, PassOK, OrderOK
  <2> QED
    BY <1>1, <1>kept, <2>5, <2>6 DEF IInv, TypeOK
<1> QED
  BY <1>2, <1>3

LEMMA EnterOK == ASSUME IInv, NEW c \in Codes, NEW held \in {-1, 1}, Enter(c, held) PROVE IInv'
<1> USE DEF Enter, disk, scripts, bounded, history
<1>1. SharedOK'
  BY DEF IInv, TypeOK, SharedOK, IsPlan
<1>2. CycleOK'
  BY DEF IInv, TypeOK, CycleOK, OpenRows
<1>3. PassOK' /\ OrderOK'
  BY DEF IInv, PassOK, OrderOK, Informed, Quoted
<1>4. KeptOK'
  BY KeptAlone DEF IInv, Holding, Saving
<1> QED
  BY <1>1, <1>2, <1>3, <1>4 DEF IInv, TypeOK

(* The line of append_trade: a row of the file, or of no file that is read. *)
LEMMA AppendTradeFile ==
    ASSUME IInv, AppendTrade
    PROVE  /\ pc = "scan" /\ nextId \in Nat /\ file \in Seq(Row)
           /\ NewRow(nextId, "bot", entry.code, entry.held) \in Row
           /\ \/ /\ file' = Append(file, NewRow(nextId, "bot", entry.code, entry.held))
                 /\ UNCHANGED exposed
              \/ file' = file /\ exposed' = exposed \union {nextId}
           /\ form' \in Forms
<1>1. pc = "scan" /\ entry.code \in Codes /\ entry.held \in Int \ {0} /\ nextId \in Nat
  BY DEF AppendTrade, IInv, PassOK, TypeOK, CycleOK, SharedOK
<1>2. NewRow(nextId, "bot", entry.code, entry.held) \in Row
  BY <1>1, NewRowType
<1>3. form \in Forms /\ file \in Seq(Row)
  BY DEF IInv, TypeOK, SharedOK
<1>4. CASE form = "whole"
  BY <1>1, <1>2, <1>3, <1>4 DEF AppendTrade, AppendedTo
<1>5. CASE form # "whole"
  <2>1. /\ form' = CASE form = "partial" -> "whole" [] form = "empty" -> "void" [] OTHER -> form
        /\ file' = file /\ exposed' = exposed \union {nextId}
    BY <1>5 DEF AppendTrade
  <2>2. form' \in Forms
    BY <1>3, <2>1 DEF Forms
  <2> QED
    BY <1>1, <1>2, <1>3, <2>1, <2>2
<1> QED
  BY <1>4, <1>5

LEMMA AppendTradeOK == ASSUME IInv, AppendTrade PROVE IInv'
<1> DEFINE new == NewRow(nextId, "bot", entry.code, entry.held)
<1>1. pc = "scan" /\ pc' = "scan" /\ nextId \in Nat /\ nextId' = nextId + 1 /\ form' \in Forms
  BY AppendTradeFile DEF AppendTrade
<1>2. /\ file' \in Seq(Row) /\ exposed' \subseteq Nat
      /\ Ids(file) \subseteq Ids(file') /\ exposed \subseteq exposed'
      /\ nextId \in Ids(file') \union exposed'
  <2>1. file \in Seq(Row) /\ new \in Row /\ exposed \subseteq Nat
    BY AppendTradeFile DEF IInv, TypeOK, SharedOK
  <2>2. CASE file' = Append(file, new) /\ UNCHANGED exposed
    <3>1. /\ file' \in Seq(Row) /\ Len(file') = Len(file) + 1 /\ file'[Len(file) + 1] = new
          /\ \A i \in 1..Len(file) : file'[i] = file[i]
      BY <2>1, <2>2, AppendProperties
    <3>2. DOMAIN file = 1..Len(file) /\ DOMAIN file' = 1..Len(file) + 1 /\ Len(file) \in Nat
      BY <2>1, <3>1
    <3>3. new.id = nextId
      BY DEF NewRow
    <3> QED
      BY <2>1, <2>2, <3>1, <3>2, <3>3 DEF Ids
  <2>3. CASE file' = file /\ exposed' = exposed \union {nextId}
    BY <1>1, <2>1, <2>3
  <2> QED
    BY <2>2, <2>3, AppendTradeFile
<1>3. SharedOK'
  BY <1>1, <1>2 DEF AppendTrade, IInv, TypeOK, SharedOK, IsPlan, scripts, bounded
<1>4. CycleOK'
  BY DEF AppendTrade, IInv, TypeOK, CycleOK, OpenRows
<1>5. PassOK' /\ OrderOK'
  BY <1>1 DEF AppendTrade, IInv, PassOK, OrderOK, Informed, Quoted
<1>6. KeptOK'
  <2>1. Safe' \subseteq Ids(file')
    BY <1>1, <1>2 DEF IInv, KeptOK, EntriesStay, Safe, Saving
  <2> QED
    BY <1>1, <2>1 DEF KeptOK, EntriesStay, Holding, Saving
<1> QED
  BY <1>3, <1>4, <1>5, <1>6 DEF IInv, TypeOK

(* A kill or an exception: a save cut short leaves some first rows of the     *)
(* journal, or what was there, and promises no row any more.                  *)
LEMMA CutSaveFile ==
    ASSUME IInv, CutSave
    PROVE  /\ file' \in Seq(Row) /\ form' \in Forms /\ exposed' \subseteq Nat
           /\ \/ UNCHANGED <<file, exposed>> /\ pc \notin Saving
              \/ exposed' = 1..(nextId - 1) /\ file' = file
              \/ /\ exposed' = 1..(nextId - 1)
                 /\ \E n \in 0..Len(journal) : file' = SubSeq(journal, 1, n)
<1>1. /\ file \in Seq(Row) /\ journal \in Seq(Row) /\ form \in Forms
      /\ exposed \subseteq Nat /\ nextId \in Nat
  BY DEF IInv, TypeOK, SharedOK, CycleOK
<1>2. CASE pc \notin Saving
  BY <1>1, <1>2 DEF CutSave, disk
<1>3. CASE pc \in Saving /\ UNCHANGED disk
  BY <1>1, <1>3 DEF CutSave, disk
<1>4. CASE pc \in Saving /\ ~UNCHANGED disk
  <2>1. PICK n \in 0..Len(journal) : file' = SubSeq(journal, 1, n)
    BY <1>4 DEF CutSave
  <2>2. exposed' = 1..(nextId - 1) /\ form' \in Forms
    BY <1>4 DEF CutSave, Forms
  <2>3. file' \in Seq(Row)
    BY <1>1, <2>1, SubSeqProperties
  <2> QED
    BY <1>1, <2>1, <2>2, <2>3
<1> QED
  BY <1>2, <1>3, <1>4

LEMMA CrashOK == ASSUME IInv, Crash PROVE IInv'
<1>1. SharedOK'
  <2>1. cuts' \in Nat /\ outside' + cuts' <= MaxMishaps
    BY ConstantTypes DEF Crash, MayCut, IInv, TypeOK, SharedOK
  <2> QED
    BY <2>1, CutSaveFile DEF Crash, IInv, TypeOK, SharedOK, IsPlan, scripts
<1>2. CycleOK' /\ PassOK' /\ OrderOK' /\ pc' \notin Holding
  BY IdleOK DEF Crash, Fresh, Counters
<1>3. KeptOK'
  BY <1>2, CutSaveFile, KeptIdle DEF Crash, IInv
<1> QED
  BY <1>1, <1>2, <1>3 DEF IInv, TypeOK

LEMMA CycleRaisesOK == ASSUME IInv, CycleRaises PROVE IInv'
<1>1. SharedOK'
  <2>1. cuts' \in Nat /\ outside' + cuts' <= MaxMishaps
    BY ConstantTypes DEF CycleRaises, MayCut, IInv, TypeOK, SharedOK
  <2> QED
    BY <2>1, CutSaveFile DEF CycleRaises, IInv, TypeOK, SharedOK, IsPlan, scripts
<1>2. CycleOK' /\ PassOK' /\ OrderOK' /\ pc' \notin Holding
  BY IdleOK DEF CycleRaises, IInv, TypeOK, CycleOK
<1>3. KeptOK'
  BY <1>2, CutSaveFile, KeptIdle DEF CycleRaises, IInv
<1> QED
  BY <1>1, <1>2, <1>3 DEF IInv, TypeOK

(* The plans of the scripts and trades by hand leave the cycle alone. *)
LEMMA CycleAlone ==
    ASSUME IInv, SharedOK', KeptOK', UNCHANGED cycle
    PROVE  IInv'
<1>1. CycleOK'
  BY DEF cycle, IInv, TypeOK, CycleOK, OpenRows
<1>2. PassOK' /\ OrderOK'
  BY DEF cycle, IInv, PassOK, OrderOK, Informed, Quoted
<1> QED
  BY <1>1, <1>2 DEF IInv, TypeOK

LEMMA SameFile ==
    ASSUME IInv, UNCHANGED <<file, nextId, exposed, pc, journal>>
    PROVE  KeptOK'
<1>1. Safe' = Safe /\ Ids(file') = Ids(file) /\ Ids(journal') = Ids(journal)
  BY DEF Safe
<1> QED
  BY <1>1 DEF IInv, KeptOK, EntriesStay

LEMMA HeldPlan == ASSUME IInv, NEW S, S \subseteq Untracked PROVE IsPlan(HeldOf(S))
<1>1. S \subseteq Codes /\ \A c \in S : broker[c] \in Int \ {0}
  BY DEF Untracked, IInv, TypeOK, SharedOK
<1> QED
  BY <1>1 DEF IsPlan, HeldOf

LEMMA AdoptPlanOK == ASSUME IInv, AdoptPlan PROVE IInv'
<1>1. IsPlan(adopting')
  BY HeldPlan DEF AdoptPlan
<1>2. SharedOK'
  BY <1>1 DEF AdoptPlan, IInv, TypeOK, SharedOK, IsPlan, book, disk, bounded, history
<1> QED
  BY <1>2, CycleAlone, SameFile DEF AdoptPlan, book, disk, cycle, history

LEMMA CoverPlanOK == ASSUME IInv, NEW longsToo, CoverPlan(longsToo) PROVE IInv'
<1>1. IsPlan(covering')
  <2>1. {c \in Untracked : broker[c] < 0 \/ longsToo} \subseteq Untracked
    OBVIOUS
  <2> QED
    BY <2>1, HeldPlan DEF CoverPlan
<1>2. SharedOK'
  BY <1>1 DEF CoverPlan, IInv, TypeOK, SharedOK, IsPlan, book, disk, bounded, history
<1> QED
  BY <1>2, CycleAlone, SameFile DEF CoverPlan, book, disk, cycle, history

LEMMA PlanShrinks ==
    ASSUME NEW p, IsPlan(p), NEW c PROVE IsPlan(Restrict(p, DOMAIN p \ {c}))
BY DEF IsPlan, Restrict

LEMMA CoverFilledOK == ASSUME IInv, NEW c \in Codes, CoverFilled(c) PROVE IInv'
<1>1. IsPlan(covering')
  BY PlanShrinks DEF CoverFilled, IInv, TypeOK, SharedOK
<1>2. broker' \in [Codes -> Int]
  BY DEF CoverFilled, IInv, TypeOK, SharedOK, IsPlan
<1>3. SharedOK'
  BY <1>1, <1>2 DEF CoverFilled, IInv, TypeOK, SharedOK, IsPlan, disk, bounded, history
<1> QED
  BY <1>3, CycleAlone, SameFile DEF CoverFilled, disk, cycle, history

LEMMA CoverStopsOK == ASSUME IInv, NEW c \in Codes, CoverStops(c) PROVE IInv'
<1>1. IsPlan(covering')
  BY PlanShrinks DEF CoverStops, IInv, TypeOK, SharedOK
<1>2. SharedOK'
  BY <1>1 DEF CoverStops, IInv, TypeOK, SharedOK, IsPlan, book, disk, bounded, history
<1> QED
  BY <1>2, CycleAlone, SameFile DEF CoverStops, book, disk, cycle, history

LEMMA TradeOutsideOK ==
    ASSUME IInv, NEW c \in Codes, NEW held \in Positions, TradeOutside(c, held) PROVE IInv'
<1>1. broker' \in [Codes -> Int]
  BY ConstantTypes DEF TradeOutside, IInv, TypeOK, SharedOK
<1>2. outside' \in Nat /\ outside' + cuts' <= MaxMishaps
  BY ConstantTypes DEF TradeOutside, IInv, TypeOK, SharedOK
<1>3. SharedOK'
  BY <1>1, <1>2 DEF TradeOutside, IInv, TypeOK, SharedOK, IsPlan, disk, scripts, history
<1> QED
  BY <1>3, CycleAlone, SameFile DEF TradeOutside, disk, cycle, history

\* The file now is the file before and open rows without a pnl.
Grown(rows, now) ==
    /\ DOMAIN rows \subseteq DOMAIN now
    /\ \A i \in DOMAIN rows : now[i] = rows[i]
    /\ \A i \in DOMAIN now \ DOMAIN rows : now[i].pnl = Blank

(* What the adopting script adds: rows of their own ids, given out now, that   *)
(* the file holds but for those it marks as exposed.                          *)
LEMMA AdoptWriteFile ==
    ASSUME IInv, AdoptWrite
    PROVE  /\ file' \in Seq(Row) /\ Grown(file, file')
           /\ nextId' \in Nat \ {0} /\ nextId' >= nextId
           /\ \A i, j \in DOMAIN file' \ DOMAIN file : file'[i].id = file'[j].id => i = j
           /\ \A i \in DOMAIN file' \ DOMAIN file : nextId <= file'[i].id /\ file'[i].id < nextId'
           /\ exposed \subseteq exposed' /\ exposed' \subseteq Nat
           /\ nextId..(nextId' - 1) \subseteq Ids(file') \union exposed'
           /\ pc \in Holding => nextId..(nextId' - 1) \subseteq exposed'
<1> DEFINE n == Cardinality(DOMAIN adopting)
           m == Unseen(n)
<1>1. n \in Nat
  <2>1. IsFiniteSet(DOMAIN adopting)
    BY Zenon, FS_Subset, TradeBookAssumption DEF IInv, TypeOK, SharedOK, IsPlan
  <2> QED
    BY <2>1, FS_CardinalityType
<1>2. n # 0
  <2>1. IsFiniteSet(DOMAIN adopting)
    BY Zenon, FS_Subset, TradeBookAssumption DEF IInv, TypeOK, SharedOK, IsPlan
  <2>2. DOMAIN adopting # {}
    <3>1. DOMAIN adopting = {} => adopting = NoPlan
      BY DEF NoPlan, IInv, TypeOK, SharedOK, IsPlan
    <3> QED
      BY <3>1 DEF AdoptWrite
  <2> QED
    BY <2>1, <2>2, FS_EmptySet
<1>3. m \in 0..n
  BY <1>1, <1>2 DEF Unseen
<1>4. /\ nextId \in Nat \ {0} /\ nextId' = nextId + n /\ file \in Seq(Row) /\ exposed \subseteq Nat
      /\ exposed' = exposed \union (nextId..(nextId - 1 + (IF pc \in Holding THEN n ELSE m)))
  BY DEF AdoptWrite, IInv, TypeOK, SharedOK
<1>5. PICK listed \in SetToSeqs(DOMAIN adopting) :
        file' = file \o SubSeq(AdoptedRows(listed), m + 1, n)
  BY DEF AdoptWrite
<1> DEFINE all == AdoptedRows(listed)
           new == SubSeq(all, m + 1, n)
<1>6. listed \in [1..n -> DOMAIN adopting]
  BY DEF SetToSeqs
<1> HIDE DEF n, m
<1>7. \A i \in 1..n : all[i] \in Row /\ all[i].pnl = Blank /\ all[i].id = nextId + i - 1
  <2> TAKE i \in 1..n
  <2>1. listed[i] \in Codes /\ adopting[listed[i]] \in Int \ {0}
    BY <1>6 DEF IInv, TypeOK, SharedOK, IsPlan
  <2>2. nextId + i - 1 \in Nat
    BY <1>1, <1>4
  <2>3. all[i] = NewRow(nextId + i - 1, "adopted", listed[i], adopting[listed[i]])
    BY <1>6 DEF AdoptedRows
  <2> QED
    BY <2>1, <2>2, <2>3, NewRowType DEF NewRow
<1>8. all \in Seq(Row) /\ Len(all) = n
  <2>1. DOMAIN all = 1..n
    BY <1>6 DEF AdoptedRows
  <2>2. all = [i \in 1..n |-> all[i]]
    BY <2>1 DEF AdoptedRows
  <2> HIDE DEF all
  <2>3. all \in [1..n -> Row]
    BY <1>7, <2>2
  <2> QED
    BY <1>1, <2>3
<1> HIDE DEF all
<1>9. /\ new \in Seq(Row) /\ Len(new) = n - m
      /\ \A i \in 1..(n - m) : new[i] = all[m + i]
  BY <1>1, <1>3, <1>8, SubSeqProperties
<1> HIDE DEF new
<1>10. file' = file \o new
  BY <1>5 DEF new, all
<1>11. /\ file' \in Seq(Row) /\ Len(file') = Len(file) + (n - m) /\ Len(file) \in Nat
       /\ \A i \in 1..Len(file) + (n - m) : file'[i] = IF i <= Len(file) THEN file[i] ELSE new[i - Len(file)]
  <2>1. file \in Seq(Row) /\ new \in Seq(Row)
    BY <1>4, <1>9
  <2>2. /\ file \o new \in Seq(Row) /\ Len(file \o new) = Len(file) + Len(new)
        /\ \A i \in 1..Len(file) + Len(new) :
             (file \o new)[i] = IF i <= Len(file) THEN file[i] ELSE new[i - Len(file)]
    BY <2>1, ConcatProperties
  <2>3. Len(file) \in Nat /\ Len(new) = n - m
    BY <1>9, <2>1
  <2> QED
    BY <1>10, <2>2, <2>3
<1>12. DOMAIN file = 1..Len(file) /\ DOMAIN file' = 1..(Len(file) + (n - m))
  BY <1>4, <1>11
<1>13. ASSUME NEW i \in DOMAIN file' \ DOMAIN file
       PROVE  file'[i].pnl = Blank /\ file'[i].id = nextId + m + (i - Len(file)) - 1
  <2>1. i - Len(file) \in 1..(n - m) /\ file'[i] = new[i - Len(file)]
    BY <1>1, <1>3, <1>11, <1>12
  <2>2. file'[i] = all[m + (i - Len(file))] /\ m + (i - Len(file)) \in 1..n
    BY <1>1, <1>3, <1>9, <2>1
  <2> QED
    BY <1>1, <1>3, <1>4, <1>7, <1>11, <2>2
<1>14. Grown(file, file')
  BY <1>1, <1>3, <1>11, <1>12, <1>13 DEF Grown
<1>15. nextId' \in Nat \ {0} /\ nextId' >= nextId
  BY <1>1, <1>4
<1>16. \A i, j \in DOMAIN file' \ DOMAIN file : file'[i].id = file'[j].id => i = j
  BY <1>1, <1>3, <1>4, <1>11, <1>12, <1>13
<1>17. \A i \in DOMAIN file' \ DOMAIN file : nextId <= file'[i].id /\ file'[i].id < nextId'
  BY <1>1, <1>3, <1>4, <1>11, <1>12, <1>13
<1>18. exposed \subseteq exposed' /\ exposed' \subseteq Nat
  BY <1>1, <1>3, <1>4
<1>19. ASSUME NEW id \in nextId..(nextId' - 1) PROVE id \in Ids(file') \union exposed'
  <2>1. CASE id <= nextId - 1 + m
    BY <2>1, <1>1, <1>3, <1>4
  <2>2. CASE ~(id <= nextId - 1 + m)
    <3> DEFINE i == Len(file) + (id - nextId - m) + 1
    <3>1. i \in DOMAIN file' \ DOMAIN file
      BY <2>2, <1>1, <1>3, <1>4, <1>11, <1>12
    <3>2. file'[i].id = id
      BY <2>2, <3>1, <1>1, <1>3, <1>4, <1>11, <1>13
    <3> HIDE DEF i
    <3> QED
      BY <3>1, <3>2 DEF Ids
  <2> QED
    BY <2>1, <2>2
<1>20. pc \in Holding => nextId..(nextId' - 1) \subseteq exposed'
  BY <1>1, <1>4
<1> QED
  BY <1>11, <1>14, <1>15, <1>16, <1>17, <1>18, <1>19, <1>20

LEMMA AdoptWriteOK == ASSUME IInv, AdoptWrite PROVE IInv'
<1>1. IsPlan(NoPlan)
  BY DEF IsPlan, NoPlan
<1>2. form' \in Forms
  BY DEF AdoptWrite, IInv, TypeOK, SharedOK, Forms
<1>3. SharedOK'
  BY <1>1, <1>2, AdoptWriteFile DEF AdoptWrite, IInv, TypeOK, SharedOK, bounded
<1>4. KeptOK'
  <2>1. UNCHANGED <<pc, journal>>
    BY DEF AdoptWrite, cycle
  <2>2. nextId \in Nat /\ nextId' \in Nat /\ nextId' >= nextId /\ exposed \subseteq exposed'
    BY AdoptWriteFile DEF IInv, TypeOK, SharedOK
  <2>3. ASSUME NEW id \in Safe' PROVE id \in Safe \/ id \in nextId..(nextId' - 1)
    <3>1. id \in 1..(nextId' - 1) /\ id \notin exposed
      BY <2>2 DEF Safe
    <3>2. \A lo, hi \in Nat : id \in 1..(hi - 1) => id \in 1..(lo - 1) \/ id \in lo..(hi - 1)
      OBVIOUS
    <3>3. id \in 1..(nextId - 1) \/ id \in nextId..(nextId' - 1)
      BY <2>2, <3>1, <3>2
    <3> QED
      BY <3>1, <3>3 DEF Safe
  <2>4. Ids(file) \subseteq Ids(file')
    BY AdoptWriteFile DEF Grown, Ids
  <2>5. pc \notin Saving => Safe' \subseteq Ids(file')
    BY <2>3, <2>4, AdoptWriteFile DEF Safe, IInv, KeptOK, EntriesStay
  <2>6. pc \in Holding => Safe' \subseteq Ids(journal')
    BY <2>1, <2>3, AdoptWriteFile DEF Safe, IInv, KeptOK
  <2> QED
    BY <2>1, <2>5, <2>6 DEF KeptOK, EntriesStay
<1> QED
  BY <1>3, <1>4, CycleAlone DEF AdoptWrite

LEMMA Stutter == ASSUME IInv, UNCHANGED vars PROVE IInv'
<1> USE DEF vars, book, disk, cycle, scripts, bounded, history
<1>1. SharedOK'
  BY DEF IInv, TypeOK, SharedOK, IsPlan
<1> QED
  BY <1>1, CycleAlone, SameFile

LEMMA NextOK == ASSUME IInv, [Next]_vars PROVE IInv'
<1>1. ASSUME Trader PROVE IInv'
  <2>1. CASE \E i \in 1..MaxRows : SkipRow(i) \/ CloseZombie(i) \/ SendClose(i) \/ SendBlind(i)
    BY <2>1, SkipRowOK, CloseZombieOK, SendCloseOK, SendBlindOK
  <2>2. CASE \E c \in Codes : \E held \in {-1, 1} : Enter(c, held)
    BY <2>2, EnterOK
  <2>3. CASE CloseFilled \/ CloseRefused \/ StartFlatten \/ NoFlatten \/ EndFlatten \/ SaveFlatten
    BY <2>3, CloseFilledOK, CloseRefusedOK, StartFlattenOK, NoFlattenOK, EndFlattenOK, SaveFlattenOK
  <2>5. CASE EndExits \/ SaveExits \/ Resave \/ ResaveExits
    BY <2>5, EndExitsOK, SaveExitsOK, ResaveOK, ResaveExitsOK
  <2>4. CASE BeginCycle \/ ReturnEarly \/ Scan \/ AppendTrade \/ EndCycle
    BY <2>4, BeginCycleOK, ReturnEarlyOK, ScanOK, AppendTradeOK, EndCycleOK
  <2> QED
    BY <1>1, <2>1, <2>2, <2>3, <2>4, <2>5 DEF Trader
<1>2. ASSUME Scripts PROVE IInv'
  BY <1>2, AdoptPlanOK, AdoptWriteOK, CoverPlanOK, CoverFilledOK, CoverStopsOK DEF Scripts
<1>3. ASSUME World PROVE IInv'
  BY <1>3, CrashOK, CycleRaisesOK, AnswerLostOK, TradeOutsideOK DEF World
<1> QED
  BY <1>1, <1>2, <1>3, Stutter DEF Next

-----------------------------------------------------------------------------
(* The strengthened invariant holds of every behaviour of the trader, the     *)
(* two scripts and the account they share.                                    *)
THEOREM Invariance == Spec => []IInv
<1>1. Init => IInv
  BY InitIInv
<1>2. IInv /\ [Next]_vars => IInv'
  BY NextOK
<1> QED
  BY <1>1, <1>2, PTL DEF Spec

(* Rows, plans, orders and counters keep their types, and the rows a pass     *)
(* has still to look at are OPEN rows of the journal.                         *)
THEOREM TypeCorrect == Spec => []TypeOK
<1>1. IInv => TypeOK
  BY DEF IInv
<1> QED
  BY <1>1, Invariance, PTL

(* An informed order, filled while the position is as the lookup saw it,      *)
(* brings the position closer to zero and not past it.                        *)
LEMMA FillShrinks ==
    ASSUME IInv, order # NoOrder, FillOrder, order.known, Undisturbed
    PROVE  Shrinks(ClosingCode)
<1> DEFINE row == journal[order.row]
           h == broker[row.code]
           q == order.qty
<1>1. /\ row.code \in Codes /\ row.side \in {"LONG", "SHORT"}
      /\ q \in Nat \ {0} /\ h \in Int
  BY OrderFacts DEF IInv, TypeOK, SharedOK
<1>2. Direction(row.side) * h > 0 /\ q <= Size(h)
  BY DEF IInv, OrderOK, Informed, Undisturbed, ClosingCode
<1>3. broker'[row.code] = h - Direction(row.side) * q
  BY <1>1 DEF FillOrder, IInv, TypeOK, SharedOK
<1> HIDE DEF h, q
<1>4. CASE row.side = "LONG"
  <2>1. h > 0 /\ q <= h /\ broker'[row.code] = h - q
    BY <1>1, <1>2, <1>3, <1>4 DEF Direction, Size
  <2>2. (h - q) * h >= 0 /\ Size(h - q) < Size(h)
    <3>1. h - q \in Nat /\ h \in Nat
      BY <1>1, <2>1
    <3>2. \A a, b \in Nat : a * b >= 0
      OBVIOUS
    <3> QED
      BY <1>1, <2>1, <3>1, <3>2 DEF Size
  <2> QED
    BY <2>1, <2>2 DEF Shrinks, ClosingCode, h
<1>5. CASE row.side = "SHORT"
  <2>1. h < 0 /\ q <= -h /\ broker'[row.code] = h + q
    BY <1>1, <1>2, <1>3, <1>5 DEF Direction, Size
  <2>2. (h + q) * h >= 0 /\ Size(h + q) < Size(h)
    <3>1. -(h + q) \in Nat /\ -h \in Nat
      BY <1>1, <2>1
    <3>2. \A a, b \in Int : -a \in Nat /\ -b \in Nat => a * b >= 0
      OBVIOUS
    <3>3. (h + q) * h >= 0
      BY <1>1, <3>1, <3>2
    <3> QED
      BY <1>1, <2>1, <3>3 DEF Size
  <2> QED
    BY <2>1, <2>2 DEF Shrinks, ClosingCode, h
<1> QED
  BY <1>1, <1>4, <1>5

(* Only a fill counts as a close. *)
LEMMA OnlyFillsSend ==
    ASSUME [Next]_vars, sent' # sent
    PROVE  order # NoOrder /\ FillOrder
<1> USE DEF history
<1>1. ~ UNCHANGED vars
  BY DEF vars
<1>2. ~ Scripts
  BY DEF Scripts, AdoptPlan, AdoptWrite, CoverPlan, CoverFilled, CoverStops
<1>3. ASSUME World PROVE order # NoOrder /\ FillOrder
  BY <1>3 DEF World, Crash, CycleRaises, AnswerLost, TradeOutside
<1>4. ASSUME Trader PROVE order # NoOrder /\ FillOrder
  <2>1. ~ \E i \in 1..MaxRows : SkipRow(i) \/ CloseZombie(i) \/ SendClose(i) \/ SendBlind(i)
    BY DEF SkipRow, CloseZombie, SendClose, SendBlind, SendOrder
  <2>2. ~ \E c \in Codes : \E held \in {-1, 1} : Enter(c, held)
    BY DEF Enter
  <2>3. ~(CloseRefused \/ StartFlatten \/ NoFlatten \/ EndFlatten \/ SaveFlatten)
    BY DEF CloseRefused, StartFlatten, NoFlatten, EndFlatten, SaveFlatten
  <2>5. ~(EndExits \/ SaveExits \/ Resave \/ ResaveExits)
    BY DEF EndExits, SaveExits, Resave, ResaveExits
  <2>4. ~(BeginCycle \/ ReturnEarly \/ Scan \/ AppendTrade \/ EndCycle)
    BY DEF BeginCycle, ReturnEarly, Scan, AppendTrade, EndCycle
  <2> QED
    BY <1>4, <2>1, <2>2, <2>3, <2>4, <2>5 DEF Trader, CloseFilled
<1> QED
  BY <1>1, <1>2, <1>3, <1>4 DEF Next

(* No close order that follows an answered position lookup turns a position   *)
(* round or opens one: the cap of check_exits and maybe_flatten is enough as  *)
(* long as nobody trades the symbol between the lookup and the fill.          *)
THEOREM InformedClosesShrink == Spec => KnownClosesShrink
<1>1. ASSUME IInv, [Next]_vars
      PROVE  sent' # sent /\ order.known /\ Undisturbed => Shrinks(ClosingCode)
  BY <1>1, OnlyFillsSend, FillShrinks
<1> QED
  BY <1>1, Invariance, PTL DEF Spec, KnownClosesShrink

(* Rows leave the file for three reasons only, for any symbols, rows, kills    *)
(* and scripts: a save cut short, a script's row under a cycle's copy, and a   *)
(* file that a cut save has spoilt. The proof carries the same of the copy.   *)
THEOREM EntriesLeaveExposed == Spec => []EntriesStay
<1>1. IInv => EntriesStay
  BY DEF IInv, KeptOK
<1> QED
  BY <1>1, Invariance, PTL

-----------------------------------------------------------------------------
(* The books                                                                 *)

(* The values of a file, and their sum, are numbers. *)
LEMMA PnlType ==
    ASSUME NEW rows \in Seq(Row)
    PROVE  /\ DOMAIN rows = 1..Len(rows) /\ IsFiniteSet(DOMAIN rows)
           /\ DOMAIN Booked(rows) = DOMAIN rows
           /\ \A i \in DOMAIN rows : Booked(rows)[i] \in Int
           /\ Pnl(rows) = SumFunctionOnSet(Booked(rows), DOMAIN rows)
           /\ Pnl(rows) \in Int
<1>1. DOMAIN rows = 1..Len(rows) /\ Len(rows) \in Nat
  OBVIOUS
<1>2. IsFiniteSet(DOMAIN rows)
  BY <1>1, FS_Interval
<1>3. DOMAIN Booked(rows) = DOMAIN rows
  BY DEF Booked
<1>4. \A i \in DOMAIN rows : Booked(rows)[i] \in Int
  <2> TAKE i \in DOMAIN rows
  <2>1. rows[i] \in Row
    OBVIOUS
  <2>2. rows[i].pnl \in Int \union {Blank}
    BY <2>1 DEF Row
  <2> QED
    BY <2>2 DEF Booked
<1>5. Pnl(rows) = SumFunctionOnSet(Booked(rows), DOMAIN rows)
  BY <1>3 DEF Pnl, SumFunction
<1>6. Pnl(rows) \in Int
  BY <1>2, <1>4, <1>5, SumType
<1> QED
  BY <1>1, <1>2, <1>3, <1>4, <1>5, <1>6

(* Closing a row without a pnl adds the pnl it is closed with, if any. *)
LEMMA PnlOfClosed ==
    ASSUME NEW rows \in Seq(Row), NEW i \in DOMAIN rows, NEW new \in Row, rows[i].pnl = Blank
    PROVE  Pnl([rows EXCEPT ![i] = new]) = Pnl(rows) + (IF new.pnl = Blank THEN 0 ELSE new.pnl)
<1> DEFINE now == [rows EXCEPT ![i] = new]
<1>1. now \in Seq(Row) /\ DOMAIN now = DOMAIN rows
  BY ExceptSeq
<1>2. now[i] = new /\ \A j \in DOMAIN rows : j # i => now[j] = rows[j]
  BY Zenon
<1> HIDE DEF now
<1>3. \A j \in DOMAIN rows : j # i => Booked(now)[j] = Booked(rows)[j]
  BY <1>1, <1>2 DEF Booked
<1>4. Booked(rows)[i] = 0 /\ Booked(now)[i] = IF new.pnl = Blank THEN 0 ELSE new.pnl
  BY <1>1, <1>2 DEF Booked
<1>5. /\ IsFiniteSet(DOMAIN rows)
      /\ \A j \in DOMAIN rows : Booked(rows)[j] \in Int
      /\ Pnl(rows) = SumFunctionOnSet(Booked(rows), DOMAIN rows) /\ Pnl(rows) \in Int
  BY PnlType
<1>6. Booked(now)[i] \in Int /\ Pnl(now) = SumFunctionOnSet(Booked(now), DOMAIN rows)
  BY <1>1, PnlType
<1>7. SumFunctionOnSet(Booked(now), DOMAIN rows)
         = SumFunctionOnSet(Booked(rows), DOMAIN rows) + Booked(now)[i] - Booked(rows)[i]
  BY <1>3, <1>5, <1>6, SumChanged
<1> QED
  BY <1>4, <1>5, <1>6, <1>7 DEF now

(* Rows that are not closed are worth nothing yet. *)
LEMMA PnlOfGrown ==
    ASSUME NEW rows \in Seq(Row), NEW now \in Seq(Row), Grown(rows, now)
    PROVE  Pnl(now) = Pnl(rows)
<1> DEFINE E == DOMAIN now \ DOMAIN rows
<1>1. /\ IsFiniteSet(DOMAIN rows)
      /\ \A i \in DOMAIN rows : Booked(rows)[i] \in Int
      /\ Pnl(rows) = SumFunctionOnSet(Booked(rows), DOMAIN rows)
  BY PnlType
<1>2. /\ IsFiniteSet(DOMAIN now)
      /\ Pnl(now) = SumFunctionOnSet(Booked(now), DOMAIN now)
  BY PnlType
<1>3. \A i \in DOMAIN rows : Booked(now)[i] = Booked(rows)[i]
  BY DEF Grown, Booked
<1>4. \A i \in E : i \notin DOMAIN rows /\ Booked(now)[i] = 0
  BY DEF Grown, Booked
<1>5. IsFiniteSet(E) /\ DOMAIN now = DOMAIN rows \union E
  BY <1>2, FS_Subset DEF Grown
<1> HIDE DEF E
<1>6. SumFunctionOnSet(Booked(now), DOMAIN rows) = SumFunctionOnSet(Booked(rows), DOMAIN rows)
  BY <1>1, <1>3, SumRestricted
<1>7. \A i \in DOMAIN rows : Booked(now)[i] \in Int
  BY <1>1, <1>3
<1>8. SumFunctionOnSet(Booked(now), DOMAIN rows \union E) = SumFunctionOnSet(Booked(now), DOMAIN rows)
  BY <1>1, <1>4, <1>5, <1>7, SumOverZeros
<1> QED
  BY <1>1, <1>2, <1>5, <1>6, <1>8

(* Closing a row takes its id, and no other, off the live ones. *)
LEMMA IdsOfClosed ==
    ASSUME NEW rows \in Seq(Row), NEW next, IdsOK(rows, next), NEW i \in OpenRows(rows),
           NEW new \in Row, new.id = rows[i].id, new.status = "CLOSED"
    PROVE  LET now == [rows EXCEPT ![i] = new]
           IN  IdsOK(now, next) /\ LiveIds(now) = LiveIds(rows) \ {rows[i].id}
<1> DEFINE now == [rows EXCEPT ![i] = new]
<1>1. i \in DOMAIN rows
  BY DEF OpenRows
<1>2. DOMAIN now = DOMAIN rows
  BY <1>1, ExceptSeq
<1>3. now[i] = new /\ \A j \in DOMAIN rows : j # i => now[j] = rows[j]
  BY <1>1, Zenon
<1> HIDE DEF now
<1>4. \A j \in DOMAIN rows : now[j].id = rows[j].id
  BY <1>3
<1>5. OpenRows(now) = OpenRows(rows) \ {i}
  BY <1>1, <1>2, <1>3 DEF OpenRows
<1>6. IdsOK(now, next)
  BY <1>2, <1>3, <1>4, <1>5 DEF IdsOK, OpenRows
<1>7. {now[j].id : j \in OpenRows(now)} = {rows[j].id : j \in OpenRows(rows)} \ {rows[i].id}
  BY <1>4, <1>5 DEF IdsOK, OpenRows
<1>8. LiveIds(now) = LiveIds(rows) \ {rows[i].id}
  BY <1>7 DEF LiveIds
<1> QED
  BY <1>6, <1>8 DEF now

LEMMA InitBooks == ASSUME Init PROVE BooksOK
<1> USE DEF Init
<1>1. \A i \in 1..MaxRows : sent[i] = 0
  OBVIOUS
<1>2. Pnl(<<>>) = 0
  <2>1. DOMAIN Booked(<<>>) = {}
    BY DEF Booked
  <2> QED
    BY <2>1, SumEmpty DEF Pnl, SumFunction
<1>3. IdsOK(<<>>, 1) /\ LiveIds(<<>>) = {}
  BY DEF IdsOK, LiveIds, OpenRows
<1>4. ClosedOnce /\ ClosesOK
  BY <1>1, <1>3 DEF ClosedOnce, ClosesOK
<1>5. PnlOK
  BY <1>2 DEF PnlOK, EmptyPass, Passing, Holding, Saving
<1> QED
  BY <1>3, <1>4, <1>5 DEF BooksOK

(* Steps that touch neither the books nor the pass. *)
LEMMA BooksAlone ==
    ASSUME BooksOK, UNCHANGED <<file, journal, nextId, sent, earned, cuts, pass>>,
           pc' \in Holding => pc \in Holding,
           pc' \notin Saving \union {"exited"} => pc \notin Saving \union {"exited"},
           pc' \notin Passing => pass = EmptyPass
    PROVE  BooksOK'
  BY DEF BooksOK, ClosedOnce, ClosesOK, PnlOK

(* A cycle that ends outside a pass, or is cut short, leaves the file good. *)
LEMMA BooksIdle ==
    ASSUME IInv, BooksOK, NEW counters, GoIdle(counters), UNCHANGED <<nextId, sent>>,
           IdsOK(file', nextId),
           \/ cuts' = cuts + 1
           \/ /\ UNCHANGED <<file, cuts, earned>>
              /\ pc \notin Holding
    PROVE  BooksOK'
<1>1. /\ journal' = <<>> /\ pc' = "idle" /\ pass' = EmptyPass /\ pc' \notin Holding /\ pc' \notin Passing
  BY DEF GoIdle, Holding, Saving, Passing
<1>2. /\ cuts \in Nat /\ sent \in [1..MaxRows -> Nat]
      /\ EmptyPass.closed = 0 /\ EmptyPass.pnl = 0
  BY DEF IInv, TypeOK, SharedOK, EmptyPass
<1>3. IdsOK(journal', nextId')
  BY <1>1 DEF BooksOK, IdsOK, OpenRows
<1>4. ClosedOnce'
  BY <1>2 DEF BooksOK, ClosedOnce
<1>5. pc \notin Holding => pass = EmptyPass /\ pc \notin Saving \union {"exited"}
  BY DEF BooksOK, PnlOK, Passing, Holding, Saving
<1>6. ClosesOK'
  <2>1. \A i \in LiveIds(file') : sent[i] <= cuts'
    <3>1. CASE cuts' = cuts + 1
      BY <3>1, <1>2 DEF BooksOK, ClosedOnce, LiveIds
    <3>2. CASE UNCHANGED <<file, cuts>> /\ pc \notin Holding
      BY <3>2, <1>2, <1>5 DEF BooksOK, ClosesOK
    <3> QED
      BY <3>1, <3>2
  <2> QED
    BY <1>1, <2>1 DEF BooksOK, ClosesOK
<1>7. PnlOK'
  <2>1. CASE cuts' = cuts + 1
    BY <2>1, <1>1, <1>2 DEF PnlOK
  <2>2. CASE UNCHANGED <<file, cuts, earned>> /\ pc \notin Holding
    BY <2>2, <1>1, <1>2, <1>5 DEF BooksOK, PnlOK
  <2> QED
    BY <2>1, <2>2
<1> QED
  BY <1>3, <1>4, <1>6, <1>7 DEF BooksOK

(* A save that puts the journal in the place of the file, and settles the pass *)
(* or leaves it to be counted.                                                *)
LEMMA BooksSaved ==
    ASSUME IInv, BooksOK, file' = journal, pc \in Holding,
           \/ pass' = EmptyPass /\ pc' \notin Saving
           \/ pass' = pass /\ pc' = "exited",
           journal' \in {journal, <<>>}, pc' \in Holding => journal' = journal,
           UNCHANGED <<nextId, sent, earned, cuts>>
    PROVE  BooksOK'
<1>1. EmptyPass.closed = 0 /\ EmptyPass.pnl = 0
  BY DEF EmptyPass
<1>2. IdsOK(journal', nextId') /\ IdsOK(file', nextId')
  BY DEF BooksOK, IdsOK, OpenRows
<1>3. ClosedOnce' /\ ClosesOK'
  BY DEF BooksOK, ClosedOnce, ClosesOK
<1>4. PnlOK'
  <2>1. Pnl(journal) \in Int
    BY PnlType DEF IInv, TypeOK, CycleOK
  <2>2. "exited" \in Passing
    BY DEF Passing
  <2> QED
    BY <1>1, <2>1, <2>2 DEF BooksOK, PnlOK
<1> QED
  BY <1>2, <1>3, <1>4 DEF BooksOK

(* The file is empty as long as it is open. *)
LEMMA BooksOpened ==
    ASSUME BooksOK, pc \in Holding, NEW step \in Saving, OpenSave(step),
           UNCHANGED <<journal, pass, nextId, sent, earned, cuts>>
    PROVE  BooksOK'
<1>1. file' = <<>> /\ pc' \in Saving /\ pc' \in Passing
  BY DEF OpenSave, Passing
<1>2. IdsOK(file', nextId') /\ LiveIds(file') = {}
  BY <1>1 DEF IdsOK, LiveIds, OpenRows
<1>3. ClosedOnce' /\ ClosesOK'
  BY <1>2 DEF BooksOK, ClosedOnce, ClosesOK
<1>4. PnlOK'
  BY <1>1 DEF BooksOK, PnlOK
<1> QED
  BY <1>2, <1>3, <1>4 DEF BooksOK

(* Some first rows of a file. *)
LEMMA IdsOfPrefix ==
    ASSUME NEW rows \in Seq(Row), NEW next, IdsOK(rows, next), NEW n \in 0..Len(rows)
    PROVE  IdsOK(SubSeq(rows, 1, n), next)
<1> DEFINE cut == SubSeq(rows, 1, n)
<1>1. /\ DOMAIN rows = 1..Len(rows) /\ Len(rows) \in Nat /\ n \in Nat /\ n <= Len(rows)
      /\ cut \in Seq(Row) /\ Len(cut) = n /\ \A i \in 1..n : cut[i] = rows[i]
  BY SubSeqProperties
<1>2. DOMAIN cut = 1..n /\ \A i \in DOMAIN cut : i \in DOMAIN rows /\ cut[i] = rows[i]
  BY <1>1
<1> HIDE DEF cut
<1>3. \A i \in OpenRows(cut) : i \in OpenRows(rows) /\ cut[i] = rows[i]
  BY <1>2 DEF OpenRows
<1>4. IdsOK(cut, next)
  BY <1>2, <1>3 DEF IdsOK
<1> QED
  BY <1>4 DEF cut

LEMMA BeginCycleBooks == ASSUME IInv, BooksOK, BeginCycle PROVE BooksOK'
<1> USE DEF BeginCycle, book, disk, scripts, bounded, history
<1>1. /\ pass = EmptyPass /\ pass' = EmptyPass
      /\ pc \notin Saving \union {"exited"} /\ pc' \notin Saving \union {"exited"}
  BY DEF BooksOK, PnlOK, StartPass, Passing, Saving
<1>2. EmptyPass.closed = 0 /\ EmptyPass.pnl = 0
  BY DEF EmptyPass
<1>3. journal' = file /\ UNCHANGED <<file, nextId, sent, earned, cuts>>
  OBVIOUS
<1>4. Pnl(file) \in Int
  BY PnlType DEF IInv, TypeOK, SharedOK
<1>5. ClosedOnce' /\ ClosesOK'
  BY <1>1, <1>2, <1>3 DEF BooksOK, ClosedOnce, ClosesOK
<1>6. PnlOK'
  BY <1>1, <1>2, <1>3, <1>4 DEF BooksOK, PnlOK
<1> QED
  BY <1>3, <1>5, <1>6 DEF BooksOK

LEMMA CloseZombieBooks == ASSUME IInv, BooksOK, NEW i, CloseZombie(i) PROVE BooksOK'
<1>1. i \in OpenRows(journal) /\ i \in DOMAIN journal /\ journal \in Seq(Row) /\ journal[i] \in Row
  BY TodoRow DEF CloseZombie, Looking, IInv, TypeOK, CycleOK
<1> DEFINE new == MarkGone(journal[i])
<1>2. new \in Row /\ new.id = journal[i].id /\ new.status = "CLOSED" /\ new.pnl = journal[i].pnl
  BY <1>1, ClosedRow, 0 \in Int, Zenon DEF MarkGone, Row
<1>3. journal[i].pnl = Blank
  BY <1>1 DEF BooksOK, IdsOK
<1>4. /\ journal' = [journal EXCEPT ![i] = new]
      /\ UNCHANGED <<file, nextId, sent, earned, cuts, pass, pc>>
  BY DEF CloseZombie, book, disk, bounded, history
<1> HIDE DEF new
<1>5. IdsOK(journal', nextId) /\ LiveIds(journal') \subseteq LiveIds(journal)
  <2>1. IdsOK(journal, nextId)
    BY DEF BooksOK
  <2>2. IdsOK(journal', nextId) /\ LiveIds(journal') = LiveIds(journal) \ {journal[i].id}
    BY <1>1, <1>2, <1>4, <2>1, IdsOfClosed, Zenon
  <2> QED
    BY <2>2
<1>6. Pnl(journal') = Pnl(journal) /\ Pnl(journal) \in Int
  <2>1. Pnl(journal') = Pnl(journal) + (IF new.pnl = Blank THEN 0 ELSE new.pnl)
    BY <1>1, <1>2, <1>3, <1>4, PnlOfClosed, Zenon
  <2> QED
    BY <1>1, <1>2, <1>3, <2>1, PnlType
<1>7. ClosedOnce' /\ ClosesOK'
  BY <1>4, <1>5 DEF BooksOK, ClosedOnce, ClosesOK, Holding
<1>8. PnlOK'
  BY <1>4, <1>6 DEF BooksOK, PnlOK, Holding
<1> QED
  BY <1>4, <1>5, <1>7, <1>8 DEF BooksOK

(* A close that goes through: the row is live in the journal no more. *)
LEMMA CloseFilledBooks == ASSUME IInv, BooksOK, CloseFilled PROVE BooksOK'
<1> DEFINE row == journal[order.row]
           pnl == Direction(row.side) * move[row.code] * order.qty
           new == MarkClosed(row, pnl)
<1>1. order # NoOrder /\ FillOrder
  BY DEF CloseFilled
<1>2. /\ order.row \in todo /\ order.row \in DOMAIN journal /\ row \in Row
      /\ pc \in {"exits", "flatten"} /\ pnl \in Int
  BY <1>1, OrderFacts DEF Direction
<1>3. journal \in Seq(Row) /\ order.row \in OpenRows(journal) /\ row.pnl = Blank
  BY <1>2 DEF IInv, TypeOK, CycleOK, BooksOK, IdsOK
<1>4. /\ journal' = [journal EXCEPT ![order.row] = new]
      /\ pass' = [pnl |-> pass.pnl + pnl, closed |-> pass.closed + 1]
      /\ earned' = earned + pnl
      /\ sent' = [sent EXCEPT ![row.id] = @ + 1]
      /\ UNCHANGED <<file, pc, nextId, cuts>>
  BY <1>1 DEF CloseFilled, FillOrder, disk, bounded
<1> HIDE DEF pnl
<1>5. new \in Row /\ new.id = row.id /\ new.status = "CLOSED" /\ new.pnl = pnl
  BY <1>2, ClosedRow, Zenon DEF MarkClosed, Row
<1> HIDE DEF new
<1>6. IdsOK(journal', nextId) /\ LiveIds(journal') = LiveIds(journal) \ {row.id}
  BY <1>3, <1>4, <1>5, IdsOfClosed DEF BooksOK
<1>7. Pnl(journal') = Pnl(journal) + pnl /\ Pnl(journal) \in Int /\ Pnl(file) \in Int
  <2>1. pnl # Blank
    BY <1>2, Zenon, TradeBookAssumption
  <2> QED
    BY <1>2, <1>3, <1>4, <1>5, <2>1, PnlOfClosed, PnlType DEF IInv, TypeOK, SharedOK
<1>8. /\ sent \in [1..MaxRows -> Nat] /\ cuts \in Nat /\ earned \in Int
      /\ pass \in [pnl : Int, closed : Nat] /\ row.id < nextId /\ row.id \in Nat /\ nextId \in Nat
  BY <1>2, TodoRow DEF IInv, TypeOK, SharedOK, CycleOK, BooksOK, IdsOK
<1>9. \A i \in 1..MaxRows : sent'[i] = IF i = row.id THEN sent[i] + 1 ELSE sent[i]
  BY <1>4, <1>8
<1>10. row.id \in 1..MaxRows => sent[row.id] <= cuts
  BY <1>2, <1>3 DEF BooksOK, ClosesOK, LiveIds, Holding
<1>11. ClosedOnce'
  BY <1>4, <1>8, <1>9, <1>10 DEF BooksOK, ClosedOnce
<1>12. ClosesOK'
  <2>1. \A i \in 1..MaxRows : i >= nextId' => sent'[i] = 0
    BY <1>4, <1>8, <1>9 DEF BooksOK, ClosesOK
  <2>2. \A i \in LiveIds(journal') : sent'[i] <= cuts'
    <3>1. \A i \in LiveIds(journal) : i \in 1..MaxRows /\ sent[i] <= cuts
      BY <1>2 DEF BooksOK, ClosesOK, Holding, LiveIds
    <3> QED
      BY <1>4, <1>6, <1>9, <3>1
  <2>3. pass'.closed # 0
    BY <1>4, <1>8
  <2> QED
    BY <2>1, <2>2, <2>3 DEF ClosesOK
<1>13. PnlOK'
  <2>1. pass'.closed # 0 /\ pass'.pnl = pass.pnl + pnl /\ pass.pnl \in Int
    BY <1>4, <1>8
  <2>2. cuts' = 0 => Pnl(file') + pass'.pnl = earned'
    <3>1. cuts = 0 => Pnl(file) + pass.pnl = earned
      BY <1>2 DEF BooksOK, PnlOK, Saving
    <3>2. Pnl(file') = Pnl(file) /\ cuts' = cuts /\ earned' = earned + pnl
      BY <1>4
    <3> QED
      BY <1>2, <1>7, <1>8, <2>1, <3>1, <3>2
  <2>3. cuts' = 0 => Pnl(journal') = earned'
    BY <1>2, <1>4, <1>7 DEF BooksOK, PnlOK, Holding
  <2> QED
    BY <1>2, <1>4, <2>1, <2>2, <2>3 DEF PnlOK, Passing
<1> QED
  BY <1>4, <1>6, <1>11, <1>12, <1>13 DEF BooksOK

(* A fill whose answer is lost leaves its row live, but work was cut short. *)
LEMMA AnswerLostBooks == ASSUME IInv, BooksOK, AnswerLost PROVE BooksOK'
<1> DEFINE row == journal[order.row]
<1>1. order # NoOrder /\ FillOrder
  BY DEF AnswerLost
<1>2. /\ order.row \in todo /\ order.row \in DOMAIN journal /\ row \in Row /\ pc \in {"exits", "flatten"}
  BY <1>1, OrderFacts
<1>3. order.row \in OpenRows(journal)
  BY <1>2 DEF IInv, TypeOK, CycleOK
<1>4. /\ sent' = [sent EXCEPT ![row.id] = @ + 1] /\ cuts' = cuts + 1
      /\ UNCHANGED <<file, journal, pc, pass, nextId, earned>>
  BY <1>1 DEF AnswerLost, FillOrder, MayCut, disk
<1>5. /\ sent \in [1..MaxRows -> Nat] /\ cuts \in Nat
      /\ row.id < nextId /\ row.id \in Nat /\ nextId \in Nat
  BY <1>2, TodoRow DEF IInv, TypeOK, SharedOK, BooksOK, IdsOK
<1>6. \A i \in 1..MaxRows : sent'[i] = IF i = row.id THEN sent[i] + 1 ELSE sent[i]
  BY <1>4, <1>5
<1>7. row.id \in 1..MaxRows => sent[row.id] <= cuts
  BY <1>2, <1>3 DEF BooksOK, ClosesOK, LiveIds, Holding
<1>8. \A i \in 1..MaxRows : sent[i] <= 1 + cuts
  BY DEF BooksOK, ClosedOnce
<1>9. \A i \in 1..MaxRows : sent'[i] <= cuts'
  BY <1>4, <1>5, <1>6, <1>7, <1>8
<1>10. ClosedOnce' /\ ClosesOK'
  <2>1. \A i \in 1..MaxRows : sent'[i] <= 1 + cuts'
    BY <1>4, <1>5, <1>8, <1>9
  <2>2. \A i \in 1..MaxRows : i >= nextId' => sent'[i] = 0
    BY <1>4, <1>5, <1>6 DEF BooksOK, ClosesOK
  <2> QED
    BY <1>9, <2>1, <2>2 DEF ClosedOnce, ClosesOK, LiveIds
<1>11. PnlOK'
  BY <1>4, <1>5 DEF BooksOK, PnlOK
<1> QED
  BY <1>4, <1>10, <1>11 DEF BooksOK

(* The saves of the exits, and the flatten with its save. *)
LEMMA SaveBooks ==
    ASSUME IInv, BooksOK, EndExits \/ SaveExits \/ Resave \/ ResaveExits \/ SaveFlatten
    PROVE  BooksOK'
<1> USE DEF bounded, history
<1>1. CASE EndExits \/ Resave
  <2>1. PICK step \in Saving : OpenSave(step) /\ pc \in Holding
    BY <1>1 DEF EndExits, Resave, Saving, Holding
  <2> QED
    BY <1>1, <2>1, BooksOpened DEF EndExits, Resave
<1>2. CASE SaveExits \/ ResaveExits \/ SaveFlatten
  <2>1. file' = journal /\ pc \in Holding /\ UNCHANGED <<nextId, sent, earned, cuts>>
    BY <1>2 DEF SaveExits, ResaveExits, SaveFlatten, CloseSave, Holding, Saving
  <2>2. \/ pass' = EmptyPass /\ pc' \notin Saving
        \/ pass' = pass /\ pc' = "exited"
    BY <1>2 DEF SaveExits, ResaveExits, SaveFlatten, CountExits, CountFlatten, GoIdle, Saving
  <2>3. journal' \in {journal, <<>>} /\ (pc' \in Holding => journal' = journal)
    BY <1>2 DEF SaveExits, ResaveExits, SaveFlatten, CountExits, GoIdle, Holding, Saving
  <2> QED
    BY <2>1, <2>2, <2>3, BooksSaved
<1> QED
  BY <1>1, <1>2

LEMMA EndFlattenBooks == ASSUME IInv, BooksOK, EndFlatten PROVE BooksOK'
<1>1. /\ pc = "flatten" /\ journal' = journal /\ UNCHANGED <<nextId, sent, earned, cuts>>
  BY DEF EndFlatten, bounded, history
<1>2. CASE FlattenSaved
  <2>1. "flattenSave" \in Saving /\ pc \in Holding
    BY <1>1 DEF Saving, Holding
  <2> QED
    BY <1>1, <1>2, <2>1, BooksOpened DEF EndFlatten
<1>3. CASE ~FlattenSaved
  <2>1. /\ file' = file /\ pc' = "account" /\ pass' = EmptyPass
        /\ pass.closed = 0 /\ pass.pnl = 0
    BY <1>3 DEF EndFlatten, FlattenSaved, CountFlatten, disk, IInv, TypeOK, CycleOK, BooksOK, PnlOK
  <2>2. EmptyPass.closed = 0 /\ EmptyPass.pnl = 0
    BY DEF EmptyPass
  <2>3. ClosedOnce' /\ ClosesOK'
    BY <1>1, <2>1, <2>2 DEF BooksOK, ClosedOnce, ClosesOK, Holding, Saving
  <2>4. PnlOK'
    BY <1>1, <2>1, <2>2 DEF BooksOK, PnlOK, Holding, Saving
  <2> QED
    BY <1>1, <2>1, <2>3, <2>4 DEF BooksOK
<1> QED
  BY <1>2, <1>3

LEMMA ScanBooks == ASSUME IInv, BooksOK, Scan PROVE BooksOK'
<1> USE DEF Scan, book, disk, bounded, history
<1>1. /\ UNCHANGED <<file, nextId, sent, earned, cuts>> /\ pc = "account"
      /\ pc \notin Holding /\ pc \notin Passing /\ pass = EmptyPass
  BY DEF BooksOK, PnlOK, Holding, Saving, Passing
<1>2. CASE OsImported
  <2>1. journal' = file /\ pc' = "scan" /\ pass' = pass
    BY <1>2
  <2>2. ClosedOnce' /\ ClosesOK' /\ PnlOK'
    BY <1>1, <2>1 DEF BooksOK, ClosedOnce, ClosesOK, PnlOK, Holding, Saving
  <2> QED
    BY <1>1, <2>1, <2>2 DEF BooksOK
<1>3. CASE ~ OsImported
  BY <1>1, <1>3, BooksIdle DEF BooksOK
<1> QED
  BY <1>2, <1>3

(* New rows get the next ids and have been closed by nobody. *)
LEMMA BooksGrow ==
    ASSUME IInv, BooksOK, file' \in Seq(Row), nextId' \in Nat, nextId' >= nextId,
           Grown(file, file'),
           \A i, j \in DOMAIN file' \ DOMAIN file : file'[i].id = file'[j].id => i = j,
           \A i \in DOMAIN file' \ DOMAIN file : nextId <= file'[i].id /\ file'[i].id < nextId',
           UNCHANGED <<journal, pc, sent, cuts, pass, earned>>
    PROVE  BooksOK'
<1>1. /\ file \in Seq(Row) /\ DOMAIN file = 1..Len(file) /\ DOMAIN file' = 1..Len(file')
      /\ Len(file) \in Nat /\ Len(file') \in Nat /\ nextId \in Nat /\ cuts \in Nat
  BY DEF IInv, TypeOK, SharedOK
<1>2. \A i \in DOMAIN file : file'[i] = file[i] /\ file[i].id < nextId /\ file[i].id \in Nat
  <2>1. \A i \in DOMAIN file : file[i] \in Row
    BY <1>1
  <2>2. \A r \in Row : r.id \in Nat
    BY DEF Row
  <2> QED
    BY <2>1, <2>2 DEF BooksOK, IdsOK, Grown
<1>3. \A i \in DOMAIN file' \ DOMAIN file : file'[i].id \in Nat /\ file'[i].id >= nextId
  <2>1. \A i \in DOMAIN file' : file'[i] \in Row
    BY <1>1
  <2>2. \A r \in Row : r.id \in Nat
    BY DEF Row
  <2> QED
    BY <2>1, <2>2
<1>4. IdsOK(file', nextId')
  <2>1. ASSUME NEW i \in DOMAIN file', NEW j \in DOMAIN file', file'[i].id = file'[j].id
        PROVE  i = j
    <3>1. CASE i \in DOMAIN file /\ j \in DOMAIN file
      BY <2>1, <3>1, <1>2 DEF BooksOK, IdsOK
    <3>2. CASE i \in DOMAIN file /\ j \notin DOMAIN file
      BY <2>1, <3>2, <1>1, <1>2, <1>3
    <3>3. CASE i \notin DOMAIN file /\ j \in DOMAIN file
      BY <2>1, <3>3, <1>1, <1>2, <1>3
    <3>4. CASE i \notin DOMAIN file /\ j \notin DOMAIN file
      BY <2>1, <3>4, <1>1
    <3> QED
      BY <3>1, <3>2, <3>3, <3>4
  <2>2. \A i \in DOMAIN file' : file'[i].id < nextId'
    BY <1>1, <1>2
  <2>3. \A i \in OpenRows(file') : file'[i].pnl = Blank
    BY <1>2 DEF BooksOK, IdsOK, OpenRows, Grown
  <2> QED
    BY <2>1, <2>2, <2>3 DEF IdsOK
<1>5. IdsOK(journal', nextId')
  <2>1. \A i \in DOMAIN journal : journal[i].id < nextId /\ journal[i].id \in Nat
    <3>1. \A i \in DOMAIN journal : journal[i] \in Row
      BY DEF IInv, TypeOK, CycleOK
    <3>2. \A r \in Row : r.id \in Nat
      BY DEF Row
    <3> QED
      BY <3>1, <3>2 DEF BooksOK, IdsOK
  <2> QED
    BY <1>1, <2>1 DEF BooksOK, IdsOK, OpenRows
<1>6. \A k \in LiveIds(file') : k \in LiveIds(file) \/ k >= nextId
  BY <1>2, <1>3 DEF LiveIds, OpenRows
<1>7. ClosedOnce' /\ ClosesOK'
  <2>1. \A k \in 1..MaxRows : k >= nextId' => sent[k] = 0
    <3>1. MaxRows \in Int
      <4>1. MaxRows \in Nat
        BY Zenon, TradeBookAssumption
      <4> QED
        BY <4>1
    <3> QED
      BY <1>1, <3>1 DEF BooksOK, ClosesOK
  <2>2. pass.closed = 0 => \A k \in LiveIds(file') : sent[k] <= cuts
    BY <1>1, <1>6 DEF BooksOK, ClosesOK, LiveIds
  <2> QED
    BY <2>1, <2>2 DEF BooksOK, ClosedOnce, ClosesOK
<1>8. PnlOK'
  <2>1. Pnl(file') = Pnl(file)
    BY <1>1, PnlOfGrown
  <2> QED
    BY <2>1 DEF BooksOK, PnlOK
<1> QED
  BY <1>4, <1>5, <1>7, <1>8 DEF BooksOK

LEMMA AppendTradeBooks == ASSUME IInv, BooksOK, AppendTrade PROVE BooksOK'
<1> DEFINE new == NewRow(nextId, "bot", entry.code, entry.held)
<1>1. nextId \in Nat /\ file \in Seq(Row) /\ new \in Row /\ new.pnl = Blank /\ new.id = nextId
  BY AppendTradeFile DEF NewRow
<1>2. nextId' = nextId + 1 /\ UNCHANGED <<journal, pc, sent, cuts, pass, earned>>
  BY DEF AppendTrade, bounded
<1>3. CASE file' = Append(file, new)
  <2> HIDE DEF new
  <2>1. /\ file' \in Seq(Row) /\ Len(file') = Len(file) + 1 /\ Len(file) \in Nat
        /\ \A i \in 1..Len(file) : file'[i] = file[i]
        /\ file'[Len(file) + 1] = new
    BY <1>1, <1>3, AppendProperties
  <2>2. DOMAIN file = 1..Len(file) /\ DOMAIN file' = 1..(Len(file) + 1)
    BY <1>1, <2>1
  <2>3. \A i \in DOMAIN file' \ DOMAIN file : i = Len(file) + 1
    BY <2>1, <2>2
  <2>4. Grown(file, file')
    BY <1>1, <2>1, <2>2, <2>3 DEF Grown
  <2> QED
    BY <1>1, <1>2, <2>1, <2>3, <2>4, BooksGrow
<1>4. CASE file' = file
  <2>1. Grown(file, file')
    BY <1>4 DEF Grown
  <2> QED
    BY <1>1, <1>2, <1>4, <2>1, BooksGrow
<1> QED
  BY <1>3, <1>4, AppendTradeFile

LEMMA AdoptWriteBooks == ASSUME IInv, BooksOK, AdoptWrite PROVE BooksOK'
<1>1. UNCHANGED <<journal, pc, sent, cuts, pass, earned>>
  BY DEF AdoptWrite, cycle, bounded
<1>2. nextId' \in Nat
  BY AdoptWriteFile
<1> QED
  BY <1>1, <1>2, AdoptWriteFile, BooksGrow

LEMMA TraderBooks == ASSUME IInv, BooksOK, Trader PROVE BooksOK'
<1> USE DEF book, disk, scripts, bounded, history
<1>1. ASSUME NEW i \in 1..MaxRows, SkipRow(i) \/ SendClose(i) \/ SendBlind(i)
      PROVE  BooksOK'
  <2>1. UNCHANGED <<file, journal, nextId, sent, earned, cuts, pass, pc>> /\ pc \in {"exits", "flatten"}
    BY <1>1 DEF SkipRow, SendClose, SendBlind, SendOrder, Looking
  <2> QED
    BY <2>1, BooksAlone DEF Passing
<1>2. ASSUME NEW i \in 1..MaxRows, CloseZombie(i)
      PROVE  BooksOK'
  BY <1>2, CloseZombieBooks
<1>3. CASE CloseRefused
  <2>1. pc \in {"exits", "flatten"}
    BY <1>3, OrderFacts DEF CloseRefused
  <2> QED
    BY <1>3, <2>1, BooksAlone DEF CloseRefused, Passing
<1>4. CASE StartFlatten
  <2>1. pass = EmptyPass /\ pass' = EmptyPass
    BY <1>4 DEF StartFlatten, StartPass, BooksOK, PnlOK, Passing, Saving
  <2> QED
    BY <1>4, <2>1, BooksAlone DEF StartFlatten, Holding, Saving
<1>5. CASE NoFlatten
  <2>1. pass = EmptyPass
    BY <1>5 DEF NoFlatten, BooksOK, PnlOK, Passing, Saving
  <2> QED
    BY <1>5, <2>1, BooksAlone DEF NoFlatten, Holding, Saving
<1>6. CASE ReturnEarly
  <2>1. pc \notin Holding /\ IdsOK(file', nextId) /\ UNCHANGED <<file, cuts, earned, nextId, sent>>
    BY <1>6 DEF ReturnEarly, BooksOK, Holding, Saving
  <2> QED
    BY <1>6, <2>1, BooksIdle DEF ReturnEarly
<1>7. CASE EndCycle
  <2>1. pc \notin Holding /\ IdsOK(file', nextId) /\ UNCHANGED <<file, cuts, earned, nextId, sent>>
    BY <1>7 DEF EndCycle, BooksOK, Holding, Saving
  <2> QED
    BY <1>7, <2>1, BooksIdle DEF EndCycle
<1>8. ASSUME NEW c \in Codes, NEW held \in {-1, 1}, Enter(c, held)
      PROVE  BooksOK'
  <2>1. pass = EmptyPass
    BY <1>8 DEF Enter, BooksOK, PnlOK, Passing, Saving
  <2> QED
    BY <1>8, <2>1, BooksAlone DEF Enter
<1> QED
  BY <1>1, <1>2, <1>3, <1>4, <1>5, <1>6, <1>7, <1>8, BeginCycleBooks, CloseFilledBooks,
     SaveBooks, EndFlattenBooks, ScanBooks, AppendTradeBooks DEF Trader

(* What a cut save leaves has ids of its own. *)
LEMMA CutSaveIds == ASSUME IInv, BooksOK, CutSave PROVE IdsOK(file', nextId)
<1>1. IdsOK(file, nextId) /\ IdsOK(journal, nextId) /\ journal \in Seq(Row)
  BY DEF BooksOK, IInv, TypeOK, CycleOK
<1> QED
  BY <1>1, CutSaveFile, IdsOfPrefix

LEMMA OthersBooks == ASSUME IInv, BooksOK, Scripts \/ World \/ UNCHANGED vars PROVE BooksOK'
<1> USE DEF book, disk, bounded, history
<1>1. CASE UNCHANGED <<file, cycle, bounded, history>>
  BY <1>1, BooksAlone DEF cycle, BooksOK, PnlOK
<1>2. CASE Scripts
  <2>1. CASE AdoptWrite
    BY <2>1, AdoptWriteBooks
  <2>2. CASE ~ AdoptWrite
    <3>1. UNCHANGED <<file, cycle, bounded, history>>
      BY <1>2, <2>2 DEF Scripts, AdoptPlan, CoverPlan, CoverFilled, CoverStops
    <3> QED
      BY <1>1, <3>1
  <2> QED
    BY <2>1, <2>2
<1>3. CASE Crash
  BY <1>3, CutSaveIds, BooksIdle DEF Crash, MayCut
<1>4. CASE CycleRaises
  BY <1>4, CutSaveIds, BooksIdle DEF CycleRaises, MayCut
<1>5. ASSUME NEW c \in Codes, NEW held \in Positions, TradeOutside(c, held)
      PROVE  BooksOK'
  BY <1>5, BooksAlone DEF TradeOutside, cycle, BooksOK, PnlOK
<1>6. CASE World
  BY <1>3, <1>4, <1>5, <1>6, AnswerLostBooks DEF World
<1>7. CASE UNCHANGED vars
  BY <1>1, <1>7 DEF vars
<1> QED
  BY <1>2, <1>6, <1>7

LEMMA BooksInvariance == Spec => []BooksOK
<1>1. Init => BooksOK
  BY InitBooks
<1>2. IInv /\ BooksOK /\ [Next]_vars => BooksOK'
  BY TraderBooks, OthersBooks DEF Next
<1> QED
  BY <1>1, <1>2, Invariance, PTL DEF Spec

(* No row is closed at the broker twice but for a kill, an exception or a    *)
(* lost answer, however the cycle overlaps with the two scripts: what is     *)
(* still open in the journal was never closed, and what the file still has   *)
(* open is written over before the file is read again.                       *)
THEOREM RowsCloseOnce == Spec => []ClosedOnce
<1>1. BooksOK => ClosedOnce
  BY DEF BooksOK
<1> QED
  BY <1>1, BooksInvariance, PTL

(* Every pnl realized is in the file when the cycle ends, whatever rows the  *)
(* scripts add meanwhile, for every number of rows and every price.          *)
THEOREM PnlIsBooked == Spec => []PnlBooked
<1>1. IInv /\ BooksOK => PnlBooked
  <2> SUFFICES ASSUME IInv, BooksOK, pc = "idle", cuts = 0
               PROVE  Pnl(file) = earned
    BY DEF PnlBooked
  <2>1. pass = EmptyPass /\ Pnl(file) + pass.pnl = earned
    BY DEF BooksOK, PnlOK, Passing, Saving
  <2>2. Pnl(file) \in Int
    BY PnlType DEF IInv, TypeOK, SharedOK
  <2> QED
    BY <2>1, <2>2 DEF EmptyPass
<1> QED
  BY <1>1, Invariance, BooksInvariance, PTL

-----------------------------------------------------------------------------
(***************************************************************************)
(* PositionLife, for any prices, bars, calendars, theses and days: a winner *)
(* never turns into a loser, and a position whose thesis is on file is held *)
(* as long as its class says.                                              *)
(***************************************************************************)

(* A stop that a pass saw rise to the entry belongs to a long position. *)
WonIsLong == position # NoRow /\ position.won => position.dir = "LONG"

(* While the adopting script is logging, its thesis is owed, and it is the   *)
(* one it logs.                                                              *)
AdopterOwes ==
    writer["adopt"] # Idle => owed = "now" /\ writer["adopt"].new = Adopted

(* Once the thesis of the row was logged, the thesis logged last is no older *)
(* than the row.                                                             *)
ThesisNoOlder ==
    position # NoRow /\ owed = "no" => due # NoThesis /\ due.days <= position.days

LifeInv == LifeTypeOK /\ WonIsLong /\ WinnerProtected /\ AdopterOwes /\ ThesisNoOlder

-----------------------------------------------------------------------------
(* The bounds are numbers, and what stands for the absence of a thesis, of a *)
(* row and of a script's work is not one.                                    *)
LEMMA MaxOfTwo ==
    ASSUME NEW a \in Int, NEW b \in Int
    PROVE  Max({a, b}) \in {a, b} /\ Max({a, b}) >= a /\ Max({a, b}) >= b
<1>1. \E x \in {a, b} : \A y \in {a, b} : x >= y
  OBVIOUS
<1> QED
  BY <1>1 DEF Max

LEMMA MaxOfThree ==
    ASSUME NEW a \in Int, NEW b \in Int, NEW c \in Int
    PROVE  /\ Max({a, b, c}) \in {a, b, c}
           /\ Max({a, b, c}) >= a /\ Max({a, b, c}) >= b /\ Max({a, b, c}) >= c
<1>1. \E x \in {a, b, c} : \A y \in {a, b, c} : x >= y
  OBVIOUS
<1> QED
  BY <1>1 DEF Max

LEMMA BoundsAreNumbers ==
    /\ MaxDays \in Nat \ {0} /\ MinHoldDays \in Nat \ {0}
    /\ Band \in Nat \ {0} /\ Band < Entry
<1> DEFINE bounds == {Band, StaleDays, MaxDays, MinHoldDays}
<1>1. bounds \subseteq Nat \ {0} /\ Band < Entry
  BY RulesAssumption
<1>2. MaxDays \in bounds /\ MinHoldDays \in bounds /\ Band \in bounds
  OBVIOUS
<1> HIDE DEF bounds
<1> QED
  BY <1>1, <1>2

LEMMA AgesAreBounded == MaxAge \in Nat /\ MaxAge >= MinHoldDays /\ MaxAge >= 1
<1>1. MaxDays \in Int /\ MinHoldDays \in Int
  BY BoundsAreNumbers
<1>2. Max({MaxDays, MinHoldDays}) \in {MaxDays, MinHoldDays} /\ Max({MaxDays, MinHoldDays}) >= MinHoldDays
  BY <1>1, MaxOfTwo
<1> QED
  BY <1>2, BoundsAreNumbers DEF MaxAge

LEMMA AbsenceIsNothing ==
    /\ NoRow \notin Rows
    /\ Idle \notin Writing
    /\ NoThesis \notin AgedTheses /\ Garbled \notin MaybeThesis
    /\ NoThesis \notin Theses /\ Theses \subseteq AgedTheses
<1>1. NoRow \notin Rows /\ Idle \notin Writing
  BY DEF NoRow, Rows, Idle, Writing
<1>2. AgedTheses \subseteq [quality : BOOLEAN, horizon : Nat, days : 0..MaxAge]
  BY LifeAssumption, AgesAreBounded DEF AgedTheses
<1>3. Theses \subseteq AgedTheses
  <2> SUFFICES ASSUME NEW t \in Theses
               PROVE  t \in AgedTheses
    OBVIOUS
  <2>1. t = [t EXCEPT !.days = 0]
    BY LifeAssumption
  <2> QED
    BY <2>1, AgesAreBounded DEF AgedTheses
<1> QED
  BY <1>1, <1>2, <1>3, LifeAssumption, AgesAreBounded DEF MaybeThesis

(* A day more is a day more for a thesis and for a row, up to the same age. *)
LEMMA ThesisAges ==
    ASSUME NEW t \in AgedTheses
    PROVE  /\ Aged(t) \in AgedTheses
           /\ t.days \in 0..MaxAge
           /\ Aged(t).days = IF t.days < MaxAge THEN t.days + 1 ELSE t.days
<1>1. PICK u \in Theses, d \in 0..MaxAge : t = [u EXCEPT !.days = d]
  BY DEF AgedTheses
<1>2. u \in [quality : BOOLEAN, horizon : Nat, days : {0}]
  BY LifeAssumption
<1>3. t.days = d
  BY <1>1, <1>2
<1>4. PICK e \in 0..MaxAge : e = IF d < MaxAge THEN d + 1 ELSE d
  BY AgesAreBounded
<1>5. Aged(t) = [u EXCEPT !.days = e]
  BY <1>1, <1>2, <1>3, <1>4 DEF Aged
<1>6. Aged(t).days = e
  BY <1>2, <1>5
<1> QED
  BY <1>3, <1>4, <1>5, <1>6 DEF AgedTheses

LEMMA RowAges ==
    ASSUME NEW r \in Rows
    PROVE  /\ Aged(r) \in Rows
           /\ Aged(r).days = IF r.days < MaxAge THEN r.days + 1 ELSE r.days
           /\ Aged(r).dir = r.dir /\ Aged(r).stop = r.stop /\ Aged(r).won = r.won
  BY AgesAreBounded DEF Rows, Aged

-----------------------------------------------------------------------------
(* The stops                                                                 *)

(* The trail of a long position only goes up, and stops are prices. *)
LEMMA TrailRises ==
    ASSUME NEW dir \in {"LONG", "SHORT"}, NEW px \in Prices, NEW stop \in Nat
    PROVE  /\ AtrTrail(dir, px, stop) \in Nat
           /\ dir = "LONG" => AtrTrail(dir, px, stop) >= stop
<1>1. px \in Nat /\ Range0 \in Nat
  BY LifeAssumption, BoundsAreNumbers DEF Range0
<1>2. CASE dir = "LONG"
  BY <1>1, <1>2 DEF AtrTrail, AtrStop, Tighter, Gain, Entry, None
<1>3. CASE dir = "SHORT"
  BY <1>1, <1>3 DEF AtrTrail, AtrStop, Tighter, Gain, Entry, None
<1> QED
  BY <1>2, <1>3

(* The advice of the profit layer: a stop it raises is a price, and a        *)
(* position 1.5 per cent up that it does not sell is left with a stop at the *)
(* entry or above.                                                           *)
LEMMA AdviceProtects ==
    ASSUME NEW px \in Prices, NEW stop \in Nat, NEW advice \in Advice(px, stop)
    PROVE  /\ advice.stop \in Nat
           /\ advice.exit \in BOOLEAN
           /\ Gain(px) >= 15 /\ ~ advice.exit => advice.stop >= Entry \/ stop >= Entry
<1>1. PICK target, level, sig, days : advice = EvaluateExit(px, stop, target, level, sig, days)
  BY DEF Advice
<1> DEFINE rung  == Ladder(Gain(px))
           floor == Max({rung, stop, Entry})
<1>2. px \in Nat
  BY LifeAssumption
<1>3. /\ Gain(px) \in Int
      /\ rung \in Nat
      /\ Gain(px) >= 15 => rung >= Entry
  BY <1>2 DEF Gain, Ladder, Entry, None
<1>4. floor \in Nat /\ floor >= Entry
  <2>1. Entry \in Nat /\ Entry \in Int /\ rung \in Int /\ stop \in Int
    BY <1>3 DEF Entry
  <2>2. floor \in {rung, stop, Entry} /\ floor >= Entry
    BY <2>1, MaxOfThree, Zenon
  <2> QED
    BY <1>3, <2>1, <2>2
<1>5. advice \in {Sell, Raise(floor), Raise(rung), Hold}
  BY <1>1 DEF EvaluateExit, Trim
<1>6. advice = Hold => ~ (rung > stop)
  BY <1>1, <1>3, <1>4 DEF EvaluateExit, Trim, Hold, Raise, Sell, None, Entry
<1> HIDE DEF rung, floor
<1>7. CASE advice = Sell
  BY <1>7 DEF Sell, None
<1>8. CASE advice = Raise(floor)
  BY <1>8, <1>4 DEF Raise
<1>9. CASE advice = Raise(rung)
  BY <1>9, <1>3 DEF Raise
<1>10. CASE advice = Hold
  BY <1>10, <1>3, <1>6 DEF Hold, Raise, None, Entry
<1> QED
  BY <1>5, <1>7, <1>8, <1>9, <1>10

(* What a pass makes of a row it does not close. *)
LEMMA JudgmentProtects ==
    ASSUME NEW r \in Rows, position = r, price \in Prices, NEW advice \in Advices
    PROVE  /\ Judged(advice).stop \in Nat
           /\ advice.exit \in BOOLEAN
           /\ r.dir = "LONG" => Judged(advice).stop >= r.stop
           /\ r.dir = "LONG" /\ Gain(price) >= 15 /\ ~ advice.exit => Judged(advice).stop >= Entry
<1>1. r.dir \in {"LONG", "SHORT"} /\ r.stop \in Nat
  BY DEF Rows
<1> DEFINE trailed == AtrTrail(r.dir, price, r.stop)
<1>2. trailed \in Nat /\ (r.dir = "LONG" => trailed >= r.stop)
  BY <1>1, TrailRises
<1>3. /\ advice.stop \in Nat
      /\ advice.exit \in BOOLEAN
      /\ r.dir = "LONG" /\ Gain(price) >= 15 /\ ~ advice.exit
            => advice.stop >= Entry \/ trailed >= Entry
  <2>1. CASE r.dir = "LONG"
    BY <2>1, <1>2, AdviceProtects DEF Advices
  <2>2. CASE r.dir # "LONG"
    <3>1. advice = Hold
      BY <2>2 DEF Advices
    <3> QED
      BY <2>2, <3>1 DEF Hold, Raise, None
  <2> QED
    BY <2>1, <2>2
<1>4. Judged(advice).stop = IF ~ advice.exit /\ advice.stop > trailed THEN advice.stop ELSE trailed
  BY DEF Judged
<1> HIDE DEF trailed
<1> QED
  BY <1>1, <1>2, <1>3, <1>4 DEF Entry

-----------------------------------------------------------------------------
(* The invariant                                                             *)

LEMMA LifeInitInv == LifeInit => LifeInv
<1> SUFFICES ASSUME LifeInit
             PROVE  LifeInv
  OBVIOUS
<1> USE DEF LifeInit
<1>1. LifeTypeOK
  BY LifeAssumption DEF LifeTypeOK, MaybeThesis
<1> QED
  BY <1>1 DEF LifeInv, WonIsLong, WinnerProtected, AdopterOwes, ThesisNoOlder, Loggers

LEMMA AdoptInv == ASSUME LifeInv, NEW dir \in {"LONG", "SHORT"}, Adopt(dir) PROVE LifeInv'
<1> USE DEF LifeInv, Adopt
<1>1. AdoptedRow(dir) \in Rows
  BY AgesAreBounded, BoundsAreNumbers DEF AdoptedRow, Rows, FirstStop, Entry
<1>2. LifeTypeOK'
  BY <1>1, LifeAssumption DEF LifeTypeOK
<1>3. ~ position'.won
  BY DEF AdoptedRow
<1> QED
  BY <1>2, <1>3 DEF WonIsLong, WinnerProtected, AdopterOwes, ThesisNoOlder

(* Reading the index gives an entry or none. *)
LEMMA LoadTyped ==
    ASSUME LifeTypeOK, NEW s \in Loggers, NEW new \in Theses \union {NoThesis}, Load(s, new)
    PROVE  /\ writer' \in [Loggers -> Writing \union {Idle}]
           /\ writer'[s].new = new
           /\ \A t \in Loggers : t # s => writer'[t] = writer[t]
<1>1. PICK w : w = [step |-> "loaded", new |-> new,
                    copy |-> IF onFile = Garbled THEN NoThesis ELSE onFile]
  OBVIOUS
<1>2. w \in Writing /\ w.new = new
  BY <1>1 DEF LifeTypeOK, Writing, MaybeThesis
<1>3. writer' = [writer EXCEPT ![s] = w]
  BY <1>1 DEF Load
<1> QED
  BY <1>2, <1>3 DEF LifeTypeOK

LEMMA LogAdoptedInv == ASSUME LifeInv, LogAdopted PROVE LifeInv'
<1> USE DEF LifeInv, LogAdopted
<1>1. Adopted \in Theses \union {NoThesis} /\ "adopt" \in Loggers
  BY LifeAssumption DEF Loggers
<1>2. /\ writer' \in [Loggers -> Writing \union {Idle}]
      /\ writer'["adopt"].new = Adopted
  BY <1>1, LoadTyped
<1>3. LifeTypeOK'
  BY <1>2 DEF LifeTypeOK
<1> QED
  BY <1>2, <1>3 DEF WonIsLong, WinnerProtected, AdopterOwes, ThesisNoOlder

LEMMA LogQueuedInv ==
    ASSUME LifeInv, NEW new \in Theses \union {NoThesis}, LogQueued(new)
    PROVE  LifeInv'
<1> USE DEF LifeInv, LogQueued
<1>1. "queue" \in Loggers /\ "adopt" \in Loggers
  BY DEF Loggers
<1>2. /\ writer' \in [Loggers -> Writing \union {Idle}]
      /\ writer'["adopt"] = writer["adopt"]
  BY <1>1, LoadTyped
<1>3. LifeTypeOK'
  BY <1>2, LifeAssumption DEF LifeTypeOK
<1> QED
  BY <1>2, <1>3 DEF WonIsLong, WinnerProtected, AdopterOwes, ThesisNoOlder

LEMMA EmptyInv == ASSUME LifeInv, NEW s \in Loggers, Empty(s) PROVE LifeInv'
<1> USE DEF LifeInv, Empty
<1>1. writer[s] \in Writing
  BY DEF LifeTypeOK, Idle
<1>2. PICK w : w = [writer[s] EXCEPT !.step = "emptied"]
  OBVIOUS
<1>3. w \in Writing /\ w.new = writer[s].new
  BY <1>1, <1>2 DEF Writing
<1>4. writer' = [writer EXCEPT ![s] = w]
  BY <1>2
<1>5. LifeTypeOK'
  BY <1>3, <1>4 DEF LifeTypeOK
<1>6. AdopterOwes'
  BY <1>1, <1>3, <1>4, AbsenceIsNothing DEF AdopterOwes, LifeTypeOK
<1> QED
  BY <1>5, <1>6 DEF WonIsLong, WinnerProtected, ThesisNoOlder

LEMMA StoreInv == ASSUME LifeInv, NEW s \in Loggers, Store(s) PROVE LifeInv'
<1> USE DEF LifeInv, Store
<1>1. writer[s] \in Writing
  BY DEF LifeTypeOK, Idle
<1>2. /\ writer[s].copy \in MaybeThesis
      /\ writer[s].new \in Theses \union {NoThesis}
  BY <1>1 DEF Writing
<1>3. writer' = [writer EXCEPT ![s] = Idle] /\ writer \in [Loggers -> Writing \union {Idle}]
  BY DEF LifeTypeOK
<1>4. LifeTypeOK'
  BY <1>2, <1>3, AbsenceIsNothing DEF LifeTypeOK, MaybeThesis
<1>5. AdopterOwes'
  BY <1>3 DEF AdopterOwes, Loggers
<1>6. ThesisNoOlder'
  <2> SUFFICES ASSUME position # NoRow, owed' = "no"
               PROVE  due' # NoThesis /\ due'.days <= position.days
    BY DEF ThesisNoOlder
  <2>1. position.days \in Nat
    BY AgesAreBounded DEF LifeTypeOK, Rows
  <2>2. CASE writer[s].new # NoThesis
    <3>1. due' \in Theses /\ due'.days = 0
      BY <2>2, <1>2, LifeAssumption
    <3> QED
      BY <3>1, <2>1, AbsenceIsNothing
  <2>3. CASE writer[s].new = NoThesis
    <3>1. s # "adopt"
      BY <2>3, <1>1, AbsenceIsNothing, LifeAssumption DEF AdopterOwes
    <3>2. owed = "no" /\ due' = due
      BY <2>3, <3>1
    <3> QED
      BY <3>2 DEF ThesisNoOlder
  <2> QED
    BY <2>2, <2>3
<1> QED
  BY <1>4, <1>5, <1>6 DEF WonIsLong, WinnerProtected

LEMMA DieInv == ASSUME LifeInv, NEW s \in Loggers, Die(s) PROVE LifeInv'
<1> USE DEF LifeInv, Die
<1>1. writer' = [writer EXCEPT ![s] = Idle] /\ writer \in [Loggers -> Writing \union {Idle}]
  BY DEF LifeTypeOK
<1>2. LifeTypeOK'
  BY <1>1 DEF LifeTypeOK
<1>3. AdopterOwes'
  BY <1>1 DEF AdopterOwes, Loggers
<1> QED
  BY <1>2, <1>3 DEF WonIsLong, WinnerProtected, ThesisNoOlder

LEMMA PassInv == ASSUME LifeInv, NEW answered \in BOOLEAN, Pass(answered) PROVE LifeInv'
<1> USE DEF LifeInv
<1>1. position \in Rows /\ position # NoRow /\ price \in Prices
  BY DEF Pass, LifeTypeOK
<1>2. PICK advice \in Advices :
        position' = IF Judged(advice).exit /\ Released /\ answered THEN NoRow
               ELSE [position EXCEPT !.stop = Judged(advice).stop,
                                !.won = @ \/ (position.dir = "LONG" /\ Gain(price) >= 15 /\ ~ advice.exit)]
  BY DEF Pass
<1>3. /\ Judged(advice).stop \in Nat
      /\ advice.exit \in BOOLEAN
      /\ position.dir = "LONG" => Judged(advice).stop >= position.stop
      /\ position.dir = "LONG" /\ Gain(price) >= 15 /\ ~ advice.exit => Judged(advice).stop >= Entry
  BY <1>1, JudgmentProtects
<1>4. UNCHANGED <<price, adoptions, onFile, writer, logs, owed, due>>
  BY DEF Pass
<1>5. CASE position' = NoRow
  BY <1>4, <1>5 DEF LifeTypeOK, WonIsLong, WinnerProtected, AdopterOwes, ThesisNoOlder
<1>6. CASE position' # NoRow
  <2>1. PICK stop, won : /\ stop = Judged(advice).stop
                         /\ won = (position.won \/ (position.dir = "LONG" /\ Gain(price) >= 15 /\ ~ advice.exit))
    OBVIOUS
  <2>2. position' = [position EXCEPT !.stop = stop, !.won = won]
    BY <1>2, <1>6, <2>1
  <2>3. stop \in Nat /\ won \in BOOLEAN
    BY <1>1, <1>3, <2>1
  <2>4. /\ position' \in Rows /\ position'.days = position.days /\ position'.dir = position.dir
        /\ position'.stop = stop /\ position'.won = won
    BY <1>1, <2>2, <2>3 DEF Rows
  <2>5. LifeTypeOK'
    BY <1>4, <2>4 DEF LifeTypeOK
  <2>6. won => position.dir = "LONG"
    BY <1>1, <2>1 DEF WonIsLong
  <2>7. won => stop >= Entry
    <3>1. position.stop \in Nat
      BY <1>1 DEF Rows
    <3>2. CASE position.won
      BY <3>1, <3>2, <1>1, <1>3, <2>1 DEF WonIsLong, WinnerProtected, Entry
    <3>3. CASE ~ position.won
      BY <3>3, <1>3, <2>1
    <3> QED
      BY <3>2, <3>3
  <2> QED
    BY <1>1, <1>4, <2>4, <2>5, <2>6, <2>7 DEF WonIsLong, WinnerProtected, AdopterOwes, ThesisNoOlder
<1> QED
  BY <1>5, <1>6

LEMMA TradeInv == ASSUME LifeInv, NEW new \in Prices, Trade(new) PROVE LifeInv'
  BY DEF LifeInv, Trade, LifeTypeOK, WonIsLong, WinnerProtected, AdopterOwes, ThesisNoOlder

LEMMA DayInv == ASSUME LifeInv, Day PROVE LifeInv'
<1> USE DEF LifeInv, Day
<1>1. position # NoRow =>
        /\ position \in Rows /\ position' \in Rows
        /\ position'.days = IF position.days < MaxAge THEN position.days + 1 ELSE position.days
        /\ position'.dir = position.dir /\ position'.stop = position.stop /\ position'.won = position.won
  BY RowAges DEF LifeTypeOK
<1>2. position' # NoRow => position # NoRow
  OBVIOUS
<1>3. due # NoThesis =>
        /\ due \in AgedTheses /\ due' \in AgedTheses /\ due.days \in 0..MaxAge
        /\ due'.days = IF due.days < MaxAge THEN due.days + 1 ELSE due.days
  BY ThesisAges DEF LifeTypeOK, MaybeThesis
<1>4. due = NoThesis => due' = NoThesis
  OBVIOUS
<1>5. onFile' \in MaybeThesis \union {Garbled}
  BY ThesisAges DEF LifeTypeOK, MaybeThesis
<1>6. LifeTypeOK'
  BY <1>1, <1>2, <1>3, <1>4, <1>5 DEF LifeTypeOK, MaybeThesis
<1>7. WonIsLong' /\ WinnerProtected'
  BY <1>1, <1>2 DEF WonIsLong, WinnerProtected
<1>8. AdopterOwes'
  BY DEF AdopterOwes
<1>9. ThesisNoOlder'
  <2> SUFFICES ASSUME position' # NoRow, owed' = "no"
               PROVE  due' # NoThesis /\ due'.days <= position'.days
    BY DEF ThesisNoOlder
  <2>1. due # NoThesis /\ due.days <= position.days
    BY <1>2 DEF ThesisNoOlder
  <2>2. position.days \in 0..MaxAge
    BY <1>1, <1>2 DEF Rows
  <2> QED
    BY <1>1, <1>2, <1>3, <2>1, <2>2, AgesAreBounded, AbsenceIsNothing
<1> QED
  BY <1>6, <1>7, <1>8, <1>9

LEMMA LifeNextInv == LifeInv /\ [LifeNext]_lifeVars => LifeInv'
<1> SUFFICES ASSUME LifeInv, [LifeNext]_lifeVars
             PROVE  LifeInv'
  OBVIOUS
<1>1. CASE UNCHANGED lifeVars
  BY <1>1 DEF lifeVars, LifeInv, LifeTypeOK, WonIsLong, WinnerProtected, AdopterOwes, ThesisNoOlder
<1>2. CASE \E dir \in {"LONG", "SHORT"} : Adopt(dir)
  BY <1>2, AdoptInv
<1>3. CASE LogAdopted
  BY <1>3, LogAdoptedInv
<1>4. CASE \E new \in Theses \union {NoThesis} : LogQueued(new)
  BY <1>4, LogQueuedInv
<1>5. CASE \E s \in Loggers : Empty(s) \/ Store(s) \/ Die(s)
  BY <1>5, EmptyInv, StoreInv, DieInv
<1>6. CASE \E answered \in BOOLEAN : Pass(answered)
  BY <1>6, PassInv
<1>7. CASE \E new \in Prices : Trade(new)
  BY <1>7, TradeInv
<1>8. CASE Day
  BY <1>8, DayInv
<1> QED
  BY <1>1, <1>2, <1>3, <1>4, <1>5, <1>6, <1>7, <1>8 DEF LifeNext

LEMMA LifeInvariance == LifeSpec => []LifeInv
<1> QED
  BY LifeInitInv, LifeNextInv, PTL DEF LifeSpec

-----------------------------------------------------------------------------
(* Type correctness: rows, theses and what the scripts hold of the file have *)
(* their types, through every overlap of their writes.                       *)
THEOREM LifeTypeCorrect == LifeSpec => []LifeTypeOK
<1>1. LifeInv => LifeTypeOK
  BY DEF LifeInv
<1> QED
  BY <1>1, LifeInvariance, PTL

(* "never lets a winner turn into a loser", for every price path, advice and *)
(* refused order: the trail only rises, and the first pass that sees 1.5 per *)
(* cent of gain and does not sell leaves the stop at the entry or above.     *)
THEOREM WinnersStayWinners == LifeSpec => []WinnerProtected
<1>1. LifeInv => WinnerProtected
  BY DEF LifeInv
<1> QED
  BY <1>1, LifeInvariance, PTL

(* The class has the last word in a pass: only the pass closes a row, and    *)
(* with the last thesis whole in the file it does so as MayExit says, whose  *)
(* days are no more than the row's.                                          *)
LEMMA PassAsksTheClass ==
    ASSUME LifeInv, [LifeNext]_lifeVars, position # NoRow, position' = NoRow, position.dir = "LONG", owed = "no", onFile = due
    PROVE  position.days >= MinHoldDays \/ Classify(due, "LONG") = "TACTICAL"
<1>1. \E answered \in BOOLEAN : Pass(answered)
  <2>1. ~ UNCHANGED lifeVars
    BY DEF lifeVars
  <2>2. ASSUME NEW dir \in {"LONG", "SHORT"} PROVE ~ Adopt(dir)
    BY DEF Adopt
  <2>3. ~ LogAdopted
    BY DEF LogAdopted
  <2>4. ASSUME NEW new \in Theses \union {NoThesis} PROVE ~ LogQueued(new)
    BY DEF LogQueued
  <2>5. ASSUME NEW s \in Loggers PROVE ~ (Empty(s) \/ Store(s) \/ Die(s))
    BY DEF Empty, Store, Die
  <2>6. ASSUME NEW new \in Prices PROVE ~ Trade(new)
    BY DEF Trade
  <2>7. ~ Day
    BY RowAges, AbsenceIsNothing DEF Day, LifeInv, LifeTypeOK
  <2> QED
    BY <2>1, <2>2, <2>3, <2>4, <2>5, <2>6, <2>7 DEF LifeNext
<1>2. position \in Rows /\ due \in AgedTheses /\ due.days <= position.days
  BY DEF LifeInv, LifeTypeOK, ThesisNoOlder, MaybeThesis
<1>3. Released
  <2>1. PICK answered \in BOOLEAN, advice \in Advices :
          position' = IF Judged(advice).exit /\ Released /\ answered THEN NoRow
                 ELSE [position EXCEPT !.stop = Judged(advice).stop,
                                  !.won = @ \/ (position.dir = "LONG" /\ Gain(price) >= 15 /\ ~ advice.exit)]
    BY <1>1 DEF Pass
  <2>2. price \in Prices
    BY DEF LifeInv, LifeTypeOK
  <2>3. PICK stop, won : /\ stop = Judged(advice).stop
                         /\ won = (position.won \/ (position.dir = "LONG" /\ Gain(price) >= 15 /\ ~ advice.exit))
    OBVIOUS
  <2>4. [position EXCEPT !.stop = stop, !.won = won] # NoRow
    BY <1>2 DEF Rows, NoRow
  <2> QED
    BY <2>1, <2>3, <2>4
<1>4. MayExit(due, "LONG")
  BY <1>2, <1>3, AbsenceIsNothing DEF Released, MaybeThesis
<1>5. Classify(due, "LONG") \in Classes
  BY RulesAssumption DEF Classify, Classes
<1>6. CASE Classify(due, "LONG") = "CATALYST"
  <2>1. due.days >= MinHoldDays
    BY <1>4, <1>6 DEF MayExit
  <2>2. due.days \in Int /\ position.days \in Int /\ MinHoldDays \in Int
    BY <1>2, ThesisAges, BoundsAreNumbers DEF Rows
  <2> QED
    BY <1>2, <2>1, <2>2
<1>7. CASE Classify(due, "LONG") # "CATALYST"
  BY <1>4, <1>5, <1>7 DEF MayExit, Classes
<1> QED
  BY <1>6, <1>7

(* The class holds its position: for every thesis, override and order of the *)
(* scripts' writes, a long position whose thesis is on file is sold by a     *)
(* technical rule only after the days of its class.                          *)
THEOREM ClassHolds == LifeSpec => HeldToClass
<1>1. LifeInv /\ [LifeNext]_lifeVars =>
        [ position # NoRow /\ position' = NoRow /\ position.dir = "LONG" /\ owed = "no" /\ onFile = due
            => position.days >= MinHoldDays \/ Classify(due, "LONG") = "TACTICAL" ]_lifeVars
  BY PassAsksTheClass
<1> QED
  BY <1>1, LifeInvariance, PTL DEF LifeSpec, HeldToClass
=============================================================================
