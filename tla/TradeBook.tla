------------------------------ MODULE TradeBook ------------------------------
(* The paper trader's journal against the broker: the cycle of             *)
(* auto_trader.py, and the two scripts that work on the same file and the  *)
(* same account while it runs, scripts/adopt_existing_positions.py and     *)
(* scripts/reconcile_zombies.py.                                           *)
(*                                                                         *)
(* The trader reads logs/auto_trades.csv once per cycle, walks its OPEN    *)
(* rows over many broker calls and writes the whole file back; nothing     *)
(* locks the file or the account. Writing back empties the file first, so  *)
(* a kill or an exception meanwhile leaves some first lines of it, or not  *)
(* even the header. WHETHER a row should exit (stops, targets, age, the    *)
(* class gate) is left open: any row with a quote may exit. What the exit  *)
(* then does to the account and the file is not.                           *)
EXTENDS Integers, FiniteSets, Sequences, SequencesExt

CONSTANTS Codes,          \* the symbols traded, all of one market
          NoOrder,        \* no order is on its way
          Blank,          \* an empty pnl column; a symbol with no quote
          MaxOpenTrades,  \* MAX_OPEN_TRADES
          CooldownAfterLosses,    \* COOLDOWN_AFTER_LOSSES
          DailyLimit,     \* the loss, in pnl units, past which a cycle halts
          OsImported,     \* FALSE is the code as it stands: see Scan
          Positions,      \* positions at the start and after a trade by hand
          Moves,          \* signs of the gain a quote can show
          MaxRows, MaxMishaps    \* bounds: rows; trades by hand and cuts

ASSUME TradeBookAssumption ==
    /\ {MaxOpenTrades, CooldownAfterLosses} \subseteq Nat \ {0}
    /\ {DailyLimit, MaxRows, MaxMishaps} \subseteq Nat
    /\ IsFiniteSet(Codes) /\ Positions \subseteq Int /\ Moves \subseteq {-1, 0, 1}
    /\ OsImported \in BOOLEAN
    /\ Blank \notin Int

VARIABLES file,       \* auto_trades.csv: the rows its readers see, in order
          form,       \* what an added line meets in it: see Forms
          journal,    \* the trader's copy of it
          broker,     \* signed position per symbol
          pc,         \* where the cycle is
          todo,       \* rows the current pass has still to look at
          move,       \* quote per symbol: loss (-1), flat, gain (1) or none
          order,      \* close order between the position lookup and its answer
          entry,      \* entry filled by the broker and not yet in the file
          pass,       \* the current pass: pnl realized, rows closed by an order
          placed,     \* symbols entered in this cycle
          kept,       \* counters that main() carries from cycle to cycle
          counted,    \* the same counters inside the running cycle
          adopting, covering,     \* plans of the two scripts
          outside, cuts,          \* how often: trades by hand, work cut short
          nextId, sent, earned,   \* history: row ids, closes per row, pnl of this process
          exposed     \* history: rows that a cut save or a lost update may lose

disk    == <<file, form>>
book    == <<disk, broker>>
cycle   == <<journal, pc, todo, move, order, entry, pass, placed, kept, counted>>
scripts == <<adopting, covering>>
bounded == <<outside, cuts>>
history == <<nextId, sent, earned, exposed>>
vars    == <<book, cycle, scripts, bounded, history>>

Row == [id : Nat, by : {"bot", "adopted"}, code : Codes,
        side : {"LONG", "SHORT"}, qty : Nat \ {0},
        status : {"OPEN", "CLOSED"}, pnl : Int \cup {Blank}]
Counters == [day : Int, losses : Nat]

Fresh     == [day |-> 0, losses |-> 0]
NoQuotes  == [c \in Codes |-> Blank]
EmptyPass == [pnl |-> 0, closed |-> 0]
NoPlan    == [c \in {} |-> 0]

\* "partial": the last line is unfinished, and the next one is joined to it.
\* "empty": not even a header. The adopting script then writes one of its own,
\* under whose columns append_trade's line means nothing ("foreign"); the
\* trader does not, and its line passes for the header ("void").
Forms == {"whole", "partial", "empty", "foreign", "void"}

\* While check_exits, run_cycle or flatten_market_positions has the file open
\* for writing; and as long as the journal may still be written back.
Saving  == {"save", "resave", "flattenSave"}
Holding == {"exits", "exited", "session", "flatten"} \cup Saving

Direction(side) == IF side = "LONG" THEN 1 ELSE -1
SideOf(held)    == IF held < 0 THEN "SHORT" ELSE "LONG"
Size(held)      == IF held < 0 THEN -held ELSE held

OpenRows(rows)  == {i \in DOMAIN rows : rows[i].status = "OPEN"}
Ids(rows)       == {rows[i].id : i \in DOMAIN rows}
OpenCodes(rows) == {rows[i].code : i \in OpenRows(rows)}
Booked(rows)    == [i \in DOMAIN rows |-> IF rows[i].pnl = Blank THEN 0 ELSE rows[i].pnl]
Pnl(rows)       == SumFunction(Booked(rows))

\* Room for n more rows besides those already planned.
Room(n) == nextId - 1 + n + Cardinality(DOMAIN adopting) + (IF entry = NoOrder THEN 0 ELSE 1) <= MaxRows

NewRow(id, by, code, held) ==
    [id |-> id, by |-> by, code |-> code, side |-> SideOf(held), qty |-> Size(held),
     status |-> "OPEN", pnl |-> Blank]

Init ==
    /\ file = <<>> /\ form = "whole" /\ journal = <<>>
    /\ broker \in [Codes -> Positions]
    /\ pc = "idle" /\ todo = {} /\ move = NoQuotes
    /\ order = NoOrder /\ entry = NoOrder /\ pass = EmptyPass /\ placed = {}
    /\ kept = Fresh /\ counted = Fresh
    /\ adopting = NoPlan /\ covering = NoPlan
    /\ outside = 0 /\ cuts = 0
    /\ nextId = 1 /\ sent = [i \in 1..MaxRows |-> 0] /\ earned = 0 /\ exposed = {}

-----------------------------------------------------------------------------
(* The cycle. A pass walks the OPEN rows of the journal, once for exits    *)
(* and, near the close, once to flatten; both close a row the same way.    *)

\* get_snapshot_data answers for some of the symbols of the pass.
StartPass(rows) ==
    /\ todo' = OpenRows(rows)
    /\ pass' = EmptyPass
    /\ move' \in {m \in [Codes -> Moves \cup {Blank}] :
                    \A c \in Codes \ OpenCodes(rows) : m[c] = Blank}

\* The cycle is over, by a return or by an exception that main() logs.
GoIdle(counters) ==
    /\ pc' = "idle" /\ kept' = counters /\ counted' = counters
    /\ journal' = <<>> /\ todo' = {} /\ move' = NoQuotes
    /\ order' = NoOrder /\ entry' = NoOrder /\ pass' = EmptyPass /\ placed' = {}

BeginCycle ==
    /\ pc = "idle"
    /\ journal' = file
    /\ IF OpenRows(file) = {}
       THEN pc' = "session" /\ UNCHANGED <<todo, move, pass>>
       ELSE pc' = "exits" /\ StartPass(file)
    /\ UNCHANGED <<book, order, entry, placed, kept, counted, scripts, bounded, history>>

\* Row i is the next one the pass looks at.
Looking(i) ==
    /\ pc \in {"exits", "flatten"} /\ order = NoOrder
    /\ i \in todo /\ \A j \in todo : i <= j

\* HOLD_MODE "swing": near the close a SHORT goes, and a LONG if it is down by
\* more than 2%, which some losses are.
Quoted(row)   == move[row.code] # Blank
MayStay(row)  == ~Quoted(row) \/ pc = "exits" \/ row.side = "LONG"
MayClose(row) == Quoted(row) /\ (pc = "exits" \/ row.side = "SHORT" \/ move[row.code] = -1)

SkipRow(i) ==
    /\ Looking(i) /\ MayStay(journal[i])
    /\ todo' = todo \ {i}
    /\ UNCHANGED <<book, journal, pc, move, order, entry, pass, placed, kept, counted,
                   scripts, bounded, history>>

Gone(row) == Direction(row.side) * broker[row.code] <= 0

\* Mutant: the whole row, whatever the broker holds.
UncappedQty(row) == row.qty

\* Never more than the broker holds.
CappedQty(row) == IF row.qty < Size(broker[row.code]) THEN row.qty ELSE Size(broker[row.code])

\* Mutant: a status no reader knows.
MarkGoneMisspelt(row) == [row EXCEPT !.status = "CLOSE"]

\* The zombie guard: nothing to close, so no order and no pnl.
MarkGone(row) == [row EXCEPT !.status = "CLOSED"]

CloseZombie(i) ==
    /\ Looking(i) /\ MayClose(journal[i]) /\ Gone(journal[i])
    /\ journal' = [journal EXCEPT ![i] = MarkGone(@)]
    /\ todo' = todo \ {i}
    /\ UNCHANGED <<book, pc, move, order, entry, pass, placed, kept, counted,
                   scripts, bounded, history>>

SendOrder(i, qty, known) ==
    /\ order' = [row |-> i, qty |-> qty, known |-> known, held |-> broker[journal[i].code]]
    /\ UNCHANGED <<book, journal, pc, todo, move, entry, pass, placed, kept, counted,
                   scripts, bounded, history>>

SendClose(i) ==
    /\ Looking(i) /\ MayClose(journal[i]) /\ ~Gone(journal[i])
    /\ SendOrder(i, CappedQty(journal[i]), TRUE)

\* get_broker_position_qty returns NaN: both guard comparisons are false and
\* the cap is skipped, so the order is for the whole row.
SendBlind(i) ==
    /\ Looking(i) /\ MayClose(journal[i])
    /\ SendOrder(i, journal[i].qty, FALSE)

FillOrder ==
    LET row == journal[order.row]
    IN  /\ broker' = [broker EXCEPT ![row.code] = @ - Direction(row.side) * order.qty]
        /\ sent' = [sent EXCEPT ![row.id] = @ + 1]

MarkClosed(row, pnl) == [row EXCEPT !.status = "CLOSED", !.pnl = pnl]

CloseFilled ==
    /\ order # NoOrder
    /\ FillOrder
    /\ LET row == journal[order.row]
           pnl == Direction(row.side) * move[row.code] * order.qty
       IN  /\ journal' = [journal EXCEPT ![order.row] = MarkClosed(@, pnl)]
           /\ pass' = [pnl |-> pass.pnl + pnl, closed |-> pass.closed + 1]
           /\ earned' = earned + pnl
    /\ order' = NoOrder /\ todo' = todo \ {order.row}
    /\ UNCHANGED <<disk, pc, move, entry, placed, kept, counted, scripts, bounded,
                   nextId, exposed>>

CloseRefused ==
    /\ order # NoOrder
    /\ order' = NoOrder /\ todo' = todo \ {order.row}
    /\ UNCHANGED <<book, journal, pc, move, entry, pass, placed, kept, counted,
                   scripts, bounded, history>>

PassDone == order = NoOrder /\ todo = {}

\* The loss counter looks at the LAST CLOSED ROW OF THE FILE, which need not
\* be the last trade closed, and float("") raises if its pnl is blank.
LastClosed(rows) == SelectLastInSeq(rows, LAMBDA r : r.status = "CLOSED")
AfterExits(pnl) ==
    LET last == journal[LastClosed(journal)].pnl
        day  == counted.day + pnl
    IN  IF last < 0 THEN [day |-> day, losses |-> counted.losses + 1]
        ELSE [day |-> day, losses |-> 0]

\* open(JOURNAL_PATH, "w") empties the file.
OpenSave(step) == file' = <<>> /\ form' = "empty" /\ pc' = step

\* All rows are in it again, over whatever a script added meanwhile.
CloseSave == file' = journal /\ form' = "whole"

CountExits(counters) ==
    /\ pc' = "session" /\ counted' = counters
    /\ move' = NoQuotes /\ pass' = EmptyPass
    /\ UNCHANGED <<journal, todo, order, entry, placed, kept>>

\* check_exits writes the whole journal back, exits or none.
EndExits ==
    /\ pc = "exits" /\ PassDone
    /\ OpenSave("save")
    /\ UNCHANGED <<broker, journal, todo, move, order, entry, pass, placed, kept, counted,
                   scripts, bounded, history>>

SaveExits ==
    /\ pc = "save"
    /\ CloseSave
    /\ IF pass.pnl = 0
       THEN CountExits(counted)
       ELSE /\ pc' = "exited"
            /\ UNCHANGED <<journal, todo, move, order, entry, pass, placed, kept, counted>>
    /\ UNCHANGED <<broker, scripts, bounded, history>>

\* run_cycle writes the same rows once more when the exits made a difference.
Resave ==
    /\ pc = "exited"
    /\ OpenSave("resave")
    /\ UNCHANGED <<broker, journal, todo, move, order, entry, pass, placed, kept, counted,
                   scripts, bounded, history>>

ResaveExits ==
    /\ pc = "resave"
    /\ CloseSave
    /\ IF journal[LastClosed(journal)].pnl = Blank
       THEN GoIdle(kept)
       ELSE CountExits(AfterExits(pass.pnl))
    /\ UNCHANGED <<broker, scripts, bounded, history>>

StartFlatten ==
    /\ pc = "session" /\ OpenRows(journal) # {}
    /\ pc' = "flatten"
    /\ StartPass(journal)
    /\ UNCHANGED <<book, journal, order, entry, placed, kept, counted, scripts, bounded, history>>

\* No market near its close, or nothing open.
NoFlatten ==
    /\ pc = "session"
    /\ pc' = "account"
    /\ UNCHANGED <<book, journal, todo, move, order, entry, pass, placed, kept, counted,
                   scripts, bounded, history>>

\* Mutants: the flattened rows are not saved, or only if they made a difference.
FlattenUnsaved    == FALSE
FlattenSavedOnPnl == pass.pnl # 0

\* Written back only if an order closed something: rows closed by the zombie
\* guard alone are forgotten again.
FlattenSaved == pass.closed > 0

CountFlatten ==
    /\ counted' = [counted EXCEPT !.day = @ + pass.pnl]
    /\ pc' = "account" /\ move' = NoQuotes /\ pass' = EmptyPass

EndFlatten ==
    /\ pc = "flatten" /\ PassDone
    /\ IF FlattenSaved
       THEN OpenSave("flattenSave") /\ UNCHANGED <<counted, move, pass>>
       ELSE CountFlatten /\ UNCHANGED disk
    /\ UNCHANGED <<broker, journal, todo, order, entry, placed, kept, scripts, bounded, history>>

SaveFlatten ==
    /\ pc = "flattenSave"
    /\ CloseSave /\ CountFlatten
    /\ UNCHANGED <<broker, journal, todo, order, entry, placed, kept, scripts, bounded, history>>

Halted == counted.day < -DailyLimit

\* The account query fails, the day's loss is past its limit, or half an hour
\* has not passed since the last of several losses: the cycle returns its
\* counters. Time is not kept, so a cool-down may end at any cycle.
ReturnEarly ==
    /\ pc = "account"
    /\ GoIdle(counted)
    /\ UNCHANGED <<book, scripts, bounded, history>>

\* The file is read again and the scan begins. Its first statement names os,
\* which auto_trader.py does not import: the cycle ends in a NameError and its
\* counters are lost. OsImported = TRUE is the program with the import.
Scan ==
    /\ pc = "account" /\ ~Halted
    /\ IF OsImported
       THEN /\ pc' = "scan"
            /\ journal' = file
            /\ counted' = [counted EXCEPT !.losses = IF @ >= CooldownAfterLosses THEN 0 ELSE @]
            /\ UNCHANGED <<todo, move, order, entry, pass, placed, kept>>
       ELSE GoIdle(kept)
    /\ UNCHANGED <<book, scripts, bounded, history>>

\* A signal that passes every check is bought or sold short at the market;
\* entry keeps the signed fill until the journal has it.
Enter(c, held) ==
    /\ pc = "scan" /\ entry = NoOrder
    /\ c \notin OpenCodes(journal) \cup placed
    /\ Cardinality(OpenRows(journal)) + Cardinality(placed) < MaxOpenTrades
    /\ Room(1)
    /\ broker' = [broker EXCEPT ![c] = @ + held]
    /\ entry' = [code |-> c, held |-> held]
    /\ placed' = placed \cup {c}
    /\ UNCHANGED <<disk, journal, pc, todo, move, order, pass, kept, counted,
                   scripts, bounded, history>>

\* Mutant: the journal in memory, with the new row, replaces the file.
RewrittenWith(row) == Append(journal, row)

\* append_trade adds one line to the file, not to the journal in memory.
AppendedTo(row) == Append(file, row)

AppendTrade ==
    /\ entry # NoOrder
    /\ IF form = "whole"
       THEN /\ file' = AppendedTo(NewRow(nextId, "bot", entry.code, entry.held))
            /\ UNCHANGED <<form, exposed>>
       ELSE /\ form' = CASE form = "partial" -> "whole" [] form = "empty" -> "void" [] OTHER -> form
            /\ exposed' = exposed \cup {nextId}
            /\ UNCHANGED file
    /\ nextId' = nextId + 1
    /\ entry' = NoOrder
    /\ UNCHANGED <<broker, journal, pc, todo, move, order, pass, placed, kept, counted,
                   scripts, bounded, sent, earned>>

EndCycle ==
    /\ pc = "scan" /\ entry = NoOrder
    /\ GoIdle(counted)
    /\ UNCHANGED <<book, scripts, bounded, history>>

MayCut == outside + cuts < MaxMishaps /\ cuts' = cuts + 1

\* A save that is cut short: nothing of it reached the file, or its first lines.
CutSave ==
    IF pc \in Saving
    THEN /\ exposed' = 1..(nextId - 1)
         /\ \/ UNCHANGED disk
            \/ /\ form' \in {"partial", "whole"}
               /\ \E n \in 0..Len(journal) : file' = SubSeq(journal, 1, n)
    ELSE UNCHANGED <<disk, exposed>>

\* A kill and a restart: memory is lost, the counters start from nothing.
\* init_journal writes a header only if there is no file at all.
Crash ==
    /\ MayCut /\ CutSave
    /\ GoIdle(Fresh) /\ earned' = 0
    /\ UNCHANGED <<broker, scripts, outside, nextId, sent>>

\* A broker call or a write raises: main() logs it and goes on with the next cycle.
CycleRaises ==
    /\ MayCut /\ CutSave /\ pc # "idle"
    /\ GoIdle(kept)
    /\ UNCHANGED <<broker, scripts, outside, nextId, sent, earned>>

\* The broker fills an order and the answer says that it failed.
AnswerLost ==
    /\ MayCut /\ order # NoOrder
    /\ FillOrder
    /\ order' = NoOrder /\ todo' = todo \ {order.row}
    /\ UNCHANGED <<disk, journal, pc, move, entry, pass, placed, kept, counted,
                   scripts, outside, nextId, earned, exposed>>

-----------------------------------------------------------------------------
(* The two scripts, each of which reads, waits and acts.                   *)

Untracked == {c \in Codes : broker[c] # 0 /\ c \notin OpenCodes(file)}

HeldOf(S) == [c \in S |-> broker[c]]

AdoptPlan ==
    /\ adopting = NoPlan /\ Untracked # {} /\ Room(Cardinality(Untracked))
    /\ adopting' = HeldOf(Untracked)
    /\ UNCHANGED <<book, cycle, covering, bounded, history>>

\* One row per position, in the order the broker lists them.
AdoptedRows(listed) ==
    [i \in DOMAIN listed |-> NewRow(nextId + i - 1, "adopted", listed[i], adopting[listed[i]])]

\* Of n lines added by the script, the first that no reader will see.
Unseen(n) == CASE form = "partial" -> 1 [] form = "void" -> n [] OTHER -> 0

AdoptWrite ==
    /\ adopting # NoPlan
    /\ LET n == Cardinality(DOMAIN adopting)
       IN  /\ \E listed \in SetToSeqs(DOMAIN adopting) :
                file' = file \o SubSeq(AdoptedRows(listed), Unseen(n) + 1, n)
           /\ nextId' = nextId + n
           /\ exposed' = exposed \cup
                (nextId..(nextId - 1 + (IF pc \in Holding THEN n ELSE Unseen(n))))
    /\ form' = CASE form = "partial" -> "whole" [] form = "empty" -> "foreign" [] OTHER -> form
    /\ adopting' = NoPlan
    /\ UNCHANGED <<broker, cycle, covering, bounded, sent, earned>>

\* Shorts only, unless the caller asks for orphan longs too.
CoverPlan(longsToo) ==
    /\ covering = NoPlan
    /\ covering' = HeldOf({c \in Untracked : broker[c] < 0 \/ longsToo})
    /\ UNCHANGED <<book, cycle, adopting, bounded, history>>

CoverFilled(c) ==
    /\ c \in DOMAIN covering
    /\ broker' = [broker EXCEPT ![c] = @ - covering[c]]
    /\ covering' = Restrict(covering, DOMAIN covering \ {c})
    /\ UNCHANGED <<disk, cycle, adopting, bounded, history>>

\* The order is refused, the planned loss is too large, or the user stops.
CoverStops(c) ==
    /\ c \in DOMAIN covering
    /\ covering' = Restrict(covering, DOMAIN covering \ {c})
    /\ UNCHANGED <<book, cycle, adopting, bounded, history>>

\* A trade by hand in the same account.
TradeOutside(c, held) ==
    /\ outside + cuts < MaxMishaps /\ held # broker[c]
    /\ outside' = outside + 1
    /\ broker' = [broker EXCEPT ![c] = held]
    /\ UNCHANGED <<disk, cycle, scripts, cuts, history>>

Trader ==
    \/ BeginCycle
    \/ \E i \in 1..MaxRows : SkipRow(i) \/ CloseZombie(i) \/ SendClose(i) \/ SendBlind(i)
    \/ CloseFilled \/ CloseRefused
    \/ EndExits \/ SaveExits \/ Resave \/ ResaveExits
    \/ StartFlatten \/ NoFlatten \/ EndFlatten \/ SaveFlatten
    \/ ReturnEarly \/ Scan \/ AppendTrade \/ EndCycle
    \/ \E c \in Codes : \E held \in {-1, 1} : Enter(c, held)

Scripts ==
    \/ AdoptPlan \/ AdoptWrite
    \/ \E longsToo \in BOOLEAN : CoverPlan(longsToo)
    \/ \E c \in Codes : CoverFilled(c) \/ CoverStops(c)

World ==
    \/ Crash \/ CycleRaises \/ AnswerLost
    \/ \E c \in Codes : \E held \in Positions : TradeOutside(c, held)

Next == Trader \/ Scripts \/ World

Spec == Init /\ [][Next]_vars

-----------------------------------------------------------------------------
IsPlan(p) == DOMAIN p \subseteq Codes /\ \A c \in DOMAIN p : p[c] \in Int \ {0}

SharedOK ==
    /\ file \in Seq(Row) /\ form \in Forms
    /\ broker \in [Codes -> Int]
    /\ IsPlan(adopting) /\ IsPlan(covering)
    /\ outside \in Nat /\ cuts \in Nat /\ outside + cuts <= MaxMishaps
    /\ nextId \in Nat \ {0}
    /\ sent \in [1..MaxRows -> Nat] /\ earned \in Int /\ exposed \subseteq Nat

CycleOK ==
    /\ journal \in Seq(Row)
    /\ pc \in {"idle", "account", "scan"} \cup Holding
    /\ todo \subseteq OpenRows(journal)
    /\ move \in [Codes -> Moves \cup {Blank}]
    /\ order = NoOrder \/ order \in [row : todo, qty : Nat \ {0},
                                   known : BOOLEAN, held : Int]
    /\ entry = NoOrder \/ entry \in [code : Codes, held : Int \ {0}]
    /\ pass \in [pnl : Int, closed : Nat]
    /\ placed \subseteq Codes
    /\ kept \in Counters /\ counted \in Counters

(* Type invariant: every row, plan and counter has the shape the code gives it. *)
TypeOK == SharedOK /\ CycleOK

Shrinks(c) == broker'[c] * broker[c] >= 0 /\ Size(broker'[c]) < Size(broker[c])
ClosingCode == journal[order.row].code
Undisturbed == broker[ClosingCode] = order.held

(* A close order that follows an answered position lookup, and that meets the *)
(* position the lookup saw, only ever shrinks it: it neither turns a long     *)
(* into a short nor opens a position that is gone.                            *)
KnownClosesShrink ==
    [][sent' # sent /\ order.known /\ Undisturbed => Shrinks(ClosingCode)]_vars

(* The same of every close order: get_broker_position_qty says that the bot   *)
(* "must not send a naked SELL order". Broken when the lookup fails.          *)
NoNakedClose == [][sent' # sent /\ Undisturbed => Shrinks(ClosingCode)]_vars

(* A row is closed at the broker once, whatever the scripts do meanwhile;     *)
(* each time work is cut short, a kill, an exception or a lost answer, can     *)
(* repeat one.                                                                *)
ClosedOnce == \A i \in 1..MaxRows : sent[i] <= 1 + cuts

(* Between cycles, and unless work was cut short, the closed rows of the file *)
(* add up to all the pnl ever realized: no closed trade is lost or restored.  *)
PnlBooked == pc = "idle" /\ cuts = 0 => Pnl(file) = earned

(* Rows leave the file for three reasons only: a save is cut short, which can  *)
(* take every row there is; a script adds them while a cycle holds its copy;   *)
(* they are added to a file that a cut save has spoilt. Every other row is      *)
(* there whenever no save is under way, though the file is rewritten from      *)
(* memory once or twice a cycle and grows in between.                          *)
Safe == 1..(nextId - 1) \ exposed
EntriesStay == pc \notin Saving => Safe \subseteq Ids(file)

(* What main() carries to the next cycle is all the pnl of the day so far, so *)
(* that the daily loss halt can see it. Broken by the code as it stands.      *)
DayPnlKept == pc = "idle" /\ cuts = 0 => kept.day = earned
=============================================================================
