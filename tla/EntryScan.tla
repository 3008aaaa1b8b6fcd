----------------------------- MODULE EntryScan -----------------------------
(***************************************************************************)
(* How a cycle of auto_trader.py comes to its entries: exits and what is   *)
(* learned from them, the regime of the day, the scan, the ranking, and    *)
(* one entry after the other. It is the cycle of TradeBook.tla seen from   *)
(* the side of its decisions: the scripts and trades by hand are left out  *)
(* here, WHAT is bought and how much of it is left open there.             *)
(*                                                                         *)
(* The scan begins with os.environ, and auto_trader.py does not import os. *)
(* This is the program with the import.                                    *)
(***************************************************************************)
EXTENDS TraderRules, Ranking

CONSTANTS
    Codes,          \* the symbols scanned, in their order
    Sector,         \* SECTOR_MAP
    Kind,           \* how the fundamental gate knows a symbol
    Lot,            \* shares of a board lot
    Core,           \* symbols the core sleeve may hold: sets of them
    Charts,         \* symbol -> what get_enriched_data may answer
    Reports,        \* symbol -> what get_fundamentals may answer
    Markets,        \* what SPY and the VIX may show: [spy, quotes]
    Balances,       \* what the two accounts may add up to
    Tiers,          \* SCALING_TIERS
    Pnls,           \* pnl of a close, in units of its own
    MaxOpenTrades,  \* MAX_OPEN_TRADES
    MinScore,       \* MIN_SIGNAL_SCORE
    MaxRows, MaxMishaps,  \* bounds: rows; kills and exceptions
    Unknown,        \* model value: a figure that is not known
    Never,          \* model value: no regime of today on file
    Torn,           \* model value: a file cut short
    Raised          \* model value: the gate raised instead of answering

Gate == INSTANCE FundamentalScores

Symbols == Range(Codes)

ASSUME ScanAssumption ==
    /\ Codes \in Seq(STRING) /\ IsInjective(Codes)
    /\ Sector \in [Symbols -> STRING] /\ Lot \in [Symbols -> Nat \ {0}]
    /\ \A c \in Symbols : Charts[c] \subseteq Bars
    /\ \A market \in Markets : market.quotes \in [1..3 -> Nat]
    /\ Tiers \in Seq(Tier) /\ Tiers # <<>>
    /\ {MaxOpenTrades, MinScore, MaxRows, MaxMishaps} \subseteq Nat
    /\ Balances \subseteq Nat /\ Pnls \subseteq Int \ {0}
    /\ Torn \notin [StrategyNames -> [trades : Nat, wins : Nat, total : Int]]

VARIABLES
    pc,      \* "idle", "learn", "open", "enter" or "book"
    rows,    \* auto_trades.csv: [code, strategy, value, status, pnl]
    held,    \* the account: symbol -> value of its position
    stats,   \* strategy_performance.json
    regime,  \* regime_state.json, if it is of today
    known,   \* strat_stats of the cycle
    plan,    \* the rest of the cycle: see Planned
    fill,    \* the row of a filled order that the file has not got yet
    mishaps  \* how often the work was cut short

files == <<rows, stats, regime>>
vars  == <<pc, rows, held, stats, regime, known, plan, fill, mishaps>>

OpenRows(r)  == {i \in DOMAIN r : r[i].status = "OPEN"}
OpenCodes(r) == {r[i].code : i \in OpenRows(r)}
Closed(r)    == AtPositions(r, {i \in DOMAIN r : r[i].status = "CLOSED"})
Gross        == SumFunction(held)

\* What rows S of r are worth, and the open ones of a symbol.
Worth(r, S)      == SumFunctionOnSet([i \in DOMAIN r |-> r[i].value], S)
ValueOf(r, code) == Worth(r, {i \in OpenRows(r) : r[i].code = code})

NoStats == [s \in StrategyNames |-> NoRecord]
NoPlan  == [queue |-> <<>>, today |-> [regime |-> "bull", vix |-> 0], balance |-> 0,
            open |-> 0, sectors |-> [c \in {} |-> 0], placed |-> 0]
NoFill  == [code |-> Never]

Init ==
    /\ pc = "idle"
    /\ rows = <<>> /\ held = [c \in Symbols |-> 0]
    /\ stats = NoStats /\ regime = Never
    /\ known = NoStats /\ plan = NoPlan /\ fill = NoFill
    /\ mishaps = 0

GoIdle == pc' = "idle" /\ known' = NoStats /\ plan' = NoPlan /\ fill' = NoFill

-----------------------------------------------------------------------------
(* Exits and learning. A pass over the exits is one step here, and so is   *)
(* each over the positions of a market near its close; TradeBook.tla has   *)
(* what can go wrong within one, a kill while the journal is rewritten     *)
(* among it.                                                               *)

\* Variant: the file is written back only if the pass made or lost money.
CloseRowsOnPnl(S, pnl) ==
    /\ rows' = IF SumFunction(pnl) = 0 THEN rows
               ELSE [i \in DOMAIN rows |->
                       IF i \in S THEN [rows[i] EXCEPT !.status = "CLOSED", !.pnl = pnl[i]]
                       ELSE rows[i]]
    /\ held' = [c \in Symbols |->
                  held[c] - Worth(rows, {i \in S : rows[i].code = c})]

\* Rows of S are closed, each with its pnl; of the position no more is sold
\* than the row has.
CloseRows(S, pnl) ==
    /\ rows' = [i \in DOMAIN rows |->
                  IF i \in S THEN [rows[i] EXCEPT !.status = "CLOSED", !.pnl = pnl[i]]
                  ELSE rows[i]]
    /\ held' = [c \in Symbols |->
                  held[c] - Worth(rows, {i \in S : rows[i].code = c})]

\* The pnl of the pass.
Made(S, pnl) == SumFunctionOnSet(pnl, S)

\* The file of statistics is read first, and an unreadable one raises: the
\* cycle is over before it has looked at a stop.
BeginCycle(S, pnl) ==
    /\ pc = "idle" /\ stats # Torn
    /\ CloseRows(S, pnl)
    /\ known' = stats
    /\ pc' = IF Made(S, pnl) = 0 THEN "open" ELSE "learn"
    /\ UNCHANGED <<stats, regime, plan, fill, mishaps>>

Learn ==
    /\ pc = "learn"
    /\ stats' = Learned(stats, Closed(rows))
    /\ known' = stats'
    /\ pc' = "open"
    /\ UNCHANGED <<rows, held, regime, plan, fill, mishaps>>

\* A market is near its close, and what is open there is sold. The statistics
\* learn it by another update of the same rows. (The regime is fetched before
\* this, which only the scan can tell.)
Flatten(S, pnl) ==
    /\ pc = "open" /\ S # {}
    /\ CloseRows(S, pnl)
    /\ pc' = IF Made(S, pnl) = 0 THEN "open" ELSE "learn"
    /\ UNCHANGED <<stats, regime, known, plan, fill, mishaps>>

-----------------------------------------------------------------------------
(* The regime, the account and the scan.                                   *)

\* Fetched once a day.
RegimeOf(market) == IF regime = Never THEN Regime(market.spy, market.quotes) ELSE regime

\* Learning moves the score, within bounds.
Adjusted(signal) ==
    LET learned == Adjustment(known[signal.strategy])
    IN [signal EXCEPT !.score = Clamped(@ + learned.score, 50, 1000)]

\* The signals a symbol gets, by the strategies the regime allows: of each its
\* place in ALL_STRATEGIES too.
SignalsOf(chart, today) ==
    LET all == AllSignals(chart)
    IN {[place |-> n, signal |-> Adjusted(all[n])] :
          n \in {m \in DOMAIN all : /\ Usable(chart) /\ all[m] # NoSignal
                                    /\ all[m].strategy \in RegimeConfig[today.regime].strategies
                                    /\ Adjusted(all[m]).score >= MinScore}}

\* Of the best signals, the first.
Best(signals) ==
    CHOOSE s \in signals : \A t \in signals :
       \/ t.signal.score < s.signal.score
       \/ t.signal.score = s.signal.score /\ s.place <= t.place

\* Symbols with a signal, the best score first and in the order of the scan.
RankedSignals(charts, scanned, today) ==
    LET place(c) == CHOOSE n \in DOMAIN Codes : Codes[n] = c
        found    == {[code |-> c, signal |-> Best(SignalsOf(charts[c], today)).signal] :
                       c \in {d \in scanned : SignalsOf(charts[d], today) # {}}}
        Before(e, f) == \/ e.signal.score > f.signal.score
                        \/ e.signal.score = f.signal.score /\ place(e.code) < place(f.code)
    IN Ranked(found, [e \in found |-> {f \in found : f = e \/ Before(f, e)}])

SectorCount(r, sector) == Cardinality({i \in OpenRows(r) : Sector[r[i].code] = sector})

TierNow == TierOf(Tiers, plan.balance)

\* The limit of the regime; none is above MAX_GROSS_EXPOSURE. In hundredths.
ExposureCap(today) == Least(150, RegimeConfig[today.regime].exposure)

\* Variant: only the rows of the journal are limited.
CanTradeByRows(today, balance) == Cardinality(OpenRows(rows)) < MaxOpenTrades

CanTrade(today, balance) ==
    /\ Cardinality(OpenRows(rows)) < MaxOpenTrades
    /\ balance > 0 => 100 * Gross < ExposureCap(today) * balance

\* The rest of the cycle: the queue, and what the loop over it knows. Whether
\* the account has room is known of now, whatever the loop adds.
Planned(charts, today, balance, core) ==
    [queue    |-> IF CanTrade(today, balance)
                  THEN RankedSignals(charts, Symbols \ (OpenCodes(rows) \cup core), today) ELSE <<>>,
     today    |-> today, balance |-> balance,
     open     |-> Cardinality(OpenRows(rows)),
     sectors  |-> [s \in Range(Sector) |-> SectorCount(rows, s)],
     placed   |-> 0]

Scan(charts, market, balance, core) ==
    /\ pc = "open"
    /\ regime' = RegimeOf(market)
    /\ plan' = Planned(charts, regime', balance, core)
    /\ pc' = "enter"
    /\ UNCHANGED <<rows, held, stats, known, fill, mishaps>>

\* Too much was lost today, or too often in a row, or the account is unknown.
Halt(market) ==
    /\ pc = "open"
    /\ regime' = RegimeOf(market)
    /\ GoIdle
    /\ UNCHANGED <<rows, held, stats, mishaps>>

-----------------------------------------------------------------------------
(* Entries.                                                                *)

Full == plan.open + plan.placed >= MaxOpenTrades

\* MAX_SECTOR_PCT of the rows there are.
Crowded(sector) ==
    LET book == plan.open + plan.placed
    IN book > 0 /\ 2 * plan.sectors[sector] >= book

Shares(entry) ==
    RoundedToLot(Quantity(entry.signal, TierNow, plan.balance,
                          Adjustment(known[entry.signal.strategy]).size, plan.today),
                 Lot[entry.code])

\* The answers with which the fundamental gate lets a symbol through; a gate
\* that raises lets everything through.
Approving(code) == {r \in Reports[code] : r # Raised => Gate!Underwritten(Kind[code], r)}

Wanted(entry) ==
    /\ ~ Crowded(Sector[entry.code])
    /\ Shares(entry) > 0
    /\ Approving(entry.code) # {}

Passed == [plan EXCEPT !.queue = Tail(@)]

\* The guards refuse the entry or the broker does.
Skip ==
    /\ pc = "enter" /\ plan.queue # <<>> /\ ~ Full
    /\ plan' = Passed
    /\ UNCHANGED <<pc, rows, held, stats, regime, known, fill, mishaps>>

\* A market order, filled at the price of the signal.
Enter ==
    /\ pc = "enter" /\ plan.queue # <<>> /\ ~ Full
    /\ Len(rows) < MaxRows
    /\ LET entry == Head(plan.queue)
           value == Shares(entry) * entry.signal.entry
       IN /\ Wanted(entry)
          /\ held' = [held EXCEPT ![entry.code] = @ + value]
          /\ fill' = [code |-> entry.code, strategy |-> entry.signal.strategy,
                      value |-> value, status |-> "OPEN", pnl |-> 0]
    /\ pc' = "book"
    /\ UNCHANGED <<files, known, plan, mishaps>>

\* Variant: the sectors stay counted as they were before the cycle.
BookUncounted ==
    /\ pc = "book"
    /\ rows' = Append(rows, fill)
    /\ plan' = [Passed EXCEPT !.placed = @ + 1]
    /\ fill' = NoFill
    /\ pc' = "enter"
    /\ UNCHANGED <<held, stats, regime, known, mishaps>>

Book ==
    /\ pc = "book"
    /\ rows' = Append(rows, fill)
    /\ plan' = [Passed EXCEPT !.placed = @ + 1, !.sectors[Sector[fill.code]] = @ + 1]
    /\ fill' = NoFill
    /\ pc' = "enter"
    /\ UNCHANGED <<held, stats, regime, known, mishaps>>

EndCycle ==
    /\ pc = "enter" /\ (plan.queue = <<>> \/ Full)
    /\ GoIdle
    /\ UNCHANGED <<rows, held, stats, regime, mishaps>>

-----------------------------------------------------------------------------
(* The world.                                                              *)

Mishap == mishaps < MaxMishaps /\ mishaps' = mishaps + 1

\* A kill and a restart, or a call that raises: main() begins the next cycle.
\* A regime file that was being written is fetched anew.
CutShort ==
    /\ pc # "idle" /\ Mishap
    /\ GoIdle
    /\ regime' \in {regime} \cup (IF pc = "open" THEN {Never} ELSE {})
    /\ UNCHANGED <<rows, held, stats>>

\* A kill while json.dump fills the file that open() has emptied.
TornSave ==
    /\ pc = "learn" /\ Mishap
    /\ stats' = Torn
    /\ GoIdle
    /\ UNCHANGED <<rows, held, regime>>

\* At midnight the regime on file is no longer today's.
NextDay ==
    /\ regime' = Never
    /\ UNCHANGED <<pc, rows, held, stats, known, plan, fill, mishaps>>

Next ==
    \/ \E S \in SUBSET OpenRows(rows) : \E pnl \in [S -> Pnls] :
          BeginCycle(S, pnl) \/ Flatten(S, pnl)
    \/ Learn
    \/ \E charts \in {f \in [Symbols -> UNION Range(Charts)] : \A c \in Symbols : f[c] \in Charts[c]},
          market \in Markets, balance \in Balances, core \in Core :
            Scan(charts, market, balance, core)
    \/ \E market \in Markets : Halt(market)
    \/ Skip \/ Enter \/ Book \/ EndCycle
    \/ CutShort \/ TornSave \/ NextDay

Spec == Init /\ [][Next]_vars

-----------------------------------------------------------------------------
Row == [code : Symbols, strategy : StrategyNames, value : Nat, status : {"OPEN", "CLOSED"},
        pnl : Int]

Plan == [queue : Seq([code : Symbols, signal : Signals]), today : Day,
         balance : Nat, open : Nat, placed : Nat,
         sectors : [Range(Sector) -> Nat] \union {[c \in {} |-> 0]}]

\* Every variable has its type, but for the statistics.
TypeOK ==
    /\ pc \in {"idle", "learn", "open", "enter", "book"}
    /\ rows \in Seq(Row)
    /\ held \in [Symbols -> Int]
    /\ regime \in Day \union {Never}
    /\ plan \in Plan
    /\ pc = "book" => fill \in Row /\ fill.status = "OPEN" /\ plan.queue # <<>>
    /\ mishaps \in Nat

Entered == plan.placed + (IF pc = "book" THEN 1 ELSE 0)

\* The loop over the signals is to run "until MAX_OPEN_TRADES, gross exposure
\* cap, or sector concentration limit stops us" (auto_trader.py:2195), but it
\* tests the exposure of before the loop. So a cycle exceeds the cap, by no
\* more than what it enters, each at most a fifth above its tier's cap.
GrossBounded ==
    Entered > 0 =>
      100 * Gross < ExposureCap(plan.today) * plan.balance
                      + 120 * Entered * PositionCap(TierNow, plan.balance)

\* An entry leaves its sector with half of the open rows at most, or is alone:
\* the counts the loop keeps by hand agree with the journal.
HalfASector ==
    [][Len(rows') > Len(rows) =>
         LET sector == Sector[rows'[Len(rows')].code]
         IN \/ 2 * SectorCount(rows', sector) <= Cardinality(OpenRows(rows'))
            \/ Cardinality(OpenRows(rows')) = 1]_vars

Untracked == {c \in Symbols : held[c] # ValueOf(rows, c)}

\* A position has its rows in the journal, but for one each time the work was
\* cut short between the fill and append_trade, and the one just filled.
EntriesTracked ==
    Cardinality(Untracked) <= mishaps + (IF pc = "book" THEN 1 ELSE 0)

Closes(r, s) == {i \in DOMAIN r : r[i].status = "CLOSED" /\ r[i].strategy = s}
WonBy(r, s)  == {i \in Closes(r, s) : r[i].pnl > 0}
LostBy(r, s) == {i \in Closes(r, s) : r[i].pnl <= 0}

\* What was ever closed is in the statistics after the next update, with its
\* gain or loss, also if the cycle that closed it was cut short. (It is in
\* them again after every later update.)
NoCloseForgotten ==
    [][stats' # stats /\ stats' # Torn =>
         \A s \in StrategyNames :
           /\ stats'[s].wins >= Cardinality(WonBy(rows, s))
           /\ stats'[s].trades - stats'[s].wins >= Cardinality(LostBy(rows, s))]_vars
=============================================================================
