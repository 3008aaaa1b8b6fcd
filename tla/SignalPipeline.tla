--------------------------- MODULE SignalPipeline ---------------------------
(***************************************************************************)
(* main.py: one loop over ingest, enrich, evaluate, score, check, execute  *)
(* and log, on one account at the broker.                                  *)
(*                                                                         *)
(* The risk manager sees the account once per cycle; orders are limit      *)
(* orders, which rest until they fill or their day ends.  Nothing in the   *)
(* program cancels, closes or reports a trade: the daily loss, the loss    *)
(* streak and the kill switch of the class never move, so of the checks    *)
(* only the setting, the number of positions and the concentration can     *)
(* refuse.  Money is in units of the share price, which does not move.     *)
(***************************************************************************)
EXTENDS Strategies

CONSTANTS
    Codes,         \* the watchlist, in its order
    Watched,       \* code -> names of the strategies allowed for it
    Digests,       \* what the bars of a ticker may look like
    Levels,        \* strengths a signal may get
    Distances,     \* entry price to stop loss, per share; 0 when there is none
    Price,         \* of a share
    Balance,       \* total_assets of the account
    MaxUsd,        \* MAX_POSITION_SIZE_USD
    MaxOpenTrades, \* MAX_OPEN_TRADES
    MaxOrders      \* bound: orders accepted in a behaviour

ASSUME PipelineAssumption ==
    /\ Codes \in Seq(STRING) /\ IsInjective(Codes)
    /\ Watched \in [Range(Codes) -> SUBSET Range(Registered)]
    /\ Digests \subseteq Bars
    /\ {Levels, Distances} \subseteq SUBSET (0..100)
    /\ {Price, Balance, MaxUsd, MaxOpenTrades, MaxOrders} \subseteq Nat \ {0}

VARIABLES
    proc,      \* "down", "idle", "reading", "ranking", "trading", "recording"
    stop,      \* _shutdown
    switch,    \* settings.kill_switch
    known,     \* risk.state.open_positions: code -> market value, 0 for none
    signals,   \* all_signals of this cycle
    queue,     \* scored signals still to be handled
    held,      \* the account: code -> value of its position, negative for a short one
    buying,    \* code -> value of its buy orders that have not filled
    selling,   \* code -> value of its sell orders that have not filled
    blind,     \* codes of which this cycle's manager was shown too little
    unseen,    \* history: code -> buys sent for it in such cycles
    accepted,  \* orders the broker accepted
    logged,    \* rows of trades.csv
    unlogged   \* accepted orders that can have no row any more

memory  == <<known, signals, queue>>
account == <<held, buying, selling>>
sight   == <<blind, unseen>>
books   == <<accepted, logged, unlogged>>
vars    == <<proc, stop, switch, memory, account, sight, books>>

Tickers == Range(Codes)
Flat    == [c \in Tickers |-> 0]
Signals == [code : Tickers, direction : {"LONG", "SHORT"}, strength : Levels, risk : Distances]

TypeOK ==
    /\ proc \in {"down", "idle", "reading", "ranking", "trading", "recording"}
    /\ {stop, switch} \subseteq BOOLEAN
    /\ {known, held} \subseteq [Tickers -> Int]
    /\ {buying, selling} \subseteq [Tickers -> Nat]
    /\ {signals, queue} \subseteq Seq(Signals)
    /\ blind \subseteq Tickers
    /\ unseen \in [Tickers -> 0..MaxOrders]
    /\ {accepted, logged, unlogged} \subseteq 0..MaxOrders
    /\ proc \in {"down", "idle"} => signals = <<>> /\ queue = <<>> /\ blind = {}

Init ==
    /\ proc = "down" /\ stop = FALSE /\ switch = FALSE
    /\ known = Flat /\ signals = <<>> /\ queue = <<>>
    /\ held = Flat /\ buying = Flat /\ selling = Flat
    /\ blind = {} /\ unseen = Flat
    /\ accepted = 0 /\ logged = 0 /\ unlogged = 0

-----------------------------------------------------------------------------
(* main and the cycle                                                      *)

\* connect answers and the loop begins with a new RiskState; when it does not
\* answer the process ends again.
Start ==
    /\ proc = "down"
    /\ proc' = "idle" /\ stop' = FALSE /\ switch' \in BOOLEAN
    /\ known' = Flat
    /\ UNCHANGED <<signals, queue, account, sight, books>>

Idle ==
    /\ proc' = "idle" /\ signals' = <<>> /\ queue' = <<>> /\ blind' = {}
    /\ UNCHANGED <<known, unseen>>

\* get_account_balance answers with money and update_positions takes over what
\* get_positions returns, which is nothing at all if the query fails and leaves
\* out what is still being bought.
Refresh(answered) ==
    /\ proc = "idle" /\ ~ stop
    /\ proc' = "reading"
    /\ known' = IF answered THEN held ELSE Flat
    /\ blind' = {c \in Tickers : known'[c] < held[c] \/ buying[c] > 0}
    /\ UNCHANGED <<stop, switch, signals, queue, account, unseen, books>>

Allowed(code) == {n \in DOMAIN Registered : Registered[n] \in Watched[code]}

\* The signals a ticker may give on some bars, in the registry's order.  With
\* fewer than 50 bars it is skipped.
Evaluations(code, b) ==
    LET firing == {n \in Allowed(code) : b.count >= 50 /\ Fires(Registered[n], code, b)}
        emitted(n, choice) == [code |-> code, direction |-> Direction(Registered[n]),
                               strength |-> choice[1], risk |-> choice[2]]
        order == InOrder(firing)
    IN {[k \in DOMAIN order |-> emitted(order[k], choice[order[k]])] :
          choice \in {f \in [firing -> Levels \X Distances] :
                        \A n \in firing : f[n][1] \in Strengths(Registered[n])}}

\* What one pass over the watchlist may collect.
Collections ==
    FoldLeft(LAMBDA found, c : {s \o t : s \in found,
                                         t \in UNION {Evaluations(c, b) : b \in Digests}},
             {<<>>}, Codes)

\* The bars of a ticker whose later pages failed are of some earlier day.
Scan ==
    /\ proc = "reading"
    /\ proc' = "ranking"
    /\ signals' \in Collections
    /\ UNCHANGED <<stop, switch, known, queue, account, sight, books>>

\* A first page that is followed by a failed one is replaced by the text of the
\* error, which enrich cannot read: the cycle ends there.
ScanRaises ==
    /\ proc = "reading"
    /\ Idle
    /\ UNCHANGED <<stop, switch, account, books>>

Rank ==
    /\ proc = "ranking"
    /\ proc' = "trading"
    /\ queue' = RankedSignals(signals) /\ signals' = <<>>
    /\ UNCHANGED <<stop, switch, known, account, sight, books>>

-----------------------------------------------------------------------------
(* check_and_size                                                          *)

\* Variant: an exposure at the limit still passes.
ConcentratedAbove(code) == 10 * known[code] > Balance

\* A position in one ticker of a tenth of the balance.  A short one is negative
\* and never that large.
Concentrated(code) == 10 * known[code] >= Balance

OpenTrades == Cardinality({c \in Tickers : known[c] # 0})

Approved(code) ==
    /\ ~ switch
    /\ OpenTrades < MaxOpenTrades
    /\ ~ Concentrated(code)

\* Five per cent of the balance or the dollar cap, and one per cent at risk.
Budget == Capped(Balance \div 20, MaxUsd)

Quantity(risk) ==
    IF risk = 0 THEN Budget \div Price
    ELSE Capped(Balance \div (100 * risk), Budget \div Price)

Amount(s) == Quantity(s.risk) * Price

Tradable(s) == Approved(s.code) /\ Quantity(s.risk) > 0

Reject ==
    /\ proc = "trading" /\ queue # <<>> /\ ~ Tradable(Head(queue))
    /\ queue' = Tail(queue)
    /\ UNCHANGED <<proc, stop, switch, known, signals, account, sight, books>>

-----------------------------------------------------------------------------
(* execute and record_entry                                                *)

Sending == proc = "trading" /\ queue # <<>> /\ Tradable(Head(queue))

Accept ==
    LET s == Head(queue) IN
    /\ accepted < MaxOrders
    /\ accepted' = accepted + 1
    /\ \/ /\ s.direction = "LONG"
          /\ buying' = [buying EXCEPT ![s.code] = @ + Amount(s)]
          /\ unseen' = [unseen EXCEPT ![s.code] = IF s.code \in blind THEN @ + 1 ELSE @]
          /\ UNCHANGED selling
       \/ /\ s.direction = "SHORT"
          /\ selling' = [selling EXCEPT ![s.code] = @ + Amount(s)]
          /\ UNCHANGED <<buying, unseen>>
    /\ UNCHANGED <<held, logged>>

Place ==
    /\ Sending /\ Accept
    /\ proc' = "recording"
    /\ UNCHANGED <<stop, switch, memory, blind, unlogged>>

\* Variant: the row is written whatever the broker says.
PlaceFailsLogged(taken) ==
    /\ Sending /\ ~ taken
    /\ logged' = logged + 1
    /\ queue' = Tail(queue)
    /\ UNCHANGED <<proc, stop, switch, known, signals, account, sight, accepted, unlogged>>

\* The broker refuses, or accepts and the answer says otherwise: the loop goes on.
PlaceFails(taken) ==
    /\ Sending
    /\ IF taken THEN Accept /\ unlogged' = unlogged + 1
                ELSE UNCHANGED <<account, unseen, books>>
    /\ queue' = Tail(queue)
    /\ UNCHANGED <<proc, stop, switch, known, signals, blind>>

\* The row goes to trades.csv with the order's id.
Record ==
    /\ proc = "recording"
    /\ proc' = "trading" /\ queue' = Tail(queue)
    /\ logged' = logged + 1
    /\ UNCHANGED <<stop, switch, known, signals, account, sight, accepted, unlogged>>

\* Writing the row fails: the exception ends the cycle.
RecordRaises ==
    /\ proc = "recording"
    /\ Idle
    /\ unlogged' = unlogged + 1
    /\ UNCHANGED <<stop, switch, account, accepted, logged>>

EndCycle ==
    /\ proc = "trading" /\ queue = <<>>
    /\ Idle
    /\ UNCHANGED <<stop, switch, account, books>>

-----------------------------------------------------------------------------
(* Signals to the process, and the broker                                  *)

Shutdown ==
    /\ proc # "down" /\ ~ stop
    /\ stop' = TRUE
    /\ UNCHANGED <<proc, switch, memory, account, sight, books>>

Exit ==
    /\ proc = "idle" /\ stop
    /\ proc' = "down"
    /\ UNCHANGED <<stop, switch, memory, account, sight, books>>

Kill ==
    /\ proc # "down"
    /\ proc' = "down" /\ signals' = <<>> /\ queue' = <<>> /\ blind' = {}
    /\ unlogged' = IF proc = "recording" THEN unlogged + 1 ELSE unlogged
    /\ UNCHANGED <<stop, switch, known, account, unseen, accepted, logged>>

Buy(c) ==
    /\ buying[c] > 0
    /\ held' = [held EXCEPT ![c] = @ + buying[c]]
    /\ buying' = [buying EXCEPT ![c] = 0]
    /\ UNCHANGED <<proc, stop, switch, memory, selling, sight, books>>

Sell(c) ==
    /\ selling[c] > 0
    /\ held' = [held EXCEPT ![c] = @ - selling[c]]
    /\ selling' = [selling EXCEPT ![c] = 0]
    /\ UNCHANGED <<proc, stop, switch, memory, buying, sight, books>>

\* The day ends: what has not filled is gone.
DayEnds ==
    /\ buying # Flat \/ selling # Flat
    /\ buying' = Flat /\ selling' = Flat
    /\ UNCHANGED <<proc, stop, switch, memory, held, sight, books>>

\* Somebody closes a position by hand, which is the only way one is closed.
CloseByHand(c) ==
    /\ held[c] # 0
    /\ held' = [held EXCEPT ![c] = 0]
    /\ UNCHANGED <<proc, stop, switch, memory, buying, selling, sight, books>>

Cycle ==
    \/ \E answered \in BOOLEAN : Refresh(answered)
    \/ Scan \/ ScanRaises \/ Rank
    \/ Reject \/ Place \/ (\E taken \in BOOLEAN : PlaceFails(taken))
    \/ Record \/ RecordRaises \/ EndCycle

Next ==
    \/ Start \/ Cycle \/ Shutdown \/ Exit \/ Kill \/ DayEnds
    \/ \E c \in Tickers : Buy(c) \/ Sell(c) \/ CloseByHand(c)

Spec == Init /\ [][Next]_vars

-----------------------------------------------------------------------------
\* "10% in one ticker" (settings.py:31), as far as the code keeps it.  It looks
\* at the position before it sizes the order, so a long side may have one budget
\* more, and one for each buy of a cycle that was shown too little: its query
\* failed, or another buy was resting.  A short side has no limit but its orders.
ExposureBounded ==
    \A c \in Tickers :
       /\ 10 * (held[c] + buying[c]) < Balance + 10 * Budget * (1 + unseen[c])
       /\ selling[c] - held[c] <= Budget * accepted

\* The same of a short side, which the code does not keep: a negative market
\* value passes any limit, so that it grows by a budget each cycle.
ShortsLimited == \A c \in Tickers : 10 * (selling[c] - held[c]) < Balance + 10 * Budget

\* Whatever the strategies say, a cycle trades a ticker on one side and it is
\* the side with the better score (scorer.py:38-92 against its definition).
RankedByScore == proc = "ranking" => IsRanking(RankedSignals(signals), signals)

\* trades.csv has a row for each order and an order for each row ("Records
\* every trade", tracker.py:3), except for orders cut off from their row by a
\* lost answer, a failed write or a kill.
TradesLogged ==
    logged + unlogged + (IF proc = "recording" THEN 1 ELSE 0) = accepted
=============================================================================
