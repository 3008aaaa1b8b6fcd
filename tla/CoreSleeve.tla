----------------------------- MODULE CoreSleeve -----------------------------
(***************************************************************************)
(* The core sleeve: fundamental/sleeve.py, portfolio.py and rebalancer.py, *)
(* as the two calls of auto_trader's cycle drive them.                     *)
(*                                                                         *)
(* Once a day the cycle starts a thread that fetches fundamentals, sorts   *)
(* the universe into sleeves and rewrites logs/sleeve_assignments.json.    *)
(* Every cycle reads logs/core_rebalance_state.json and, a week after the  *)
(* last time, rebalances the core holdings by the assignments in the file, *)
(* however old those are.  Nothing locks either file.                      *)
(*                                                                         *)
(* Dates are kept as ages in days, capped where the code stops telling     *)
(* them apart; money is in any unit that makes a quarter of BaseSize       *)
(* whole; scores are in hundredths.                                        *)
(***************************************************************************)
EXTENDS Integers, FiniteSets, Sequences, SequencesExt, Ranking

CONSTANTS
    Universe,      \* US_UNIVERSE + ETF_UNIVERSE, in their order
    Sector,        \* TICKER_SECTOR
    Fundamentals,  \* scores a ticker may get: quality q and valuation v
    OpenSets,      \* symbols the trader may hold when it starts a thread
    Regimes,       \* market regimes a cycle may see
    Week,          \* 7 days
    MinHoldWeeks,  \* MIN_HOLD_WEEKS
    MaxChanges,    \* MAX_CHANGES_PER_REBALANCE
    CoreMax,       \* CORE_MAX_POSITIONS
    Equity,        \* TOTAL_CAPITAL
    BaseSize,      \* CORE_POSITION_PCT of it
    NameCap, SectorCap, CashFloor,  \* the limits R4, R5 and R7, in money
    MaxThreads,    \* bound: classification threads at a time
    Never,         \* model value: not yet
    Missing, Garbled  \* model values: no assignments file; one cut short

Tickers == Range(Universe)

Assignments == [sleeve : {"core", "none"},
                strategy : {"buy_stock", "sell_csp", "hold_cc", "wait"},
                valuation : 0..100, confidence : 0..200]

ASSUME SleeveAssumption ==
    /\ Universe \in Seq(STRING) /\ IsInjective(Universe)
    /\ \A f \in Fundamentals : f.q \in 0..100 /\ f.v \in 0..100
    /\ Regimes \subseteq {"bull", "flat", "bear"}
    /\ {Week, MinHoldWeeks, MaxChanges, CoreMax, MaxThreads} \subseteq Nat \ {0}
    /\ {Equity, BaseSize, NameCap, SectorCap, CashFloor} \subseteq Nat
    /\ BaseSize > 0 /\ BaseSize % 4 = 0
    /\ Tickers \subseteq DOMAIN Sector
    /\ Never \notin Nat /\ Missing # Garbled
    /\ \A file \in {Missing, Garbled} : file \notin [Tickers -> Assignments]

VARIABLES
    trader,    \* the auto_trader process: "up" or "down"
    assigned,  \* sleeve_assignments.json
    done,      \* _last_sleeve_date is today's
    threads,   \* classification threads: how many of each kind
    saved      \* core_rebalance_state.json

sleeve == <<assigned, done, threads, saved>>
svars  == <<trader, sleeve>>

Mature == MinHoldWeeks * Week   \* the age from which a holding may go

Holding == [ticker : Tickers, age : 0..Mature, notional : Nat,
            strategy : {"buy_stock", "sell_csp"}]

Names(holdings) == {holdings[i].ticker : i \in DOMAIN holdings}

\* RebalanceState(), which is also what an unreadable file loads as.
Fresh == [last |-> Never, holdings |-> <<>>]

\* A thread fetches, then saves; the day it was started for is today or not.
Kind == {"fetch", "save"} \X BOOLEAN

NoThreads == [k \in Kind |-> 0]

Init ==
    /\ trader = "down"
    /\ assigned = Missing /\ done = FALSE
    /\ threads = NoThreads
    /\ saved = Fresh

-----------------------------------------------------------------------------
(* classify_ticker.  No caller passes a technical score, so the tactical   *)
(* sleeve is never assigned and the chart check never applies.             *)

IsCore(f) == f.q >= 55 /\ f.v >= 40 /\ f.q + f.v >= 100

CoreStrategy(f, held, regime) ==
    IF held THEN IF f.v < 30 THEN "wait" ELSE "hold_cc"
    ELSE IF regime = "bear"
    THEN IF f.v >= 55 /\ f.q >= 60 THEN "sell_csp" ELSE "wait"
    ELSE IF f.v >= 65 /\ f.q >= 60 THEN "buy_stock"
    ELSE IF f.v >= 45 /\ f.q >= 55 THEN "sell_csp" ELSE "wait"

Assignment(f, held, regime) ==
    [sleeve     |-> IF IsCore(f) THEN "core" ELSE "none",
     strategy   |-> IF IsCore(f) THEN CoreStrategy(f, held, regime) ELSE "wait",
     valuation  |-> f.v,
     confidence |-> f.q + f.v]

Classified(info, open, regime) ==
    [t \in Tickers |-> Assignment(info[t], t \in open, regime)]

Readable == assigned \notin {Missing, Garbled}

(* A thread.  write_text truncates the file when it opens it and fills it  *)
(* when it closes it; a second thread may do the same in between.          *)

\* One thread changes kind; "new" and "gone" are no kinds.
Moves(from, to) ==
    threads' = [k \in Kind |-> threads[k] - (IF k = from THEN 1 ELSE 0)
                                          + (IF k = to THEN 1 ELSE 0)]

\* Each cycle starts one while today's has not finished.
StartClassifying ==
    /\ trader = "up" /\ ~ done
    /\ SumFunction(threads) < MaxThreads
    /\ Moves(<<"new", TRUE>>, <<"fetch", TRUE>>)
    /\ UNCHANGED <<trader, assigned, done, saved>>

ClassifyFails(today) ==
    /\ threads[<<"fetch", today>>] > 0
    /\ Moves(<<"fetch", today>>, <<"gone", today>>)
    /\ UNCHANGED <<trader, assigned, done, saved>>

BeginSave(today) ==
    /\ threads[<<"fetch", today>>] > 0
    /\ Moves(<<"fetch", today>>, <<"save", today>>)
    /\ assigned' = Garbled
    /\ UNCHANGED <<trader, done, saved>>

\* What the thread was given, regime and open symbols, and what it fetched are
\* chosen here: nobody sees them earlier.  Written over the longer text of
\* another thread the file is garbled.
EndSave(today) ==
    /\ threads[<<"save", today>>] > 0
    /\ \E info \in [Tickers -> Fundamentals], open \in OpenSets, regime \in Regimes :
         assigned' \in {Classified(info, open, regime)}
                         \union (IF Readable THEN {Garbled} ELSE {})
    /\ done' = today
    /\ Moves(<<"save", today>>, <<"gone", today>>)
    /\ UNCHANGED <<trader, saved>>

-----------------------------------------------------------------------------
(* generate_rebalance_actions and execute_rebalance                        *)

CoreSize(regime) ==
    CASE regime = "bear" -> BaseSize \div 2
      [] regime = "flat" -> (3 * BaseSize) \div 4
      [] OTHER           -> BaseSize

Exposure(holdings, sector) ==
    SumFunction([i \in DOMAIN holdings |->
                   IF Sector[holdings[i].ticker] = sector THEN holdings[i].notional ELSE 0])

\* Variant: the sector's exposure compared without the new position.
AllowedBefore(t, size, holdings) ==
    /\ size <= NameCap
    /\ Exposure(holdings, Sector[t]) <= SectorCap
    /\ Equity - size >= CashFloor

\* check_concentration against the PortfolioState the cycle builds: the core
\* holdings before any of this rebalance's changes, no tactical position, and
\* the default cash, which is all the capital.
Allowed(t, size, holdings) ==
    /\ size <= NameCap
    /\ Exposure(holdings, Sector[t]) + size <= SectorCap
    /\ Equity - size >= CashFloor

\* Core names have a valuation of 40 at least, so nothing is ever trimmed.
Overvalued(h)   == assigned[h.ticker].sleeve = "core" /\ assigned[h.ticker].valuation < 25
Declassified(h) == assigned[h.ticker].sleeve # "core"

\* Holdings that should go or shrink, of which the first MaxChanges do.
Due(holdings) ==
    {i \in DOMAIN holdings : /\ holdings[i].age >= Mature
                             /\ Declassified(holdings[i]) \/ Overvalued(holdings[i])}
Acted(holdings) ==
    {i \in Due(holdings) : Cardinality({j \in Due(holdings) : j <= i}) <= MaxChanges}

Kept(holdings) ==
    LET exited == {i \in Acted(holdings) : Declassified(holdings[i])}
        kept   == {i \in DOMAIN holdings : i \notin exited}
        order  == Ranked(kept, [i \in kept |-> kept \intersect (1..i)])
    IN [n \in DOMAIN order |->
          IF order[n] \in Acted(holdings)
          THEN [holdings[order[n]] EXCEPT !.notional = @ \div 2]
          ELSE holdings[order[n]]]

\* Variant: the strategy of the file taken whatever the market does today.
CandidatesAnyRegime(regime, holdings) ==
    {t \in Tickers \ Names(holdings) :
       /\ assigned[t].sleeve = "core"
       /\ assigned[t].strategy \in {"buy_stock", "sell_csp"}}

Candidates(regime, holdings) ==
    {t \in Tickers \ Names(holdings) :
       /\ assigned[t].sleeve = "core"
       /\ assigned[t].strategy \in
            (IF regime = "bear" THEN {"sell_csp"} ELSE {"buy_stock", "sell_csp"})}

\* By confidence, the highest first, then in the order of the file.
Before(t, u) ==
    LET place(x) == CHOOSE i \in DOMAIN Universe : Universe[i] = x IN
    \/ assigned[t].confidence > assigned[u].confidence
    \/ assigned[t].confidence = assigned[u].confidence /\ place(t) < place(u)

Smaller(m, n) == IF m < n THEN m ELSE n

\* Exits do not make room within one rebalance: the count is taken before.
Added(regime, holdings) ==
    LET size    == CoreSize(regime)
        fit     == {t \in Candidates(regime, holdings) : Allowed(t, size, holdings)}
        allowed == Ranked(fit, [t \in fit |-> {u \in fit : u = t \/ Before(u, t)}])
        room    == Smaller(MaxChanges - Cardinality(Acted(holdings)),
                           CoreMax - Len(holdings))
        count   == Smaller(room, Cardinality(fit))
    IN [n \in 1..count |-> [ticker |-> allowed[n], age |-> 0, notional |-> size,
                            strategy |-> assigned[allowed[n]].strategy]]

\* Variant: one day short of a week.
ShouldRebalanceEarly == saved.last # Never => saved.last + 1 >= Week

ShouldRebalance == saved.last # Never => saved.last >= Week

\* _run_weekly_core_rebalance: an assignments file that is missing or does not
\* parse leaves everything for the next cycle.
Rebalance(regime) ==
    /\ trader = "up" /\ ShouldRebalance /\ Readable
    /\ saved' = [last     |-> 0,
                 holdings |-> Kept(saved.holdings) \o Added(regime, saved.holdings)]
    /\ UNCHANGED <<trader, assigned, done, threads>>

-----------------------------------------------------------------------------
(* The process and the calendar                                            *)

Boot ==
    /\ trader = "down"
    /\ trader' = "up"
    /\ UNCHANGED sleeve

Forgotten ==
    /\ trader = "up"
    /\ trader' = "down"
    /\ done' = FALSE
    /\ threads' = NoThreads

\* The threads are daemons: they die with the process, wherever they are.
Die ==
    /\ Forgotten
    /\ UNCHANGED <<assigned, saved>>

\* Killed inside save_rebalance_state: the file is cut short and loads as new.
DieSaving ==
    /\ ShouldRebalance /\ Readable
    /\ Forgotten
    /\ saved' = Fresh
    /\ UNCHANGED assigned

Older(age, cap) == Smaller(age + 1, cap)

Midnight ==
    /\ done' = FALSE
    /\ threads' = [k \in Kind |-> IF k[2] THEN 0 ELSE threads[k] + threads[<<k[1], TRUE>>]]
    /\ saved' = [last     |-> IF saved.last = Never THEN Never ELSE Older(saved.last, Week),
                 holdings |-> [n \in DOMAIN saved.holdings |->
                                 [saved.holdings[n] EXCEPT !.age = Older(@, Mature)]]]
    /\ UNCHANGED <<trader, assigned>>

CycleWork  == StartClassifying \/ \E regime \in Regimes : Rebalance(regime)
ThreadWork == \E today \in BOOLEAN : ClassifyFails(today) \/ BeginSave(today) \/ EndSave(today)

Next == CycleWork \/ ThreadWork \/ Midnight \/ Boot \/ Die \/ DieSaving

Spec == Init /\ [][Next]_svars

-----------------------------------------------------------------------------
\* Every variable has its type, and the core holds a name once and no more
\* than CORE_MAX_POSITIONS of them.
TypeOK ==
    /\ trader \in {"up", "down"}
    /\ assigned \in {Missing, Garbled}
         \union [Tickers -> Assignments]
    /\ done \in BOOLEAN
    /\ threads \in [Kind -> 0..MaxThreads]
    /\ saved.last \in 0..Week \union {Never}
    /\ saved.holdings \in Seq(Holding)
    /\ \A i, j \in DOMAIN saved.holdings :
         saved.holdings[i].ticker = saved.holdings[j].ticker => i = j
    /\ Len(saved.holdings) <= CoreMax

\* "R5: Max 30% in any single sector" (portfolio.py:26), as far as the code
\* keeps it.  The adds of one rebalance are each checked against the holdings
\* before any of them, so a sector can pass its cap by all of them but one.
SectorBounded ==
    \A s \in {Sector[t] : t \in Tickers} :
       Exposure(saved.holdings, s) <= SectorCap + (MaxChanges - 1) * BaseSize

\* "Core sleeve only opens in bull/flat regimes" (portfolio.py:27): whatever
\* regime the assignments were made in, nothing sized for a bear market is
\* stock; it is a put.
BearHoldsPutsOnly ==
    \A i \in DOMAIN saved.holdings :
       saved.holdings[i].notional = CoreSize("bear") => saved.holdings[i].strategy = "sell_csp"

\* "Max 2 position changes per rebalance ... Runs ONCE PER WEEK" (rebalancer.py:5,
\* 8): whatever the threads, restarts and lost files do, what the core holds
\* was bought at most two names at a time, the batches a week apart.
WeeklyBatches ==
    LET young == {i \in DOMAIN saved.holdings : saved.holdings[i].age < Mature}
        age(i) == saved.holdings[i].age
    IN \A i \in young :
         /\ Cardinality({j \in young : age(j) = age(i)}) <= MaxChanges
         /\ \A j \in young : age(i) < age(j) => age(j) - age(i) >= Week
=============================================================================
