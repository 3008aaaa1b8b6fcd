----------------------------- MODULE ExitRules -----------------------------
(***************************************************************************)
(* What decides whether an open position is sold: the stops of             *)
(* auto_trader.check_exits, the profit-protection layer, and the class of  *)
(* the position, which has the last word.                                  *)
(*                                                                         *)
(* Prices are in thousandths of the entry price, so a gain of 1.5 per cent *)
(* is a price of Entry + 15.  No price is 0, which stands for None.        *)
(***************************************************************************)
EXTENDS Integers, Sequences, FiniteSets, FiniteSetsExt

CONSTANTS
    Band,          \* adopted rows: distance of stop and target from the entry
    StaleDays,     \* a position that did not move is closed after these days
    MaxDays,       \* and any position after these
    MinHoldDays,   \* min_hold_days of the class CATALYST
    Override,      \* POSITION_CLASS_<symbol>, "" when it is not set
    IsETF          \* the symbol is on the list of ETFs

Classes == {"COMPOUNDER", "CATALYST", "TACTICAL"}

Entry == 1000
None  == 0

ASSUME RulesAssumption ==
    /\ {Band, StaleDays, MaxDays, MinHoldDays} \subseteq Nat \ {0}
    /\ Band < Entry
    /\ Override \in Classes \union {""}
    /\ IsETF \in BOOLEAN

Gain(price) == price - Entry

\* The target and the first stop of a row, and what stands for the true range.
Target(dir)    == IF dir = "LONG" THEN Entry + Band ELSE Entry - Band
FirstStop(dir) == IF dir = "LONG" THEN Entry - Band ELSE Entry + Band
Range0         == (2 * Band) \div 5

-----------------------------------------------------------------------------
(* Stops                                                                   *)

\* One range in profit: the entry.  Two: one and a half below the price.
AtrStop(dir, price) ==
    LET sign == IF dir = "LONG" THEN 1 ELSE -1
        won  == sign * Gain(price)
    IN IF won >= 2 * Range0 THEN price - sign * ((3 * Range0) \div 2)
       ELSE IF won >= Range0 THEN Entry
       ELSE None

Tighter(dir, new, stop) ==
    new # None /\ (IF dir = "LONG" THEN new > stop ELSE new < stop)

AtrTrail(dir, price, stop) ==
    LET new == AtrStop(dir, price) IN IF Tighter(dir, new, stop) THEN new ELSE stop

\* Variant: the ladder begins one rung late.
LadderLate(gain) ==
    IF gain < 30 THEN None ELSE IF gain < 45 THEN Entry + 15 ELSE Entry + 25

\* The ladder of compute_trailing_stop.
Ladder(gain) ==
    IF gain < 15 THEN None
    ELSE IF gain < 30 THEN Entry
    ELSE IF gain < 45 THEN Entry + 15
    ELSE Entry + 25

-----------------------------------------------------------------------------
(* The profit-protection layer, for long positions                         *)

\* What the returns of SPY over one, three and five days, in thousandths, say.
RallyLevel(r) ==
    IF r[3] >= 100 THEN "euphoria"
    ELSE IF r[2] >= 60 THEN "multi_day"
    ELSE IF r[1] >= 30 \/ r[3] >= 50 THEN "extended"
    ELSE "normal"

\* The last daily bars of a symbol: how many came, the last one of them, and
\* whether it closed higher and its RSI stood lower than five bars before.
Bars == [count: Nat, open: Nat, high: Nat, low: Nat, close: Nat, higher: BOOLEAN, weaker: BOOLEAN]

RSIDivergence(b) == b.count >= 14 + 5 + 1 /\ b.higher /\ b.weaker

\* Two fifths of the last bar's range lie above its body.
UpperWick(b) ==
    /\ b.count > 0 /\ b.high > b.low
    /\ 10 * (b.high - Max({b.open, b.close})) >= 4 * (b.high - b.low)

\* The third signal, faded volume, raises the stop to the rung it would be
\* raised to anyway.
ComputeSignals(b) == [rsi_divergence |-> RSIDivergence(b), upper_wick |-> UpperWick(b)]

\* Days to the next earnings date on file, from today on; Unknown when it cannot
\* be found, and always for a fund.
Unknown == -1
DaysToEarnings(dates) == IF IsETF THEN {Unknown} ELSE {d \in dates : d >= 0} \union {Unknown}

Blackout(days) == days \in 0..1

Sell       == [exit |-> TRUE, stop |-> None]
Raise(new) == [exit |-> FALSE, stop |-> new]
Hold       == Raise(None)

\* A trim is a full exit, and the stop it would have set is not set.
Trim == Sell

\* evaluate_exit for a position that is not core, which none is: the sleeve is
\* read from a column that never says so.
EvaluateExit(price, stop, target, rally, sig, days) ==
    LET gain  == Gain(price)
        rung  == Ladder(gain)
        floor == Max({rung, stop, Entry})
    IN IF Blackout(days) \/ rally = "euphoria" THEN Sell
       ELSE IF rally = "multi_day" /\ gain >= 20 THEN Trim
       ELSE IF rally = "extended" /\ gain >= 15 /\ floor > stop THEN Raise(floor)
       ELSE IF gain >= 15 /\ sig.upper_wick /\ 100 * price >= 99 * target THEN Sell
       ELSE IF gain >= 30 /\ sig.rsi_divergence THEN Trim
       ELSE IF rung > stop THEN Raise(rung)
       ELSE Hold

-----------------------------------------------------------------------------
(* Standard and timed exits                                                *)

HitsLevel(dir, price, stop) ==
    IF dir = "LONG" THEN price <= stop \/ price >= Target(dir)
                    ELSE price >= stop \/ price <= Target(dir)

\* Variant: the hard maximum spares a position that moved.
TooOldIfFlat(price, days) == days >= StaleDays /\ Gain(price) \in -9..9

TooOld(price, days) ==
    \/ days >= StaleDays /\ Gain(price) \in -9..9
    \/ days >= MaxDays

-----------------------------------------------------------------------------
(* The class of a position                                                 *)

\* A thesis: quality of at least 0.70 known, its horizon, the days since it
\* was logged.
Thesis(quality, horizon) == [quality |-> quality, horizon |-> horizon, days |-> 0]

Horizon(t) == IF t.horizon = 0 THEN 90 ELSE t.horizon

Classify(t, dir) ==
    IF Override # "" THEN Override
    ELSE IF dir = "SHORT" \/ IsETF THEN "TACTICAL"
    ELSE IF t.quality /\ Horizon(t) >= 365 THEN "COMPOUNDER"
    ELSE IF Horizon(t) \in 60..360 THEN "CATALYST"
    ELSE "TACTICAL"

\* Variant: the days are those of the horizon that is left.
MayExitByHorizon(t, dir) ==
    /\ Classify(t, dir) # "COMPOUNDER"
    /\ Classify(t, dir) = "CATALYST" => t.days < t.horizon

\* should_exit of the classifier, for a technical exit and no thesis break,
\* which is the only way it is asked.
MayExit(t, dir) ==
    /\ Classify(t, dir) # "COMPOUNDER"
    /\ Classify(t, dir) = "CATALYST" => t.days >= MinHoldDays
=============================================================================
