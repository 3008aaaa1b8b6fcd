-------------------------- MODULE StageController --------------------------
(***************************************************************************)
(* risk/stage_controller.py and scripts/enable_live.py.                    *)
(*                                                                         *)
(* The trader process holds one LiveState (StageController._instance) and  *)
(* rewrites logs/live_state.json after every mutation.  The file is read   *)
(* only when a controller is constructed: at the trader's start, and by    *)
(* enable_live.py, a second process with a copy of its own.                *)
(*                                                                         *)
(* Money is in whole units, floors in hundredths of a unit, so that the    *)
(* percentages of STAGES[1] are integer factors.                           *)
(***************************************************************************)
EXTENDS Integers, FiniteSets

CONSTANTS
    Cap,         \* capital_cap, and so starting_equity
    Symbols,     \* allowed_symbols of the stage
    MaxOpen,     \* max_open_positions
    StreakLimit, \* consecutive_losses_system
    UnlockAfter, \* options_unlock_after_clean_stock_trades
    WeekLength,  \* days in a calendar week
    Equities,    \* broker equities a tick may be given
    Orders,      \* order requests a caller may make
    PnLs,        \* results a close may book
    MaxDay,      \* bound: last calendar day
    MaxCloses,   \* bound: closes booked in one LiveState
    MaxCrashes,  \* bound: crashes of the trader process
    MaxCliRuns,  \* bound: runs of enable_live.py
    Down,        \* model value: no process, or no copy of the state
    Unreadable   \* model value: state file missing, empty or cut short

(***************************************************************************)
(* An order has the fields precheck_order reads: symbol, notional, kind    *)
(* (for the options branch) and fits, the verdict of the rules that look   *)
(* at the request alone: strategy, score, regime, sector, quote age, days  *)
(* to earnings.                                                            *)
(***************************************************************************)
ASSUME StageAssumption ==
    /\ Cap \in Nat \ {0}
    /\ IsFiniteSet(Symbols)
    /\ MaxOpen \in Nat /\ StreakLimit \in Nat /\ UnlockAfter \in Nat
    /\ WeekLength \in Nat \ {0}
    /\ Equities \subseteq Nat
    /\ PnLs \subseteq Int
    /\ \A o \in Orders : /\ o.notional \in Nat \ {0}
                         /\ o.fits \in BOOLEAN
    /\ MaxDay \in Nat /\ MaxCloses \in Nat
    /\ MaxCrashes \in Nat /\ MaxCliRuns \in Nat

VARIABLES
    mem,     \* StageController.state of the trader process, or Down
    disk,    \* logs/live_state.json, or Unreadable
    saving,  \* the trader is inside write_text: the file is truncated
    cli,     \* enable_live.py: Down, or the command and its copy of the state
    today,   \* the calendar day of datetime.now()
    env      \* bounds used up: crashes and command-line runs

vars == <<mem, disk, saving, cli, today, env>>

-----------------------------------------------------------------------------
\* Levels of STAGES[1], in hundredths of a unit.
HardFloor      == 95 * Cap
EmergencyFloor == 90 * Cap
DailyLossHalt  == 3 * Cap
WeeklyLossHalt == 5 * Cap
MaxPosition    == 15 * Cap
MaxDayExposure == 30 * Cap

HaltReasons == {"EMERGENCY_FLOOR", "HARD_FLOOR", "DAILY_LOSS", "WEEKLY_LOSS",
                "STREAK"}
NotHalted == "none"

\* Units in hundredths, and half a percent above a floor.
Cents(x) == 100 * x
ClearOf(e, floor) == 1000 * Cents(e) > 1005 * floor

WeekOf(d) == d \div WeekLength

(***************************************************************************)
(* The dataclass.  total_pnl_realized, the per-strategy streaks and the    *)
(* timestamps are written and never read by the controller.  "resumed" is  *)
(* history: the RESUME line clear_halt adds to live_halts.jsonl since the  *)
(* last tick of this state.                                                *)
(***************************************************************************)
LiveState ==
    [live_mode : BOOLEAN, current_equity : Nat, hwm : Nat,
     trailing_floor : Nat, de_risk_flag : BOOLEAN,
     halt : HaltReasons \union {NotHalted},
     today_date : Nat, today_realized_pnl : Int, today_new_exposure : Nat,
     week_iso : Nat, week_realized_pnl : Int,
     consec_losses_system : Nat, closed_trade_count : Nat,
     clean_stock_trades : Nat, open_symbols : SUBSET Symbols,
     resumed : BOOLEAN]

ASSUME SentinelAssumption ==
    Down # Unreadable /\ Down \notin LiveState /\ Unreadable \notin LiveState

\* _load with no readable file: a new stage-1 state in shadow mode.
Fresh(d) ==
    [live_mode |-> FALSE, current_equity |-> Cap, hwm |-> Cap,
     trailing_floor |-> HardFloor, de_risk_flag |-> FALSE, halt |-> NotHalted,
     today_date |-> d, today_realized_pnl |-> 0, today_new_exposure |-> 0,
     week_iso |-> WeekOf(d), week_realized_pnl |-> 0,
     consec_losses_system |-> 0, closed_trade_count |-> 0,
     clean_stock_trades |-> 0, open_symbols |-> {}, resumed |-> FALSE]

\* The ladder of _compute_trailing_floor, before its ratchet.
Ladder(h) ==
    LET gain == Cents(h - Cap) IN
    IF      gain < 3 * Cap  THEN 95 * Cap
    ELSE IF gain < 5 * Cap  THEN 98 * Cap
    ELSE IF gain < 8 * Cap  THEN 102 * Cap
    ELSE IF gain < 12 * Cap THEN 105 * Cap
    ELSE IF gain < 18 * Cap THEN 109 * Cap
    ELSE 93 * h

\* Variant: max() written as min().
TrailingFloorSwapped(s, h) ==
    IF Ladder(h) < s.trailing_floor THEN Ladder(h) ELSE s.trailing_floor

TrailingFloor(s, h) ==
    IF Ladder(h) > s.trailing_floor THEN Ladder(h) ELSE s.trailing_floor

\* _roll_day_week
Rolled(s, d) ==
    LET newDay  == s.today_date # d
        newWeek == s.week_iso # WeekOf(d)
    IN [s EXCEPT !.today_date = d,
                 !.today_realized_pnl = IF newDay THEN 0 ELSE @,
                 !.today_new_exposure = IF newDay THEN 0 ELSE @,
                 !.week_iso = WeekOf(d),
                 !.week_realized_pnl = IF newWeek THEN 0 ELSE @]

\* Variant: the halt is reckoned anew at every tick.
HaltReckonedAnew(s, e) == IF Cents(e) < HardFloor THEN "HARD_FLOOR" ELSE NotHalted

\* The first halt a tick raises; a halt already standing keeps its reason.
HaltAfter(s, e) ==
    IF      s.halt # NotHalted THEN s.halt
    ELSE IF Cents(e) < EmergencyFloor THEN "EMERGENCY_FLOOR"
    ELSE IF Cents(e) < HardFloor THEN "HARD_FLOOR"
    ELSE IF Cents(s.today_realized_pnl) <= -DailyLossHalt THEN "DAILY_LOSS"
    ELSE IF Cents(s.week_realized_pnl) <= -WeeklyLossHalt THEN "WEEKLY_LOSS"
    ELSE IF s.consec_losses_system >= StreakLimit THEN "STREAK"
    ELSE NotHalted

\* Variant: the flag is raised and never lowered.
DeRiskForGood(flag, e, floor) == flag \/ Cents(e) < floor

\* The de-risk flag is left alone below the hard floor, raised below the
\* trailing floor, and lowered only half a percent above it.
DeRiskAfter(flag, e, floor) ==
    IF Cents(e) < HardFloor THEN flag
    ELSE \/ Cents(e) < floor
         \/ flag /\ ~ ClearOf(e, floor)

\* Variant: the high-water mark follows the equity down.
TickedWithoutMark(s, d, e) ==
    LET r == Rolled(s, d)
        f == TrailingFloor(r, e)
    IN [r EXCEPT !.current_equity = e, !.hwm = e, !.trailing_floor = f,
                 !.de_risk_flag = DeRiskAfter(@, e, f),
                 !.halt = HaltAfter(r, e), !.resumed = FALSE]

\* tick: roll, mark to broker equity, ratchet, floors, loss halts.
Ticked(s, d, e) ==
    LET r == Rolled(s, d)
        h == IF e > r.hwm THEN e ELSE r.hwm
        f == TrailingFloor(r, h)
    IN [r EXCEPT !.current_equity = e, !.hwm = h, !.trailing_floor = f,
                 !.de_risk_flag = DeRiskAfter(@, e, f),
                 !.halt = HaltAfter(r, e), !.resumed = FALSE]

(***************************************************************************)
(* precheck_order, called as auto_trader calls it: open_count is the       *)
(* length of open_symbols.                                                 *)
(***************************************************************************)
OptionAllowed(s, o) ==
    \/ o.kind = "stock"
    \/ o.kind = "option" /\ s.clean_stock_trades >= UnlockAfter

SizeAllowed(s, o) ==
    IF s.de_risk_flag THEN 2 * Cents(o.notional) <= MaxPosition
                      ELSE Cents(o.notional) <= MaxPosition

\* Variant: the day's cap checked before the order is added to it.
AllowsThenAdds(s, o) ==
    /\ s.halt = NotHalted /\ o.symbol \in Symbols /\ o.fits
    /\ Cardinality(s.open_symbols) < MaxOpen
    /\ SizeAllowed(s, o)
    /\ Cents(s.today_new_exposure) <= MaxDayExposure

Allows(s, o) ==
    /\ s.halt = NotHalted
    /\ OptionAllowed(s, o)
    /\ o.symbol \in Symbols
    /\ o.fits
    /\ Cardinality(s.open_symbols) < MaxOpen
    /\ SizeAllowed(s, o)
    /\ Cents(s.today_new_exposure + o.notional) <= MaxDayExposure

\* record_fill
Filled(s, o) ==
    [s EXCEPT !.today_new_exposure = @ + o.notional,
              !.open_symbols = @ \union {o.symbol}]

\* record_close
Closed(s, sym, pnl, clean) ==
    [s EXCEPT !.today_realized_pnl = @ + pnl,
              !.week_realized_pnl = @ + pnl,
              !.closed_trade_count = @ + 1,
              !.clean_stock_trades = IF clean THEN @ + 1 ELSE @,
              !.consec_losses_system = IF pnl < 0 THEN @ + 1 ELSE 0,
              !.open_symbols = @ \ {sym}]

-----------------------------------------------------------------------------
Init ==
    /\ mem = Down
    /\ disk = Unreadable
    /\ saving = FALSE
    /\ cli = Down
    /\ today = 0
    /\ env = [crashes |-> 0, cliRuns |-> 0]

(***************************************************************************)
(* A mutation by the trader: memory changes at once, _save truncates the   *)
(* file, and FinishSave completes it.  One save at a time.                 *)
(***************************************************************************)
Mutate(s) ==
    /\ mem # Down
    /\ ~ saving
    /\ mem' = s
    /\ saving' = TRUE
    /\ disk' = Unreadable
    /\ UNCHANGED <<cli, today, env>>

FinishSave ==
    /\ saving
    /\ disk' = mem
    /\ saving' = FALSE
    /\ UNCHANGED <<mem, cli, today, env>>

\* Variant: the halt missing from what the restart loads.
BootForgetsHalt ==
    /\ mem = Down
    /\ IF disk = Unreadable
         THEN mem' = Fresh(today) /\ saving' = TRUE
         ELSE mem' = [disk EXCEPT !.halt = NotHalted] /\ saving' = FALSE
    /\ UNCHANGED <<disk, cli, today, env>>

\* StageController.__init__ in the trader: load the file, or start afresh
\* and save.
Boot ==
    /\ mem = Down
    /\ IF disk = Unreadable
         THEN mem' = Fresh(today) /\ saving' = TRUE
         ELSE mem' = disk /\ saving' = FALSE
    /\ UNCHANGED <<disk, cli, today, env>>

\* The process is killed; a save under way leaves the file cut short.
Crash ==
    /\ mem # Down
    /\ env.crashes < MaxCrashes
    /\ env' = [env EXCEPT !.crashes = @ + 1]
    /\ mem' = Down
    /\ saving' = FALSE
    /\ UNCHANGED <<disk, cli, today>>

NextDay ==
    /\ today < MaxDay
    /\ today' = today + 1
    /\ UNCHANGED <<mem, disk, saving, cli, env>>

Tick(e) ==
    /\ mem # Down
    /\ Mutate(Ticked(mem, today, e))

\* auto_trader's stage mirror: precheck_order, queue_order, record_fill.
MirrorOrder(o) ==
    /\ mem # Down
    /\ Allows(mem, o)
    /\ Mutate(Filled(mem, o))

\* record_close is public but nothing in the program calls it.
RecordClose(sym, pnl, clean) ==
    /\ mem # Down
    /\ mem.closed_trade_count < MaxCloses
    /\ Mutate(Closed(mem, sym, pnl, clean))

\* POST /api/stage/clear_halt, on the dashboard thread of the same process.
ClearHalt ==
    /\ mem # Down
    /\ mem.halt # NotHalted
    /\ Mutate([mem EXCEPT !.halt = NotHalted, !.resumed = TRUE])

-----------------------------------------------------------------------------
\* enable_live.py constructs a controller of its own; with no readable file
\* that writes a fresh one.
CliStart(cmd) ==
    /\ cli = Down
    /\ env.cliRuns < MaxCliRuns
    /\ env' = [env EXCEPT !.cliRuns = @ + 1]
    /\ IF disk = Unreadable
         THEN disk' = Fresh(today) /\ cli' = [cmd |-> cmd, st |-> Fresh(today)]
         ELSE disk' = disk /\ cli' = [cmd |-> cmd, st |-> disk]
    /\ UNCHANGED <<mem, saving, today>>

\* The confirmation phrase was typed, or --disable needs none: save the copy
\* with live_mode set.  A copy already in that mode is left unsaved.
CliCommit ==
    /\ cli # Down
    /\ LET live == cli.cmd = "enable" IN
         /\ disk' = IF cli.st.live_mode = live THEN disk
                    ELSE [cli.st EXCEPT !.live_mode = live]
         /\ cli' = Down
    /\ UNCHANGED <<mem, saving, today, env>>

\* Variant: the mode is saved before the phrase is checked.
CliAbortSaved ==
    /\ cli # Down
    /\ cli.cmd = "enable"
    /\ disk' = [cli.st EXCEPT !.live_mode = TRUE]
    /\ cli' = Down
    /\ UNCHANGED <<mem, saving, today, env>>

\* A wrong phrase: nothing is saved.
CliAbort ==
    /\ cli # Down
    /\ cli.cmd = "enable"
    /\ cli' = Down
    /\ UNCHANGED <<mem, disk, saving, today, env>>

Next ==
    \/ Boot
    \/ FinishSave
    \/ Crash
    \/ NextDay
    \/ \E e \in Equities : Tick(e)
    \/ \E o \in Orders : MirrorOrder(o)
    \/ \E sym \in Symbols, pnl \in PnLs, clean \in BOOLEAN :
          RecordClose(sym, pnl, clean)
    \/ ClearHalt
    \/ \E cmd \in {"enable", "disable"} : CliStart(cmd)
    \/ CliCommit
    \/ CliAbort

Spec == Init /\ [][Next]_vars

-----------------------------------------------------------------------------
(***************************************************************************)
(* Properties of every copy of the state: the trader's memory, the file,   *)
(* and the copy enable_live.py holds.                                      *)
(***************************************************************************)
InEveryCopy(P(_)) ==
    /\ mem # Down => P(mem)
    /\ disk # Unreadable => P(disk)
    /\ cli # Down => P(cli.st)

\* Every variable has its type.
TypeOK ==
    /\ mem \in LiveState \union {Down}
    /\ disk \in LiveState \union {Unreadable}
    /\ saving \in BOOLEAN
    /\ cli \in [cmd : {"enable", "disable"}, st : LiveState] \union {Down}
    /\ today \in Nat
    /\ env \in [crashes : Nat, cliRuns : Nat]

FloorsOrderedIn(s) ==
    /\ HardFloor <= s.trailing_floor
    /\ ClearOf(s.hwm, s.trailing_floor)
    /\ s.current_equity <= s.hwm
    /\ Cap <= s.hwm

\* The ladder keeps the trailing floor between the hard floor and half a
\* percent below the high-water mark, so an account at a new high is never
\* de-risked by its own floor.
FloorsOrdered == InEveryCopy(FloorsOrderedIn)

RatchetIsLadderIn(s) == s.trailing_floor = Ladder(s.hwm)

\* The ladder is monotone: the max() in _compute_trailing_floor never holds
\* a floor the high-water mark does not justify, and a rung is never skipped.
RatchetIsLadder == InEveryCopy(RatchetIsLadderIn)

DeRiskMatchesIn(s) ==
    ~ (Cents(s.current_equity) < HardFloor) =>
       /\ Cents(s.current_equity) < s.trailing_floor => s.de_risk_flag
       /\ ClearOf(s.current_equity, s.trailing_floor) => ~ s.de_risk_flag

\* Whatever the path of the equity, an account between the hard and the
\* trailing floor trades at half size, and one clear of the band at full size,
\* also after a restart or a command-line save.
DeRiskMatches == InEveryCopy(DeRiskMatchesIn)

HaltBelowHardFloorIn(s) ==
    Cents(s.current_equity) < HardFloor => s.halt # NotHalted \/ s.resumed

\* Marked below the hard floor, the state is halted unless a reviewer cleared
\* the halt since the last tick.
HaltBelowHardFloor == InEveryCopy(HaltBelowHardFloorIn)

ExposureCappedIn(s) ==
    /\ Cents(s.today_new_exposure) <= MaxDayExposure
    /\ Cardinality(s.open_symbols) <= MaxOpen

\* No interleaving of fills, closes, day rolls, restarts and command-line
\* saves puts the recorded day exposure or the open positions over the stage's
\* caps.
ExposureCapped == InEveryCopy(ExposureCappedIn)

\* Only the reviewer's clear_halt takes a running controller out of a halt: a
\* tick on a recovered equity or a new day never does.
HaltIsSticky ==
    [][mem # Down /\ mem' # Down /\ mem.halt # NotHalted
         /\ mem'.halt # mem.halt => mem'.resumed /\ mem'.halt = NotHalted]_vars

=============================================================================
