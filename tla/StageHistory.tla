---------------------------- MODULE StageHistory ----------------------------
(***************************************************************************)
(* StageController with a history variable: what an auditor could recover  *)
(* from the logs and the program never reads.  Every action is the         *)
(* controller's, conjoined with what it adds to the history.               *)
(***************************************************************************)
EXTENDS StageController

VARIABLE
    hist  \* dayExposure: notional queued on the current calendar day
          \* enabled: some enable_live.py has committed an enable
          \* mode: the mode the last committed enable_live.py left

hvars == <<mem, disk, saving, cli, today, env, hist>>

HInit ==
    /\ Init
    /\ hist = [dayExposure |-> 0, enabled |-> FALSE, mode |-> "shadow"]

HMirrorOrder(o) ==
    /\ MirrorOrder(o)
    /\ hist' = [hist EXCEPT !.dayExposure = @ + o.notional]

HNextDay ==
    /\ NextDay
    /\ hist' = [hist EXCEPT !.dayExposure = 0]

\* What the command tells the operator; a copy already in that mode is left
\* unsaved and nothing is announced.
HCliCommit ==
    /\ CliCommit
    /\ LET live == cli.cmd = "enable" IN
         hist' = [hist EXCEPT !.enabled = @ \/ live,
                              !.mode = IF cli.st.live_mode = live THEN @
                                       ELSE IF live THEN "live" ELSE "shadow"]

HUnrecorded ==
    /\ \/ Boot \/ FinishSave \/ Crash \/ ClearHalt \/ CliAbort
       \/ \E e \in Equities : Tick(e)
       \/ \E sym \in Symbols, pnl \in PnLs, clean \in BOOLEAN :
             RecordClose(sym, pnl, clean)
       \/ \E cmd \in {"enable", "disable"} : CliStart(cmd)
    /\ UNCHANGED hist

HNext ==
    \/ \E o \in Orders : HMirrorOrder(o)
    \/ HNextDay
    \/ HCliCommit
    \/ HUnrecorded

HSpec == HInit /\ [][HNext]_hvars

-----------------------------------------------------------------------------
LiveAfterEnable(s) == s.live_mode => hist.enabled

\* "Only way to get here: python scripts/enable_live.py with interactive
\* confirmation phrase" (stage_controller.py:16): through crashes, restarts and
\* stale saves, no copy of the state is live unless a phrase was once typed.
LiveNeedsPhrase == InEveryCopy(LiveAfterEnable)

\* The day's cap, "$1,500/day new exposure" (stage_controller.py:46), as far as
\* the code keeps it: a calendar day takes at most two caps' worth of orders,
\* one booked on the day before and one after the first tick, and two more for
\* each crash, since a restart may come back with an older or a fresh state.
DayExposureBounded ==
    Cents(hist.dayExposure) <= 2 * (1 + env.crashes) * MaxDayExposure

\* A running trader keeps its mode, and its high-water mark and trailing floor
\* never move down, whatever the command line writes beside it ("the floor only
\* moves up, never down", stage_controller.py:20; a restart can lower them).
RunningKeepsCourse ==
    [][mem # Down /\ mem' # Down =>
         /\ mem'.live_mode = mem.live_mode
         /\ mem'.hwm >= mem.hwm
         /\ mem'.trailing_floor >= mem.trailing_floor]_hvars

\* "System is back in shadow mode." (enable_live.py:101): once --disable has
\* saved, the file stays in shadow mode until the next enable.
DisableHolds ==
    hist.mode = "shadow" /\ disk # Unreadable => ~ disk.live_mode

=============================================================================
