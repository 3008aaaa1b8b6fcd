-------------------------- MODULE SupervisedSleeve --------------------------
(***************************************************************************)
(* CoreSleeve in a trader that scripts/watchdog.sh keeps alive: the two    *)
(* share the process.  The watchdog's start is the trader's boot, and the  *)
(* trader's exit, clean or not, is what the watchdog waits for.            *)
(*                                                                         *)
(* Before its sleeve work a cycle loads logs/strategy_performance.json,    *)
(* which update_learning rewrites in place.  A trader killed inside that   *)
(* write leaves a file json.load refuses, and nothing makes it anew: the   *)
(* cycle of every later trader raises at the load, and so does main right  *)
(* after it, which ends the process.                                       *)
(***************************************************************************)
EXTENDS CoreSleeve

CONSTANTS MinBackoff, MaxBackoff   \* the watchdog's waits, in seconds

ASSUME WatchdogAssumption ==
    /\ {MinBackoff, MaxBackoff} \subseteq Nat \ {0}
    /\ MinBackoff <= MaxBackoff

VARIABLES wd, backoff,   \* the watchdog's loop and its next wait
          stats          \* strategy_performance.json: "whole" (or not there yet) or "torn"

INSTANCE Watchdog

vars == <<svars, wd, backoff, stats>>

SupervisedInit == Init /\ WatchdogInit /\ stats = "whole"

Besides == UNCHANGED <<wd, backoff, stats>>

\* The part of a cycle after load_strategy_stats.
Cycling   == stats = "whole" /\ CycleWork /\ Besides
Threading == ThreadWork /\ Besides
Dawning   == Midnight /\ Besides
Watching  == Loop /\ UNCHANGED <<sleeve, stats>>
Starting  == StartTrader /\ Boot /\ UNCHANGED stats
Shutdown  == TraderExits(0) /\ Die /\ UNCHANGED stats

\* A kill anywhere; on a torn file the exception of main's own load.
Crashing  == TraderExits(1) /\ Die /\ UNCHANGED stats

\* Killed inside a cycle's writes of save_rebalance_state and update_learning.
CrashingSaving   == stats = "whole" /\ TraderExits(1) /\ DieSaving /\ UNCHANGED stats
CrashingLearning == stats = "whole" /\ TraderExits(1) /\ Die /\ stats' = "torn"

SupervisedNext ==
    \/ Cycling \/ Threading \/ Dawning
    \/ Watching \/ Starting
    \/ Shutdown \/ Crashing \/ CrashingSaving \/ CrashingLearning

\* Sleeps end, and what is tried again and again succeeds again and again: the
\* port check, the fetch, a cycle that gets past its load.  Days pass.
Fairness ==
    /\ WF_vars(Watching)
    /\ SF_vars(Starting)
    /\ WF_vars(Dawning)
    /\ SF_vars(StartClassifying /\ stats = "whole" /\ Besides)
    /\ SF_vars((\E today \in BOOLEAN : BeginSave(today)) /\ Besides)
    /\ SF_vars((\E today \in BOOLEAN : EndSave(today)) /\ Readable' /\ Besides)
    /\ SF_vars((\E regime \in Regimes : Rebalance(regime)) /\ stats = "whole" /\ Besides)

SupervisedSpec == SupervisedInit /\ [][SupervisedNext]_vars

FairSpec == SupervisedSpec /\ Fairness

-----------------------------------------------------------------------------
\* Every variable has its type, a name is held once, no more than
\* CORE_MAX_POSITIONS are, and the watchdog knows whether its trader runs.
SupervisedTypeOK ==
    /\ TypeOK
    /\ wd \in {"probing", "napping", "watching", "resting", "backing off"}
    /\ backoff \in MinBackoff..MaxBackoff
    /\ stats \in {"whole", "torn"}
    /\ trader = "up" <=> wd = "watching"

\* "keeps auto_trader.py running 24/7" (watchdog.sh:2), down to the work: with
\* crashes at any point, a backoff that only grows, garbled assignments, lost
\* state files and an OpenD that comes and goes, the core sleeve is rebalanced
\* again and again, unless a kill fell inside the write of
\* strategy_performance.json (auto_trader.py:336), which no restart mends.
RebalanceRecurs == []<>(saved.last = 0 \/ stats = "torn")
=============================================================================
