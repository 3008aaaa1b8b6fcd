------------------------------ MODULE Watchdog ------------------------------
(***************************************************************************)
(* scripts/watchdog.sh: one loop that starts auto_trader.py when OpenD     *)
(* answers, waits for it to exit and starts it again, never at once:       *)
(* after a nap when OpenD is away, after a rest when the trader shut down  *)
(* cleanly, after a growing backoff when it did not.  Durations are not    *)
(* modelled, only that a sleep ends; the backoff is kept as a number.      *)
(* Whether OpenD's port answers is open at every probe.                    *)
(***************************************************************************)
EXTENDS Naturals

CONSTANTS MinBackoff,  \* 5 seconds
          MaxBackoff   \* MAX_BACKOFF

VARIABLES trader,   \* the auto_trader process: "up" or "down"
          wd,       \* where the loop is
          backoff   \* the wait before the next restart

WatchdogInit ==
    /\ trader = "down" /\ wd = "probing" /\ backoff = MinBackoff

\* nc -z fails: sleep 30 and look again.
Nap ==
    /\ wd = "probing"
    /\ wd' = "napping"
    /\ UNCHANGED <<trader, backoff>>

EndNap ==
    /\ wd = "napping"
    /\ wd' = "probing"
    /\ UNCHANGED <<trader, backoff>>

\* nc -z succeeds.
StartTrader ==
    /\ wd = "probing"
    /\ wd' = "watching" /\ trader' = "up"
    /\ UNCHANGED backoff

\* Variant: after a crash the loop waits on the process it has lost.
TraderExitsUnseen(code) ==
    /\ trader = "up"
    /\ trader' = "down"
    /\ wd' = IF code = 0 THEN "resting" ELSE "watching"
    /\ UNCHANGED backoff

\* The trader exits, with 0 after a signal or when it could not reach OpenD,
\* with another code when it was killed; wait returns.
TraderExits(code) ==
    /\ trader = "up"
    /\ trader' = "down"
    /\ wd' = IF code = 0 THEN "resting" ELSE "backing off"
    /\ UNCHANGED backoff

\* Only a clean exit resets the backoff, however long the trader had run.
EndRest ==
    /\ wd = "resting"
    /\ wd' = "probing" /\ backoff' = MinBackoff
    /\ UNCHANGED trader

EndBackoff ==
    /\ wd = "backing off"
    /\ wd' = "probing"
    /\ backoff' = IF 2 * backoff > MaxBackoff THEN MaxBackoff ELSE 2 * backoff
    /\ UNCHANGED trader

Loop == Nap \/ EndNap \/ EndRest \/ EndBackoff
=============================================================================
