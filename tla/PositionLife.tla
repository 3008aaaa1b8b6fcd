--------------------------- MODULE PositionLife ---------------------------
(***************************************************************************)
(* One symbol from its adoption to its exit: the row of the journal, the   *)
(* thesis in theses_active.json, the scripts that log theses and the       *)
(* trader's pass over the row, which moves its stop, wants it sold or not, *)
(* and asks the class of the position before it sells.                     *)
(*                                                                         *)
(* The theses file is read, emptied and written by whoever logs a thesis,  *)
(* of this symbol or of another one, without a lock; the trader may read   *)
(* it meanwhile.  What others do to the journal itself is in TradeBook:    *)
(* here a pass is one step.                                                *)
(***************************************************************************)
EXTENDS ExitRules

CONSTANTS
    Prices,    \* of the symbol
    Returns,   \* of SPY over one, three and five days
    Candles,   \* what the daily bars of the symbol may look like
    Dates,     \* days to its earnings dates
    Theses,    \* what may be logged for the symbol
    Adopted,   \* the thesis the adopting script logs
    NoThesis, Garbled,
    MaxAdoptions, \* bound: adoptions
    MaxLogs       \* bound: theses logged by the order queue

ASSUME LifeAssumption ==
    /\ Prices \subseteq Nat \ {0}
    /\ \A r \in Returns : DOMAIN r = 1..3
    /\ Candles \subseteq Bars /\ Dates \subseteq Int
    /\ Adopted \in Theses
    /\ Theses \subseteq [quality : BOOLEAN, horizon : Nat, days : {0}]
    /\ {NoThesis, Garbled} \cap [quality : BOOLEAN, horizon : Nat, days : Nat] = {}
    /\ Garbled # NoThesis
    /\ {MaxAdoptions, MaxLogs} \subseteq Nat

VARIABLES
    price,     \* of the symbol now
    position,  \* the row of the symbol in the journal
    adoptions, \* adoptions so far
    onFile,    \* the symbol's entry of theses_active.json
    writer,    \* script -> what it does with that file
    logs,      \* theses logged by the queue so far
    owed,      \* is the thesis of the row still to be logged?
    due        \* the thesis logged last: what the file should have

lifeVars == <<price, position, adoptions, onFile, writer, logs, owed, due>>

Loggers == {"adopt", "queue"}
MaxAge  == Max({MaxDays, MinHoldDays})

NoRow   == [status |-> "NONE"]
AdoptedRow(dir) ==
    [status |-> "OPEN", dir |-> dir, stop |-> FirstStop(dir), days |-> 0, won |-> FALSE]

Rows == [status : {"OPEN"}, dir : {"LONG", "SHORT"}, stop : Nat, days : 0..MaxAge,
         won : BOOLEAN]

Idle == [step |-> "idle"]

Aged(t) == [t EXCEPT !.days = IF @ < MaxAge THEN @ + 1 ELSE @]

AgedTheses  == {[t EXCEPT !.days = d] : t \in Theses, d \in 0..MaxAge}
MaybeThesis == AgedTheses \union {NoThesis}

Writing == [step : {"loaded", "emptied"}, copy : MaybeThesis, new : Theses \union {NoThesis}]

LifeTypeOK ==
    /\ price \in Prices
    /\ position \in Rows \union {NoRow}
    /\ adoptions \in 0..MaxAdoptions /\ logs \in 0..MaxLogs
    /\ owed \in {"no", "now", "never"}
    /\ onFile \in MaybeThesis \union {Garbled} /\ due \in MaybeThesis
    /\ writer \in [Loggers -> Writing \union {Idle}]

LifeInit ==
    /\ price \in Prices /\ position = NoRow /\ adoptions = 0 /\ owed = "no"
    /\ onFile = NoThesis /\ due = NoThesis /\ logs = 0
    /\ writer = [s \in Loggers |-> Idle]

-----------------------------------------------------------------------------
(* Logging a thesis                                                        *)

\* The script reads the index, which counts as empty when it cannot be parsed.
\* new is NoThesis when it logs the thesis of another symbol.
Load(s, new) ==
    /\ writer[s] = Idle
    /\ writer' = [writer EXCEPT ![s] =
          [step |-> "loaded", new |-> new,
           copy |-> IF onFile = Garbled THEN NoThesis ELSE onFile]]

\* write_text empties the file before it writes it.
Empty(s) ==
    /\ writer[s].step = "loaded"
    /\ onFile' = Garbled
    /\ writer' = [writer EXCEPT ![s].step = "emptied"]
    /\ UNCHANGED <<price, position, adoptions, logs, owed, due>>

Store(s) ==
    LET w == writer[s] IN
    /\ w.step = "emptied"
    /\ onFile' = IF w.new = NoThesis THEN w.copy ELSE w.new
    /\ due' = IF w.new = NoThesis THEN due ELSE w.new
    /\ owed' = IF s = "adopt" THEN "no" ELSE owed
    /\ writer' = [writer EXCEPT ![s] = Idle]
    /\ UNCHANGED <<price, position, adoptions, logs>>

\* The adopting script does not come back to a row that is there.
Die(s) ==
    /\ writer[s] # Idle \/ (s = "adopt" /\ owed = "now")
    /\ writer' = [writer EXCEPT ![s] = Idle]
    /\ owed' = IF s = "adopt" THEN "never" ELSE owed
    /\ UNCHANGED <<price, position, adoptions, onFile, logs, due>>

\* The adopting script appends the row of a position the journal does not know
\* and then logs its thesis.
Adopt(dir) ==
    /\ position = NoRow /\ adoptions < MaxAdoptions /\ owed # "now"
    /\ position' = AdoptedRow(dir) /\ adoptions' = adoptions + 1 /\ owed' = "now"
    /\ UNCHANGED <<price, onFile, writer, logs, due>>

LogAdopted ==
    /\ owed = "now"
    /\ Load("adopt", Adopted)
    /\ UNCHANGED <<price, position, adoptions, onFile, logs, owed, due>>

\* The order queue executed an order for this symbol, or for another one.
LogQueued(new) ==
    /\ logs < MaxLogs
    /\ Load("queue", new)
    /\ logs' = logs + 1
    /\ UNCHANGED <<price, position, adoptions, onFile, owed, due>>

-----------------------------------------------------------------------------
(* check_exits                                                             *)

Levels == {RallyLevel(r) : r \in Returns} \union {"normal"}

Signs == {ComputeSignals(b) : b \in Candles}

\* What the profit-protection layer may say of a long position at a price: the
\* level of SPY is of the last ten minutes or older.
Advice(px, stop) ==
    {EvaluateExit(px, stop, Target("LONG"), level, sig, days) :
       level \in Levels, sig \in Signs, days \in DaysToEarnings(Dates)}

\* The stop after the pass, and whether a rule wants the position sold.
Judged(advice) ==
    LET trailed == AtrTrail(position.dir, price, position.stop)
        stop    == IF ~ advice.exit /\ advice.stop > trailed THEN advice.stop ELSE trailed
    IN [stop |-> stop,
        exit |-> advice.exit \/ HitsLevel(position.dir, price, stop) \/ TooOld(price, position.days)]

Advices ==
    IF position.dir = "LONG" THEN Advice(price, AtrTrail(position.dir, price, position.stop)) ELSE {Hold}

\* Without a thesis, or with an index that cannot be read, no class holds it.
Released == onFile \in {NoThesis, Garbled} \/ MayExit(onFile, position.dir)

\* One pass of the trader over the row; answered: the closing order goes through.
Pass(answered) ==
    /\ position # NoRow
    /\ \E advice \in Advices :
         LET j == Judged(advice) IN
         position' = IF j.exit /\ Released /\ answered THEN NoRow
                      ELSE [position EXCEPT !.stop = j.stop,
                                            !.won = @ \/ (position.dir = "LONG" /\ Gain(price) >= 15 /\ ~ advice.exit)]
    /\ UNCHANGED <<price, adoptions, onFile, writer, logs, owed, due>>

Trade(new) ==
    /\ price' = new
    /\ UNCHANGED <<position, adoptions, onFile, writer, logs, owed, due>>

-----------------------------------------------------------------------------

\* A day passes between the scripts' writes, which take no time.
Day ==
    /\ \A s \in Loggers : writer[s] = Idle
    /\ position' = IF position = NoRow THEN position ELSE Aged(position)
    /\ onFile' = IF onFile \in {NoThesis, Garbled} THEN onFile ELSE Aged(onFile)
    /\ due' = IF due = NoThesis THEN due ELSE Aged(due)
    /\ UNCHANGED <<price, adoptions, writer, logs, owed>>

LifeNext ==
    \/ \E dir \in {"LONG", "SHORT"} : Adopt(dir)
    \/ LogAdopted
    \/ \E new \in Theses \union {NoThesis} : LogQueued(new)
    \/ \E s \in Loggers : Empty(s) \/ Store(s) \/ Die(s)
    \/ \E answered \in BOOLEAN : Pass(answered)
    \/ \E new \in Prices : Trade(new)
    \/ Day

LifeSpec == LifeInit /\ [][LifeNext]_lifeVars

\* Days go by, and the trader's loop goes on and has its orders accepted.
LifeFairSpec ==
    /\ LifeSpec
    /\ WF_lifeVars(Day)
    /\ WF_lifeVars(Pass(TRUE))
    /\ \A s \in Loggers : WF_lifeVars(Store(s)) /\ WF_lifeVars(Empty(s))

-----------------------------------------------------------------------------
\* "never lets a winner turn into a loser" (profit_protection.py:6): once a
\* pass saw a long position 1.5 per cent up and no rule of that layer wanted it
\* sold, its stop is at the entry or above, through restarts and refused orders.
WinnerProtected == position # NoRow /\ position.won => position.stop >= Entry

\* The class has the last word (auto_trader.py:1419-1446): with its thesis
\* logged, and whole in the file, the trader does not sell a long position in
\* its first days unless the last thesis made it a tactical one.
HeldToClass ==
    [][ position # NoRow /\ position' = NoRow /\ position.dir = "LONG" /\ owed = "no" /\ onFile = due
          => position.days >= MinHoldDays \/ Classify(due, "LONG") = "TACTICAL" ]_lifeVars

\* "10 days = hard max regardless" (auto_trader.py:1402), as far as the classes
\* leave it: a short position is closed sooner or later, and a long one too
\* unless a thesis on file makes it a compounder.
OpenEnds ==
    /\ position # NoRow /\ position.dir = "SHORT" ~> position = NoRow \/ position.dir = "LONG"
    /\ position # NoRow ~>
        \/ position = NoRow
        \/ onFile \notin {NoThesis, Garbled} /\ Classify(onFile, "LONG") = "COMPOUNDER"
=============================================================================
