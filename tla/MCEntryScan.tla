---------------------------- MODULE MCEntryScan ----------------------------
(* EntryScan with three symbols, two of one sector, and positions of up to *)
(* 70% of the balance: the second exceeds the limit of a bull.             *)
EXTENDS EntryScan

MCCodes == <<"US.NVDA", "US.AMD", "US.SPY">>
MCSector == [c \in Range(MCCodes) |-> IF c = "US.SPY" THEN "Index" ELSE "Tech"]
MCKind == [c \in Range(MCCodes) |-> IF c = "US.SPY" THEN "etf" ELSE "listed"]
MCLot == [c \in Range(MCCodes) |-> 1]
MCCore == {{}}

Quiet == [count |-> 60, age |-> 1, close |-> 50, prevClose |-> 50, high |-> 51, low |-> 49,
          sma20 |-> 48, sma50 |-> 49, prev20 |-> 48, prev50 |-> 49, rsi |-> 45, prevRsi |-> 45,
          wasOversold |-> FALSE, rvol |-> 100, bbLower |-> 40, resistance |-> 56,
          atr |-> 2, range10 |-> 5]
Crossing == [Quiet EXCEPT !.prev20 = 49, !.sma20 = 50, !.close = 52, !.rsi = 62, !.rvol = 150]
Breaking == [Quiet EXCEPT !.close = 57, !.high = 57, !.low = 52, !.prevClose = 55, !.rvol = 200,
                          !.rsi = 60]
Falling  == [Quiet EXCEPT !.close = 46, !.low = 46, !.rsi = 28, !.bbLower = 46, !.prevRsi = 30]

MCCharts == [c \in Range(MCCodes) |->
               CASE c = "US.NVDA" -> {Crossing}
                 [] c = "US.AMD"  -> {Breaking}
                 [] c = "US.SPY"  -> {[Crossing EXCEPT !.age = 6], Falling}]

Good == [revGrowth |-> 30, grossMargin |-> 60, opMargin |-> 30, fcfMargin |-> 20, roe |-> 30,
         insiders |-> Unknown, forwardPe |-> 300, marketCap |-> 500, daysToReport |-> Unknown]
MCReports == [c \in Range(MCCodes) |->
                CASE c = "US.NVDA" -> {Good, [Good EXCEPT !.daysToReport = 2]}
                  [] c = "US.AMD"  -> {Raised}
                  [] OTHER         -> {Unknown}]

MCMarkets == {[spy |-> "above", quotes |-> <<18, 0, 0>>], [spy |-> "below", quotes |-> <<0, 32, 0>>],
              [spy |-> "unknown", quotes |-> <<0, 0, 39>>]}
MCBalances == {112000}
MCTiers == <<[trigger |-> 100000, keep |-> 100, pct |-> 70, usd |-> 90000, risk |-> 100],
             [trigger |-> 110000, keep |-> 50, pct |-> 60, usd |-> 84000, risk |-> 100]>>
MCPnls == {-2, 2}
=============================================================================
