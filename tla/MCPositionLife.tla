------------------------- MODULE MCPositionLife -------------------------
(* PositionLife with one price for each outcome of the rules and one       *)
(* thesis of each class.                                                   *)
EXTENDS PositionLife

MCPrices  == {910, 1005, 1020, 1035, 1080}
MCReturns == {<<0, 0, 0>>, <<30, 30, 30>>, <<20, 60, 60>>, <<20, 60, 100>>}
\* No bars, a calm one, a long upper wick, and a high on a weaker RSI.
Candle(n, high, new) == [count |-> n, open |-> 95, high |-> high, low |-> 90, close |-> 98,
                         higher |-> new, weaker |-> new]
MCCandles == {Candle(0, 90, FALSE), Candle(25, 99, FALSE), Candle(25, 108, FALSE), Candle(20, 99, TRUE)}
MCDates   == {-4, 1}
MCAdopted == Thesis(FALSE, 90)
MCTheses  == {MCAdopted, Thesis(TRUE, 540), Thesis(TRUE, 362), Thesis(TRUE, 0)}
=============================================================================
