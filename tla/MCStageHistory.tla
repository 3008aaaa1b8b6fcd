--------------------------- MODULE MCStageHistory ---------------------------
(* StageHistory on small instances: two allowed symbols and one that is    *)
(* not, equities on both sides of every floor and rung that matters.       *)
EXTENDS StageHistory

MCEquities == {89, 94, 97, 103, 120}
MCSymbols == {"A", "B"}
MCPnLs == {-3, 1}

Order(sym, n) == [symbol |-> sym, notional |-> n, kind |-> "stock", fits |-> TRUE]

MCOrders ==
    {Order("A", 15), Order("A", 7), Order("B", 7), Order("X", 7), Order("A", 16),
     [Order("B", 7) EXCEPT !.kind = "option"],
     [Order("B", 7) EXCEPT !.kind = "disallowed_option"],
     [Order("B", 7) EXCEPT !.fits = FALSE]}

\* For restarts and the command line, with three copies of the state about.
MCFewEquities == {94, 104}
MCFewSymbols == {"A"}
MCOneOrder == {Order("A", 15)}
=============================================================================
