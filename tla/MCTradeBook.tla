---------------------------- MODULE MCTradeBook ----------------------------
(* TradeBook on two interchangeable symbols. *)
EXTENDS TradeBook, TLC

CONSTANTS c1, c2

MCCodes == {c1, c2}
\* Quotes fall: a loss of a long, a gain of a short.
MCMoves == {-1}

\* A long of two lots or nothing; the trader itself sells short, one lot.
MCPositions == {0, 2}

Symmetry == Permutations(MCCodes)
=============================================================================
