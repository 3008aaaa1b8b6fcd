------------------------------- MODULE Scores -------------------------------
(* Arithmetic on bounded scores.                                           *)
EXTENDS Integers

Least(a, b)    == IF a < b THEN a ELSE b
Greatest(a, b) == IF a > b THEN a ELSE b
Gap(a, b)      == IF a < b THEN b - a ELSE a - b

\* _clamp of fundamental/quality.py, fundamental/valuation.py and others.
Clamped(x, lo, hi) == Greatest(lo, Least(x, hi))
Unit(x)            == Clamped(x, 0, 1000)
=============================================================================
