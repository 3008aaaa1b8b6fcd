------------------------- MODULE MCSupervisedSleeve -------------------------
(* SupervisedSleeve with three names of one sector, of which the cap has   *)
(* room for one and a part. The two scores a name may get are those of two *)
(* sets of figures like Yahoo's: of a year in which it is cheap, and of    *)
(* one in which it is no longer core.                                      *)
EXTENDS SupervisedSleeve

Yahoo == INSTANCE FundamentalScores WITH Unknown <- Never

MCUniverse == <<"AAPL", "MSFT", "META">>
MCSector == [t \in {"AAPL", "MSFT", "META"} |-> "tech"]

Cheap == [roe |-> 30, opMargin |-> 28, fcfMargin |-> 22, revGrowth |-> 15, earnedGrowth |-> 12,
          debt |-> 40, current |-> 150, marketCap |-> 900,
          pe |-> 160, ev |-> 110, ps |-> 40, fcf |-> 60, shares |-> 6, price |-> 150,
          forwardGrowth |-> 12]
Dear  == [Cheap EXCEPT !.pe = 380, !.ev = 260, !.ps = 110, !.fcf = 20, !.price = 450,
                       !.marketCap = 2700, !.debt = Never, !.forwardGrowth = Never]
Peers == [nvda |-> [pe |-> 250, ev |-> 180], orcl |-> [pe |-> 300, ev |-> 220]]

MCFundamentals == {[q |-> 85, v |-> 75], [q |-> 88, v |-> 15]}

ASSUME FiguresAssumption ==
    MCFundamentals =
      {[q |-> Yahoo!Quality(f) \div 10, v |-> Yahoo!Valuation(f, Peers) \div 10] : f \in {Cheap, Dear}}

MCOpenSets == {{}}
MCRegimes == {"bull", "bear"}
=============================================================================
