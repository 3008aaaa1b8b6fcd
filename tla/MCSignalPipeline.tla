-------------------------- MODULE MCSignalPipeline --------------------------
(* SignalPipeline with two tickers: one whose strategies disagree, so that *)
(* either side may win or neither score enough, one whose strategies agree. *)
(* Both are of the US, as all of watchlist.yaml.                           *)
EXTENDS SignalPipeline

MCCodes == <<"US.AAPL", "US.MSFT">>
MCWatched == [c \in {"US.AAPL", "US.MSFT"} |->
                IF c = "US.AAPL" THEN {"rsi_divergence", "short_momentum"}
                                 ELSE {"breakout", "momentum"}]

\* Too few bars; weak, with an RSI that turns; a trend that breaks out.
MCDigests ==
    {[count |-> 40,  rsi |-> 28, rvol |-> 100, band |-> "near",
      facts |-> {"below20", "weak20", "diverges"}],
     [count |-> 100, rsi |-> 28, rvol |-> 100, band |-> "near",
      facts |-> {"below20", "weak20", "diverges"}],
     [count |-> 100, rsi |-> 60, rvol |-> 150, band |-> "above",
      facts |-> {"atr", "above50", "broke", "rising"}]}

MCLevels == {20, 80}
MCDistances == {0, 4}
=============================================================================
