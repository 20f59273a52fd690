---------------------------- MODULE MCMarketData ----------------------------
(* A holiday week with an observed Fourth of July, an early close, the     *)
(* opening bell and the minute after it.                                   *)
EXTENDS MarketData

At(y, m, d, minute) == Date(y, m, d) * DayMinutes + minute

MCMoments ==
    { At(2026, 7, 2, 600), At(2026, 7, 3, 600), At(2026, 7, 4, 700),
      At(2026, 7, 6, 500), At(2026, 7, 6, 570), At(2026, 7, 6, 571),
      At(2026, 11, 27, 779), At(2026, 11, 27, 800) }

=============================================================================
