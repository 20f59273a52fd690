----------------------------- MODULE MarketData ------------------------------
(***************************************************************************)
(* Where a decision's market data comes from: the calendar that says when  *)
(* there is a session to decide in, and one provider, live or recorded.    *)
(* A provider is constructed once and keeps its kind (select_provider,     *)
(* service.py:210); the calendar has no state the providers change, so a   *)
(* behaviour follows one of the three.                                     *)
(***************************************************************************)
EXTENDS TradierFeed, Archive

VARIABLE source            \* "calendar", "live" or "recorded"

dataVars == <<source, calVars, feedVars, archiveVars>>

Init ==
    /\ source \in {"calendar", "live", "recorded"}
    /\ CalendarInit /\ FeedInit /\ ArchiveInit

CalendarAdvances ==
    source = "calendar" /\ AwaitNextSession /\ UNCHANGED <<source, feedVars, archiveVars>>

SnapshotRequested ==
    source = "live" /\ Ask /\ UNCHANGED <<source, calVars, archiveVars>>

FeedAdvances ==
    source = "live" /\ FeedStep /\ UNCHANGED <<source, calVars, archiveVars>>

ArchiveAdvances ==
    source = "recorded" /\ ArchiveStep /\ UNCHANGED <<source, calVars, feedVars>>

Next == CalendarAdvances \/ SnapshotRequested \/ FeedAdvances \/ ArchiveAdvances

Spec == Init /\ [][Next]_dataVars

=============================================================================
