---------------------------- MODULE TradierFeed -----------------------------
(***************************************************************************)
(* The live feed of src/spy_der/data/providers/tradier.py: one snapshot is *)
(* a quote, a list of expirations, a chain for each of the nearest ones    *)
(* and the bars of a window, each fetched over HTTP with retries.          *)
(*                                                                         *)
(* The service (external) answers a request in any way it can.  A price is *)
(* a small number; an option record is whether it parses, what volatility  *)
(* the vendor gave and what solving the midpoint for it yields.            *)
(***************************************************************************)
EXTENDS Calendar, SequencesExt

CONSTANTS
    MaxRetries,            \* TradierConfig.max_retries
    Expirations,           \* TradierConfig.expirations
    MinContracts,          \* TradierConfig.min_contracts
    Tolerance,             \* staleness_tolerance, in minutes
    Lookback,              \* bars_lookback, in minutes
    Moments,               \* the moments a snapshot is asked for
    MaxRecords             \* bound: option records in one chain response

ASSUME FeedAssumption ==
    /\ MaxRetries \in Nat \ {0} /\ Expirations \in Nat \ {0} /\ MinContracts \in Nat
    /\ Tolerance \in Nat /\ Lookback \in Nat \ {0} /\ MaxRecords \in Nat

VARIABLES
    pc,                    \* the endpoint being fetched, or how the call ended
    moment,                \* the moment the snapshot is for
    attempt,               \* attempts made in the current get()
    opens,                 \* requests sent for this snapshot (history)
    rejected,              \* of these, how many were rejected (history)
    error,                 \* the error that ended the call
    spy,                   \* the SPY quote: bid and ask
    todo,                  \* how many expirations' chains are still to be fetched
    stats,                 \* ChainStats
    chain,                 \* of the kept quotes: their volatility, what solving yields
    window,                \* the bars' query window
    bars                   \* whether any bar was parsed

feedVars ==
    <<pc, moment, attempt, opens, rejected, error, spy, todo, stats, chain, window, bars>>

Fetching == {"quote", "expirations", "chain", "bars", "bars all"}
NoStats == [seen |-> 0, kept |-> 0, vendor |-> 0, derived |-> 0, sentinel |-> 0, dropped |-> 0]
NoWindow == [start |-> 0, end |-> 0]

-----------------------------------------------------------------------------
(* TradierClient.get.  A rejected token, a rate limit, another code below  *)
(* 500 and a body that is no object end the call at once; a code from 500, *)
(* a timeout and a body that is no JSON are retried until the attempts are *)
(* used up.  A body that is no UTF-8 or breaks off is none of these: its   *)
(* exception leaves get() as it is (Escapes).                              *)

OnlyClientErrorsEnd == [client |-> "unavailable", shape |-> "data"]

TerminalError ==
    [auth |-> "auth", rate |-> "rate limit", client |-> "unavailable", shape |-> "data"]

Ends(failure) == failure \in DOMAIN TerminalError \/ attempt = MaxRetries - 1

Failures == {"auth", "rate", "client", "shape", "server", "timeout", "malformed"}

Raised(failure) ==
    IF failure \in DOMAIN TerminalError THEN TerminalError[failure] ELSE "unavailable"

Sent(failure) ==
    /\ opens' = opens + 1
    /\ rejected' = rejected + (IF failure \in {"auth", "rate"} THEN 1 ELSE 0)

-----------------------------------------------------------------------------
(* quote_from_option: a record is kept or dropped, and counted.            *)

Records ==
    {[ok |-> FALSE, iv |-> "none", solves |-> "not"]} \cup
    [ ok : {TRUE}, iv : {"none", "good", "wild", "sentinel"},
      solves : {"not", "good", "wild"} ]

(* The vendor's volatility when it is in bounds, else the one solved from  *)
(* the midpoint when that is; a sentinel counts as missing.                *)
Volatility(r) ==
    CASE r.iv = "good" -> "vendor"
      [] r.iv # "good" /\ r.solves = "good" -> "derived"
      [] OTHER -> "none"

Keeps(r) == r.ok /\ Volatility(r) # "none"

(* ChainStats after the records of one response.                           *)
QuotesFromOptions(st, records) ==
    LET of(kinds) == Cardinality({ i \in DOMAIN records : records[i] \in kinds })
    IN  [ seen |-> st.seen + Len(records),
          kept |-> st.kept + of({ r \in Records : Keeps(r) }),
          vendor |-> st.vendor + of({ r \in Records : r.ok /\ r.iv \in {"good", "wild"} }),
          derived |-> st.derived + of({ r \in Records : r.ok /\ Volatility(r) = "derived" }),
          sentinel |-> st.sentinel + of({ r \in Records : r.ok /\ r.iv = "sentinel" }),
          dropped |-> st.dropped + of({ r \in Records : r.ok /\ ~Keeps(r) }) ]

-----------------------------------------------------------------------------
(* _bars_query_window: the trailing lookback of the session in progress,   *)
(* else of the last completed one of ten days, else of the clock.          *)

Trailing(s, end) ==
    [start |-> IF s.open > end - Lookback THEN s.open ELSE end - Lookback, end |-> end]

CompletedSessions(at) ==
    { n \in DayOf(at) - 9 .. DayOf(at) : IsTradingDay(n) /\ SessionFor(n).close <= at }

(* Ten days always hold one, as no closure lasts more than three           *)
(* (NoSessionMissed in module Calendar).                                   *)
ASSUME MomentsAssumption == \A at \in Moments : at \in Nat /\ CompletedSessions(at) # {}

BarsQueryWindow(at) ==
    LET now == CurrentSession(at)
        done == CompletedSessions(at)
    IN  CASE now # NoSession /\ now.open < at -> Trailing(now, at)
          [] ~(now # NoSession /\ now.open < at) /\ done # {} ->
                LET last == SessionFor(CHOOSE n \in done : \A k \in done : k <= n)
                IN  Trailing(last, last.close)
          [] OTHER -> [start |-> at - Lookback, end |-> at]

-----------------------------------------------------------------------------
FeedInit ==
    /\ pc = "idle" /\ moment = 0 /\ attempt = 0 /\ opens = 0 /\ rejected = 0
    /\ error = "none" /\ spy = <<0, 0>> /\ todo = 0 /\ stats = NoStats
    /\ chain = {} /\ window = NoWindow /\ bars = FALSE

(* snapshot(at): refused when at is further from now than the tolerance.   *)
Ask ==
    \E at \in Moments, drift \in {0, Tolerance, Tolerance + 1} :
        /\ pc \notin Fetching
        /\ pc' = IF drift > Tolerance THEN "refused" ELSE "quote"
        /\ moment' = at /\ attempt' = 0 /\ opens' = 0 /\ rejected' = 0
        /\ error' = IF drift > Tolerance THEN "data" ELSE "none"
        /\ spy' = <<0, 0>> /\ todo' = 0 /\ stats' = NoStats
        /\ chain' = {} /\ window' = NoWindow /\ bars' = FALSE

Retry ==
    /\ pc \in Fetching
    /\ \E failure \in Failures : ~Ends(failure) /\ Sent(failure)
    /\ attempt' = attempt + 1
    /\ UNCHANGED <<pc, moment, error, spy, todo, stats, chain, window, bars>>

(* The error of get() is the snapshot's, except in fetch_bars, which asks  *)
(* again with another filter and then goes on without bars.                *)
FailsAt(endpoint) ==
    CASE endpoint = "bars" -> "bars all"
      [] endpoint = "bars all" -> "answered"
      [] OTHER -> "failed"

GiveUp ==
    /\ pc \in Fetching
    /\ \E failure \in Failures :
          /\ Ends(failure) /\ Sent(failure)
          /\ error' = IF FailsAt(pc) = "failed" THEN Raised(failure) ELSE error
    /\ pc' = FailsAt(pc) /\ attempt' = 0
    /\ UNCHANGED <<moment, spy, todo, stats, chain, window, bars>>

(* The exceptions that are no TradierError, and that no endpoint catches:  *)
(* UnicodeDecodeError and IncompleteRead from reading the body, and the    *)
(* AttributeError of a payload whose section (quotes, expirations,         *)
(* options, series) is text or a list.                                     *)
Escapes ==
    /\ pc \in Fetching /\ Sent("none")
    /\ pc' = "raised" /\ error' = "untyped" /\ attempt' = 0
    /\ UNCHANGED <<moment, spy, todo, stats, chain, window, bars>>

(* A payload arrived: go on to the next endpoint, or raise a data error.   *)
Arrived(ok, next) ==
    /\ Sent("none") /\ attempt' = 0
    /\ pc' = IF ok THEN next ELSE "failed"
    /\ error' = IF ok THEN error ELSE "data"

(* A crossed or one-sided book is replaced by the last trade.              *)
Book(bid, ask, last) ==
    IF bid <= 0 \/ ask <= 0 \/ ask < bid THEN <<last, last>> ELSE <<bid, ask>>

FetchSpyQuote ==
    /\ pc = "quote"
    /\ \/ /\ Arrived(FALSE, "expirations")             \* no record for the symbol
          /\ UNCHANGED spy
       \/ \E bid, ask, last \in 0 .. 2 :
             /\ spy' = Book(bid, ask, last)
             /\ Arrived(spy'[1] + spy'[2] > 0, "expirations")
    /\ UNCHANGED <<moment, todo, stats, chain, window, bars>>

(* Days are counted from today; the nearest ones from today on are kept.   *)
Nearest(days) == Min({Expirations, Cardinality(days)})

FetchExpirations ==
    /\ pc = "expirations"
    /\ \E listed \in SUBSET (-1 .. 2) :
          LET days == { d \in listed : d >= 0 }
          IN  /\ todo' = Nearest(days)
              /\ Arrived(days # {}, "chain")
    /\ UNCHANGED <<moment, spy, stats, chain, window, bars>>

FetchChain ==
    /\ pc = "chain"
    /\ \E records \in BoundedSeq(Records, MaxRecords) :
          /\ stats' = QuotesFromOptions(stats, records)
          /\ chain' = chain \cup { <<Volatility(r), r.solves>> : r \in { x \in Range(records) : Keeps(x) } }
    /\ todo' = todo - 1
    /\ IF todo' # 0 THEN Arrived(TRUE, "chain")
       ELSE Arrived(stats'.kept >= MinContracts, "bars")
    /\ window' = IF pc' = "bars" THEN BarsQueryWindow(moment) ELSE window
    /\ UNCHANGED <<moment, spy, bars>>

(* Bars without a price or a time are passed over; a series that is no     *)
(* object is one of the exceptions of Escapes.                             *)
FetchBars ==
    /\ pc \in {"bars", "bars all"}
    /\ \E parsed \in BOOLEAN : bars' = parsed
    /\ Arrived(TRUE, "answered")
    /\ UNCHANGED <<moment, spy, todo, stats, chain, window>>

FeedStep == \/ Retry \/ GiveUp \/ Escapes \/ FetchSpyQuote \/ FetchExpirations
            \/ FetchChain \/ FetchBars

-----------------------------------------------------------------------------
FeedTypeOK ==
    /\ pc \in Fetching \cup {"idle", "refused", "failed", "raised", "answered"}
    /\ attempt \in 0 .. MaxRetries - 1 /\ opens \in Nat /\ rejected \in 0 .. opens
    /\ error \in {"none", "auth", "rate limit", "unavailable", "data", "untyped"}
    /\ spy \in (0 .. 2) \X (0 .. 2) /\ bars \in BOOLEAN
    /\ todo \in 0 .. Expirations

(* A snapshot costs a bounded number of requests whatever the service      *)
(* answers: every endpoint once, the bars twice, each at most max_retries  *)
(* times (tradier.py:152, :559).  The tolerance is checked before the      *)
(* first of them, so this bound is also what keeps the answer recent.      *)
FetchesBounded == opens <= MaxRetries * (Expirations + 4)

(* A rejected token or a rate limit is not hammered: the call ends with    *)
(* the first rejection, and the bars add two at most (tradier.py:152).     *)
RejectedOnce == /\ pc \in {"quote", "expirations", "chain"} => rejected = 0
                /\ rejected <= 2

(* An answer rests on a real price and on contracts whose volatility is    *)
(* known: the book is not crossed, and every kept contract has a           *)
(* volatility in bounds, the vendor's or a solved one (tradier.py:318).    *)
AnswerIsPriced ==
    pc = "answered" =>
        /\ 0 < spy[1] /\ spy[1] <= spy[2]
        /\ \A q \in chain : q[1] = "vendor" \/ q[2] = "good"
        /\ stats.kept >= MinContracts
        /\ stats.kept + stats.dropped <= stats.seen
        /\ stats.kept <= stats.vendor + stats.derived

(* The bars asked for lie in the past and inside one session, also from a  *)
(* weekend, a holiday or the opening bell (tradier.py:240).                *)
WindowIsPast ==
    window # NoWindow =>
        /\ window.start < window.end /\ window.end <= moment
        /\ LET s == SessionFor(DayOf(window.end))
           IN  s # NoSession /\ s.open <= window.start /\ window.end <= s.close

(* What fetch_snapshot owes its caller, whatever the service answers: few  *)
(* requests, no hammering, and an answer that is priced and past.          *)
FeedKeepsContract ==
    FeedTypeOK /\ FetchesBounded /\ RejectedOnce /\ AnswerIsPriced /\ WindowIsPast

=============================================================================
