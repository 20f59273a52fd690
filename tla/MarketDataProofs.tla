-------------------------- MODULE MarketDataProofs --------------------------
(***************************************************************************)
(* What TLAPS proves of the market data: for every retry limit, number of  *)
(* expirations, length of a response and moment, the live feed keeps its   *)
(* contract whatever the service answers.                                  *)
(***************************************************************************)
EXTENDS MarketData, FiniteLemmas, SequenceTheorems

-----------------------------------------------------------------------------
(* The inductive invariant of the feed *)

(* How many endpoints the snapshot is done with, counting the chains it    *)
(* was not asked for as done.                                              *)
Stage ==
    CASE pc = "quote" -> 0
      [] pc = "expirations" -> 1
      [] pc = "chain" -> 2 + Expirations - todo
      [] pc = "bars" -> 2 + Expirations
      [] pc = "bars all" -> 3 + Expirations
      [] OTHER -> 4 + Expirations

(* A snapshot being fetched is for a moment that was asked for; outside    *)
(* get() no attempt is counted; a chain is fetched while some are missing. *)
ProgressInv ==
    /\ pc \in Fetching => moment \in Moments
    /\ pc \notin Fetching => attempt = 0
    /\ pc = "chain" => todo > 0
    /\ opens <= MaxRetries * Stage + attempt

RejectedInv ==
    /\ pc \in {"quote", "expirations", "chain", "bars"} => rejected = 0
    /\ pc = "bars all" => rejected <= 1
    /\ rejected <= 2

Stats == [seen: Nat, kept: Nat, vendor: Nat, derived: Nat, sentinel: Nat, dropped: Nat]

PricedInv ==
    /\ pc \in {"expirations", "chain", "bars", "bars all", "answered"} =>
          0 < spy[1] /\ spy[1] <= spy[2]
    /\ \A q \in chain : q[1] = "vendor" \/ q[2] = "good"
    /\ stats \in Stats
    /\ stats.kept + stats.dropped <= stats.seen
    /\ stats.kept <= stats.vendor + stats.derived
    /\ pc \in {"bars", "bars all", "answered"} => stats.kept >= MinContracts

FeedInv == FeedTypeOK /\ ProgressInv /\ RejectedInv /\ PricedInv /\ WindowIsPast

-----------------------------------------------------------------------------
(* The query window of the bars *)

(* A trading day's session lies inside the day and is longer than nothing. *)
LEMMA SessionIs ==
    ASSUME NEW n \in Int, IsTradingDay(n)
    PROVE  /\ SessionFor(n) # NoSession
           /\ SessionFor(n).open = n * 1440 + 570
           /\ SessionFor(n).close \in {n * 1440 + 780, n * 1440 + 960}
<1>1. SessionFor(n).open = n * 1440 + 570
  BY DEF SessionFor, DayMinutes, RegularOpen
<1>2. SessionFor(n).close \in {n * 1440 + 780, n * 1440 + 960}
  BY DEF SessionFor, DayMinutes, RegularClose, EarlyClose
<1>3. n * 1440 + 570 # 0 /\ NoSession.open = 0
  BY DEF NoSession
<1> QED
  BY <1>1, <1>2, <1>3

LEMMA DayOfMinute ==
    ASSUME NEW n \in Int, NEW m \in Int, n * 1440 <= m, m < n * 1440 + 1440
    PROVE  DayOf(m) = n
  BY DEF DayOf, DayMinutes

InsideSession(w) ==
    LET s == SessionFor(DayOf(w.end))
    IN  w.start < w.end /\ s # NoSession /\ s.open <= w.start /\ w.end <= s.close

(* The trailing part of a session up to a minute of it is inside it.       *)
LEMMA TrailingIsInside ==
    ASSUME NEW n \in Int, IsTradingDay(n), NEW end \in Int,
           SessionFor(n).open < end, end <= SessionFor(n).close
    PROVE  InsideSession(Trailing(SessionFor(n), end)) /\ Trailing(SessionFor(n), end).end = end
<1> DEFINE w == Trailing(SessionFor(n), end)
<1>1. /\ SessionFor(n) # NoSession
      /\ SessionFor(n).open = n * 1440 + 570
      /\ SessionFor(n).close \in {n * 1440 + 780, n * 1440 + 960}
  BY SessionIs
<1>2. n * 1440 <= end /\ end < n * 1440 + 1440
  BY <1>1
<1>3. DayOf(end) = n
  BY <1>2, DayOfMinute
<1>4. w.end = end /\ w.start = IF SessionFor(n).open > end - Lookback
                                THEN SessionFor(n).open ELSE end - Lookback
  BY DEF Trailing
<1>5. w.start < end /\ SessionFor(n).open <= w.start
  BY <1>1, <1>4, FeedAssumption
<1> HIDE DEF w
<1>6. SessionFor(DayOf(w.end)) = SessionFor(n)
  BY <1>3, <1>4
<1> QED
  BY <1>1, <1>4, <1>5, <1>6 DEF w, InsideSession

(* The session in progress is today's: yesterday's closed before midnight. *)
LEMMA CurrentIsToday ==
    ASSUME NEW at \in Int, CurrentSession(at) # NoSession
    PROVE  /\ DayOf(at) \in Int /\ IsTradingDay(DayOf(at))
           /\ CurrentSession(at) = SessionFor(DayOf(at))
           /\ at <= SessionFor(DayOf(at)).close
<1> DEFINE today == DayOf(at)
<1>1. today \in Int /\ today * 1440 <= at
  BY DEF DayOf, DayMinutes
<1> HIDE DEF today
<1>2. \A n \in Int : SessionFor(n) # NoSession => IsTradingDay(n)
  BY DEF SessionFor
<1>3. ASSUME SessionFor(today - 1) # NoSession, InSession(SessionFor(today - 1), at) PROVE FALSE
  <2>1. today - 1 \in Int /\ IsTradingDay(today - 1)
    BY <1>1, <1>2, <1>3
  <2>2. SessionFor(today - 1).close \in {(today - 1) * 1440 + 780, (today - 1) * 1440 + 960}
    BY <2>1, SessionIs
  <2>3. at < SessionFor(today - 1).close
    BY <1>3 DEF InSession
  <2> QED
    BY <1>1, <2>2, <2>3
<1>4. /\ SessionFor(today) # NoSession /\ InSession(SessionFor(today), at)
      /\ CurrentSession(at) = SessionFor(today)
  BY <1>3, Zenon DEF CurrentSession, today
<1>5. IsTradingDay(today)
  BY <1>1, <1>2, <1>4
<1>6. SessionFor(today).close \in Int
  BY <1>1, <1>5, SessionIs
<1> QED
  BY <1>1, <1>4, <1>5, <1>6 DEF today, InSession

LEMMA WindowLiesInThePast ==
    ASSUME NEW at \in Moments
    PROVE  InsideSession(BarsQueryWindow(at)) /\ BarsQueryWindow(at).end <= at
<1> DEFINE w == BarsQueryWindow(at)
           now == CurrentSession(at)
           done == CompletedSessions(at)
           inside == now # NoSession /\ now.open < at
<1>1. at \in Nat /\ at \in Int /\ done # {}
  BY MomentsAssumption
<1>2. CASE inside
  <2>1. /\ DayOf(at) \in Int /\ IsTradingDay(DayOf(at))
        /\ now = SessionFor(DayOf(at)) /\ at <= SessionFor(DayOf(at)).close
    BY <1>1, <1>2, CurrentIsToday
  <2>2. w = Trailing(SessionFor(DayOf(at)), at)
    BY <1>2, <2>1, Zenon DEF BarsQueryWindow
  <2>3. InsideSession(w) /\ w.end = at
    BY <1>1, <1>2, <2>1, <2>2, TrailingIsInside
  <2> QED
    BY <1>1, <2>3
<1>3. CASE ~inside
  <2> DEFINE last == CHOOSE n \in done : \A k \in done : k <= n
  <2>1. DayOf(at) \in Int
    BY <1>1 DEF DayOf, DayMinutes
  <2>2. done \in SUBSET (DayOf(at) - 9 .. DayOf(at)) /\ done \in SUBSET Int
    BY <2>1 DEF CompletedSessions
  <2>3. IsFiniteSet(done)
    <3>1. DayOf(at) - 9 \in Int
      BY <2>1
    <3>2. IsFiniteSet(DayOf(at) - 9 .. DayOf(at))
      BY <2>1, <3>1, FS_Interval
    <3> QED
      BY <2>2, <3>2, FS_Subset
  <2>4. \E n \in done : \A k \in done : k <= n
    BY <1>1, <2>2, <2>3, MaxExists
  <2>5. last \in done
    BY <2>4
  <2>6. w = Trailing(SessionFor(last), SessionFor(last).close)
    BY <1>1, <1>3, Zenon DEF BarsQueryWindow
  <2>7. last \in Int /\ IsTradingDay(last) /\ SessionFor(last).close <= at
    BY <2>2, <2>5 DEF CompletedSessions
  <2> HIDE DEF last
  <2>8. /\ SessionFor(last).close \in Int /\ SessionFor(last).open < SessionFor(last).close
        /\ SessionFor(last).close <= SessionFor(last).close
    BY <2>7, SessionIs
  <2>9. InsideSession(w) /\ w.end = SessionFor(last).close
    BY <2>6, <2>7, <2>8, TrailingIsInside
  <2> QED
    BY <2>7, <2>9
<1> QED
  BY <1>2, <1>3

-----------------------------------------------------------------------------
(* The records of a chain *)

LEMMA RecordIs ==
    /\ \A r \in Records : Keeps(r) => r.ok /\ (r.iv \in {"good", "wild"} \/ Volatility(r) = "derived")
    /\ \A r \in Records : Volatility(r) \in {"vendor", "derived", "none"}
    /\ \A r \in Records : Volatility(r) = "derived" => r.solves = "good"
  BY DEF Records, Keeps, Volatility

LEMMA StatsArithmetic ==
    ASSUME NEW st \in Stats, st.kept + st.dropped <= st.seen, st.kept <= st.vendor + st.derived,
           NEW n \in Nat, NEW k \in Nat, NEW v \in Nat, NEW d \in Nat, NEW e \in Nat, NEW x \in Nat,
           k + x <= n, k <= v + d, NEW t,
           t = [ seen |-> st.seen + n, kept |-> st.kept + k, vendor |-> st.vendor + v,
                 derived |-> st.derived + d, sentinel |-> st.sentinel + e, dropped |-> st.dropped + x ]
    PROVE  t \in Stats /\ t.kept + t.dropped <= t.seen /\ t.kept <= t.vendor + t.derived
<1>1. /\ st.seen \in Nat /\ st.kept \in Nat /\ st.vendor \in Nat
      /\ st.derived \in Nat /\ st.sentinel \in Nat /\ st.dropped \in Nat
  BY DEF Stats
<1> QED
  BY <1>1 DEF Stats

(* Of the records of a response no more are kept and dropped than were     *)
(* seen, and what is kept has a volatility that was counted.               *)
LEMMA CountsAddUp ==
    ASSUME NEW n \in Nat, NEW records \in [1..n -> Records], NEW st \in Stats,
           st.kept + st.dropped <= st.seen, st.kept <= st.vendor + st.derived
    PROVE  LET t == QuotesFromOptions(st, records)
           IN  t \in Stats /\ t.kept + t.dropped <= t.seen /\ t.kept <= t.vendor + t.derived
<1> DEFINE at(kinds) == { i \in DOMAIN records : records[i] \in kinds }
           keep == { r \in Records : Keeps(r) }
           given == { r \in Records : r.ok /\ r.iv \in {"good", "wild"} }
           solved == { r \in Records : r.ok /\ Volatility(r) = "derived" }
           absent == { r \in Records : r.ok /\ r.iv = "sentinel" }
           drop == { r \in Records : r.ok /\ ~Keeps(r) }
           t == QuotesFromOptions(st, records)
<1>1. Len(records) = n /\ DOMAIN records = 1..n
  OBVIOUS
<1>2. IsFiniteSet(1..n) /\ Cardinality(1..n) = n
  BY FS_Interval
<1>3. \A kinds : at(kinds) \in SUBSET (1..n)
  BY <1>1
<1>4. \A kinds : IsFiniteSet(at(kinds)) /\ Cardinality(at(kinds)) \in Nat
  BY <1>2, <1>3, FS_Subset, FS_CardinalityType
<1>5. t = [ seen |-> st.seen + n, kept |-> st.kept + Cardinality(at(keep)),
            vendor |-> st.vendor + Cardinality(at(given)),
            derived |-> st.derived + Cardinality(at(solved)),
            sentinel |-> st.sentinel + Cardinality(at(absent)),
            dropped |-> st.dropped + Cardinality(at(drop)) ]
  BY <1>1 DEF QuotesFromOptions
<1>6. Cardinality(at(keep)) + Cardinality(at(drop)) <= n
  <2>1. at(keep) \cap at(drop) = {} /\ at(keep) \cup at(drop) \in SUBSET (1..n)
    BY <1>3
  <2>2. Cardinality(at(keep) \cup at(drop)) <= n
    BY <1>2, <2>1, FS_Subset
  <2>3. Cardinality(at(keep) \cup at(drop)) = Cardinality(at(keep)) + Cardinality(at(drop))
    <3>1. Cardinality(at(keep) \cap at(drop)) = 0
      BY <2>1, FS_EmptySet
    <3> HIDE DEF at, keep, drop
    <3>2. Cardinality(at(keep) \cup at(drop))
            = Cardinality(at(keep)) + Cardinality(at(drop)) - Cardinality(at(keep) \cap at(drop))
      BY <1>4, FS_Union
    <3> QED
      BY <1>4, <3>1, <3>2
  <2> QED
    BY <2>2, <2>3
<1>7. Cardinality(at(keep)) <= Cardinality(at(given)) + Cardinality(at(solved))
  <2>1. at(keep) \in SUBSET (at(given) \cup at(solved))
    BY RecordIs
  <2> HIDE DEF at, keep, given, solved
  <2>2. /\ IsFiniteSet(at(given) \cup at(solved))
        /\ Cardinality(at(given) \cup at(solved))
             = Cardinality(at(given)) + Cardinality(at(solved)) - Cardinality(at(given) \cap at(solved))
    BY <1>4, FS_Union
  <2>3. Cardinality(at(given) \cap at(solved)) \in Nat
    <3>1. at(given) \cap at(solved) \in SUBSET at(given)
      OBVIOUS
    <3>2. IsFiniteSet(at(given) \cap at(solved))
      BY <1>4, <3>1, FS_Subset
    <3> QED
      BY <3>2, FS_CardinalityType
  <2>4. Cardinality(at(keep)) <= Cardinality(at(given) \cup at(solved))
    BY <2>1, <2>2, FS_Subset
  <2> QED
    BY <1>4, <2>2, <2>3, <2>4
<1> DEFINE k == Cardinality(at(keep))    v == Cardinality(at(given))
           d == Cardinality(at(solved))  e == Cardinality(at(absent))
           x == Cardinality(at(drop))
<1>8. k \in Nat /\ v \in Nat /\ d \in Nat /\ e \in Nat /\ x \in Nat
  BY <1>4
<1> HIDE DEF at, keep, given, solved, absent, drop, k, v, d, e, x, t
<1>9. t = [ seen |-> st.seen + n, kept |-> st.kept + k, vendor |-> st.vendor + v,
            derived |-> st.derived + d, sentinel |-> st.sentinel + e, dropped |-> st.dropped + x ]
  BY <1>5 DEF k, v, d, e, x
<1>10. k + x <= n /\ k <= v + d
  BY <1>6, <1>7 DEF k, v, d, x
<1> QED
  BY <1>8, <1>9, <1>10, StatsArithmetic DEF t

(* The kept quotes of a response have a volatility in bounds.              *)
LEMMA KeptIsPriced ==
    ASSUME NEW n \in Nat, NEW records \in [1..n -> Records]
    PROVE  \A q \in { <<Volatility(r), r.solves>> : r \in { x \in Range(records) : Keeps(x) } } :
               q[1] = "vendor" \/ q[2] = "good"
<1>1. Range(records) \in SUBSET Records
  BY DEF Range
<1>2. \A r \in Records : Keeps(r) => Volatility(r) = "vendor" \/ r.solves = "good"
  BY RecordIs DEF Keeps
<1> QED
  BY <1>1, <1>2

LEMMA ResponseIs ==
    ASSUME NEW records \in BoundedSeq(Records, MaxRecords)
    PROVE  \E n \in Nat : records \in [1..n -> Records]
  BY FeedAssumption DEF BoundedSeq, SeqOf

-----------------------------------------------------------------------------
(* The steps of the feed *)

LEMMA RetriesGrow ==
    ASSUME NEW a \in Nat, NEW b \in Nat, a < b
    PROVE  /\ MaxRetries * a \in Nat /\ MaxRetries * b \in Nat
           /\ MaxRetries * a + MaxRetries <= MaxRetries * b
<1>1. MaxRetries \in Nat
  BY FeedAssumption
<1>2. PICK d \in Nat : b = a + 1 + d
  <2>1. b - a - 1 \in Nat /\ b = a + 1 + (b - a - 1)
    OBVIOUS
  <2> QED
    BY <2>1
<1>3. MaxRetries * a \in Nat /\ MaxRetries * d \in Nat
  BY <1>1, <1>2
<1>4. MaxRetries * b = MaxRetries * a + MaxRetries + MaxRetries * d
  BY <1>1, <1>2
<1> QED
  BY <1>1, <1>3, <1>4

LEMMA FeedNumbers ==
    ASSUME FeedTypeOK
    PROVE  /\ attempt \in 0 .. MaxRetries - 1 /\ opens \in Nat /\ rejected \in 0 .. opens
           /\ todo \in 0 .. Expirations /\ MaxRetries \in Nat \ {0} /\ Expirations \in Nat \ {0}
  BY FeedAssumption, Zenon DEF FeedTypeOK

LEMMA StageType == FeedTypeOK => Stage \in 0 .. 4 + Expirations
<1> SUFFICES ASSUME FeedTypeOK PROVE Stage \in 0 .. 4 + Expirations
  OBVIOUS
<1>1. todo \in 0 .. Expirations /\ Expirations \in Nat
  BY FeedNumbers
<1>2. Stage \in {0, 1, 2 + Expirations - todo, 2 + Expirations, 3 + Expirations, 4 + Expirations}
  BY Zenon DEF Stage
<1> QED
  BY <1>1, <1>2

(* A request that ends an endpoint stays within the attempts it had.       *)
LEMMA EndpointDone ==
    ASSUME FeedInv, opens' = opens + 1, attempt' = 0, NEW s \in Nat, Stage < s
    PROVE  opens' <= MaxRetries * s + attempt'
<1>1. Stage \in Nat /\ opens \in Nat /\ attempt \in 0 .. MaxRetries - 1 /\ MaxRetries \in Nat
  BY StageType, FeedNumbers DEF FeedInv
<1>2. MaxRetries * Stage + MaxRetries <= MaxRetries * s /\ MaxRetries * Stage \in Nat /\ MaxRetries * s \in Nat
  BY <1>1, RetriesGrow
<1>3. opens <= MaxRetries * Stage + attempt
  BY DEF FeedInv, ProgressInv
<1> DEFINE p == MaxRetries * Stage   q == MaxRetries * s
<1> HIDE DEF p, q
<1>4. opens <= p + attempt /\ p + MaxRetries <= q /\ p \in Nat /\ q \in Nat
  BY <1>2, <1>3 DEF p, q
<1>5. opens + 1 <= q + 0
  BY <1>1, <1>4
<1> QED
  BY <1>5 DEF q

LEMMA FeedInitInv == FeedInit => FeedInv
<1> SUFFICES ASSUME FeedInit PROVE FeedInv
  OBVIOUS
<1>1. FeedTypeOK
  <2>1. spy \in (0 .. 2) \X (0 .. 2) /\ 0 \in 0 .. Expirations /\ 0 \in 0 .. MaxRetries - 1
    BY FeedAssumption DEF FeedInit
  <2>2. 0 \in Nat /\ 0 \in 0 .. 0 /\ FALSE \in BOOLEAN
    OBVIOUS
  <2> QED
    BY <2>1, <2>2, Zenon DEF FeedInit, FeedTypeOK
<1>2. ProgressInv
  <2>1. Stage = 4 + Expirations /\ MaxRetries * (4 + Expirations) \in Nat
    BY FeedAssumption DEF FeedInit, Stage
  <2> QED
    BY <2>1 DEF FeedInit, ProgressInv, Fetching
<1>3. RejectedInv /\ PricedInv /\ WindowIsPast
  BY DEF FeedInit, RejectedInv, PricedInv, WindowIsPast, Stats, NoStats
<1> QED
  BY <1>1, <1>2, <1>3 DEF FeedInv

LEMMA AskStep == FeedInv /\ Ask => FeedInv'
<1> SUFFICES ASSUME FeedInv, Ask PROVE FeedInv'
  OBVIOUS
<1>1. /\ pc' \in {"refused", "quote"} /\ moment' \in Moments /\ attempt' = 0 /\ opens' = 0
      /\ rejected' = 0 /\ error' \in {"data", "none"} /\ spy' = <<0, 0>> /\ todo' = 0
      /\ stats' = NoStats /\ chain' = {} /\ window' = NoWindow /\ bars' = FALSE
  BY DEF Ask
<1>2. FeedTypeOK'
  <2>1. <<0, 0>> \in (0 .. 2) \X (0 .. 2) /\ 0 \in 0 .. Expirations /\ 0 \in 0 .. MaxRetries - 1
    BY FeedAssumption
  <2>2. 0 \in Nat /\ 0 \in 0 .. 0 /\ FALSE \in BOOLEAN
    OBVIOUS
  <2> QED
    BY <1>1, <2>1, <2>2, Zenon DEF FeedTypeOK, Fetching
<1>3. ProgressInv'
  <2>1. Stage' \in {0, 4 + Expirations}
    BY <1>1 DEF Stage
  <2>2. MaxRetries * 0 \in Nat /\ MaxRetries * (4 + Expirations) \in Nat
    BY FeedAssumption
  <2>3. MaxRetries * Stage' \in Nat
    BY <2>1, <2>2
  <2>4. opens' <= MaxRetries * Stage' + attempt'
    BY <1>1, <2>3
  <2> QED
    BY <1>1, <2>4 DEF ProgressInv
<1>4. (RejectedInv /\ PricedInv /\ WindowIsPast)'
  <2> HIDE DEF Ask, FeedInv
  <2>1. RejectedInv'
    BY <1>1 DEF RejectedInv
  <2>2. PricedInv'
    <3>1. pc' \in {"refused", "quote"} /\ stats' = NoStats /\ chain' = {}
      BY <1>1
    <3>2. NoStats \in Stats /\ NoStats.kept = 0 /\ NoStats.dropped = 0 /\ NoStats.seen = 0
          /\ NoStats.vendor = 0 /\ NoStats.derived = 0
      BY DEF Stats, NoStats
    <3>3. stats'.kept + stats'.dropped <= stats'.seen /\ stats'.kept <= stats'.vendor + stats'.derived
      BY <3>1, <3>2
    <3> QED
      BY <3>1, <3>2, <3>3, Zenon DEF PricedInv
  <2>3. WindowIsPast'
    BY <1>1, Zenon DEF WindowIsPast
  <2> QED
    BY <2>1, <2>2, <2>3
<1> QED
  BY <1>2, <1>3, <1>4 DEF FeedInv

LEMMA RetryStep == FeedInv /\ Retry => FeedInv'
<1> SUFFICES ASSUME FeedInv, Retry PROVE FeedInv'
  OBVIOUS
<1>1. PICK failure \in Failures : ~Ends(failure) /\ Sent(failure)
  BY DEF Retry
<1>2. failure \notin {"auth", "rate"} /\ attempt # MaxRetries - 1
  BY <1>1 DEF Ends, TerminalError
<1>n. FeedTypeOK
  BY DEF FeedInv
<1>3. opens' = opens + 1 /\ rejected' = rejected
  BY <1>1, <1>2, <1>n, FeedNumbers DEF Sent
<1>4. /\ attempt' = attempt + 1 /\ pc \in Fetching
      /\ UNCHANGED <<pc, moment, error, spy, todo, stats, chain, window, bars>>
  BY DEF Retry
<1>5. FeedTypeOK'
  <2>1. attempt' \in 0 .. MaxRetries - 1 /\ opens' \in Nat /\ rejected' \in 0 .. opens'
    BY <1>2, <1>3, <1>4, <1>n, FeedNumbers
  <2> QED
    BY <1>4, <1>n, <2>1, Zenon DEF FeedTypeOK
<1>6. ProgressInv'
  <2>1. Stage' = Stage
    BY <1>4 DEF Stage
  <2>2. Stage \in Nat /\ MaxRetries \in Nat /\ opens \in Nat /\ attempt \in Nat
    BY StageType, FeedNumbers DEF FeedInv
  <2>3. MaxRetries * Stage \in Nat /\ opens <= MaxRetries * Stage + attempt
    BY <2>2 DEF FeedInv, ProgressInv
  <2>4. opens' <= MaxRetries * Stage' + attempt'
    BY <1>3, <1>4, <2>1, <2>2, <2>3
  <2> QED
    BY <1>4, <2>4 DEF FeedInv, ProgressInv
<1>7. (RejectedInv /\ PricedInv /\ WindowIsPast)'
  BY <1>3, <1>4 DEF FeedInv, RejectedInv, PricedInv, WindowIsPast
<1> QED
  BY <1>5, <1>6, <1>7 DEF FeedInv

LEMMA EscapesStep == FeedInv /\ Escapes => FeedInv'
<1> SUFFICES ASSUME FeedInv, Escapes PROVE FeedInv'
  OBVIOUS
<1>1. /\ pc \in {"quote", "expirations", "chain", "bars", "bars all"} /\ Sent("none")
      /\ pc' = "raised" /\ error' = "untyped" /\ attempt' = 0
      /\ UNCHANGED <<moment, spy, todo, stats, chain, window, bars>>
  BY DEF Escapes, Fetching
<1>2. FeedTypeOK
  BY DEF FeedInv
<1>n. /\ opens \in Nat /\ rejected \in 0 .. opens /\ MaxRetries \in Nat \ {0}
      /\ "none" \notin {"auth", "rate"}
  BY <1>2, FeedNumbers
<1>3. opens' = opens + 1 /\ rejected' = rejected
  <2>1. opens' = opens + 1 /\ rejected' = rejected + 0
    BY <1>1, <1>n DEF Sent
  <2> QED
    BY <1>n, <2>1
<1>4. FeedTypeOK'
  <2>1. attempt' \in 0 .. MaxRetries - 1 /\ opens' \in Nat /\ rejected' \in 0 .. opens'
    <3>1. attempt' = 0
      BY <1>1
    <3>2. opens' \in Nat /\ rejected' \in 0 .. opens'
      BY <1>n, <1>3
    <3> QED
      BY <1>n, <3>1, <3>2
  <2> QED
    BY <1>1, <1>2, <2>1, Zenon DEF FeedTypeOK
<1>5. ProgressInv'
  <2>1. todo \in 0 .. Expirations /\ Expirations \in Nat
    BY <1>2, FeedNumbers
  <2>2. /\ Stage \in {0, 1, 2 + Expirations - todo, 2 + Expirations, 3 + Expirations}
        /\ Stage' = 4 + Expirations
    BY <1>1 DEF Stage
  <2>3. Stage < Stage' /\ Stage' \in Nat
    BY <2>1, <2>2
  <2>4. opens' <= MaxRetries * Stage' + attempt'
    BY <1>1, <1>3, <2>3, EndpointDone
  <2>5. pc' \notin Fetching
    BY <1>1 DEF Fetching
  <2> QED
    BY <1>1, <2>4, <2>5, Zenon DEF ProgressInv
<1>6. RejectedInv'
  <2>1. rejected <= 2
    BY <1>1 DEF FeedInv, RejectedInv
  <2> QED
    BY <1>1, <1>3, <2>1 DEF RejectedInv
<1>7. PricedInv'
  BY <1>1 DEF FeedInv, PricedInv
<1>8. WindowIsPast'
  BY <1>1, Zenon DEF FeedInv, WindowIsPast
<1> QED
  BY <1>4, <1>5, <1>6, <1>7, <1>8 DEF FeedInv

LEMMA GiveUpStep == FeedInv /\ GiveUp => FeedInv'
<1> SUFFICES ASSUME FeedInv, GiveUp PROVE FeedInv'
  OBVIOUS
<1>1. PICK failure \in Failures :
          /\ Ends(failure) /\ Sent(failure)
          /\ error' = IF FailsAt(pc) = "failed" THEN Raised(failure) ELSE error
  BY DEF GiveUp
<1>2. /\ pc \in Fetching /\ pc' = FailsAt(pc) /\ attempt' = 0
      /\ UNCHANGED <<moment, spy, todo, stats, chain, window, bars>>
  BY DEF GiveUp
<1>3. FeedTypeOK
  BY DEF FeedInv
<1>4. opens' = opens + 1 /\ rejected' \in {rejected, rejected + 1}
  BY <1>1, <1>3, FeedNumbers DEF Sent
<1>5. /\ pc = "bars" => pc' = "bars all"
      /\ pc = "bars all" => pc' = "answered"
      /\ pc \in {"quote", "expirations", "chain"} => pc' = "failed"
  BY <1>2 DEF FailsAt
<1>6. pc \in {"quote", "expirations", "chain", "bars", "bars all"}
      /\ pc' \in {"bars all", "answered", "failed"}
  BY <1>2, <1>5 DEF Fetching
<1>7. FeedTypeOK'
  <2>1. attempt' \in 0 .. MaxRetries - 1 /\ opens' \in Nat /\ rejected' \in 0 .. opens'
    BY <1>2, <1>3, <1>4, FeedNumbers
  <2>2. Raised(failure) \in {"auth", "rate limit", "unavailable", "data"}
    <3>1. \A f \in DOMAIN TerminalError :
              TerminalError[f] \in {"auth", "rate limit", "unavailable", "data"}
      <4>1. DOMAIN TerminalError = {"auth", "rate", "client", "shape"}
        BY DEF TerminalError
      <4>2. /\ TerminalError["auth"] = "auth" /\ TerminalError["rate"] = "rate limit"
            /\ TerminalError["client"] = "unavailable" /\ TerminalError["shape"] = "data"
        BY DEF TerminalError
      <4> QED
        BY <4>1, <4>2
    <3> QED
      BY <3>1 DEF Raised
  <2>3. error' \in {"none", "auth", "rate limit", "unavailable", "data", "untyped"}
    BY <1>1, <1>3, <2>2, Zenon DEF FeedTypeOK
  <2>4. pc' \in Fetching \cup {"idle", "refused", "failed", "raised", "answered"}
    BY <1>6 DEF Fetching
  <2> QED
    BY <1>2, <1>3, <2>1, <2>3, <2>4, Zenon DEF FeedTypeOK
<1>8. ProgressInv'
  <2>1. todo \in 0 .. Expirations /\ Expirations \in Nat
    BY <1>3, FeedNumbers
  <2>2. Stage \in Nat
    BY <1>3, <2>1, StageType
  <2>3. Stage < Stage' /\ Stage' \in Nat
    <3>1. CASE pc = "bars"
      <4>1. Stage = 2 + Expirations /\ Stage' = 3 + Expirations
        BY <1>5, <3>1 DEF Stage
      <4> QED
        BY <2>1, <4>1
    <3>2. CASE pc = "bars all"
      <4>1. Stage = 3 + Expirations /\ Stage' = 4 + Expirations
        BY <1>5, <3>2 DEF Stage
      <4> QED
        BY <2>1, <4>1
    <3>3. CASE pc \in {"quote", "expirations", "chain"}
      <4>1. Stage \in {0, 1, 2 + Expirations - todo} /\ Stage' = 4 + Expirations
        BY <1>5, <3>3 DEF Stage
      <4> QED
        BY <2>1, <4>1
    <3> QED
      BY <1>6, <3>1, <3>2, <3>3
  <2>4. opens' <= MaxRetries * Stage' + attempt'
    BY <1>2, <1>4, <2>2, <2>3, EndpointDone
  <2> QED
    BY <1>2, <1>6, <2>4 DEF FeedInv, ProgressInv
<1>9. RejectedInv'
  <2>1. rejected \in Nat
    BY <1>3, FeedNumbers
  <2>2. pc = "bars all" => rejected <= 1
    BY DEF FeedInv, RejectedInv
  <2>3. pc # "bars all" => rejected = 0
    BY <1>6 DEF FeedInv, RejectedInv
  <2>4. rejected' <= rejected + 1 /\ rejected' \in Nat
    BY <1>4, <2>1
  <2>5. CASE pc = "bars all"
    <3>1. rejected <= 1
      BY <2>2, <2>5
    <3>2. rejected' <= 2
      BY <2>1, <2>4, <3>1
    <3> QED
      BY <1>5, <2>5, <3>2 DEF RejectedInv
  <2>6. CASE pc # "bars all"
    <3>1. rejected = 0
      BY <2>3, <2>6
    <3>2. rejected' <= 1 /\ rejected' <= 2
      BY <2>4, <3>1
    <3> QED
      BY <1>6, <3>2 DEF RejectedInv
  <2> QED
    BY <2>5, <2>6
<1>10. PricedInv'
  <2>1. pc' \in {"bars all", "answered"} => pc \in {"bars", "bars all"}
    BY <1>5, <1>6
  <2> QED
    BY <1>2, <1>6, <2>1 DEF FeedInv, PricedInv
<1>11. WindowIsPast'
  BY <1>2, Zenon DEF FeedInv, WindowIsPast
<1> QED
  BY <1>7, <1>8, <1>9, <1>10, <1>11 DEF FeedInv

(* What a payload does to the request counters and to the endpoint.        *)
LEMMA ArrivedIs ==
    ASSUME FeedInv, NEW ok \in BOOLEAN, NEW next, Arrived(ok, next)
    PROVE  /\ opens' = opens + 1 /\ attempt' = 0 /\ rejected' = rejected
           /\ ok => pc' = next
           /\ ~ok => pc' = "failed"
           /\ error' \in {"none", "auth", "rate limit", "unavailable", "data", "untyped"}
           /\ attempt' \in 0 .. MaxRetries - 1 /\ opens' \in Nat /\ rejected' \in 0 .. opens'
<1>1. FeedTypeOK
  BY DEF FeedInv
<1>2. Sent("none") /\ attempt' = 0
  BY DEF Arrived
<1>3. opens' = opens + 1 /\ rejected' = rejected
  BY <1>1, <1>2, FeedNumbers DEF Sent
<1>4. (ok => pc' = next) /\ (~ok => pc' = "failed")
  BY Zenon DEF Arrived
<1>5. error' \in {"none", "auth", "rate limit", "unavailable", "data", "untyped"}
  BY <1>1, Zenon DEF Arrived, FeedTypeOK
<1>6. attempt' \in 0 .. MaxRetries - 1 /\ opens' \in Nat /\ rejected' \in 0 .. opens'
  BY <1>1, <1>2, <1>3, FeedNumbers
<1> QED
  BY <1>2, <1>3, <1>4, <1>5, <1>6, Zenon

LEMMA BookIs ==
    ASSUME NEW bid \in 0 .. 2, NEW ask \in 0 .. 2, NEW last \in 0 .. 2
    PROVE  LET b == Book(bid, ask, last)
           IN  /\ b \in (0 .. 2) \X (0 .. 2)
               /\ b[1] + b[2] > 0 => 0 < b[1] /\ b[1] <= b[2]
  BY DEF Book

LEMMA FetchSpyQuoteStep == FeedInv /\ FetchSpyQuote => FeedInv'
<1> SUFFICES ASSUME FeedInv, FetchSpyQuote PROVE FeedInv'
  OBVIOUS
<1>1. FeedTypeOK
  BY DEF FeedInv
<1>2. /\ pc = "quote"
      /\ UNCHANGED <<moment, todo, stats, chain, window, bars>>
  BY DEF FetchSpyQuote
<1>3. /\ opens' = opens + 1 /\ attempt' = 0 /\ rejected' = rejected
      /\ pc' \in {"expirations", "failed"}
      /\ error' \in {"none", "auth", "rate limit", "unavailable", "data", "untyped"}
      /\ attempt' \in 0 .. MaxRetries - 1 /\ opens' \in Nat /\ rejected' \in 0 .. opens'
      /\ spy' \in (0 .. 2) \X (0 .. 2)
      /\ pc' = "expirations" => 0 < spy'[1] /\ spy'[1] <= spy'[2]
  <2>1. CASE Arrived(FALSE, "expirations") /\ UNCHANGED spy
    <3>1. spy' \in (0 .. 2) \X (0 .. 2)
      BY <1>1, <2>1, Zenon DEF FeedTypeOK
    <3> QED
      BY <2>1, <3>1, ArrivedIs
  <2>2. CASE \E bid, ask, last \in 0 .. 2 :
                /\ spy' = Book(bid, ask, last)
                /\ Arrived(spy'[1] + spy'[2] > 0, "expirations")
    <3>1. PICK bid \in 0 .. 2, ask \in 0 .. 2, last \in 0 .. 2 :
                /\ spy' = Book(bid, ask, last)
                /\ Arrived(spy'[1] + spy'[2] > 0, "expirations")
      BY <2>2
    <3> DEFINE ok == spy'[1] + spy'[2] > 0
    <3>2. spy' \in (0 .. 2) \X (0 .. 2) /\ (ok => 0 < spy'[1] /\ spy'[1] <= spy'[2])
      BY <3>1, BookIs
    <3>3. ok \in BOOLEAN /\ Arrived(ok, "expirations")
      BY <3>1, <3>2
    <3> HIDE DEF ok
    <3> QED
      BY <3>2, <3>3, ArrivedIs
  <2> QED
    BY <2>1, <2>2 DEF FetchSpyQuote
<1>4. FeedTypeOK'
  BY <1>1, <1>2, <1>3, Zenon DEF FeedTypeOK, Fetching
<1>5. ProgressInv'
  <2>1. Stage = 0 /\ Stage' \in {1, 4 + Expirations} /\ Expirations \in Nat
    BY <1>1, <1>2, <1>3, FeedNumbers DEF Stage
  <2>2. Stage < Stage' /\ Stage' \in Nat
    BY <2>1
  <2>3. opens' <= MaxRetries * Stage' + attempt'
    BY <1>3, <2>2, EndpointDone
  <2>4. moment \in Moments
    BY <1>2 DEF FeedInv, ProgressInv, Fetching
  <2> QED
    BY <1>2, <1>3, <2>3, <2>4, Zenon DEF ProgressInv
<1>6. RejectedInv'
  <2>1. rejected = 0
    BY <1>2 DEF FeedInv, RejectedInv
  <2>2. rejected' = 0
    BY <1>3, <2>1
  <2>3. 0 <= 1 /\ 0 <= 2
    OBVIOUS
  <2> QED
    BY <2>2, <2>3, Zenon DEF RejectedInv
<1>7. PricedInv'
  BY <1>2, <1>3 DEF FeedInv, PricedInv
<1>8. WindowIsPast'
  BY <1>2, Zenon DEF FeedInv, WindowIsPast
<1> QED
  BY <1>4, <1>5, <1>6, <1>7, <1>8 DEF FeedInv

LEMMA DaysAhead ==
    /\ \A listed \in SUBSET (-1 .. 2) : { d \in listed : d >= 0 } \in SUBSET (0 .. 2)
    /\ \A days \in SUBSET (0 .. 2) :
          IsFiniteSet(days) /\ Cardinality(days) \in Nat /\ (days # {} => Cardinality(days) > 0)
<1>1. IsFiniteSet(0 .. 2)
  <2>1. 0 \in Int /\ 2 \in Int
    OBVIOUS
  <2> QED
    BY <2>1, FS_Interval, Zenon
<1>2. ASSUME NEW days \in SUBSET (0 .. 2)
      PROVE  IsFiniteSet(days) /\ Cardinality(days) \in Nat /\ (days # {} => Cardinality(days) > 0)
  <2>1. IsFiniteSet(days)
    BY <1>1, FS_Subset
  <2>2. Cardinality(days) \in Nat /\ (Cardinality(days) = 0 <=> days = {})
    BY <2>1, FS_CardinalityType, FS_EmptySet
  <2>3. Cardinality(days) # 0 => Cardinality(days) > 0
    BY <2>2
  <2> QED
    BY <2>1, <2>2, <2>3, Zenon
<1>3. \A listed \in SUBSET (-1 .. 2) : { d \in listed : d >= 0 } \in SUBSET (0 .. 2)
  <2>1. \A d \in -1 .. 2 : d >= 0 => d \in 0 .. 2
    OBVIOUS
  <2> QED
    BY <2>1, Zenon
<1> QED
  BY <1>2, <1>3

LEMMA FetchExpirationsStep == FeedInv /\ FetchExpirations => FeedInv'
<1> SUFFICES ASSUME FeedInv, FetchExpirations PROVE FeedInv'
  OBVIOUS
<1>1. FeedTypeOK /\ Expirations \in Nat \ {0}
  BY FeedNumbers DEF FeedInv
<1>2. /\ pc = "expirations"
      /\ UNCHANGED <<moment, spy, stats, chain, window, bars>>
  BY DEF FetchExpirations
<1>3. PICK days \in SUBSET (0 .. 2) : todo' = Nearest(days) /\ Arrived(days # {}, "chain")
  <2>1. PICK listed \in SUBSET (-1 .. 2) :
          LET days == { d \in listed : d >= 0 }
          IN  todo' = Nearest(days) /\ Arrived(days # {}, "chain")
    BY DEF FetchExpirations
  <2>2. listed \in SUBSET (-1 .. 2)
    BY <2>1
  <2>3. { d \in listed : d >= 0 } \in SUBSET (0 .. 2)
    BY <2>2, DaysAhead
  <2> QED
    BY <2>1, <2>3
<1>4. /\ opens' = opens + 1 /\ attempt' = 0 /\ rejected' = rejected
      /\ error' \in {"none", "auth", "rate limit", "unavailable", "data", "untyped"}
      /\ attempt' \in 0 .. MaxRetries - 1 /\ opens' \in Nat /\ rejected' \in 0 .. opens'
      /\ days # {} => pc' = "chain"
      /\ days = {} => pc' = "failed"
  BY <1>3, ArrivedIs
<1>5. todo' \in 0 .. Expirations /\ (days # {} => todo' > 0)
  <2>1. days \in SUBSET (0 .. 2)
    BY <1>3
  <2>2. IsFiniteSet(days) /\ Cardinality(days) \in Nat /\ (days # {} => Cardinality(days) > 0)
    BY <2>1, DaysAhead
  <2>3. todo' = IF Expirations <= Cardinality(days) THEN Expirations ELSE Cardinality(days)
    BY <1>1, <1>3, <2>2, MinOfTwo DEF Nearest
  <2> QED
    BY <1>1, <2>2, <2>3
<1>6. pc' \in {"chain", "failed"} /\ (pc' = "chain" => todo' > 0)
  BY <1>4, <1>5
<1>7. FeedTypeOK'
  BY <1>1, <1>2, <1>4, <1>5, <1>6, Zenon DEF FeedTypeOK, Fetching
<1>8. ProgressInv'
  <2>1. Stage = 1 /\ (Stage' = 2 + Expirations - todo' \/ Stage' = 4 + Expirations)
    BY <1>2, <1>6 DEF Stage
  <2>2. Stage < Stage' /\ Stage' \in Nat
    <3>1. todo' \in 0 .. Expirations /\ Expirations \in Nat
      BY <1>1, <1>5
    <3> QED
      BY <2>1, <3>1
  <2>3. opens' <= MaxRetries * Stage' + attempt'
    BY <1>4, <2>2, EndpointDone
  <2>4. moment \in Moments
    BY <1>2 DEF FeedInv, ProgressInv, Fetching
  <2> QED
    BY <1>2, <1>4, <1>6, <2>3, <2>4, Zenon DEF ProgressInv
<1>9. RejectedInv'
  <2>1. rejected = 0
    BY <1>2 DEF FeedInv, RejectedInv
  <2>2. rejected' = 0
    BY <1>4, <2>1
  <2>3. 0 <= 1 /\ 0 <= 2
    OBVIOUS
  <2> QED
    BY <2>2, <2>3, Zenon DEF RejectedInv
<1>10. PricedInv'
  BY <1>2, <1>6 DEF FeedInv, PricedInv
<1>11. WindowIsPast'
  BY <1>2, Zenon DEF FeedInv, WindowIsPast
<1> QED
  BY <1>7, <1>8, <1>9, <1>10, <1>11 DEF FeedInv

LEMMA FetchChainStep == FeedInv /\ FetchChain => FeedInv'
<1> SUFFICES ASSUME FeedInv, FetchChain PROVE FeedInv'
  OBVIOUS
<1>1. FeedTypeOK /\ Expirations \in Nat /\ todo \in 0 .. Expirations
  BY FeedNumbers DEF FeedInv
<1>2. /\ pc = "chain" /\ todo' = todo - 1
      /\ UNCHANGED <<moment, spy, bars>>
  BY DEF FetchChain
<1>3. todo > 0 /\ moment \in Moments
  BY <1>2 DEF FeedInv, ProgressInv, Fetching
<1>4. todo' \in 0 .. Expirations /\ todo' = todo - 1
  BY <1>1, <1>2, <1>3
<1>5. PICK records \in BoundedSeq(Records, MaxRecords) :
          /\ stats' = QuotesFromOptions(stats, records)
          /\ chain' = chain \cup { <<Volatility(r), r.solves>> : r \in { x \in Range(records) : Keeps(x) } }
  BY DEF FetchChain
<1>6. PICK n \in Nat : records \in [1..n -> Records]
  BY <1>5, ResponseIs
<1>7. /\ stats' \in Stats
      /\ stats'.kept + stats'.dropped <= stats'.seen
      /\ stats'.kept <= stats'.vendor + stats'.derived
  <2>1. /\ stats \in Stats /\ stats.kept + stats.dropped <= stats.seen
        /\ stats.kept <= stats.vendor + stats.derived
    BY DEF FeedInv, PricedInv
  <2> QED
    BY <1>5, <1>6, <2>1, CountsAddUp
<1>8. \A q \in chain' : q[1] = "vendor" \/ q[2] = "good"
  <2>1. \A q \in chain : q[1] = "vendor" \/ q[2] = "good"
    BY DEF FeedInv, PricedInv
  <2>2. \A q \in { <<Volatility(r), r.solves>> : r \in { x \in Range(records) : Keeps(x) } } :
            q[1] = "vendor" \/ q[2] = "good"
    BY <1>6, KeptIsPriced
  <2> QED
    BY <1>5, <2>1, <2>2, Zenon
<1>9. /\ opens' = opens + 1 /\ attempt' = 0 /\ rejected' = rejected
      /\ error' \in {"none", "auth", "rate limit", "unavailable", "data", "untyped"}
      /\ attempt' \in 0 .. MaxRetries - 1 /\ opens' \in Nat /\ rejected' \in 0 .. opens'
      /\ \/ pc' = "chain" /\ todo' # 0
         \/ pc' = "bars" /\ todo' = 0 /\ stats'.kept >= MinContracts
         \/ pc' = "failed"
  <2>1. CASE todo' # 0
    <3>1. Arrived(TRUE, "chain")
      BY <2>1 DEF FetchChain
    <3> QED
      BY <2>1, <3>1, ArrivedIs
  <2>2. CASE todo' = 0
    <3> DEFINE ok == stats'.kept >= MinContracts
    <3>0. ok \in BOOLEAN
      BY <1>7, FeedAssumption DEF Stats
    <3>1. Arrived(ok, "bars")
      BY <2>2 DEF FetchChain
    <3>2. ok => stats'.kept >= MinContracts
      OBVIOUS
    <3> HIDE DEF ok
    <3> QED
      BY <2>2, <3>0, <3>1, <3>2, ArrivedIs
  <2> QED
    BY <2>1, <2>2
<1>10. FeedTypeOK'
  BY <1>1, <1>2, <1>4, <1>9, Zenon DEF FeedTypeOK, Fetching
<1>11. ProgressInv'
  <2>1. Stage = 2 + Expirations - todo
    BY <1>2 DEF Stage
  <2>2. Stage < Stage' /\ Stage' \in Nat
    <3>1. CASE pc' = "chain"
      <4>1. Stage' = 2 + Expirations - todo'
        BY <3>1 DEF Stage
      <4> QED
        BY <1>1, <1>4, <2>1, <4>1
    <3>2. CASE pc' = "bars"
      <4>1. Stage' = 2 + Expirations
        BY <3>2 DEF Stage
      <4> QED
        BY <1>1, <1>3, <2>1, <4>1
    <3>3. CASE pc' = "failed"
      <4>1. Stage' = 4 + Expirations
        BY <3>3 DEF Stage
      <4> QED
        BY <1>1, <2>1, <4>1
    <3> QED
      BY <1>9, <3>1, <3>2, <3>3
  <2>3. opens' <= MaxRetries * Stage' + attempt'
    BY <1>9, <2>2, EndpointDone
  <2>4. pc' = "chain" => todo' > 0
    <3>1. todo' # 0 => todo' > 0
      BY <1>1, <1>4
    <3> QED
      BY <1>9, <3>1, Zenon
  <2> QED
    BY <1>2, <1>3, <1>9, <2>3, <2>4, Zenon DEF ProgressInv
<1>12. RejectedInv'
  <2>1. rejected = 0
    BY <1>2 DEF FeedInv, RejectedInv
  <2>2. rejected' = 0
    BY <1>9, <2>1
  <2>3. 0 <= 1 /\ 0 <= 2
    OBVIOUS
  <2> QED
    BY <2>2, <2>3, Zenon DEF RejectedInv
<1>13. PricedInv'
  <2>1. 0 < spy'[1] /\ spy'[1] <= spy'[2]
    BY <1>2 DEF FeedInv, PricedInv
  <2>2. pc' \in {"bars", "bars all", "answered"} => stats'.kept >= MinContracts
    BY <1>9, Zenon
  <2> QED
    BY <1>7, <1>8, <2>1, <2>2, Zenon DEF PricedInv
<1>14. WindowIsPast'
  <2>1. moment' = moment /\ window' = IF pc' = "bars" THEN BarsQueryWindow(moment) ELSE window
    BY DEF FetchChain
  <2>2. CASE pc' = "bars"
    <3>1. window' = BarsQueryWindow(moment)
      BY <2>1, <2>2
    <3>2. InsideSession(window') /\ window'.end <= moment'
      BY <1>3, <2>1, <3>1, WindowLiesInThePast
    <3> QED
      BY <3>2, Zenon DEF InsideSession, WindowIsPast
  <2>3. CASE pc' # "bars"
    BY <2>1, <2>3, Zenon DEF FeedInv, WindowIsPast
  <2> QED
    BY <2>2, <2>3
<1> QED
  BY <1>10, <1>11, <1>12, <1>13, <1>14 DEF FeedInv

LEMMA FetchBarsStep == FeedInv /\ FetchBars => FeedInv'
<1> SUFFICES ASSUME FeedInv, FetchBars PROVE FeedInv'
  OBVIOUS
<1>1. FeedTypeOK /\ Expirations \in Nat
  BY FeedNumbers DEF FeedInv
<1>2. /\ pc \in {"bars", "bars all"} /\ bars' \in BOOLEAN /\ Arrived(TRUE, "answered")
      /\ UNCHANGED <<moment, spy, todo, stats, chain, window>>
  BY Zenon DEF FetchBars
<1>3. /\ opens' = opens + 1 /\ attempt' = 0 /\ rejected' = rejected /\ pc' = "answered"
      /\ error' \in {"none", "auth", "rate limit", "unavailable", "data", "untyped"}
      /\ attempt' \in 0 .. MaxRetries - 1 /\ opens' \in Nat /\ rejected' \in 0 .. opens'
  BY <1>2, ArrivedIs
<1>4. FeedTypeOK'
  BY <1>1, <1>2, <1>3, Zenon DEF FeedTypeOK, Fetching
<1>5. ProgressInv'
  <2>1. (Stage = 2 + Expirations \/ Stage = 3 + Expirations) /\ Stage' = 4 + Expirations
    BY <1>2, <1>3 DEF Stage
  <2>2. Stage < Stage' /\ Stage' \in Nat
    BY <1>1, <2>1
  <2>3. opens' <= MaxRetries * Stage' + attempt'
    BY <1>3, <2>2, EndpointDone
  <2>4. pc' \notin Fetching
    BY <1>3 DEF Fetching
  <2> QED
    BY <1>3, <2>3, <2>4, Zenon DEF ProgressInv
<1>6. RejectedInv'
  BY <1>3, Zenon DEF FeedInv, RejectedInv
<1>7. PricedInv'
  BY <1>2, <1>3 DEF FeedInv, PricedInv
<1>8. WindowIsPast'
  BY <1>2, Zenon DEF FeedInv, WindowIsPast
<1> QED
  BY <1>4, <1>5, <1>6, <1>7, <1>8 DEF FeedInv

-----------------------------------------------------------------------------
LEMMA FeedInvStep == FeedInv /\ [Next]_dataVars => FeedInv'
<1> SUFFICES ASSUME FeedInv, [Next]_dataVars PROVE FeedInv'
  OBVIOUS
<1>1. CASE SnapshotRequested
  BY <1>1, AskStep DEF SnapshotRequested
<1>2. CASE FeedAdvances
  BY <1>2, RetryStep, GiveUpStep, EscapesStep, FetchSpyQuoteStep, FetchExpirationsStep, FetchChainStep,
     FetchBarsStep DEF FeedAdvances, FeedStep
<1>3. CASE UNCHANGED feedVars
  <2>1. UNCHANGED <<pc, moment, attempt, opens, rejected, error, spy, todo, stats, chain, window, bars>>
    BY <1>3 DEF feedVars
  <2>2. FeedTypeOK' = FeedTypeOK /\ RejectedInv' = RejectedInv /\ PricedInv' = PricedInv
    BY <2>1, Zenon DEF FeedTypeOK, RejectedInv, PricedInv
  <2>3. ProgressInv' = ProgressInv
    BY <2>1, Zenon DEF ProgressInv, Stage
  <2>4. WindowIsPast' = WindowIsPast
    BY <2>1, Zenon DEF WindowIsPast
  <2> QED
    BY <2>2, <2>3, <2>4 DEF FeedInv
<1>4. CalendarAdvances \/ ArchiveAdvances \/ UNCHANGED dataVars => UNCHANGED feedVars
  BY DEF CalendarAdvances, ArchiveAdvances, dataVars
<1> QED
  BY <1>1, <1>2, <1>3, <1>4 DEF Next

LEMMA FeedInvGives == FeedInv => FeedKeepsContract
<1> SUFFICES ASSUME FeedInv PROVE FeedKeepsContract
  OBVIOUS
<1>1. FeedTypeOK
  BY DEF FeedInv
<1>2. FetchesBounded
  <2>1. /\ attempt \in 0 .. MaxRetries - 1 /\ opens \in Nat
        /\ MaxRetries \in Nat /\ Expirations \in Nat /\ Stage \in 0 .. 4 + Expirations
    BY <1>1, FeedNumbers, StageType
  <2>2. opens <= MaxRetries * Stage + attempt
    BY DEF FeedInv, ProgressInv
  <2> DEFINE p == MaxRetries * Stage   q == MaxRetries * (Expirations + 4)
  <2>3. p \in Nat /\ q \in Nat
    BY <2>1
  <2>4. CASE Stage < 4 + Expirations
    <3>1. p + MaxRetries <= q
      BY <2>1, <2>4, RetriesGrow
    <3> HIDE DEF p, q
    <3>2. opens <= p + attempt
      BY <2>2 DEF p
    <3>3. opens <= q
      BY <2>1, <2>3, <3>1, <3>2
    <3> QED
      BY <3>3 DEF q, FetchesBounded
  <2>5. CASE Stage = 4 + Expirations
    <3>1. pc \notin Fetching
      <4>1. todo \in 0 .. Expirations
        BY <1>1, FeedNumbers
      <4>2. pc \in Fetching => \/ Stage = 0 \/ Stage = 1 \/ Stage = 2 + Expirations - todo
                               \/ Stage = 2 + Expirations \/ Stage = 3 + Expirations
        BY DEF Stage, Fetching
      <4> QED
        BY <2>1, <2>5, <4>1, <4>2
    <3>2. attempt = 0
      BY <3>1 DEF FeedInv, ProgressInv
    <3>3. p = q
      BY <2>1, <2>5
    <3> HIDE DEF p, q
    <3>4. opens <= p + 0
      BY <2>2, <3>2 DEF p
    <3>5. opens <= q
      BY <2>1, <2>3, <3>3, <3>4
    <3> QED
      BY <3>5 DEF q, FetchesBounded
  <2> QED
    BY <2>1, <2>4, <2>5
<1>3. RejectedOnce
  BY Zenon DEF FeedInv, RejectedInv, RejectedOnce
<1>4. AnswerIsPriced
  BY Zenon DEF FeedInv, PricedInv, AnswerIsPriced
<1> QED
  BY <1>1, <1>2, <1>3, <1>4, Zenon DEF FeedInv, FeedKeepsContract

(* The live feed keeps its contract (fetch_snapshot, tradier.py:559, and   *)
(* TradierClient.get, :152): whatever the service answers, in whatever     *)
(* order, a snapshot costs at most max_retries requests for each endpoint, *)
(* a rejection is not repeated, an answer has a price that is not crossed  *)
(* and contracts whose volatility is known and counted, and its bars come  *)
(* from one session that has begun by the moment asked for.                *)
THEOREM FeedAlwaysKeepsContract == Spec => []FeedKeepsContract
<1>1. Init => FeedInv
  BY FeedInitInv DEF Init
<1> QED
  BY <1>1, FeedInvStep, FeedInvGives, PTL DEF Spec

-----------------------------------------------------------------------------
(* The bars beside the chains *)

(* Sorted, the bars are numbered by how many are stamped at or before them. *)
LEMMA BarsInOrder ==
    LET c == Cardinality(BarStamps)
    IN  /\ c \in Nat /\ DOMAIN Bars = 1 .. c
        /\ \A k \in 1 .. c : Bars[k] \in BarStamps /\ Position(Bars[k]) = k
        /\ \A b \in BarStamps : Position(b) \in 1 .. c /\ Bars[Position(b)] = b
<1> DEFINE c == Cardinality(BarStamps)
           R == { p \in BarStamps \X BarStamps : p[1] <= p[2] }
           f == [b \in BarStamps |-> Position(b)]
<1>1. BarStamps \in SUBSET Nat /\ IsFiniteSet(BarStamps)
  BY ArchiveAssumption
<1>2. \A x, y \in BarStamps : <<x, y>> \in R <=> x <= y
  OBVIOUS
<1>3. /\ \A x, y \in BarStamps : <<x, y>> \in R \/ <<y, x>> \in R
      /\ \A x, y \in BarStamps : <<x, y>> \in R /\ <<y, x>> \in R => x = y
      /\ \A x, y, z \in BarStamps : <<x, y>> \in R /\ <<y, z>> \in R => <<x, z>> \in R
  BY <1>1, <1>2
<1>4. \A x \in BarStamps : f[x] = Cardinality({ y \in BarStamps : <<y, x>> \in R })
  <2> TAKE x \in BarStamps
  <2>1. { y \in BarStamps : <<y, x>> \in R } = { y \in BarStamps : y <= x }
    BY <1>2
  <2> QED
    BY <2>1 DEF Position
<1>5. \A x \in BarStamps : f[x] = Position(x)
  OBVIOUS
<1> HIDE DEF R, f
<1>6. /\ \A x \in BarStamps : f[x] \in 1 .. c
      /\ \A x, y \in BarStamps : f[x] <= f[y] <=> <<x, y>> \in R
      /\ \A n \in 1 .. c : \E x \in BarStamps : f[x] = n
  BY <1>1, <1>3, <1>4, RankIs
<1>7. c \in Nat
  BY <1>1, FS_CardinalityType
<1> HIDE DEF c
<1>8. DOMAIN Bars = 1 .. c /\ \A k \in 1 .. c : Bars[k] = CHOOSE b \in BarStamps : Position(b) = k
  BY DEF Bars, c
<1>9. \A k \in 1 .. c : Bars[k] \in BarStamps /\ Position(Bars[k]) = k
  <2> TAKE k \in 1 .. c
  <2>1. \E b \in BarStamps : Position(b) = k
    BY <1>5, <1>6
  <2> QED
    BY <1>8, <2>1
<1>10. \A b \in BarStamps : Position(b) \in 1 .. c /\ Bars[Position(b)] = b
  <2> TAKE b \in BarStamps
  <2>1. Position(b) \in 1 .. c
    BY <1>5, <1>6
  <2> DEFINE d == Bars[Position(b)]
  <2>2. d \in BarStamps /\ Position(d) = Position(b)
    BY <1>9, <2>1
  <2> HIDE DEF d
  <2>3. f[d] = f[b] /\ f[b] \in 1 .. c
    BY <1>5, <1>6, <2>2
  <2>4. f[d] <= f[b] /\ f[b] <= f[d]
    BY <1>7, <2>3
  <2>5. d <= b /\ b <= d
    BY <1>2, <1>6, <2>2, <2>4
  <2>6. d = b
    BY <1>1, <2>2, <2>5
  <2> QED
    BY <2>1, <2>6 DEF d
<1> QED
  BY <1>7, <1>8, <1>9, <1>10 DEF c

(* A bar is among the first Position(at) exactly when it is not later.     *)
LEMMA PositionIs ==
    ASSUME NEW at \in Nat
    PROVE  /\ Position(at) \in 0 .. Cardinality(BarStamps)
           /\ \A b \in BarStamps : Position(b) <= Position(at) <=> b <= at
<1> DEFINE upto(x) == { b \in BarStamps : b <= x }
           c == Cardinality(BarStamps)
<1>1. BarStamps \in SUBSET Nat /\ IsFiniteSet(BarStamps)
  BY ArchiveAssumption
<1>2. \A x \in Nat : upto(x) \in SUBSET BarStamps /\ Position(x) = Cardinality(upto(x))
  BY DEF Position
<1>3. \A x, y \in Nat : x <= y => upto(x) \in SUBSET upto(y)
  <2> TAKE x \in Nat, y \in Nat
  <2> HAVE x <= y
  <2>1. \A b \in BarStamps : b <= x => b <= y
    BY <1>1
  <2> QED
    BY <2>1
<1>4. \A b \in BarStamps : b \in upto(b) /\ (~(b <= at) => b \notin upto(at))
  BY <1>1
<1>5. c \in Nat
  BY <1>1, FS_CardinalityType
<1> HIDE DEF upto, c
<1>6. \A x \in Nat : IsFiniteSet(upto(x)) /\ Position(x) \in Nat /\ Position(x) <= c
  BY <1>1, <1>2, FS_Subset, FS_CardinalityType DEF c
<1>7. Position(at) \in 0 .. c
  BY <1>5, <1>6
<1>8. ASSUME NEW b \in BarStamps PROVE Position(b) <= Position(at) <=> b <= at
  <2>1. b \in Nat
    BY <1>1
  <2>2. CASE b <= at
    <3>1. upto(b) \in SUBSET upto(at)
      BY <1>3, <2>1, <2>2
    <3>2. Position(b) <= Position(at)
      BY <1>2, <1>6, <2>1, <3>1, FS_Subset
    <3> QED
      BY <2>2, <3>2
  <2>3. CASE ~(b <= at)
    <3>1. at <= b
      BY <2>1, <2>3
    <3>2. upto(at) \in SUBSET upto(b) /\ upto(at) # upto(b)
      BY <1>3, <1>4, <2>1, <2>3, <3>1
    <3>3. Position(at) <= Position(b) /\ Position(at) # Position(b)
      BY <1>2, <1>6, <2>1, <3>2, FS_Subset
    <3>4. ~(Position(b) <= Position(at))
      BY <1>6, <2>1, <3>3
    <3> QED
      BY <2>3, <3>4
  <2> QED
    BY <2>2, <2>3
<1> QED
  BY <1>7, <1>8 DEF c

(* What BarsAreCausal asks of one snapshot.                                *)
Causal(x) ==
    LET seen == { b \in BarStamps : b <= x.stamp }
        shown == { x.bars[k] : k \in DOMAIN x.bars }
    IN  /\ shown \subseteq seen
        /\ Cardinality(shown) =
             (IF Cardinality(seen) < BarWindow THEN Cardinality(seen) ELSE BarWindow)
        /\ \A b \in seen \ shown, c \in shown : b < c

LEMMA WindowIsCausal ==
    ASSUME NEW at \in Nat
    PROVE  Causal([stamp |-> at, bars |-> Window(at)])
<1> DEFINE c == Cardinality(BarStamps)
           p == Position(at)
           lo == IF p > BarWindow THEN p - BarWindow ELSE 0
           w == Window(at)
           seen == { b \in BarStamps : b <= at }
           shown == { w[k] : k \in DOMAIN w }
           early == { b \in BarStamps : Position(b) <= lo }
<1>1. /\ BarStamps \in SUBSET Nat /\ IsFiniteSet(BarStamps) /\ BarWindow \in Nat \ {0}
  BY ArchiveAssumption
<1>2. /\ c \in Nat /\ p \in 0 .. c
      /\ \A b \in BarStamps : Position(b) <= p <=> b <= at
      /\ \A k \in 1 .. c : Bars[k] \in BarStamps /\ Position(Bars[k]) = k
      /\ \A b \in BarStamps : Position(b) \in 1 .. c /\ Bars[Position(b)] = b
  BY PositionIs, BarsInOrder
<1>3. w = SubSeq(Bars, lo + 1, p)
  BY DEF Window
<1>4. seen = { b \in BarStamps : Position(b) <= p }
  BY <1>2
<1>5. p = Cardinality(seen) /\ IsFiniteSet(seen) /\ seen \in SUBSET BarStamps
  <2>1. seen \in SUBSET BarStamps
    OBVIOUS
  <2> QED
    BY <1>1, <2>1, FS_Subset DEF Position
<1> HIDE DEF c, p, w, seen
<1>6. lo \in 0 .. p /\ (p <= BarWindow => lo = 0) /\ (p > BarWindow => lo = p - BarWindow)
  BY <1>1, <1>2
<1> HIDE DEF lo
<1>7. shown = { b \in BarStamps : lo < Position(b) /\ Position(b) <= p }
  <2>1. lo + 1 \in Int /\ p \in Int /\ \A i \in lo + 1 .. p : Bars[i] \in BarStamps
    BY <1>2, <1>6
  <2>2. /\ SubSeq(Bars, lo + 1, p) \in Seq(BarStamps)
        /\ Len(SubSeq(Bars, lo + 1, p)) = IF lo + 1 <= p THEN p - (lo + 1) + 1 ELSE 0
        /\ \A i \in 1 .. p - (lo + 1) + 1 : SubSeq(Bars, lo + 1, p)[i] = Bars[(lo + 1) + i - 1]
    BY <2>1, SubSeqProperties
  <2>3. DOMAIN w = 1 .. p - lo /\ \A i \in 1 .. p - lo : w[i] = Bars[lo + i]
    <3>1. w \in Seq(BarStamps) /\ Len(w) = p - lo
      BY <1>2, <1>3, <1>6, <2>2
    <3>2. p - (lo + 1) + 1 = p - lo /\ \A i \in 1 .. p - lo : (lo + 1) + i - 1 = lo + i
      BY <1>2, <1>6
    <3> QED
      BY <1>3, <2>2, <3>1, <3>2
  <2>4. ASSUME NEW i \in 1 .. p - lo
        PROVE  w[i] \in BarStamps /\ lo < Position(w[i]) /\ Position(w[i]) <= p
    <3>1. lo + i \in 1 .. c /\ lo < lo + i /\ lo + i <= p
      BY <1>2, <1>6
    <3> QED
      BY <1>2, <2>3, <3>1
  <2>5. ASSUME NEW b \in BarStamps, lo < Position(b), Position(b) <= p
        PROVE  \E i \in 1 .. p - lo : w[i] = b
    <3>1. Position(b) \in 1 .. c /\ Bars[Position(b)] = b
      BY <1>2
    <3>2. Position(b) - lo \in 1 .. p - lo /\ lo + (Position(b) - lo) = Position(b)
      BY <1>2, <1>6, <2>5, <3>1
    <3>3. w[Position(b) - lo] = b
      BY <2>3, <3>1, <3>2
    <3> QED
      BY <3>2, <3>3
  <2> QED
    BY <2>3, <2>4, <2>5
<1>8. shown \subseteq seen
  BY <1>4, <1>7
<1>9. Cardinality(shown) = p - lo
  <2>1. CASE lo = 0
    <3>1. shown = seen
      BY <1>2, <1>4, <1>7, <2>1
    <3> QED
      BY <1>2, <1>5, <2>1, <3>1
  <2>2. CASE lo # 0
    <3>1. lo \in 1 .. c
      BY <1>2, <1>6, <2>2
    <3> DEFINE e == Bars[lo]
    <3>2. e \in BarStamps /\ Position(e) = lo /\ e \in Nat
      BY <1>1, <1>2, <3>1
    <3> HIDE DEF e
    <3>3. early = { b \in BarStamps : b <= e }
      BY <3>2, PositionIs
    <3>4. Cardinality(early) = lo
      BY <3>2, <3>3 DEF Position
    <3>5. shown = seen \ early /\ seen \cap early = early
      BY <1>2, <1>4, <1>6, <1>7
    <3> HIDE DEF shown, early
    <3>6. Cardinality(seen \ early) = Cardinality(seen) - Cardinality(seen \cap early)
      BY <1>5, FS_Difference
    <3> QED
      BY <1>5, <3>4, <3>5, <3>6
  <2> QED
    BY <2>1, <2>2
<1>10. p - lo = IF Cardinality(seen) < BarWindow THEN Cardinality(seen) ELSE BarWindow
  BY <1>1, <1>2, <1>5, <1>6
<1>11. \A b \in seen \ shown, d \in shown : b < d
  <2> TAKE b \in seen \ shown, d \in shown
  <2>1. b \in BarStamps /\ d \in BarStamps /\ b \in Nat /\ d \in Nat
    BY <1>1, <1>5, <1>8
  <2>2. Position(b) \in 1 .. c /\ Position(d) \in 1 .. c /\ ~(lo < Position(b)) /\ lo < Position(d)
    BY <1>2, <1>4, <1>7, <2>1
  <2>3. ~(Position(d) <= Position(b))
    BY <1>2, <1>6, <2>2
  <2>4. ~(d <= b)
    BY <2>1, <2>3, PositionIs
  <2> QED
    BY <2>1, <2>4
<1>12. /\ [stamp |-> at, bars |-> Window(at)].stamp = at
       /\ [stamp |-> at, bars |-> Window(at)].bars = w
  BY DEF w
<1> QED
  BY <1>8, <1>9, <1>10, <1>11, <1>12 DEF Causal, seen

-----------------------------------------------------------------------------
(* Sorting and serving *)

Snapshots == [stamp: Stamps, bars: Seq(BarStamps)]

Sorted(s) == \A i, k \in DOMAIN s : i < k => s[i].stamp <= s[k].stamp

LEMMA StampIsNumber == \A x \in Snapshots : x.stamp \in Nat
  BY ArchiveAssumption DEF Snapshots

(* What __post_init__ leaves: snapshots that were loaded, in time order.   *)
LEMMA OrderedIs ==
    ASSUME NEW s \in Seq(Snapshots)
    PROVE  /\ Ordered(s) \in Seq(Snapshots) /\ Len(Ordered(s)) = Len(s) /\ Sorted(Ordered(s))
           /\ \A i \in DOMAIN Ordered(s) : \E k \in DOMAIN s : Ordered(s)[i] = s[k]
<1> DEFINE n == Len(s)
           D == 1 .. n
           st == [i \in D |-> s[i].stamp]
           R == { p \in D \X D : st[p[1]] < st[p[2]] \/ (st[p[1]] = st[p[2]] /\ p[1] <= p[2]) }
           f == [i \in D |-> Rank(s, i)]
           o == Ordered(s)
           at == [k \in D |-> CHOOSE i \in D : Rank(s, i) = k]
<1>1. n \in Nat /\ DOMAIN s = D /\ s \in [D -> Snapshots] /\ Stamps \in SUBSET Nat
  BY ArchiveAssumption
<1>2. IsFiniteSet(D) /\ Cardinality(D) = n
  <2>1. 1 \in Int /\ n \in Int
    BY <1>1
  <2>2. IsFiniteSet(1 .. n) /\ Cardinality(1 .. n) = IF 1 > n THEN 0 ELSE n - 1 + 1
    BY <2>1, FS_Interval
  <2> QED
    BY <1>1, <2>2
<1>3. \A i \in D : i \in Int /\ st[i] \in Nat /\ st[i] = s[i].stamp
  <2> TAKE i \in D
  <2>1. i \in Int /\ s[i] \in Snapshots /\ st[i] = s[i].stamp
    BY <1>1
  <2> QED
    BY <2>1, StampIsNumber
<1>4. \A x, y \in D : <<x, y>> \in R <=> (st[x] < st[y] \/ (st[x] = st[y] /\ x <= y))
  OBVIOUS
<1>5. \A i \in D : f[i] = Rank(s, i)
  OBVIOUS
<1>6. \A x \in D : f[x] = Cardinality({ y \in D : <<y, x>> \in R })
  <2> TAKE x \in D
  <2>1. { y \in D : <<y, x>> \in R }
          = { y \in DOMAIN s : s[y].stamp < s[x].stamp \/ (s[y].stamp = s[x].stamp /\ y <= x) }
    BY <1>1, <1>3, <1>4
  <2> QED
    BY <1>5, <2>1 DEF Rank
<1> HIDE DEF R, f, st
<1>7. \A x, y \in D : <<x, y>> \in R \/ <<y, x>> \in R
  <2> TAKE x \in D, y \in D
  <2>1. x \in Int /\ y \in Int /\ st[x] \in Nat /\ st[y] \in Nat
    BY <1>3
  <2>2. \/ (st[x] < st[y] \/ (st[x] = st[y] /\ x <= y))
        \/ (st[y] < st[x] \/ (st[y] = st[x] /\ y <= x))
    BY <2>1
  <2> QED
    BY <1>4, <2>2
<1>8. \A x, y \in D : <<x, y>> \in R /\ <<y, x>> \in R => x = y
  BY <1>3, <1>4
<1>9. \A x, y, z \in D : <<x, y>> \in R /\ <<y, z>> \in R => <<x, z>> \in R
  BY <1>3, <1>4
<1> HIDE DEF n, D
<1>10. /\ \A x, y \in D : f[x] <= f[y] <=> <<x, y>> \in R
       /\ \A k \in 1 .. Cardinality(D) : \E x \in D : f[x] = k
  BY <1>2, <1>6, <1>7, <1>8, <1>9, RankIs
<1>11. \A k \in D : \E x \in D : f[x] = k
  BY <1>2, <1>10 DEF D
<1>12. \A k \in D : at[k] \in D /\ f[at[k]] = k
  <2> TAKE k \in D
  <2>1. \E i \in D : Rank(s, i) = k
    BY <1>5, <1>11
  <2>2. at[k] \in D /\ Rank(s, at[k]) = k
    BY <2>1
  <2> HIDE DEF at
  <2> QED
    BY <1>5, <2>2
<1>13. o = [k \in D |-> s[at[k]]]
  BY <1>1 DEF Ordered
<1> HIDE DEF at, o
<1>14. \A k \in D : o[k] = s[at[k]] /\ o[k] \in Snapshots
  BY <1>1, <1>12, <1>13
<1>15. o \in Seq(Snapshots) /\ Len(o) = n /\ DOMAIN o = D
  BY <1>1, <1>13, <1>14 DEF D
<1>16. Sorted(o)
  <2>1. ASSUME NEW i \in D, NEW k \in D, i < k PROVE o[i].stamp <= o[k].stamp
    <3>1. f[at[i]] <= f[at[k]]
      BY <1>1, <1>12, <2>1 DEF D
    <3>2. <<at[i], at[k]>> \in R /\ at[i] \in D /\ at[k] \in D
      BY <1>10, <1>12, <3>1
    <3>3. st[at[i]] <= st[at[k]]
      BY <1>3, <1>4, <3>2
    <3> QED
      BY <1>3, <1>14, <3>2, <3>3
  <2> QED
    BY <1>15, <2>1 DEF Sorted
<1>17. \A i \in DOMAIN o : \E k \in DOMAIN s : o[i] = s[k]
  BY <1>1, <1>12, <1>14, <1>15
<1> QED
  BY <1>15, <1>16, <1>17 DEF o, n

(* What AnswersAsOf asks of an answer for a moment.                        *)
AsOf(at, a) ==
    LET known == { loaded[i].stamp : i \in DOMAIN loaded }
    IN  IF \E s \in known : s <= at
        THEN a.stamp \in known /\ a.stamp <= at /\ \A s \in known : s <= at => s <= a.stamp
        ELSE a = Nothing

LEMMA SnapshotIsAsOf ==
    ASSUME loaded \in Seq(Snapshots), Sorted(loaded), NEW at \in Nat
    PROVE  AsOf(at, SnapshotAt(at)) /\ SnapshotAt(at) \in Snapshots \cup {Nothing}
<1> DEFINE n == Len(loaded)
           later == { i \in DOMAIN loaded : loaded[i].stamp > at }
           before == IF later = {} THEN n ELSE (CHOOSE i \in later : \A k \in later : i <= k) - 1
           a == SnapshotAt(at)
<1>1. /\ n \in Nat /\ DOMAIN loaded = 1 .. n
      /\ \A i \in 1 .. n : loaded[i] \in Snapshots /\ loaded[i].stamp \in Nat
  <2>1. n \in Nat /\ DOMAIN loaded = 1 .. n /\ \A i \in 1 .. n : loaded[i] \in Snapshots
    OBVIOUS
  <2> QED
    BY <2>1, StampIsNumber
<1>2. a = IF before = 0 THEN Nothing ELSE loaded[before]
  BY DEF SnapshotAt
<1>3. /\ before \in 0 .. n
      /\ \A i \in 1 .. n : i <= before => loaded[i].stamp <= at
      /\ \A i \in 1 .. n : i > before => ~(loaded[i].stamp <= at)
  <2>1. CASE later = {}
    <3>1. before = n
      BY <2>1
    <3>2. \A i \in 1 .. n : ~(loaded[i].stamp > at)
      BY <1>1, <2>1
    <3> HIDE DEF before, later, n
    <3> QED
      BY <1>1, <3>1, <3>2
  <2>2. CASE later # {}
    <3> DEFINE first == CHOOSE i \in later : \A k \in later : i <= k
    <3>1. later \in SUBSET (1 .. n) /\ later \in SUBSET Nat
      BY <1>1
    <3>2. \E i \in later : \A k \in later : i <= k
      BY <2>2, <3>1, LeastNumber
    <3>3. first \in later /\ \A k \in later : first <= k
      BY <3>2
    <3>4. before = first - 1
      BY <2>2
    <3>5. first \in 1 .. n /\ loaded[first].stamp > at
      BY <1>1, <3>3
    <3> HIDE DEF before, first
    <3>6. ASSUME NEW i \in 1 .. n, i < first PROVE loaded[i].stamp <= at
      <4>1. i \notin later
        BY <3>3, <3>5, <3>6
      <4>2. ~(loaded[i].stamp > at)
        BY <1>1, <4>1
      <4> QED
        BY <1>1, <4>2
    <3>7. ASSUME NEW i \in 1 .. n, i >= first PROVE ~(loaded[i].stamp <= at)
      <4>1. loaded[first].stamp <= loaded[i].stamp
        BY <1>1, <3>5, <3>7 DEF Sorted
      <4> QED
        BY <1>1, <3>5, <4>1
    <3> HIDE DEF later, n
    <3> QED
      BY <1>1, <3>4, <3>5, <3>6, <3>7
  <2> QED
    BY <2>1, <2>2
<1> HIDE DEF before, a, n
<1>4. CASE before = 0
  <2>1. a = Nothing /\ \A i \in 1 .. n : ~(loaded[i].stamp <= at)
    BY <1>1, <1>2, <1>3, <1>4
  <2> QED
    BY <1>1, <2>1 DEF AsOf, a
<1>5. CASE before # 0
  <2>1. before \in 1 .. n /\ a = loaded[before] /\ a.stamp <= at
    BY <1>1, <1>2, <1>3, <1>5
  <2>2. ASSUME NEW i \in 1 .. n, loaded[i].stamp <= at PROVE loaded[i].stamp <= a.stamp
    <3>1. i <= before
      BY <1>1, <1>3, <2>1, <2>2
    <3> QED
      BY <1>1, <2>1, <3>1 DEF Sorted
  <2>3. a.stamp \in { loaded[i].stamp : i \in DOMAIN loaded }
    BY <1>1, <2>1
  <2> QED
    BY <1>1, <2>1, <2>2, <2>3 DEF AsOf, a
<1> QED
  BY <1>4, <1>5

LEMMA WindowType ==
    ASSUME NEW at \in Nat
    PROVE  Window(at) \in Seq(BarStamps)
<1> DEFINE p == Position(at)
           lo == IF p > BarWindow THEN p - BarWindow ELSE 0
<1>1. p \in 0 .. Cardinality(BarStamps) /\ Cardinality(BarStamps) \in Nat /\ BarWindow \in Nat
  BY PositionIs, BarsInOrder, ArchiveAssumption
<1>2. \A k \in 1 .. Cardinality(BarStamps) : Bars[k] \in BarStamps
  BY BarsInOrder
<1>3. Window(at) = SubSeq(Bars, lo + 1, p)
  BY DEF Window
<1> HIDE DEF p
<1>4. lo \in Nat
  BY <1>1
<1> HIDE DEF lo
<1>5. lo + 1 \in Int /\ p \in Int /\ \A i \in lo + 1 .. p : Bars[i] \in BarStamps
  BY <1>1, <1>2, <1>4
<1> QED
  BY <1>3, <1>5, SubSeqProperties

-----------------------------------------------------------------------------
(* The inductive invariant of the archive *)

Tallies == [ read: Nat, snapshots: Nat, skipped: Nat, errors: Nat,
             parsed: Nat, dropped: Nat, thin: Nat, noSpot: Nat ]

KeptRows == { r \in Rows : r.stamp \in Stamps }

ArchiveTypes ==
    /\ medium \in {"tape", "chain"} /\ stage \in {"loading", "assembling", "raised", "serving"}
    /\ pending \in Seq(KeptRows) /\ left \in SUBSET Stamps
    /\ tally \in Tallies /\ tally.read <= MaxRead /\ lost \in Nat
    /\ loaded \in Seq(Snapshots)
    /\ asked \in Stamps \cup {0} /\ answer \in Snapshots \cup {Nothing}

(* Only chains are assembled, and while a file is read all its rows wait.  *)
LoadInv ==
    /\ medium = "tape" => lost = 0
    /\ stage = "assembling" => medium = "chain"
    /\ stage = "loading" => \A i \in DOMAIN pending : pending[i].stamp \in left

(* Nothing is asked before the snapshots are in order.                     *)
ServeInv ==
    /\ stage # "serving" => asked = 0
    /\ stage = "serving" => Sorted(loaded)
    /\ stage = "serving" /\ asked # 0 => AsOf(asked, answer)
    /\ medium = "chain" => \A i \in DOMAIN loaded : Causal(loaded[i])

ArchiveInv == ArchiveTypes /\ LoadInv /\ ServeInv /\ TallyAddsUp

Waiting == { i \in DOMAIN pending : pending[i].stamp \in left }

LEMMA TallyFields ==
    ASSUME NEW t \in Tallies
    PROVE  /\ t.read \in Nat /\ t.snapshots \in Nat /\ t.skipped \in Nat /\ t.errors \in Nat
           /\ t.parsed \in Nat /\ t.dropped \in Nat /\ t.thin \in Nat /\ t.noSpot \in Nat
  BY DEF Tallies

(* The rows of a file and their subsets are finite.                        *)
LEMMA RowsAreFinite ==
    ASSUME pending \in Seq(KeptRows), NEW T \in SUBSET (DOMAIN pending)
    PROVE  IsFiniteSet(T) /\ Cardinality(T) \in Nat
<1>1. DOMAIN pending = 1 .. Len(pending) /\ Len(pending) \in Nat
  OBVIOUS
<1>2. IsFiniteSet(DOMAIN pending)
  BY <1>1, FirstNumbersAreFinite
<1> QED
  BY <1>2, FS_Subset, FS_CardinalityType

LEMMA ArchiveInitInv == ArchiveInit => ArchiveInv
<1> SUFFICES ASSUME ArchiveInit PROVE ArchiveInv
  OBVIOUS
<1>1. ArchiveTypes
  <2>1. NoTally \in Tallies /\ NoTally.read = 0 /\ 0 <= MaxRead
    BY ArchiveAssumption DEF NoTally, Tallies
  <2>2. <<>> \in Seq(KeptRows) /\ <<>> \in Seq(Snapshots) /\ 0 \in Nat
    OBVIOUS
  <2> QED
    BY <2>1, <2>2 DEF ArchiveInit, ArchiveTypes
<1>2. LoadInv /\ ServeInv
  BY DEF ArchiveInit, LoadInv, ServeInv
<1>3. TallyAddsUp
  <2>1. { i \in DOMAIN pending : pending[i].stamp \in left } = {}
    BY DEF ArchiveInit
  <2>2. Cardinality({}) = 0
    BY FS_EmptySet
  <2>3. tally.read = 0 /\ tally.snapshots = 0 /\ tally.skipped = 0 /\ tally.errors = 0
        /\ tally.parsed = 0 /\ tally.dropped = 0 /\ lost = 0
    BY DEF ArchiveInit, NoTally
  <2> QED
    BY <2>1, <2>2, <2>3 DEF TallyAddsUp
<1> QED
  BY <1>1, <1>2, <1>3 DEF ArchiveInv

LEMMA ReadRecordStep == ArchiveInv /\ ReadRecord => ArchiveInv'
<1> SUFFICES ASSUME ArchiveInv, ReadRecord PROVE ArchiveInv'
  OBVIOUS
<1>1. /\ medium = "tape" /\ stage = "loading" /\ tally.read < MaxRead
      /\ UNCHANGED <<medium, stage, pending, left, lost, asked, answer>>
  BY DEF ReadRecord
<1>2. PICK r \in TapeRecords :
          /\ tally' = TapeTally(r)
          /\ loaded' = IF IsSnapshot(r)
                       THEN Append(loaded, [stamp |-> r.stamp, bars |-> <<>>]) ELSE loaded
  BY DEF ReadRecord
<1>3. ArchiveTypes
  BY DEF ArchiveInv
<1>4. loaded' \in Seq(Snapshots)
  <2>1. CASE ~IsSnapshot(r)
    BY <1>2, <1>3, <2>1 DEF ArchiveTypes
  <2>2. CASE IsSnapshot(r)
    <3>1. r.stamp \in Stamps
      BY <1>2, <2>2 DEF TapeRecords, IsSnapshot
    <3>2. [stamp |-> r.stamp, bars |-> <<>>] \in Snapshots
      BY <3>1 DEF Snapshots
    <3>3. loaded \in Seq(Snapshots)
      BY <1>3 DEF ArchiveTypes
    <3> QED
      BY <1>2, <2>2, <3>2, <3>3, AppendProperties
  <2> QED
    BY <2>1, <2>2
<1>5. tally' \in Tallies /\ tally'.read = tally.read + 1
      /\ tally'.read = tally'.snapshots + tally'.skipped + tally'.errors
  <2> DEFINE a == IF IsSnapshot(r) THEN 1 ELSE 0
             b == IF r.fault = "closed" THEN 1 ELSE 0
             e == IF IsSnapshot(r) \/ r.fault = "closed" THEN 0 ELSE 1
  <2>1. a \in Nat /\ b \in Nat /\ e \in Nat /\ a + b + e = 1
    BY DEF IsSnapshot
  <2>2. tally' = [ tally EXCEPT !.read = @ + 1, !.snapshots = @ + a, !.skipped = @ + b,
                                !.errors = @ + e ]
    BY <1>2, Zenon DEF TapeTally
  <2> HIDE DEF a, b, e
  <2>3. tally \in Tallies
    BY <1>3 DEF ArchiveTypes
  <2>4. tally.read = tally.snapshots + tally.skipped + tally.errors
    BY <1>1 DEF ArchiveInv, TallyAddsUp
  <2>5. /\ tally'.read = tally.read + 1 /\ tally'.snapshots = tally.snapshots + a
        /\ tally'.skipped = tally.skipped + b /\ tally'.errors = tally.errors + e
    BY <2>2, <2>3 DEF Tallies
  <2>6. tally' \in Tallies
    <3>1. /\ tally.read + 1 \in Nat /\ tally.snapshots + a \in Nat
          /\ tally.skipped + b \in Nat /\ tally.errors + e \in Nat
      BY <2>1, <2>3, TallyFields
    <3> QED
      BY <2>2, <2>3, <3>1, Zenon DEF Tallies
  <2> QED
    BY <2>1, <2>3, <2>4, <2>5, <2>6, TallyFields
<1>6. ArchiveTypes'
  <2>1. tally'.read <= MaxRead
    <3>1. tally.read \in Nat /\ MaxRead \in Nat
      BY <1>3, TallyFields, ArchiveAssumption DEF ArchiveTypes
    <3> QED
      BY <1>1, <1>5, <3>1
  <2> QED
    BY <1>1, <1>3, <1>4, <1>5, <2>1 DEF ArchiveTypes
<1>7. LoadInv' /\ ServeInv'
  BY <1>1 DEF ArchiveInv, LoadInv, ServeInv
<1>8. TallyAddsUp'
  BY <1>1, <1>5 DEF TallyAddsUp
<1> QED
  BY <1>6, <1>7, <1>8 DEF ArchiveInv

(* A constructor that raises leaves nothing to serve.                      *)
LEMMA RaisedStep == ArchiveInv /\ (TornLine \/ SchemaFails) => ArchiveInv'
<1> SUFFICES ASSUME ArchiveInv, TornLine \/ SchemaFails PROVE ArchiveInv'
  OBVIOUS
<1>1. /\ stage = "loading" /\ stage' = "raised" /\ loaded' = <<>>
      /\ UNCHANGED <<medium, pending, left, tally, lost, asked, answer>>
  BY DEF TornLine, SchemaFails
<1>2. <<>> \in Seq(Snapshots)
  OBVIOUS
<1>3. ArchiveTypes'
  BY <1>1, <1>2 DEF ArchiveInv, ArchiveTypes
<1>4. LoadInv' /\ ServeInv'
  BY <1>1 DEF ArchiveInv, LoadInv, ServeInv
<1>5. TallyAddsUp'
  BY <1>1, Zenon DEF ArchiveInv, TallyAddsUp
<1> QED
  BY <1>3, <1>4, <1>5 DEF ArchiveInv

LEMMA ReadRowStep == ArchiveInv /\ ReadRow => ArchiveInv'
<1> SUFFICES ASSUME ArchiveInv, ReadRow PROVE ArchiveInv'
  OBVIOUS
<1>1. /\ medium = "chain" /\ stage = "loading" /\ tally.read < MaxRead
      /\ UNCHANGED <<medium, stage, lost, loaded, asked, answer>>
  BY DEF ReadRow
<1>2. PICK r \in Rows :
          IF r.stamp = 0
          THEN /\ tally' = [tally EXCEPT !.read = @ + 1, !.skipped = @ + 1]
               /\ UNCHANGED <<pending, left>>
          ELSE /\ tally' = [tally EXCEPT !.read = @ + 1]
               /\ pending' = Append(pending, r)
               /\ left' = left \cup {r.stamp}
  BY DEF ReadRow
<1>3. ArchiveTypes /\ tally \in Tallies /\ pending \in Seq(KeptRows) /\ MaxRead \in Nat
  BY ArchiveAssumption DEF ArchiveInv, ArchiveTypes
<1>4. \A i \in DOMAIN pending : pending[i].stamp \in left
  BY <1>1 DEF ArchiveInv, LoadInv
<1>5. tally.read = tally.skipped + tally.parsed + tally.dropped + lost + Cardinality(Waiting)
  BY <1>1 DEF ArchiveInv, TallyAddsUp, Waiting
<1>6. lost \in Nat /\ Cardinality(Waiting) \in Nat
  BY <1>3, RowsAreFinite DEF ArchiveTypes, Waiting
<1>7. ServeInv'
  BY <1>1 DEF ArchiveInv, ServeInv, AsOf
<1>8. CASE r.stamp = 0
  <2>1. /\ tally' = [tally EXCEPT !.read = @ + 1, !.skipped = @ + 1]
        /\ UNCHANGED <<pending, left>>
    BY <1>2, <1>8
  <2>2. /\ tally'.read = tally.read + 1 /\ tally'.skipped = tally.skipped + 1
        /\ tally'.parsed = tally.parsed /\ tally'.dropped = tally.dropped /\ tally' \in Tallies
    <3>1. tally.read + 1 \in Nat /\ tally.skipped + 1 \in Nat
      BY <1>3, TallyFields
    <3> QED
      BY <1>3, <2>1, <3>1 DEF Tallies
  <2>3. tally'.read <= MaxRead
    BY <1>1, <1>3, <2>2, TallyFields
  <2>4. ArchiveTypes'
    BY <1>1, <1>3, <2>1, <2>2, <2>3 DEF ArchiveTypes
  <2>5. LoadInv'
    BY <1>1, <2>1 DEF ArchiveInv, LoadInv
  <2>6. TallyAddsUp'
    <3>1. Waiting' = Waiting
      BY <2>1 DEF Waiting
    <3>2. tally'.read = tally'.skipped + tally'.parsed + tally'.dropped + lost' + Cardinality(Waiting')
      BY <1>1, <1>3, <1>5, <1>6, <2>2, <3>1, TallyFields
    <3> QED
      BY <1>1, <3>2 DEF TallyAddsUp, Waiting
  <2> QED
    BY <1>7, <2>4, <2>5, <2>6 DEF ArchiveInv
<1>9. CASE r.stamp # 0
  <2>1. /\ tally' = [tally EXCEPT !.read = @ + 1]
        /\ pending' = Append(pending, r) /\ left' = left \cup {r.stamp}
    BY <1>2, <1>9
  <2>2. /\ tally'.read = tally.read + 1 /\ tally'.skipped = tally.skipped
        /\ tally'.parsed = tally.parsed /\ tally'.dropped = tally.dropped /\ tally' \in Tallies
    <3>1. tally.read + 1 \in Nat
      BY <1>3, TallyFields
    <3> QED
      BY <1>3, <2>1, <3>1 DEF Tallies
  <2>3. tally'.read <= MaxRead
    BY <1>1, <1>3, <2>2, TallyFields
  <2>4. r.stamp \in Stamps /\ r \in KeptRows
    BY <1>2, <1>9 DEF Rows, KeptRows
  <2>5. /\ pending' \in Seq(KeptRows) /\ Len(pending') = Len(pending) + 1
        /\ \A i \in 1 .. Len(pending) : pending'[i] = pending[i]
        /\ pending'[Len(pending) + 1] = r
    BY <1>3, <2>1, <2>4, AppendProperties
  <2>6. Len(pending) \in Nat /\ DOMAIN pending = 1 .. Len(pending)
        /\ DOMAIN pending' = 1 .. Len(pending) + 1
    BY <1>3, <2>5
  <2>7. left' \in SUBSET Stamps
    BY <1>3, <2>1, <2>4 DEF ArchiveTypes
  <2>8. ArchiveTypes'
    BY <1>1, <1>3, <2>2, <2>3, <2>5, <2>7 DEF ArchiveTypes
  <2>9. \A i \in DOMAIN pending' : pending'[i].stamp \in left'
    <3> TAKE i \in DOMAIN pending'
    <3>1. CASE i \in 1 .. Len(pending)
      BY <1>4, <2>1, <2>5, <2>6, <3>1
    <3>2. CASE i = Len(pending) + 1
      BY <2>1, <2>5, <3>2
    <3> QED
      BY <2>6, <3>1, <3>2
  <2>10. LoadInv'
    BY <1>1, <2>9 DEF ArchiveInv, LoadInv
  <2>11. TallyAddsUp'
    <3>1. Waiting = 1 .. Len(pending) /\ Waiting' = 1 .. Len(pending) + 1
      BY <1>4, <2>6, <2>9 DEF Waiting
    <3>2. Cardinality(Waiting') = Cardinality(Waiting) + 1
      <4>1. Waiting' = Waiting \cup {Len(pending) + 1} /\ Len(pending) + 1 \notin Waiting
        BY <2>6, <3>1
      <4>2. IsFiniteSet(Waiting)
        BY <2>6, <3>1, FirstNumbersAreFinite
      <4> QED
        BY <4>1, <4>2, FS_AddElement
    <3>3. tally'.read = tally'.skipped + tally'.parsed + tally'.dropped + lost' + Cardinality(Waiting')
      BY <1>1, <1>3, <1>5, <1>6, <2>2, <3>2, TallyFields
    <3> QED
      BY <1>1, <3>3 DEF TallyAddsUp, Waiting
  <2> QED
    BY <1>7, <2>8, <2>10, <2>11 DEF ArchiveInv
<1> QED
  BY <1>8, <1>9

LEMMA EndOfFileStep == ArchiveInv /\ (EndOfFile \/ NextFile) => ArchiveInv'
<1> SUFFICES ASSUME ArchiveInv, EndOfFile \/ NextFile PROVE ArchiveInv'
  OBVIOUS
<1>1. /\ stage \in {"loading", "assembling"} /\ stage' \in {"loading", "assembling"}
      /\ stage' = "assembling" => medium' = "chain"
      /\ UNCHANGED <<medium, left, tally, lost, loaded, asked, answer>>
  BY DEF EndOfFile, NextFile
<1>2. \/ pending' = pending /\ stage' = "assembling"
      \/ pending' = <<>> /\ left = {} /\ stage' = "loading"
  BY DEF EndOfFile, NextFile
<1>3. <<>> \in Seq(KeptRows)
  OBVIOUS
<1>4. ArchiveTypes'
  BY <1>1, <1>2, <1>3 DEF ArchiveInv, ArchiveTypes
<1>5. LoadInv'
  BY <1>1, <1>2 DEF ArchiveInv, LoadInv
<1>6. ServeInv'
  BY <1>1 DEF ArchiveInv, ServeInv
<1>7. TallyAddsUp'
  <2>1. Waiting' = Waiting
    BY <1>1, <1>2 DEF Waiting
  <2> QED
    BY <1>1, <2>1, Zenon DEF ArchiveInv, TallyAddsUp, Waiting
<1> QED
  BY <1>4, <1>5, <1>6, <1>7 DEF ArchiveInv

LEMMA NextGroupStep == ArchiveInv /\ NextGroup => ArchiveInv'
<1> SUFFICES ASSUME ArchiveInv, NextGroup PROVE ArchiveInv'
  OBVIOUS
<1> DEFINE at == CHOOSE s \in left : \A t \in left : s <= t
           rows == Cardinality(Group(at))
           kept == Cardinality(Priced(Group(at)))
<1>1. /\ stage = "assembling" /\ left # {} /\ Assemble(at) /\ left' = left \ {at}
      /\ UNCHANGED <<medium, stage, pending, asked, answer>>
  BY DEF NextGroup
<1>2. /\ ArchiveTypes /\ tally \in Tallies /\ tally.read <= MaxRead /\ pending \in Seq(KeptRows)
      /\ left \in SUBSET Stamps /\ left \in SUBSET Nat /\ lost \in Nat /\ loaded \in Seq(Snapshots)
  BY ArchiveAssumption DEF ArchiveInv, ArchiveTypes
<1>3. medium = "chain"
  BY <1>1 DEF ArchiveInv, LoadInv
<1>4. at \in left /\ at \in Stamps /\ at \in Nat
  <2>1. \E s \in left : \A t \in left : s <= t
    BY <1>1, <1>2, LeastNumber
  <2>2. at \in left
    BY <2>1
  <2> HIDE DEF at
  <2> QED
    BY <1>2, <2>2
<1> HIDE DEF at
<1>5. /\ Group(at) \in SUBSET Waiting /\ Waiting' = Waiting \ Group(at)
      /\ Priced(Group(at)) \in SUBSET Group(at) /\ Group(at) \in SUBSET (DOMAIN pending)
      /\ Waiting \in SUBSET (DOMAIN pending)
  BY <1>1, <1>4 DEF Group, Priced, Waiting
<1>6. rows \in Nat /\ kept \in Nat /\ kept <= rows /\ Cardinality(Waiting) \in Nat
  <2>1. Priced(Group(at)) \in SUBSET (DOMAIN pending)
    BY <1>5
  <2>2. IsFiniteSet(Group(at))
    BY <1>2, <1>5, RowsAreFinite
  <2> QED
    BY <1>2, <1>5, <2>1, <2>2, RowsAreFinite, FS_Subset
<1>7. Cardinality(Waiting') = Cardinality(Waiting) - rows
  <2>1. IsFiniteSet(Waiting) /\ Waiting \cap Group(at) = Group(at)
    BY <1>2, <1>5, RowsAreFinite
  <2>2. Cardinality(Waiting \ Group(at))
          = Cardinality(Waiting) - Cardinality(Waiting \cap Group(at))
    BY <2>1, FS_Difference, Zenon
  <2>3. Cardinality(Waiting') = Cardinality(Waiting \ Group(at))
    BY <1>5, Zenon
  <2> QED
    BY <2>1, <2>2, <2>3, Zenon
<1>8. tally.read = tally.skipped + tally.parsed + tally.dropped + lost + Cardinality(Waiting)
  BY <1>3 DEF ArchiveInv, TallyAddsUp, Waiting
<1> HIDE DEF rows, kept
<1>9. /\ \/ /\ tally' = [tally EXCEPT !.noSpot = @ + 1] /\ lost' = lost + rows
         \/ /\ tally' = [tally EXCEPT !.parsed = @ + kept, !.dropped = @ + rows - kept, !.thin = @ + 1]
            /\ lost' = lost
         \/ /\ tally' = [tally EXCEPT !.parsed = @ + kept, !.dropped = @ + rows - kept,
                                      !.snapshots = @ + 1]
            /\ lost' = lost
      /\ \/ loaded' = loaded
         \/ loaded' = Append(loaded, [stamp |-> at, bars |-> Window(at)])
  BY <1>1, Zenon DEF Assemble, rows, kept
<1>10. /\ tally' \in Tallies /\ tally'.read = tally.read /\ tally'.skipped = tally.skipped
       /\ lost' \in Nat
       /\ tally'.parsed + tally'.dropped + lost' = tally.parsed + tally.dropped + lost + rows
  <2>1. /\ tally.parsed + kept \in Nat /\ tally.dropped + rows - kept \in Nat
        /\ tally.thin + 1 \in Nat /\ tally.noSpot + 1 \in Nat /\ tally.snapshots + 1 \in Nat
    <3>1. /\ tally.parsed \in Nat /\ tally.dropped \in Nat /\ tally.thin \in Nat
          /\ tally.noSpot \in Nat /\ tally.snapshots \in Nat
      BY <1>2, TallyFields
    <3>2. rows \in Nat /\ kept \in Nat /\ kept <= rows
      BY <1>6 DEF rows, kept
    <3> QED
      BY <3>1, <3>2
  <2>2. CASE tally' = [tally EXCEPT !.noSpot = @ + 1] /\ lost' = lost + rows
    <3>1. /\ tally' \in Tallies /\ tally'.read = tally.read /\ tally'.skipped = tally.skipped
          /\ tally'.parsed = tally.parsed /\ tally'.dropped = tally.dropped
      BY <1>2, <2>1, <2>2 DEF Tallies
    <3>2. /\ tally.parsed \in Nat /\ tally.dropped \in Nat /\ lost \in Nat /\ rows \in Nat
          /\ lost' = lost + rows
      BY <1>2, <1>6, <2>2, TallyFields DEF rows
    <3>3. /\ lost' \in Nat
          /\ tally'.parsed + tally'.dropped + lost' = tally.parsed + tally.dropped + lost + rows
      BY <3>1, <3>2
    <3> QED
      BY <3>1, <3>3
  <2>3. CASE /\ tally' = [tally EXCEPT !.parsed = @ + kept, !.dropped = @ + rows - kept, !.thin = @ + 1]
             /\ lost' = lost
    <3>1. /\ tally' \in Tallies /\ tally'.read = tally.read /\ tally'.skipped = tally.skipped
          /\ tally'.parsed = tally.parsed + kept /\ tally'.dropped = tally.dropped + rows - kept
      BY <1>2, <2>1, <2>3 DEF Tallies
    <3> QED
      BY <1>2, <1>6, <2>3, <3>1, TallyFields
  <2>4. CASE /\ tally' = [tally EXCEPT !.parsed = @ + kept, !.dropped = @ + rows - kept,
                                       !.snapshots = @ + 1]
             /\ lost' = lost
    <3>1. /\ tally' \in Tallies /\ tally'.read = tally.read /\ tally'.skipped = tally.skipped
          /\ tally'.parsed = tally.parsed + kept /\ tally'.dropped = tally.dropped + rows - kept
      BY <1>2, <2>1, <2>4 DEF Tallies
    <3> QED
      BY <1>2, <1>6, <2>4, <3>1, TallyFields
  <2> QED
    BY <1>9, <2>2, <2>3, <2>4
<1>11. loaded' \in Seq(Snapshots) /\ \A i \in DOMAIN loaded' : Causal(loaded'[i])
  <2> DEFINE x == [stamp |-> at, bars |-> Window(at)]
  <2>1. \A i \in DOMAIN loaded : Causal(loaded[i])
    BY <1>3 DEF ArchiveInv, ServeInv
  <2>2. x \in Snapshots /\ Causal(x)
    <3>1. Window(at) \in Seq(BarStamps) /\ Causal(x)
      BY <1>4, WindowType, WindowIsCausal
    <3> QED
      BY <1>4, <3>1 DEF Snapshots
  <2> HIDE DEF x
  <2>3. CASE loaded' = Append(loaded, x)
    <3>1. /\ loaded' \in Seq(Snapshots) /\ Len(loaded') = Len(loaded) + 1
          /\ \A i \in 1 .. Len(loaded) : loaded'[i] = loaded[i]
          /\ loaded'[Len(loaded) + 1] = x
      BY <1>2, <2>2, <2>3, AppendProperties
    <3>2. /\ Len(loaded) \in Nat /\ DOMAIN loaded = 1 .. Len(loaded)
          /\ DOMAIN loaded' = 1 .. Len(loaded) + 1
      BY <1>2, <3>1
    <3>3. ASSUME NEW i \in DOMAIN loaded' PROVE Causal(loaded'[i])
      <4>1. CASE i \in 1 .. Len(loaded)
        BY <2>1, <3>1, <3>2, <4>1
      <4>2. CASE i = Len(loaded) + 1
        BY <2>2, <3>1, <4>2
      <4> QED
        BY <3>2, <3>3, <4>1, <4>2
    <3> QED
      BY <3>1, <3>3
  <2>4. CASE loaded' = loaded
    BY <1>2, <2>1, <2>4
  <2> QED
    BY <1>9, <2>3, <2>4 DEF x
<1>12. ArchiveTypes'
  <2>1. left' \in SUBSET Stamps /\ tally'.read <= MaxRead
    BY <1>1, <1>2, <1>10
  <2> QED
    BY <1>1, <1>2, <1>10, <1>11, <2>1 DEF ArchiveTypes
<1>13. LoadInv'
  BY <1>1, <1>3 DEF LoadInv
<1>14. ServeInv'
  BY <1>1, <1>11 DEF ArchiveInv, ServeInv
<1>15. TallyAddsUp'
  <2>1. tally'.read = tally'.skipped + tally'.parsed + tally'.dropped + lost' + Cardinality(Waiting')
    <3> DEFINE w == Cardinality(Waiting)   v == Cardinality(Waiting')
    <3>1. w \in Nat /\ v = w - rows /\ rows \in Nat
      BY <1>6, <1>7
    <3> HIDE DEF w, v
    <3>2. tally.read = tally.skipped + tally.parsed + tally.dropped + lost + w
      BY <1>8 DEF w
    <3>3. /\ tally.skipped \in Nat /\ tally.parsed \in Nat /\ tally.dropped \in Nat /\ lost \in Nat
          /\ tally'.parsed \in Nat /\ tally'.dropped \in Nat /\ lost' \in Nat
      BY <1>2, <1>10 DEF Tallies
    <3>4. /\ tally'.read = tally.read /\ tally'.skipped = tally.skipped
          /\ tally'.parsed + tally'.dropped + lost' = tally.parsed + tally.dropped + lost + rows
      BY <1>10
    <3>5. tally'.read = tally'.skipped + tally'.parsed + tally'.dropped + lost' + v
      <4> DEFINE a == tally.skipped    b == tally.parsed     c == tally.dropped
                 d == tally'.parsed    e == tally'.dropped   f == lost'
      <4>1. a \in Nat /\ b \in Nat /\ c \in Nat /\ d \in Nat /\ e \in Nat /\ f \in Nat /\ lost \in Nat
        BY <3>3
      <4>2. d + e + f = b + c + lost + rows /\ tally'.read = a + b + c + lost + w /\ tally'.skipped = a
        BY <3>2, <3>4
      <4> HIDE DEF a, b, c, d, e, f
      <4>3. a + b + c + lost + w = a + d + e + f + v
        BY <3>1, <4>1, <4>2
      <4>4. tally'.read = tally'.skipped + d + e + f + v
        BY <4>2, <4>3
      <4> QED
        BY <4>4 DEF d, e, f
    <3> QED
      BY <3>5 DEF v
  <2> QED
    BY <1>1, <1>3, <2>1 DEF TallyAddsUp, Waiting
<1> QED
  BY <1>12, <1>13, <1>14, <1>15 DEF ArchiveInv

LEMMA LoadedStep == ArchiveInv /\ Loaded => ArchiveInv'
<1> SUFFICES ASSUME ArchiveInv, Loaded PROVE ArchiveInv'
  OBVIOUS
<1>1. /\ stage \in {"loading", "assembling"} /\ stage' = "serving" /\ loaded' = Ordered(loaded)
      /\ UNCHANGED <<medium, pending, left, tally, lost, asked, answer>>
  BY DEF Loaded
<1>2. loaded \in Seq(Snapshots)
  BY DEF ArchiveInv, ArchiveTypes
<1>3. /\ loaded' \in Seq(Snapshots) /\ Sorted(loaded')
      /\ \A i \in DOMAIN loaded' : \E k \in DOMAIN loaded : loaded'[i] = loaded[k]
  BY <1>1, <1>2, OrderedIs
<1>4. ArchiveTypes'
  BY <1>1, <1>3 DEF ArchiveInv, ArchiveTypes
<1>5. LoadInv'
  BY <1>1 DEF ArchiveInv, LoadInv
<1>6. ServeInv'
  <2>1. asked' = 0
    BY <1>1 DEF ArchiveInv, ServeInv
  <2>2. medium' = "chain" => \A i \in DOMAIN loaded' : Causal(loaded'[i])
    BY <1>1, <1>3 DEF ArchiveInv, ServeInv
  <2> QED
    BY <1>1, <1>3, <2>1, <2>2 DEF ServeInv
<1>7. TallyAddsUp'
  BY <1>1, Zenon DEF ArchiveInv, TallyAddsUp
<1> QED
  BY <1>4, <1>5, <1>6, <1>7 DEF ArchiveInv

LEMMA ServeStep == ArchiveInv /\ Serve => ArchiveInv'
<1> SUFFICES ASSUME ArchiveInv, Serve PROVE ArchiveInv'
  OBVIOUS
<1>1. /\ stage = "serving" /\ asked' \in Stamps \cup {0} /\ answer' = SnapshotAt(asked')
      /\ UNCHANGED <<medium, stage, pending, left, tally, lost, loaded>>
  BY DEF Serve
<1>2. loaded \in Seq(Snapshots) /\ Sorted(loaded) /\ asked' \in Nat
  BY <1>1, ArchiveAssumption DEF ArchiveInv, ArchiveTypes, ServeInv
<1>3. AsOf(asked', answer') /\ answer' \in Snapshots \cup {Nothing}
  BY <1>1, <1>2, SnapshotIsAsOf
<1>4. ArchiveTypes'
  BY <1>1, <1>3 DEF ArchiveInv, ArchiveTypes
<1>5. LoadInv'
  BY <1>1 DEF ArchiveInv, LoadInv
<1>6. ServeInv'
  <2>1. AsOf(asked, answer)'
    BY <1>1, <1>3, Zenon DEF AsOf
  <2> QED
    BY <1>1, <2>1 DEF ArchiveInv, ServeInv
<1>7. TallyAddsUp'
  BY <1>1, Zenon DEF ArchiveInv, TallyAddsUp
<1> QED
  BY <1>4, <1>5, <1>6, <1>7 DEF ArchiveInv

-----------------------------------------------------------------------------
LEMMA ArchiveInvStep == ArchiveInv /\ [Next]_dataVars => ArchiveInv'
<1> SUFFICES ASSUME ArchiveInv, [Next]_dataVars PROVE ArchiveInv'
  OBVIOUS
<1>1. CASE ArchiveAdvances
  BY <1>1, ReadRecordStep, RaisedStep, ReadRowStep, EndOfFileStep, NextGroupStep, LoadedStep,
     ServeStep DEF ArchiveAdvances, ArchiveStep
<1>2. CASE UNCHANGED archiveVars
  <2>1. UNCHANGED <<medium, stage, pending, left, tally, lost, loaded, asked, answer>>
    BY <1>2 DEF archiveVars
  <2>2. ArchiveTypes' = ArchiveTypes /\ LoadInv' = LoadInv /\ TallyAddsUp' = TallyAddsUp
    BY <2>1, Zenon DEF ArchiveTypes, LoadInv, TallyAddsUp
  <2>3. ServeInv' = ServeInv
    BY <2>1, Zenon DEF ServeInv, AsOf
  <2> QED
    BY <2>2, <2>3 DEF ArchiveInv
<1>3. CalendarAdvances \/ SnapshotRequested \/ FeedAdvances \/ UNCHANGED dataVars
        => UNCHANGED archiveVars
  BY DEF CalendarAdvances, SnapshotRequested, FeedAdvances, dataVars
<1> QED
  BY <1>1, <1>2, <1>3 DEF Next

LEMMA ArchiveInvGives == ArchiveInv => ReplayIsFaithful
<1> SUFFICES ASSUME ArchiveInv PROVE ReplayIsFaithful
  OBVIOUS
<1>1. TallyAddsUp /\ ArchiveTypes
  BY DEF ArchiveInv
<1>2. AnswersAsOf
  BY DEF ArchiveInv, ServeInv, AnswersAsOf, AsOf
<1>3. BarsAreCausal
  BY DEF ArchiveInv, ServeInv, BarsAreCausal, Causal
<1>4. ArchiveTypeOK
  <2>1. lost \in 0 .. MaxRead
    <3>1. tally \in Tallies /\ lost \in Nat /\ tally.read <= MaxRead /\ MaxRead \in Nat
          /\ medium \in {"tape", "chain"} /\ pending \in Seq(KeptRows)
      BY <1>1, ArchiveAssumption DEF ArchiveTypes
    <3>2. CASE medium = "tape"
      BY <3>1, <3>2 DEF ArchiveInv, LoadInv
    <3>3. CASE medium = "chain"
      <4>1. Cardinality(Waiting) \in Nat
        BY <3>1, RowsAreFinite DEF Waiting
      <4>2. tally.read = tally.skipped + tally.parsed + tally.dropped + lost + Cardinality(Waiting)
        BY <1>1, <3>3 DEF TallyAddsUp, Waiting
      <4> QED
        BY <3>1, <4>1, <4>2, TallyFields
    <3> QED
      BY <3>1, <3>2, <3>3
  <2>2. \A i \in DOMAIN loaded : loaded[i].stamp \in Stamps
    <3>1. \A i \in DOMAIN loaded : loaded[i] \in Snapshots
      BY <1>1 DEF ArchiveTypes
    <3> QED
      BY <3>1 DEF Snapshots
  <2>3. answer.stamp \in Stamps \cup {0}
    BY <1>1 DEF ArchiveTypes, Snapshots, Nothing
  <2> QED
    BY <1>1, <2>1, <2>2, <2>3 DEF ArchiveTypes, ArchiveTypeOK
<1> QED
  BY <1>1, <1>2, <1>3, <1>4 DEF ReplayIsFaithful

(* A recorded provider is faithful (HistoricalProvider, historical.py:541, *)
(* SpyDerRecordingProvider, spyder_recordings.py:503): for every content   *)
(* and order of the files, window and limit, an answer is the latest       *)
(* snapshot at or before the moment, a snapshot carries the newest bars up *)
(* to its stamp and no later one, and the tally accounts for every row.    *)
THEOREM ReplayIsAlwaysFaithful == Spec => []ReplayIsFaithful
<1>1. Init => ArchiveInv
  BY ArchiveInitInv DEF Init
<1> QED
  BY <1>1, ArchiveInvStep, ArchiveInvGives, PTL DEF Spec

=============================================================================
