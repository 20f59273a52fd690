------------------------------- MODULE Archive -------------------------------
(***************************************************************************)
(* Recorded market data: session tapes (spyder_recordings.py) and chain    *)
(* files (historical.py) are read once, record by record or row by row,    *)
(* into snapshots, and a provider then answers for any moment with the     *)
(* latest snapshot at or before it (ReplayProvider and its two kin).       *)
(*                                                                         *)
(* What a file holds is chosen as it is read.  A tape record is one        *)
(* snapshot; a chain row is one contract, and the rows of a time stamp     *)
(* become a snapshot when the file ends.                                   *)
(***************************************************************************)
EXTENDS Integers, Sequences, SequencesExt, FiniteSets

CONSTANTS
    Stamps,                \* the time stamps that occur
    BarStamps,             \* the time stamps of the SPY bars beside the chains
    BarWindow,             \* _BarIndex window
    MinPerSnapshot,        \* min_contracts_per_snapshot
    Limit,                 \* from_files limit: stop after so many snapshots
    MaxRead                \* bound: records or rows read

ASSUME ArchiveAssumption ==
    /\ Stamps \in SUBSET (Nat \ {0}) /\ BarStamps \in SUBSET Nat /\ IsFiniteSet(BarStamps)
    /\ BarWindow \in Nat \ {0} /\ MinPerSnapshot \in Nat /\ Limit \in Nat \ {0} /\ MaxRead \in Nat

VARIABLES
    medium,                \* "tape" or "chain"
    stage,                 \* "loading", "assembling", "raised" or "serving"
    pending,               \* rows of the chain file being read
    left,                  \* time stamps among them that are not assembled
    tally,                 \* ImportStats, IngestStats
    lost,                  \* rows of groups without a spot (history)
    loaded,                \* the snapshots, in the order they were read
    asked, answer          \* the last request, and what came back

archiveVars == <<medium, stage, pending, left, tally, lost, loaded, asked, answer>>

Nothing == [stamp |-> 0, bars |-> <<>>]
NoTally == [ read |-> 0, snapshots |-> 0, skipped |-> 0, errors |-> 0,
             parsed |-> 0, dropped |-> 0, thin |-> 0, noSpot |-> 0 ]

-----------------------------------------------------------------------------
(* _option_quote: a contract is kept when it parses and its volatility,    *)
(* the recorded one or one solved from the midpoint, is in bounds.         *)

TapeContracts == [parses : BOOLEAN, recorded : {"in", "out"}, solved : {"in", "out", "none"}]

OptionQuote(c) == c.parses /\ "in" \in {c.recorded, c.solved}

(* snapshot_from_record, its early returns in order: no snapshot object,   *)
(* not an open session, no time stamp, no price, a chain that is no list,  *)
(* no contract kept.                                                       *)

TapeRecords ==
    [fault : {"no snapshot", "closed", "bad stamp", "no spot", "no list"},
     stamp : {0}, chain : {{}}]
    \cup [fault : {"none"}, stamp : Stamps,
          chain : {{}} \cup { {c} : c \in TapeContracts }]

IsSnapshot(r) == r.fault = "none" /\ \E c \in r.chain : OptionQuote(c)

TapeTally(r) ==
    [ tally EXCEPT !.read = @ + 1,
                   !.snapshots = @ + (IF IsSnapshot(r) THEN 1 ELSE 0),
                   !.skipped = @ + (IF r.fault = "closed" THEN 1 ELSE 0),
                   !.errors = @ + (IF IsSnapshot(r) \/ r.fault = "closed" THEN 0 ELSE 1) ]

-----------------------------------------------------------------------------
(* Chain files.  A row gives a time stamp, perhaps the underlying, and a   *)
(* volatility that is known, can be solved for, or neither.                *)

Rows == {[stamp |-> 0, spot |-> FALSE, iv |-> "not"]}
            \cup [stamp : Stamps, spot : BOOLEAN, iv : {"known", "not"}]

(* bisect_right: how many bars are stamped at or before the moment.        *)
Position(at) == Cardinality({ b \in BarStamps : b <= at })

(* The bars in the order of their stamps.                                  *)
Bars == [ k \in 1 .. Cardinality(BarStamps) |-> CHOOSE b \in BarStamps : Position(b) = k ]

Window(at) ==
    SubSeq(Bars, (IF Position(at) > BarWindow THEN Position(at) - BarWindow ELSE 0) + 1,
           Position(at))

(* The rows of one time stamp, and those whose volatility is known.        *)
Group(at) == { i \in DOMAIN pending : pending[i].stamp = at }

Priced(group) == { i \in group : pending[i].iv = "known" }

(* _infer_spot: from the group's own rows, else from the latest bar.       *)
HasSpot(at) == (\E i \in Group(at) : pending[i].spot) \/ Position(at) > 0

(* _assemble and the tally of one group.                                   *)
Assemble(at) ==
    LET rows == Cardinality(Group(at))
        kept == Cardinality(Priced(Group(at)))
    IN  \/ /\ ~HasSpot(at)
           /\ tally' = [tally EXCEPT !.noSpot = @ + 1]
           /\ lost' = lost + rows
           /\ UNCHANGED loaded
        \/ /\ HasSpot(at) /\ kept < MinPerSnapshot
           /\ tally' = [tally EXCEPT !.parsed = @ + kept, !.dropped = @ + rows - kept, !.thin = @ + 1]
           /\ UNCHANGED <<lost, loaded>>
        \/ /\ HasSpot(at) /\ kept >= MinPerSnapshot
           /\ tally' = [tally EXCEPT !.parsed = @ + kept, !.dropped = @ + rows - kept,
                                     !.snapshots = @ + 1]
           /\ loaded' = Append(loaded, [stamp |-> at, bars |-> Window(at)])
           /\ UNCHANGED lost

-----------------------------------------------------------------------------
ArchiveInit ==
    /\ medium \in {"tape", "chain"} /\ stage = "loading"
    /\ pending = <<>> /\ left = {} /\ tally = NoTally /\ lost = 0 /\ loaded = <<>>
    /\ asked = 0 /\ answer = Nothing

ReadRecord ==
    /\ medium = "tape" /\ stage = "loading" /\ tally.read < MaxRead
    /\ \E r \in TapeRecords :
          /\ tally' = TapeTally(r)
          /\ loaded' = IF IsSnapshot(r)
                       THEN Append(loaded, [stamp |-> r.stamp, bars |-> <<>>]) ELSE loaded
    /\ UNCHANGED <<medium, stage, pending, left, lost, asked, answer>>

(* A line that is no JSON object raises out of iter_records, and with it   *)
(* out of the constructor: the provider does not come to be.               *)
TornLine ==
    /\ medium = "tape" /\ stage = "loading"
    /\ stage' = "raised" /\ loaded' = <<>>
    /\ UNCHANGED <<medium, pending, left, tally, lost, asked, answer>>

ReadRow ==
    /\ medium = "chain" /\ stage = "loading" /\ tally.read < MaxRead
    /\ \E r \in Rows :
          IF r.stamp = 0
          THEN /\ tally' = [tally EXCEPT !.read = @ + 1, !.skipped = @ + 1]
               /\ UNCHANGED <<pending, left>>
          ELSE /\ tally' = [tally EXCEPT !.read = @ + 1]
               /\ pending' = Append(pending, r)
               /\ left' = left \cup {r.stamp}
    /\ UNCHANGED <<medium, stage, lost, loaded, asked, answer>>

EndOfFile ==
    /\ medium = "chain" /\ stage = "loading" /\ pending # <<>>
    /\ stage' = "assembling"
    /\ UNCHANGED <<medium, pending, left, tally, lost, loaded, asked, answer>>

(* The earliest group of the file; from_files asks the generator for no    *)
(* other once the limit is reached.                                        *)
NextGroup ==
    /\ stage = "assembling" /\ left # {} /\ Len(loaded) < Limit
    /\ LET at == CHOOSE s \in left : \A t \in left : s <= t
       IN  Assemble(at) /\ left' = left \ {at}
    /\ UNCHANGED <<medium, stage, pending, asked, answer>>

NextFile ==
    /\ stage = "assembling" /\ left = {} /\ Len(loaded) < Limit
    /\ stage' = "loading" /\ pending' = <<>>
    /\ UNCHANGED <<medium, left, tally, lost, loaded, asked, answer>>

(* The columns of the first row do not map onto the schema.                *)
SchemaFails ==
    /\ medium = "chain" /\ stage = "loading" /\ pending = <<>>
    /\ stage' = "raised" /\ loaded' = <<>>
    /\ UNCHANGED <<medium, pending, left, tally, lost, asked, answer>>

AsRead(s) == s

(* __post_init__ sorts what was loaded, keeping the order of equal stamps. *)
Rank(s, i) ==
    Cardinality({ k \in DOMAIN s : \/ s[k].stamp < s[i].stamp
                                  \/ (s[k].stamp = s[i].stamp /\ k <= i) })

Ordered(s) == [ n \in DOMAIN s |-> s[CHOOSE i \in DOMAIN s : Rank(s, i) = n] ]

(* The iteration is over: no file is left, or the limit is reached.        *)
Loaded ==
    /\ \/ stage = "loading" /\ pending = <<>>
       \/ stage = "assembling" /\ Len(loaded) >= Limit
    /\ stage' = "serving" /\ loaded' = Ordered(loaded)
    /\ UNCHANGED <<medium, pending, left, tally, lost, asked, answer>>

(* The scan stops at the first snapshot after the moment.                  *)
SnapshotAt(at) ==
    LET later == { i \in DOMAIN loaded : loaded[i].stamp > at }
        before == IF later = {} THEN Len(loaded)
                  ELSE (CHOOSE i \in later : \A k \in later : i <= k) - 1
    IN  IF before = 0 THEN Nothing ELSE loaded[before]

Serve ==
    /\ stage = "serving"
    /\ asked' \in Stamps \cup {0}
    /\ answer' = SnapshotAt(asked')
    /\ UNCHANGED <<medium, stage, pending, left, tally, lost, loaded>>

ArchiveStep == \/ ReadRecord \/ TornLine \/ ReadRow \/ EndOfFile \/ NextGroup \/ NextFile
               \/ SchemaFails \/ Loaded \/ Serve

-----------------------------------------------------------------------------
ArchiveTypeOK ==
    /\ medium \in {"tape", "chain"} /\ stage \in {"loading", "assembling", "raised", "serving"}
    /\ tally.read <= MaxRead /\ lost \in 0 .. MaxRead
    /\ \A i \in DOMAIN loaded : loaded[i].stamp \in Stamps
    /\ asked \in Stamps \cup {0} /\ answer.stamp \in Stamps \cup {0}

(* No look-ahead and no staleness: the answer for a moment is the latest   *)
(* snapshot at or before it, in whatever order the files gave them, and    *)
(* nothing exactly when there is none (base.py:135, historical.py:573,     *)
(* spyder_recordings.py:526).                                              *)
AnswersAsOf ==
    LET known == { loaded[i].stamp : i \in DOMAIN loaded }
    IN  stage = "serving" /\ asked # 0 =>
            IF \E s \in known : s <= asked
            THEN answer.stamp \in known /\ answer.stamp <= asked
                   /\ \A s \in known : s <= asked => s <= answer.stamp
            ELSE answer = Nothing

(* A snapshot carries the newest bars at or before its stamp, and no later *)
(* one: a backtest sees nothing of its future (_BarIndex,                  *)
(* historical.py:501).                                                     *)
BarsAreCausal ==
    medium = "chain" =>
        \A i \in DOMAIN loaded :
            LET seen == { b \in BarStamps : b <= loaded[i].stamp }
                shown == { loaded[i].bars[k] : k \in DOMAIN loaded[i].bars }
            IN  /\ shown \subseteq seen
                /\ Cardinality(shown) =
                     (IF Cardinality(seen) < BarWindow THEN Cardinality(seen) ELSE BarWindow)
                /\ \A b \in seen \ shown, c \in shown : b < c

(* Nothing disappears unaccounted: a tape record is a snapshot, skipped or *)
(* an error; a chain row is skipped, a quote, dropped, or in a group that  *)
(* had no spot, which alone no counter of rows shows (historical.py:438),  *)
(* unless it waits in a group that is not assembled.                       *)
TallyAddsUp ==
    IF medium = "tape"
    THEN tally.read = tally.snapshots + tally.skipped + tally.errors
    ELSE tally.read = tally.skipped + tally.parsed + tally.dropped + lost
                        + Cardinality({ i \in DOMAIN pending : pending[i].stamp \in left })

(* What a recorded provider owes a backtest: nothing later than the moment *)
(* asked for, the latest before it, and a tally that hides no loss.        *)
ReplayIsFaithful == ArchiveTypeOK /\ AnswersAsOf /\ BarsAreCausal /\ TallyAddsUp

=============================================================================
