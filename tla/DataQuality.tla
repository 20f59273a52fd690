---------------------------- MODULE DataQuality -----------------------------
(***************************************************************************)
(* The data-quality engine, src/spy_der/data/validators/quality.py: the    *)
(* issues of a snapshot, its score DQ_t and the trading lockout.           *)
(*                                                                         *)
(* A contract is the set of faults the checks find in it, a chain is how   *)
(* many contracts there are of each such set.  At most one expiration      *)
(* lacks calls or puts; a same-day expiration is not required, the code's  *)
(* default.  A contract without a midpoint is not tested for its spread or *)
(* its price, a crossed one not for being locked.                          *)
(***************************************************************************)
EXTENDS Integers, FiniteSets, FiniteSetsExt, Functions

CONSTANT MinContracts      \* DataQualityConfig.min_contracts

ASSUME MinContractsAssumption == MinContracts \in Nat

Fatal == {"negative_bid", "crossed_market", "expired_contract"}
Major == {"zero_mid", "invalid_iv", "implausible_price", "negative_size"}
Minor == {"locked_market", "wide_spread"}
Stale == "stale_quotes"
Faults == Fatal \cup Major \cup Minor \cup {Stale}

(* What keeps a single contract from being traded or modelled.             *)
Unusable == Fatal \cup {"zero_mid", "invalid_iv", "wide_spread", Stale}

(* A contract for which every check that can see a fault reports it.       *)
IsContract(f) ==
    /\ f \subseteq Faults
    /\ ~({"crossed_market", "locked_market"} \subseteq f)
    /\ "zero_mid" \in f => f \cap {"wide_spread", "implausible_price"} = {}

IsSnapshot(m) ==
    /\ m \in [kind: {"snapshot"}, chain: {m.chain}, bars: BOOLEAN, skewed: BOOLEAN,
              underlying: {"ok", "missing", "crossed"}, duplicates: Nat, oneSided: Nat]
    /\ DOMAIN m.chain \subseteq SUBSET Faults /\ m.chain \in [DOMAIN m.chain -> Nat \ {0}]

Total(chain) == SumFunction(chain)

With(chain, faults) ==
    SumFunction([f \in DOMAIN chain |-> IF f \cap faults # {} THEN chain[f] ELSE 0])

Usable(chain) == Total(chain) - With(chain, Unusable)

-----------------------------------------------------------------------------
(* An issue that counts contracts carries their number and the chain's; a  *)
(* finding about the snapshot as a whole carries the total 0.              *)

Issue(code, severity, affected, total) ==
    [code |-> code, severity |-> severity, affected |-> affected, total |-> total]

CheckUnderlying(m) ==
    (IF m.underlying = "missing" THEN {Issue("missing_underlying", "fatal", 1, 0)} ELSE {})
    \cup (IF m.underlying = "crossed" THEN {Issue("underlying_crossed", "fatal", 1, 0)} ELSE {})
    \cup (IF m.bars THEN {} ELSE {Issue("missing_bars", "major", 1, 0)})

Severity(code) ==
    CASE code \in Fatal -> "fatal" [] code \in Major -> "major" [] OTHER -> "minor"

CheckQuotes(m) ==
    { Issue(code, Severity(code), With(m.chain, {code}), Total(m.chain)) :
        code \in { c \in Faults \ {Stale} : With(m.chain, {c}) > 0 } }

CheckStructure(m) ==
    LET n == Total(m.chain)
    IN  (IF m.duplicates > 0 THEN {Issue("duplicate_contracts", "major", m.duplicates, n)} ELSE {})
        \cup (IF n < MinContracts THEN {Issue("sparse_chain", "major", n, n)} ELSE {})
        \cup (IF m.oneSided > 0 THEN {Issue("missing_chain_section", "major", m.oneSided, n)}
              ELSE {})

(* Stale quotes are fatal from more than a quarter of the chain on.        *)
CheckTimeliness(m) ==
    LET n == Total(m.chain)
        stale == With(m.chain, {Stale})
    IN  (IF stale = 0 THEN {}
         ELSE {Issue(Stale, IF 4 * stale > n THEN "fatal" ELSE "major", stale, n)})
        \cup (IF m.skewed THEN {Issue("timestamp_mismatch", "major", 1, 0)} ELSE {})

Issues(m) ==
    IF Total(m.chain) = 0 THEN {Issue("empty_chain", "fatal", 0, 0)}
    ELSE CheckUnderlying(m) \cup CheckQuotes(m) \cup CheckStructure(m) \cup CheckTimeliness(m)

-----------------------------------------------------------------------------
(* _score, in integers: with n contracts, u of them usable and a penalty   *)
(* of p / 2000 n, the score is (2000 n - p) * (4 n + 6 u) / 20000 n^2.     *)

Weight(severity) == CASE severity = "fatal" -> 100 [] severity = "major" -> 45 [] OTHER -> 12

(* A finding without a total weighed as though it touched nothing.         *)
FractionOfNothing(i, n) == IF i.total = 0 THEN n ELSE Max({20 * i.affected, n})

(* max(affected_fraction, 0.05), in twentieths of the chain.               *)
Fraction(i, n) ==
    IF i.total = 0 THEN (IF i.affected > 0 THEN 20 * n ELSE n)
    ELSE Max({20 * i.affected, n})

(* The mean of the weights instead of their sum.                           *)
PenaltyAveraged(m) ==
    SumFunction([i \in Issues(m) |-> Weight(i.severity) * Fraction(i, Total(m.chain))])
        \div Max({1, Cardinality(Issues(m))})

Penalty(m) ==
    SumFunction([i \in Issues(m) |-> Weight(i.severity) * Fraction(i, Total(m.chain))])

HasFatal(m) == \E i \in Issues(m) : i.severity = "fatal"

(* The numerator of the score; the denominator is 20000 n^2.               *)
Score(m) ==
    LET n == Total(m.chain)
    IN  IF HasFatal(m) THEN 0
        ELSE Max({0, 2000 * n - Penalty(m)}) * (4 * n + 6 * Usable(m.chain))

(* DQ_t >= 0.70 and no fatal finding.                                      *)
IsTradeable(m) == ~HasFatal(m) /\ Score(m) >= 14000 * Total(m.chain) * Total(m.chain)

=============================================================================
