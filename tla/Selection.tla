----------------------------- MODULE Selection ------------------------------
(***************************************************************************)
(* How one trade is chosen, or none: the affordable risk per contract and  *)
(* the sizing (risk/engine.py risk_budget, risk/sizing.py), the utility    *)
(* and the ranking (optimizer/utility.py, optimizer/engine.py) and the     *)
(* vetoes of the risk engine (risk/engine.py).                             *)
(*                                                                         *)
(* An offer is a structure with its valuation: expected value, CVaR,       *)
(* entry slippage and result in dollars per contract, fill probability and *)
(* assignment risk in per cent, liquidity in tenths, the worst spread in   *)
(* per cent of the midpoint, and whether its Greeks are within the limits. *)
(* A forecast has the probabilities of the market states and its           *)
(* confidence in per cent, stability and calibration in tenths.  Equity is *)
(* a multiple of 200 dollars.                                              *)
(***************************************************************************)
EXTENDS Families

CONSTANTS
    MaxOpen,               \* PortfolioLimits.max_open_strategies
    MaxDollarRisk,         \* TradeLimits.max_dollar_risk
    MaxContracts,          \* TradeLimits.max_contracts
    MaxTotalOpenRisk,      \* PortfolioLimits.max_total_open_risk
    MaxExpirationRisk      \* PortfolioLimits.max_same_expiration_risk

ASSUME LimitsAssumption ==
    /\ MaxOpen \in Nat /\ MaxContracts \in Nat \ {0}
    /\ MaxDollarRisk \in Nat /\ MaxTotalOpenRisk \in Nat /\ MaxExpirationRisk \in Nat

Multiplier == 100          \* CONTRACT_MULTIPLIER
MinConfidence == 20        \* TradeLimits.min_confidence
Placeholder == 8           \* the liquidity risk_budget assumes
Margin == 10               \* NoTradeOption.margin

(* An offer that the registry has not seen, and a forecast.                *)
AnyOffer ==
    [kind: {"offer"}, family: STRING, legs: Seq(AnyLeg) \ {<<>>}, cost: Int, ev: Int, cvar: Int,
     slippage: Nat, fill: 0..100, liquidity: 0..10, spread: Nat, assignment: Nat, hold: Nat,
     greeksWithinLimits: BOOLEAN, admitted: {FALSE}, maxLoss: {0}]

IsForecast(f) == f.confidence \in 0..100 /\ f.stability \in 0..10 /\ f.calibration \in 0..10

(* What the registry makes of an offer: the verdict and the loss.          *)
Entry(o) == [o EXCEPT !.admitted = IsValid(o), !.maxLoss = Multiplier * Profile(o).maxLoss]

MaxLoss(o) == o.maxLoss
CapitalUsage(o) == Max({Multiplier * o.cost, MaxLoss(o)})
StrikeWidth(o) == Max(StrikesOf(o)) - Min(StrikesOf(o))

-----------------------------------------------------------------------------
(* Sizing.  Risk is measured in 1 / Scale dollars, which makes every       *)
(* product of the quality factors an integer.                              *)

Scale == 2 * (100 - MinConfidence) * 1000

(* confidence_factor, of 2 * (100 - MinConfidence).                        *)
ConfidenceFactor(confidence) ==
    IF confidence <= MinConfidence THEN 0
    ELSE (100 - MinConfidence) + (Min({confidence, 100}) - MinConfidence)

Quality(f, liquidity) == ConfidenceFactor(f.confidence) * liquidity * f.stability * f.calibration

(* equity * 0.005, both base_risk_fraction and the account's fraction.     *)
BaseRisk(equity) == Max({0, equity}) \div 200

AllowedTotal(equity) == Min({MaxTotalOpenRisk, equity \div 50})

OpenRisk(book) == SumFunction([p \in book |-> p.risk])
ExpirationRisk(book, expiry) ==
    SumFunction([p \in { p \in book : expiry \in p.expiries } |-> p.risk])

(* The whole allowance, whatever is open.                                  *)
AvailableIgnoringBook(book, equity) == Max({0, AllowedTotal(equity)})

AvailableRisk(book, equity) == Max({0, AllowedTotal(equity) - OpenRisk(book)})

(* risk_budget with confidence used raw, as a fraction.                    *)
RawConfidenceBudget(f, book, equity) ==
    Min({BaseRisk(equity) * f.confidence * (Scale \div 100000) * Placeholder * f.stability
            * f.calibration,
         Scale * (equity \div 200), Scale * MaxDollarRisk, Scale * AvailableRisk(book, equity)})

RiskBudget(f, book, equity) ==
    Min({BaseRisk(equity) * Quality(f, Placeholder),
         Scale * (equity \div 200), Scale * MaxDollarRisk, Scale * AvailableRisk(book, equity)})

(* size_position: what the tightest cap allows, in whole contracts.        *)
SizingCap(o, f, book, equity) ==
    Min({BaseRisk(equity) * Quality(f, o.liquidity), Scale * (equity \div 200),
         Scale * MaxDollarRisk, Scale * AvailableRisk(book, equity)})

SizePosition(o, f, book, equity) ==
    IF MaxLoss(o) <= 0 THEN 0
    ELSE Max({0, Min({MaxContracts, SizingCap(o, f, book, equity) \div (Scale * MaxLoss(o))})})

-----------------------------------------------------------------------------
(* Utility, in 1 / 10000 dollars; the cost of capital is rounded to one of *)
(* them.                                                                   *)

MinutesPerYear == 98280    \* 252 * 390

Utility(o, f) ==
    10000 * o.ev
    - 500 * Max({0, o.cvar})
    - o.slippage * (10000 + 25 * (100 - o.fill))
    - 100 * (100 - f.confidence) * (IF o.ev < 0 THEN -o.ev ELSE o.ev)
    - 6 * (100 - 10 * o.liquidity) * MaxLoss(o)
    - 150 * Max({0, Len(o.legs) - 2}) * MaxLoss(o)
    - (CapitalUsage(o) * 500 * Max({o.hold, 1})) \div MinutesPerYear

(* _entry_gates.                                                           *)
EntryGates(o) ==
    /\ o.ev > 0 /\ 100 * o.ev >= 4 * MaxLoss(o)
    /\ o.fill >= 25 /\ o.spread <= 20

(* The states a forecast holds probable enough to trade for, and those it  *)
(* is vetoed for.                                                          *)
Probable(f) == { s \in DOMAIN f.states : f.states[s] >= 15 }
StructuralVeto(f) == \E s \in DOMAIN f.states \cap {"Transition", "Unstable"} : f.states[s] >= 35

(* Of the offers, in the order of the generation, the places of those      *)
(* generated for an eligible family and admitted, and of those that are    *)
(* affordable and through the gates.                                       *)
Admitted(offers, f) ==
    { i \in DOMAIN offers : offers[i].family \in EligibleFamilies(Probable(f)) /\ offers[i].admitted }

Affordable(o, budget) == Scale * MaxLoss(o) <= budget

Evaluated(offers, f, budget) ==
    { i \in Admitted(offers, f) : Affordable(offers[i], budget) /\ EntryGates(offers[i]) }

(* A sort that is stable: of the offers with the best utility, the first.  *)
Best(offers, ranked, f) ==
    offers[Min({ i \in ranked :
                   \A j \in ranked : Utility(offers[i], f) >= Utility(offers[j], f) })]

BeatsNoTrade(o, f) == Utility(o, f) > 10000 * Margin

-----------------------------------------------------------------------------
(* The vetoes, each named after what it finds.                             *)

Found(checks) == { reason \in DOMAIN checks : checks[reason] }

(* What trips a kill switch, which module RiskSession shows to latch.      *)
Trips(f) == f.disagreement > 35 \/ 10 * f.calibration < 35

EnvironmentReasons(f) ==
    Found([ confidence |-> f.confidence < MinConfidence,
            disagreement |-> f.disagreement > 35,
            structural |-> StructuralVeto(f) ])

CandidateReasons(o) ==
    Found([ risk |-> MaxLoss(o) > MaxDollarRisk,
            return |-> 100 * o.ev < 4 * MaxLoss(o),
            liquidity |-> 100 * o.liquidity < 350,
            spread |-> o.spread > 20,
            slippage |-> 5 * o.slippage > MaxLoss(o),
            legs |-> Len(o.legs) > 4,
            assignment |-> o.assignment > 20,
            width |-> StrikeWidth(o) > 25,
            debit |-> Multiplier * o.cost > 500,
            greeks |-> ~o.greeksWithinLimits ])

PortfolioReasons(o, book, equity) ==
    Found([ count |-> Cardinality(book) >= MaxOpen,
            total |-> OpenRisk(book) + MaxLoss(o) > AllowedTotal(equity),
            expiration |-> ExpirationRisk(book, Min(Expiries(o))) + MaxLoss(o) > MaxExpirationRisk,
            capital |-> 4 * CapitalUsage(o) > equity ])

(* evaluate: the reasons against the offer, zero contracts being one.      *)
Reasons(o, f, book, equity) ==
    EnvironmentReasons(f) \cup CandidateReasons(o) \cup PortfolioReasons(o, book, equity)
    \cup Found([ size |-> SizePosition(o, f, book, equity) = 0, equity |-> equity <= 0 ])

=============================================================================
