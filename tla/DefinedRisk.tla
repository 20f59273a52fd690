---------------------------- MODULE DefinedRisk -----------------------------
(***************************************************************************)
(* The defined-risk proof of a structure: its legs (domain/strategy.py),   *)
(* the conservative payoff and its worst case (strategies/payoff.py), the  *)
(* suffix-coverage rule and the admission gate (strategies/validation.py,  *)
(* strategies/registry.py).                                                *)
(*                                                                         *)
(* A structure is a family, a sequence of legs and the net entry cost per  *)
(* share.  Prices are small integers, the contract multiplier is left out: *)
(* every amount is per share.                                              *)
(***************************************************************************)
EXTENDS Integers, Sequences, FiniteSets, FiniteSetsExt, Functions

CONSTANTS
    FarMargin,             \* the 100 points of evaluation_spots
    MaxLegs                \* validation.MAX_LEGS

ASSUME FarAssumption == FarMargin \in Nat

(* A condor has four legs; MAX_LEGS is 6.                                  *)
ASSUME MaxLegsAssumption == MaxLegs \in Nat /\ MaxLegs >= 4

Leg(expiry, strike, right, qty) ==
    [expiry |-> expiry, strike |-> strike, right |-> right, qty |-> qty]

(* What a structure is made of, whatever family it belongs to.             *)
AnyLeg == [expiry: Nat, strike: Nat, right: {"call", "put"}, qty: Int]
IsStructure(s) == s.legs \in Seq(AnyLeg) /\ s.legs # <<>> /\ s.cost \in Int

Calendarized ==
    {"BullishCalendar", "BearishCalendar", "BullishDiagonal", "BearishDiagonal", "DoubleCalendar"}

LegSet(s) == { s.legs[i] : i \in DOMAIN s.legs }
Expiries(s) == { l.expiry : l \in LegSet(s) }
StrikesOf(s) == { l.strike : l \in LegSet(s) }
IsMultiExpiry(s) == Cardinality(Expiries(s)) > 1

(* How many more of the legs are long than short.                          *)
Quantity(s, legs) ==
    SumFunction([i \in DOMAIN s.legs |-> IF s.legs[i] \in legs THEN s.legs[i].qty ELSE 0])

-----------------------------------------------------------------------------
(* payoff.py *)

Intrinsic(l, spot) == Max({0, IF l.right = "call" THEN spot - l.strike ELSE l.strike - spot})

(* The most an option that has not expired can be worth.                   *)
UpperBound(l, spot) == IF l.right = "call" THEN spot ELSE l.strike

(* Every leg valued as though it had expired.                              *)
IntrinsicOnly(l, spot, checkpoint) == Intrinsic(l, spot)

(* leg_value_bound: an unexpired leg is valued against its holder.         *)
LegValueBound(l, spot, checkpoint) ==
    IF l.expiry <= checkpoint \/ l.qty > 0 THEN Intrinsic(l, spot) ELSE UpperBound(l, spot)

PayoffAt(s, spot, checkpoint) ==
    SumFunction([i \in DOMAIN s.legs |->
                    s.legs[i].qty * LegValueBound(s.legs[i], spot, checkpoint)]) - s.cost

UpsideSlope(s) == Quantity(s, { l \in LegSet(s) : l.right = "call" })

EvaluationSpots(s) ==
    {0} \cup StrikesOf(s) \cup {Max({2 * Max(StrikesOf(s)), Max(StrikesOf(s)) + FarMargin})}

Worst(s) == Min({ PayoffAt(s, p[1], p[2]) : p \in EvaluationSpots(s) \X Expiries(s) })

(* payoff_profile: the loss is finite when the upside slope is not         *)
(* negative.                                                               *)
Profile(s) == [finite |-> UpsideSlope(s) >= 0, maxLoss |-> Max({0, -Worst(s)})]

-----------------------------------------------------------------------------
(* validation.py *)

(* The right and the expiration from which on the shorts outnumber the     *)
(* longs.                                                                  *)
CoverageViolations(s) ==
    { v \in {"call", "put"} \X Expiries(s) :
        /\ \E l \in LegSet(s) : l.right = v[1] /\ l.expiry = v[2]
        /\ Quantity(s, { l \in LegSet(s) : l.right = v[1] /\ l.expiry >= v[2] }) < 0 }

StructuralViolations(s) ==
    (IF Len(s.legs) > MaxLegs THEN {"too many legs"} ELSE {})
    \cup (IF IsMultiExpiry(s) /\ s.family \notin Calendarized
          THEN {"not a calendarized family"} ELSE {})
    \cup (IF \E i, j \in DOMAIN s.legs :
               i # j /\ [s.legs[i] EXCEPT !.qty = 0] = [s.legs[j] EXCEPT !.qty = 0]
          THEN {"duplicate legs"} ELSE {})

(* validate_defined_risk, the two derivations and the sanity check.        *)
IsValid(s) ==
    /\ StructuralViolations(s) = {} /\ CoverageViolations(s) = {}
    /\ Profile(s).finite
    /\ Profile(s).maxLoss > 0

=============================================================================
