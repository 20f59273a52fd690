------------------------------ MODULE Families ------------------------------
(***************************************************************************)
(* The generators of the allowed strategy universe,                        *)
(* src/spy_der/strategies/generators/families.py, and the context they     *)
(* build their legs from (context.py).                                     *)
(*                                                                         *)
(* A context is what a generator reads: the strikes listed for both        *)
(* rights, the contracts of the others, the spot, the short strikes of one *)
(* finish probability, the median forecast and the pin (0 for none), the   *)
(* far expiration (0 for none), and the contracts that cannot be priced.   *)
(* The near expiration is 1.  Widths are the code's, in steps; that a      *)
(* family yields at most 18 structures keeps max_candidates_per_family     *)
(* (24) from ever binding.                                                 *)
(***************************************************************************)
EXTENDS DefinedRisk

IsContext(ctx) ==
    /\ ctx.strikes \subseteq Nat /\ IsFiniteSet(ctx.strikes)
    /\ ctx.oneSided \subseteq Nat \X Nat \X {"call", "put"} /\ ctx.far \in Nat

NarrowWidths == {1, 2, 3, 5}
WingWidths == {2, 3, 5}

Near == 1

-----------------------------------------------------------------------------
(* context.py *)

(* nearest_value: of two strikes equally near, the lower one.              *)
Snap(ctx, target) ==
    LET away(k) == IF k > target THEN k - target ELSE target - k
    IN  CHOOSE k \in ctx.strikes :
            \A j \in ctx.strikes : away(k) < away(j) \/ (away(k) = away(j) /\ k <= j)

Atm(ctx) == Snap(ctx, ctx.spot)

Step(ctx) ==
    IF Cardinality(ctx.strikes) < 2 THEN 1
    ELSE Min({ p[2] - p[1] : p \in { p \in ctx.strikes \X ctx.strikes : p[1] < p[2] } })

Quoted(ctx, l) ==
    /\ l.strike \in ctx.strikes \/ <<l.expiry, l.strike, l.right>> \in ctx.oneSided
    /\ <<l.expiry, l.strike, l.right>> \notin ctx.unpriced
    /\ l.expiry \in {Near, ctx.far}

(* legs(): all of them, or no structure.                                   *)
Legs(ctx, legs) == IF \A i \in DOMAIN legs : Quoted(ctx, legs[i]) THEN {legs} ELSE {}

Targets(ctx, strikes) == { Snap(ctx, k) : k \in strikes \ {0} }

Anchors(ctx) ==
    { Snap(ctx, Atm(ctx) + o * Step(ctx)) : o \in {-1, 0, 1} } \cup Targets(ctx, {ctx.median})

ButterflyCentres(ctx) == {Atm(ctx)} \cup Targets(ctx, {ctx.median, ctx.pin})

-----------------------------------------------------------------------------
(* Verticals *)

DebitSpreads(ctx, right, sign) ==
    UNION { UNION { Legs(ctx, <<Leg(Near, k, right, 1), Leg(Near, k + sign * w * Step(ctx), right, -1)>>) :
                      w \in NarrowWidths } : k \in Anchors(ctx) }

CreditSpreads(ctx, short, right, sign) ==
    IF short = 0 \/ sign * short <= sign * ctx.spot THEN {}
    ELSE UNION { Legs(ctx, <<Leg(Near, short, right, -1),
                             Leg(Near, short + sign * w * Step(ctx), right, 1)>>) :
                   w \in NarrowWidths }

(* Butterflies: one wing below the centre, one above.                      *)
Fly(ctx, centre, right, low, high) ==
    Legs(ctx, <<Leg(Near, centre - low * Step(ctx), right, 1), Leg(Near, centre, right, -2),
                Leg(Near, centre + high * Step(ctx), right, 1)>>)

Butterflies(ctx, right) ==
    UNION { UNION { Fly(ctx, c, right, w, w) : w \in WingWidths } : c \in ButterflyCentres(ctx) }

BrokenFlies(ctx, c, right, w) ==
    UNION { IF right = "call" THEN Fly(ctx, c, right, w, w + extra) ELSE Fly(ctx, c, right, w + extra, w) :
              extra \in {1, 2} }

BrokenWings(ctx, right) ==
    UNION { UNION { BrokenFlies(ctx, c, right, w) : w \in {1, 2, 3} } : c \in ButterflyCentres(ctx) }

(* Condors: a put spread below a call spread.                              *)
Condors(ctx, wings) ==
    IF 0 \in {ctx.shortPut, ctx.shortCall} \/ ctx.shortPut >= ctx.shortCall THEN {}
    ELSE UNION { Legs(ctx, <<Leg(Near, ctx.shortPut - w[1] * Step(ctx), "put", 1),
                             Leg(Near, ctx.shortPut, "put", -1), Leg(Near, ctx.shortCall, "call", -1),
                             Leg(Near, ctx.shortCall + w[2] * Step(ctx), "call", 1)>>) : w \in wings }

IronButterflies(ctx) ==
    UNION { UNION { Legs(ctx, <<Leg(Near, c - w * Step(ctx), "put", 1), Leg(Near, c, "put", -1),
                                Leg(Near, c, "call", -1), Leg(Near, c + w * Step(ctx), "call", 1)>>) :
                      w \in WingWidths } : c \in ButterflyCentres(ctx) }

(* Long volatility *)

Straddles(ctx) == Legs(ctx, <<Leg(Near, Atm(ctx), "call", 1), Leg(Near, Atm(ctx), "put", 1)>>)

Around(ctx, w) == <<Snap(ctx, Atm(ctx) + w * Step(ctx)), Snap(ctx, Atm(ctx) - w * Step(ctx))>>

Strangles(ctx) ==
    UNION { LET k == Around(ctx, w)
            IN  IF k[1] <= k[2] THEN {}
                ELSE Legs(ctx, <<Leg(Near, k[1], "call", 1), Leg(Near, k[2], "put", 1)>>) :
              w \in WingWidths }

Backspread(ctx, short, long, right, sign) ==
    IF sign * long <= sign * short THEN {}
    ELSE Legs(ctx, <<Leg(Near, short, right, -1), Leg(Near, long, right, 2)>>)

Backspreads(ctx, right, sign) ==
    UNION { LET short == Snap(ctx, Atm(ctx) + sign * o * Step(ctx))
            IN  UNION { Backspread(ctx, short, Snap(ctx, short + sign * w * Step(ctx)), right, sign) :
                          w \in {1, 2, 3} } : o \in {0, 1} }

(* Calendars and diagonals: short the near expiration, long the far one.   *)
HasFar(ctx) == ctx.far > Near

Calendars(ctx, right, sign) ==
    IF ~HasFar(ctx) THEN {}
    ELSE UNION { LET k == Snap(ctx, Atm(ctx) + sign * o * Step(ctx))
                 IN  Legs(ctx, <<Leg(Near, k, right, -1), Leg(ctx.far, k, right, 1)>>) :
                   o \in {0, 1, 2} }

DoubleCalendars(ctx) ==
    IF ~HasFar(ctx) THEN {}
    ELSE UNION { LET k == Around(ctx, w)
                 IN  IF k[1] <= k[2] THEN {}
                     ELSE Legs(ctx, <<Leg(Near, k[1], "call", -1), Leg(ctx.far, k[1], "call", 1),
                                      Leg(Near, k[2], "put", -1), Leg(ctx.far, k[2], "put", 1)>>) :
                   w \in WingWidths }

Diagonals(ctx, right, sign) ==
    IF ~HasFar(ctx) THEN {}
    ELSE UNION { LET long == Snap(ctx, Atm(ctx) - sign * Step(ctx))
                     short == Snap(ctx, long + sign * w * Step(ctx))
                 IN  IF sign * short <= sign * long THEN {}
                     ELSE Legs(ctx, <<Leg(Near, short, right, -1), Leg(ctx.far, long, right, 1)>>) :
                   w \in {1, 2, 3} }

(* The registry of generators.                                             *)
Generate(ctx) ==
    [ BullCallDebitSpread |-> DebitSpreads(ctx, "call", 1),
      BearPutDebitSpread |-> DebitSpreads(ctx, "put", -1),
      BullPutCreditSpread |-> CreditSpreads(ctx, ctx.shortPut, "put", -1),
      BearCallCreditSpread |-> CreditSpreads(ctx, ctx.shortCall, "call", 1),
      CallButterfly |-> Butterflies(ctx, "call"),
      PutButterfly |-> Butterflies(ctx, "put"),
      BrokenWingCallButterfly |-> BrokenWings(ctx, "call"),
      BrokenWingPutButterfly |-> BrokenWings(ctx, "put"),
      IronCondor |-> Condors(ctx, { <<w, w>> : w \in WingWidths }),
      AsymmetricCondor |-> Condors(ctx, { <<w, w>> : w \in {2, 3} }),
      BrokenWingCondor |-> Condors(ctx, {<<2, 5>>, <<5, 2>>}),
      IronButterfly |-> IronButterflies(ctx),
      LongStraddle |-> Straddles(ctx),
      LongStrangle |-> Strangles(ctx),
      CallBackspread |-> Backspreads(ctx, "call", 1),
      PutBackspread |-> Backspreads(ctx, "put", -1),
      BullishCalendar |-> Calendars(ctx, "call", 1),
      BearishCalendar |-> Calendars(ctx, "put", -1),
      DoubleCalendar |-> DoubleCalendars(ctx),
      BullishDiagonal |-> Diagonals(ctx, "call", 1),
      BearishDiagonal |-> Diagonals(ctx, "put", -1) ]

-----------------------------------------------------------------------------
(* family_filter.py: the families of a market state; none in a state that  *)
(* is not traded.                                                          *)

StateFamilies ==
    [ StrongPin |-> {"IronButterfly", "CallButterfly", "PutButterfly", "BrokenWingCallButterfly",
                     "BrokenWingPutButterfly", "IronCondor", "DoubleCalendar"},
      BroadRange |-> {"IronCondor", "BrokenWingCondor", "AsymmetricCondor", "DoubleCalendar",
                      "BullPutCreditSpread", "BearCallCreditSpread", "CallButterfly",
                      "PutButterfly"},
      BullGrind |-> {"BullCallDebitSpread", "BullPutCreditSpread", "CallButterfly",
                     "BrokenWingCallButterfly", "BullishCalendar", "BullishDiagonal"},
      BearGrind |-> {"BearPutDebitSpread", "BearCallCreditSpread", "PutButterfly",
                     "BrokenWingPutButterfly", "BearishCalendar", "BearishDiagonal"},
      BullBreakout |-> {"BullCallDebitSpread", "CallBackspread", "LongStraddle", "LongStrangle",
                        "BrokenWingCallButterfly"},
      BearBreakdown |-> {"BearPutDebitSpread", "PutBackspread", "LongStraddle", "LongStrangle",
                         "BrokenWingPutButterfly"},
      VolExpansion |-> {"LongStraddle", "LongStrangle", "CallBackspread", "PutBackspread"},
      VolContraction |-> {"BullPutCreditSpread", "BearCallCreditSpread", "IronCondor",
                          "IronButterfly", "BrokenWingCallButterfly", "BrokenWingPutButterfly",
                          "BrokenWingCondor"},
      DirectionalRange |-> {"AsymmetricCondor", "BrokenWingCondor", "BullPutCreditSpread",
                            "BearCallCreditSpread", "BrokenWingCallButterfly",
                            "BrokenWingPutButterfly"},
      Transition |-> {},
      Unstable |-> {} ]

(* eligible_families: the union over the states that are probable enough.  *)
EligibleFamilies(probable) == UNION { StateFamilies[s] : s \in probable }

=============================================================================
