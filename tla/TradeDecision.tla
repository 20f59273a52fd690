--------------------------- MODULE TradeDecision ----------------------------
(***************************************************************************)
(* From a snapshot to a managed position (pipeline.py step): the snapshot  *)
(* is assessed (DataQuality), structures are generated and admitted        *)
(* (Families, DefinedRisk), one of them is selected, sized and opened      *)
(* (Selection), and the position is held to its exit contract (ExitRules). *)
(*                                                                         *)
(* A behaviour looks at one of these at a time, named by subject: at the   *)
(* quality of a snapshot, at one structure on its way into the registry,   *)
(* at a trading session of several decision cycles, or at the life of one  *)
(* position; then it starts over.                                          *)
(***************************************************************************)
EXTENDS Selection, ExitRules, DataQuality

CONSTANTS
    Markets,          \* snapshots to assess
    CycleMarkets,     \* snapshots a session meets
    Strikes, Sizes,   \* of the legs a draft is composed from
    MaxComposed,      \* bound: legs of a composed draft
    Contexts,         \* generation contexts
    Costs,            \* entry costs of a structure
    Offers,           \* structures with their valuations
    Forecasts,
    StartingEquity,
    Results,          \* results of a close
    MaxCloses,        \* bound: closes in a session
    Fee,              \* entry commission per contract
    Positions,        \* positions whose life is followed
    Marks             \* the results they are marked at

None == [kind |-> "none"]

(* A position before it has an exit plan: it can win and lose, and its     *)
(* near leg does not expire before the session ends.                       *)
AnyPosition ==
    { p \in [family: STRING, cost: Int, maxLoss: Nat \ {0}, maxProfit: Nat \ {0}, toClose: Nat,
             toExpiry: Nat, plan: {None}, priced: {None}] : p.toClose <= p.toExpiry }

ASSUME MarketAssumption == \A m \in Markets \cup CycleMarkets : IsSnapshot(m)
ASSUME StructureAssumption ==
    /\ Strikes \subseteq Nat /\ Sizes \subseteq Int /\ Costs \subseteq Int
    /\ \A ctx \in Contexts : IsContext(ctx)
ASSUME SessionAssumption ==
    /\ Offers \subseteq AnyOffer /\ \A f \in Forecasts : IsForecast(f)
    /\ StartingEquity \in Int /\ Results \subseteq Int /\ MaxCloses \in Nat /\ Fee \in Nat
ASSUME HoldAssumption == Positions \subseteq AnyPosition /\ Marks \subseteq Int

VARIABLES
    subject,          \* what the behaviour looks at, and how far it has come
    market,           \* the snapshot that was assessed
    draft,            \* the structure that is considered
    book, equity,     \* the open positions and the account
    killed,           \* a kill switch is up
    decision,         \* the last decision of the session
    closes,           \* bound: closes so far
    trade             \* the position that is held

vars == <<subject, market, draft, book, equity, killed, decision, closes, trade>>

Init ==
    /\ subject = "none"
    /\ market = None /\ draft = None /\ decision = None /\ trade = None
    /\ book = {} /\ equity = StartingEquity /\ killed = FALSE /\ closes = 0

-----------------------------------------------------------------------------
(* A snapshot and, beside it, the same with one more fault in one of its   *)
(* contracts.                                                              *)

Observe(m) ==
    /\ subject = "none"
    /\ subject' = "snapshot" /\ market' = m
    /\ UNCHANGED <<draft, book, equity, killed, decision, closes, trade>>

Moved(chain, from, to) ==
    LET count(f) == (IF f \in DOMAIN chain THEN chain[f] ELSE 0)
                    + (IF f = to THEN 1 ELSE 0) - (IF f = from THEN 1 ELSE 0)
        classes == { f \in DOMAIN chain \cup {to} : count(f) > 0 }
    IN  [f \in classes |-> count(f)]

Worsen(f, fault) ==
    /\ subject = "snapshot"
    /\ fault \notin f /\ IsContract(f \cup {fault})
    /\ subject' = "worse"
    /\ market' = [market EXCEPT !.chain = Moved(@, f, f \cup {fault})]
    /\ UNCHANGED <<draft, book, equity, killed, decision, closes, trade>>

-----------------------------------------------------------------------------
(* A structure: composed leg by leg, or generated; then submitted.         *)

RightRank(l) == IF l.right = "call" THEN 0 ELSE 1

(* Legs are added in the order of their contracts.                         *)
Follows(l, k) ==
    \/ l.expiry > k.expiry
    \/ l.expiry = k.expiry /\ l.strike > k.strike
    \/ l.expiry = k.expiry /\ l.strike = k.strike /\ RightRank(l) >= RightRank(k)

Compose(l) ==
    /\ subject \in {"none", "drafting"}
    /\ subject' = "drafting"
    /\ draft' = IF subject = "none" THEN [kind |-> "composed", family |-> "", legs |-> <<l>>, cost |-> 0]
                ELSE [draft EXCEPT !.legs = Append(@, l)]
    /\ subject = "drafting" => /\ draft.kind = "composed" /\ Len(draft.legs) < MaxComposed
                               /\ Follows(l, draft.legs[Len(draft.legs)])
    /\ UNCHANGED <<market, book, equity, killed, decision, closes, trade>>

GenerateOne(ctx, family) ==
    /\ subject = "none"
    /\ subject' = "drafting"
    /\ \E legs \in Generate(ctx)[family] :
         draft' = [kind |-> "generated", family |-> family, legs |-> legs, cost |-> 0]
    /\ UNCHANGED <<market, book, equity, killed, decision, closes, trade>>

(* StrategyRegistry.submit, of a structure that is priced at cost.         *)
Submit(family, cost) ==
    LET s == [draft EXCEPT !.family = family, !.cost = cost]
    IN  /\ subject = "drafting"
        /\ subject' = IF IsValid(s) THEN "admitted" ELSE "rejected"
        /\ draft' = s
        /\ UNCHANGED <<market, book, equity, killed, decision, closes, trade>>

-----------------------------------------------------------------------------
(* A session: cycles of assessing, closing and deciding.                   *)

BeginCycle(m) ==
    /\ subject \in {"none", "idle"}
    /\ subject' = "managing" /\ market' = m /\ decision' = None
    /\ UNCHANGED <<draft, book, equity, killed, closes, trade>>

(* _manage_open_positions; why and how it fills is left to the modules     *)
(* ExitRules and Execution.                                                *)
Close(p, result) ==
    /\ subject = "managing" /\ p \in book /\ closes < MaxCloses /\ result >= -p.risk
    /\ book' = book \ {p} /\ equity' = equity + result /\ closes' = closes + 1
    /\ UNCHANGED <<subject, market, draft, killed, decision, trade>>

(* The data-quality lockout.                                               *)
Lockout ==
    /\ subject = "managing" /\ ~IsTradeable(market)
    /\ subject' = "idle" /\ market' = None
    /\ UNCHANGED <<draft, book, equity, killed, decision, closes, trade>>

(* What the registry holds of the offers, each with its loss.              *)
Registry == { Entry(o) : o \in Offers }

(* The first new name for a position.                                      *)
NewId == CHOOSE i \in 1..MaxOpen : \A p \in book : p.id # i

Opened(o, n) ==
    [id |-> NewId, offer |-> o, contracts |-> n, risk |-> n * MaxLoss(o) + n * Fee,
     expiries |-> Expiries(o)]

(* optimize, evaluate and _execute; n contracts are filled, which may be   *)
(* fewer than were sized, or none.                                         *)
Decide(f, offers, n) ==
    LET budget == RiskBudget(f, book, equity)
        ranked == Evaluated(offers, f, budget)
        best == Best(offers, ranked, f)
        selected == ranked # {} /\ BeatsNoTrade(best, f)
        kill == killed \/ Trips(f)
        against == (IF kill THEN {"kill"} ELSE {}) \cup Reasons(best, f, book, equity)
        unaffordable == { o \in { offers[i] : i \in Admitted(offers, f) } : ~Affordable(o, budget) }
    IN  /\ subject = "managing" /\ IsTradeable(market)
        /\ n > 0 => selected /\ against = {} /\ n <= SizePosition(best, f, book, equity)
        /\ subject' = "idle" /\ market' = None
        /\ killed' = kill
        /\ book' = IF n > 0 THEN book \cup {Opened(best, n)} ELSE book
        /\ decision' =
             IF ~selected THEN [kind |-> "no_trade", forecast |-> f, unaffordable |-> unaffordable,
                                against |-> {}, best |-> None]
             ELSE [kind |-> IF against = {} THEN "approved" ELSE "refused", forecast |-> f,
                   unaffordable |-> unaffordable, against |-> against, best |-> best]
        /\ UNCHANGED <<draft, equity, closes, trade>>

-----------------------------------------------------------------------------
(* The life of a position, tick by tick.                                   *)

Hold(p) ==
    LET plan == PlanFor(p.family, p.toClose, p.toExpiry)
    IN  /\ subject = "none" /\ p.toExpiry >= Cutoff
        /\ subject' = "holding"
        /\ trade' = [position |-> [p EXCEPT !.plan = plan, !.priced = plan], held |-> 0, mark |-> 0,
                     exit |-> None, sold |-> SimulatedExit([p EXCEPT !.plan = plan, !.priced = plan],
                                                           0, 0),
                     soldAt |-> 0, clean |-> TRUE, restarted |-> FALSE, killed |-> FALSE,
                     missed |-> FALSE]
        /\ UNCHANGED <<market, draft, book, equity, killed, decision, closes>>

(* A cycle: the true result is pnl.  Unquoted legs leave the old mark and  *)
(* no order can be built; an order need not fill.                          *)
Tick(pnl, quoted, itm, fills) ==
    LET p == trade.position
        held == trade.held + 1
        mark == IF quoted THEN pnl ELSE trade.mark
        signal == CheckExit(p, held, mark, itm, trade.killed)
        closed == signal # "none" /\ quoted /\ fills
    IN  /\ subject = "holding" /\ trade.exit = None /\ held <= p.toClose
        /\ trade' = [trade EXCEPT
              !.held = held, !.mark = mark,
              !.exit = IF closed THEN [kind |-> signal, at |-> held] ELSE None,
              !.sold = IF @ = "none" THEN SimulatedExit(p, held, pnl) ELSE @,
              !.soldAt = IF trade.sold = "none" THEN held ELSE @,
              !.clean = @ /\ quoted /\ fills,
              !.missed = @ \/ ((trade.killed \/ p.toClose - held <= Cutoff)
                              /\ quoted /\ fills /\ ~closed)]
        /\ UNCHANGED <<subject, market, draft, book, equity, killed, decision, closes>>

Restart ==
    /\ subject = "holding" /\ trade.exit = None /\ ~trade.restarted
    /\ trade' = [trade EXCEPT !.position.plan = Restored(@), !.restarted = TRUE]
    /\ UNCHANGED <<subject, market, draft, book, equity, killed, decision, closes>>

Trip ==
    /\ subject = "holding" /\ trade.exit = None /\ ~trade.killed
    /\ trade' = [trade EXCEPT !.killed = TRUE]
    /\ UNCHANGED <<subject, market, draft, book, equity, killed, decision, closes>>

-----------------------------------------------------------------------------
StartOver ==
    /\ subject # "none"
    /\ subject' = "none"
    /\ market' = None /\ draft' = None /\ decision' = None /\ trade' = None
    /\ book' = {} /\ equity' = StartingEquity /\ killed' = FALSE /\ closes' = 0

AllFamilies == UNION { StateFamilies[s] : s \in DOMAIN StateFamilies }

Pairs == { s \in [1..2 -> Registry] : s[1] # s[2] }

Next ==
    \/ \E m \in Markets : Observe(m)
    \/ subject = "snapshot" /\ \E f \in DOMAIN market.chain, fault \in Faults : Worsen(f, fault)
    \/ \E e \in {1, 2}, k \in Strikes, r \in {"call", "put"}, q \in Sizes : Compose(Leg(e, k, r, q))
    \/ \E ctx \in Contexts : \E family \in AllFamilies : GenerateOne(ctx, family)
    \/ subject = "drafting" /\ \E cost \in Costs :
          \E family \in IF draft.kind = "composed" THEN {"IronCondor", "BullishCalendar"}
                        ELSE {draft.family} : Submit(family, cost)
    \/ \E m \in CycleMarkets : BeginCycle(m)
    \/ \E p \in book, result \in Results : Close(p, result)
    \/ Lockout
    \/ \E f \in Forecasts, offers \in Pairs, n \in 0..MaxContracts : Decide(f, offers, n)
    \/ \E p \in Positions : Hold(p)
    \/ \E pnl \in Marks, quoted, itm, fills \in BOOLEAN : Tick(pnl, quoted, itm, fills)
    \/ Restart
    \/ Trip
    \/ StartOver

Spec == Init /\ [][Next]_vars

-----------------------------------------------------------------------------
(* Properties *)

(* Types of the state.                                                     *)
TypeOK ==
    /\ subject \in {"none", "snapshot", "worse", "drafting", "admitted", "rejected",
                    "idle", "managing", "holding"}
    /\ \A p \in book : p.id \in 1..MaxOpen /\ p.contracts \in 1..MaxContracts
    /\ equity \in Int /\ killed \in BOOLEAN /\ closes \in 0..MaxCloses
    /\ subject = "holding" => trade.held \in 0..trade.position.toClose

(* The lockout is a sum of weights against a threshold (quality.py         *)
(* _score): whatever they add up to, a snapshot that may be traded on has  *)
(* its bars, one clock and an underlying, no contract that is crossed,     *)
(* expired or bid below zero, at most a quarter of stale quotes, and at    *)
(* least half of its contracts usable.                                     *)
TradeableIsSound ==
    market # None /\ IsTradeable(market) =>
        /\ market.bars /\ ~market.skewed /\ market.underlying = "ok"
        /\ With(market.chain, Fatal) = 0
        /\ 4 * With(market.chain, {Stale}) <= Total(market.chain)
        /\ 2 * Usable(market.chain) >= Total(market.chain) /\ Total(market.chain) >= MinContracts

(* One more fault in one contract, seen beside those that are there, never *)
(* raises the score or lifts the lockout.                                  *)
WorseNeverScoresHigher ==
    [][subject = "snapshot" /\ subject' = "worse" =>
         /\ Score(market') <= Score(market)
         /\ IsTradeable(market') => IsTradeable(market)]_vars

(* The suffix rule of validation.py against what it stands for: it finds   *)
(* nothing exactly when every short contract can be paired with a long one *)
(* of its own, of the same right, that lives as long.                      *)
Units(s, sign) ==
    UNION { {i} \X (1..(sign * s.legs[i].qty)) : i \in { i \in DOMAIN s.legs : sign * s.legs[i].qty > 0 } }

Paired(s) ==
    \E pair \in [Units(s, -1) -> Units(s, 1)] :
        /\ IsInjective(pair)
        /\ \A u \in Units(s, -1) :
             LET short == s.legs[u[1]]
                 long == s.legs[pair[u][1]]
             IN  long.right = short.right /\ long.expiry >= short.expiry

EveryShortIsCovered == subject = "drafting" => (CoverageViolations(draft) = {} <=> Paired(draft))

(* The result of a structure at a checkpoint when the unexpired legs in    *)
(* rich are worth all that they can be, the others what exercise brings.   *)
ResultAt(s, spot, checkpoint, rich) ==
    SumFunction([i \in DOMAIN s.legs |->
                    s.legs[i].qty * IF i \in rich /\ s.legs[i].expiry > checkpoint
                                    THEN UpperBound(s.legs[i], spot)
                                    ELSE Intrinsic(s.legs[i], spot)]) - s.cost

LosesAtMost(s, loss) ==
    \A spot \in 0..(2 * Max(StrikesOf(s)) + 2 * FarMargin), at \in Expiries(s),
       rich \in SUBSET DOMAIN s.legs : ResultAt(s, spot, at, rich) >= -loss

(* "No undefined-risk strategy can enter the registry" (registry.py:3): at *)
(* no price of the underlying and no valuation of the legs that have not   *)
(* expired does an admitted structure lose more than its maximum loss,     *)
(* which is computed at the strikes and two outer points only.             *)
AdmittedLossIsBounded == subject = "admitted" => LosesAtMost(draft, Profile(draft).maxLoss)

(* No generator yields a structure that the registry refuses for its legs: *)
(* a leg that cannot be priced, a pin beside the ladder or strikes with    *)
(* gaps cost a structure, and never one of its legs.                       *)
GeneratedIsCovered ==
    subject \in {"drafting", "rejected"} /\ draft.kind = "generated" =>
        StructuralViolations(draft) = {} /\ CoverageViolations(draft) = {}

(* "keeping loss capped at the wing differential" (families.py:153): a     *)
(* broken-wing butterfly loses what its wings differ by, and the debit, at *)
(* most.                                                                   *)
BrokenWingIsCapped ==
    subject = "admitted" /\ draft.kind = "generated"
    /\ draft.family \in {"BrokenWingCallButterfly", "BrokenWingPutButterfly"} =>
        LET k == { l.strike : l \in { l \in LegSet(draft) : l.qty > 0 } }
            body == CHOOSE b \in StrikesOf(draft) \ k : TRUE
            skew == (Max(k) - body) - (body - Min(k))
            wrong == IF draft.family = "BrokenWingCallButterfly" THEN skew ELSE -skew
        IN  wrong > 0 /\ Profile(draft).maxLoss = Max({0, wrong + draft.cost, draft.cost})

(* "so the optimizer never selects a structure sizing would have to        *)
(* refuse" (pipeline.py:135), as far as it goes: the filter and the sizing *)
(* differ in the liquidity only.  An offer that is at least as liquid as   *)
(* the filter assumes is never sized to zero, and one that is not more     *)
(* liquid is never dropped when sizing would have bought it.               *)
BudgetAgreesWithSizing ==
    decision # None =>
        /\ "size" \in decision.against => decision.best.liquidity < Placeholder
        /\ \A o \in decision.unaffordable :
             o.liquidity <= Placeholder => SizePosition(o, decision.forecast, book, equity) = 0

(* Whatever a new position does, it costs at most the dollar limit and     *)
(* half a per cent of the account by the reference above, although neither *)
(* is checked after the sizing (sizing.py:106).                            *)
NewRiskBounded(p) ==
    p.offer.admitted
    /\ LosesAtMost(p.offer, Min({MaxDollarRisk, equity \div 200}) \div (Multiplier * p.contracts))

(* The veto on total risk counts one contract, the sizing the rest: after  *)
(* an opening the whole book risks at most what is allowed, but for the    *)
(* commissions of the new position.                                        *)
OpenRiskBounded(p) == OpenRisk(book') - p.contracts * Fee <= AllowedTotal(equity)

(* "rejecting trades whose apparent edge does not survive costs and        *)
(* uncertainty" (utility.py:34): the expected value of what is opened,     *)
(* discounted by the confidence of the forecast, exceeds the slippage by   *)
(* more than the margin, and no Transition or Unstable state was as        *)
(* probable as 35 per cent.                                                *)
EdgeSurvivesCosts(p) ==
    /\ decision'.forecast.confidence * p.offer.ev > 100 * (p.offer.slippage + Margin)
    /\ ~killed' /\ ~StructuralVeto(decision'.forecast)

(* What is opened has an edge and fits the limits, through selection,      *)
(* sizing and vetoes that each see only a part.                            *)
OpenedIsWorthItsRisk ==
    [][\A p \in book' \ book : NewRiskBounded(p) /\ OpenRiskBounded(p) /\ EdgeSurvivesCosts(p)]_vars

(* "the stop that is priced here is the stop that will actually be         *)
(* enforced" (exits.py:134), for the whole contract: on the same results,  *)
(* quoted and filled in every cycle, without a restart or a kill switch,   *)
(* the manager closes in the cycle in which the simulator does if the near *)
(* leg expires today, and no later if it does not.                         *)
EnforcedAsPriced ==
    subject = "holding" /\ trade.clean /\ ~trade.restarted /\ ~trade.killed =>
        /\ trade.sold # "none" /\ trade.held > 0 => trade.exit # None
        /\ trade.exit # None /\ trade.position.toExpiry = trade.position.toClose =>
             /\ trade.sold # "none"
             /\ trade.exit.at = Max({1, trade.soldAt})

(* A restart forgets the credit multiple (state_store.py:304).  What is    *)
(* left of the plan stops a position no earlier than the plan it was       *)
(* priced with, and never beyond the maximum loss.                         *)
RestartOnlyLoosens ==
    subject = "holding" =>
        /\ trade.exit # None /\ trade.exit.kind = "RISK_STOP" => trade.sold # "none"
        /\ StopThreshold(trade.position) <= 100 * trade.position.maxLoss

(* A position that outlives the session, or a kill switch, could not be    *)
(* closed: since the cutoff, or since the switch was up, no cycle had it   *)
(* quoted and its closing order filled.                                    *)
HeldOverOnlyIfUntradeable == subject = "holding" => ~trade.missed

(* Whatever is composed or generated, a short leg without cover is seen    *)
(* (validation.py:69), no family yields one, and what is admitted loses at *)
(* most its maximum loss.                                                  *)
RiskIsDefined ==
    EveryShortIsCovered /\ AdmittedLossIsBounded /\ GeneratedIsCovered /\ BrokenWingIsCapped

(* A position ends when its plan says so, in the cycle it was priced to    *)
(* end in, and else for a reason: a restart, or no market                  *)
(* (manager.py:76).                                                        *)
ExitsFollowThePlan == EnforcedAsPriced /\ RestartOnlyLoosens /\ HeldOverOnlyIfUntradeable

(* Sizing never leaves its types, nor contradicts the filter before it.    *)
SizingAgrees == TypeOK /\ BudgetAgreesWithSizing

=============================================================================
