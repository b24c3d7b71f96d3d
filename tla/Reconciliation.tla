--------------------------- MODULE Reconciliation ---------------------------
(***************************************************************************)
(* PaperStore.reconcile: does the database agree with itself?  It replays, *)
(* from the evidence stored with each run, what the broker decided, and    *)
(* sums the ledgers up.  It is written apart from the broker, against the  *)
(* tables only.                                                             *)
(*                                                                         *)
(* A database here is a record of the tables.  The evidence of a run is    *)
(* the market of each asset: its rules, reference and range are the rows   *)
(* of market rules and executionRules, its bid and ask are those of the    *)
(* execution context where the asset has a row there.  A digest is the     *)
(* contents it was taken of.                                                *)
(*                                                                         *)
(* The quantities are the broker's fractions, but not its arithmetic: the  *)
(* store gets a final quantity back from a notional, in floats, and        *)
(* divides Decimals of a limited precision where the broker has Fractions. *)
(***************************************************************************)
EXTENDS ExchangeRules, FiniteSets, FiniteSetsExt

CONSTANTS
    Assets,
    InitialCash,
    Ulp,        \* the error of a quantity num / den is counted in Ulp-ths of 1 / den
    Digits,     \* a quotient of two Decimals is rounded to the nearest Digits-th
    Tolerance   \* quantity_tolerance, in Ulp-ths of a unit

ASSUME ReplayAssumption ==
    Ulp \in Nat \ {0} /\ Digits \in Nat \ {0} /\ Tolerance \in Nat

\* An order with its fill and the two ledger rows of the fill.
Orders(db, k) == {o \in db.orders : o.week = k}
Rejections(db, k) == {x \in db.rejections : x.week = k}
Decisions(db, k) == {d \in db.decisions : d.week = k}

AssetsOf(rows) == {r.asset : r \in rows}

\* The runs whose rule evidence is replayed: those that ended as EXECUTED.
Replayed(db) == {k \in DOMAIN db.runs : db.runs[k].status = "EXECUTED"}

-----------------------------------------------------------------------------
(* The replay of one run *)

\* What the rows of market rules and of executionRules hold of a market.
RuleEvidence(m) ==
    [rules |-> m.rules, price |-> RuleReference(m), reference |-> m.reference,
     range |-> m.range, bidDown |-> m.bidDown, bidUp |-> m.bidUp,
     askDown |-> m.askDown, askUp |-> m.askUp]

\* They have the digests that the run's diagnostics recorded, and so has the list
\* of rejections, which the diagnostics repeat.
DigestsAgree(db, k) ==
    /\ db.runs[k].evidenceDigest =
         [a \in Assets |-> RuleEvidence(db.runs[k].evidence[a])]
    /\ Rejections(db, k) = db.runs[k].declaredRejections

\* No stored minimum is above its maximum.
LimitsConsistent(r) ==
    /\ Consistent(r.min, r.max)
    /\ Consistent(r.mmin, r.mmax)
    /\ Consistent(r.nmin, r.nmax)

\* Decimal division and ROUND_FLOOR: the quotient is rounded before it is cut.
ReplayedFloor(num, den, step) ==
    LET quotient == (2 * num * Digits + den * step) \div (2 * den * step)
    IN  (quotient \div Digits) * step

ReplayedLot(m, num, den) == ReplayedFloor(num, den, m.rules.step)

ReplayedGrids(m, num, den) ==
    IF m.rules.mstep > 0 THEN ReplayedFloor(ReplayedLot(m, num, den), 1, m.rules.mstep)
    ELSE ReplayedLot(m, num, den)

OnStep(q, step) == ReplayedFloor(q, 1, step) = q

\* A filled quantity satisfies every filter; no fill without a verifiable
\* reference.
FillObeysRules(m, q) ==
    LET r == m.rules
        notional == q * RuleReference(m)
    IN  /\ RuleReference(m) > 0
        /\ NotBelow(q, r.min) /\ NotBelow(q, r.mmin)
        /\ NotAbove(q, r.max) /\ NotAbove(q, r.mmax)
        /\ OnStep(q, r.step) /\ (r.mstep > 0 => OnStep(q, r.mstep))
        /\ NotBelow(notional, r.least)
        /\ NotBelow(notional, r.nmin) /\ NotAbove(notional, r.nmax)

RuleReasons == {"below_min_quantity", "above_max_quantity",
                "below_market_min_quantity", "above_market_max_quantity",
                "lot_step_mismatch", "market_lot_step_mismatch",
                "below_min_notional", "below_market_notional", "above_market_notional",
                "market_notional_reference_unverifiable"}

\* The reconciliation's own copy of the checks.
ReplayedChecks(m, num, den) ==
    LET r   == m.rules
        lot == ReplayedLot(m, num, den)
        q   == ReplayedGrids(m, num, den)
        notional == q * RuleReference(m)
    IN  << [holds |-> NotBelow(lot, r.min), reason |-> "below_min_quantity"],
           [holds |-> NotAbove(lot, r.max), reason |-> "above_max_quantity"],
           [holds |-> NotBelow(q, r.mmin),  reason |-> "below_market_min_quantity"],
           [holds |-> NotAbove(q, r.mmax),  reason |-> "above_market_max_quantity"],
           [holds |-> r.mstep > 0 => OnStep(q, r.mstep),
                                            reason |-> "market_lot_step_mismatch"],
           [holds |-> NotBelow(q, r.min),   reason |-> "below_min_quantity"],
           [holds |-> NotAbove(q, r.max),   reason |-> "above_max_quantity"],
           [holds |-> OnStep(q, r.step),    reason |-> "lot_step_mismatch"],
           [holds |-> NotBelow(notional, r.least), reason |-> "below_min_notional"],
           [holds |-> NotBelow(notional, r.nmin), reason |-> "below_market_notional"],
           [holds |-> NotAbove(notional, r.nmax), reason |-> "above_market_notional"] >>

\* Mutant: every rejection is replayed with the quantity of its proposal.
AskedNum(x) == x.asked * Ulp

\* The quantity a rejection is replayed with, as a fraction.  A final one is got
\* back as float(notional) / execution_price, which is `off' away from the
\* quantity that the broker looked at; a proposal's is stored.
ReplayedNum(x) == IF x.stage = "FINAL" THEN x.num * Ulp + x.off ELSE x.asked * Ulp
ReplayedDen(x) == x.den * Ulp

\* A rejection for a rule is the one the evidence gives, and a final quantity is
\* not above the proposal's.
RejectionExplained(m, x) ==
    x.reason \in RuleReasons =>
        /\ ReplayedNum(x) > 0
        /\ x.stage = "FINAL" => ReplayedNum(x) <= x.asked * Ulp + Tolerance * x.den
        /\ x.reason = IF RuleReference(m) = 0
                      THEN "market_notional_reference_unverifiable"
                      ELSE FirstFailure(ReplayedChecks(m, ReplayedNum(x), ReplayedDen(x)))

\* The reference a decision must name: none where nothing is enforced.
ReplayedReference(m) == IF m.range THEN m.reference ELSE 0

\* One PRICE_RANGE decision for each order and each final rejection, with an
\* execution context and with the price, the outcome and the reference that the
\* evidence gives; a rejecting one has its rejection.
DecisionsAgree(db, k) ==
    /\ AssetsOf(Decisions(db, k)) =
         AssetsOf(Orders(db, k) \cup {x \in Rejections(db, k) : x.stage = "FINAL"})
    /\ \A d \in Decisions(db, k) :
          /\ d.asset \in AssetsOf(db.runs[k].contexts)
          /\ d.price = Price(db.runs[k].evidence[d.asset], d.side)
          /\ d.outcome = RangeOutcome(db.runs[k].evidence[d.asset], d.side)
          /\ d.reference = ReplayedReference(db.runs[k].evidence[d.asset])
          /\ d.outcome = "REJECTED" =>
                \E x \in Rejections(db, k) :
                   x.asset = d.asset /\ x.reason = "EXECUTION_RULE_PRICE_RANGE_EXCEEDED"

RunReplays(db, k) ==
    /\ DigestsAgree(db, k)
    /\ \A a \in Assets : LimitsConsistent(db.runs[k].evidence[a].rules)
    /\ \A o \in Orders(db, k) : FillObeysRules(db.runs[k].evidence[o.asset], o.filled)
    /\ \A x \in Rejections(db, k) : RejectionExplained(db.runs[k].evidence[x.asset], x)
    /\ DecisionsAgree(db, k)

-----------------------------------------------------------------------------
(* The accounts and the ledgers *)

\* The spread stored with an execution context is that of its quote, and no fill
\* lacks its context, whether or not the rules of its run are replayed.
ContextsAgree(db) ==
    /\ \A k \in DOMAIN db.runs : \A c \in db.runs[k].contexts :
          LET m == db.runs[k].evidence[c.asset]
          IN  m.bid <= m.ask /\ c.spread = m.ask - m.bid
    /\ \A o \in db.orders : o.asset \in AssetsOf(db.runs[o.week].contexts)

\* Cash and positions are what their ledgers sum up to, and not negative.
AccountsAgree(db) ==
    /\ db.cash >= 0
    /\ db.cash = InitialCash + MapThenSumSet(LAMBDA o : o.cash, db.orders)
    /\ \A a \in Assets :
          /\ db.pos[a] >= 0
          /\ db.pos[a] = MapThenSumSet(LAMBDA o : o.position,
                                       {o \in db.orders : o.asset = a})

\* Mutant: the fill is not compared with its order.
FillUnrelated(db, o) ==
    LET m == db.runs[o.week].evidence[o.asset] IN
    /\ o.filled > 0
    /\ o.price = Price(m, o.side)
    /\ o.position = PositionDelta(o.side, o.ordered)
    /\ o.cash = CashDelta(o.side, o.ordered, o.price)

\* A fill, its order, its price and its two ledger rows belong together.
FillAccounted(db, o) ==
    LET m == db.runs[o.week].evidence[o.asset] IN
    /\ o.filled > 0
    /\ o.ordered = o.filled
    /\ o.price = Price(m, o.side)
    /\ o.position = PositionDelta(o.side, o.filled)
    /\ o.cash = CashDelta(o.side, o.filled, o.price)

Reconciles(db) ==
    /\ \A k \in Replayed(db) : RunReplays(db, k)
    /\ AccountsAgree(db)
    /\ ContextsAgree(db)
    /\ \A o \in db.orders : FillAccounted(db, o)

=============================================================================
