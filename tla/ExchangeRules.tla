---------------------------- MODULE ExchangeRules ----------------------------
(***************************************************************************)
(* The arithmetic of src/paper_broker.py: the execution price, the         *)
(* PRICE_RANGE decision, and the rounding and checking of a quantity       *)
(* against the exchange's filters.                                          *)
(*                                                                         *)
(* Arithmetic is exact.  Quantities count a smallest unit, prices are      *)
(* integers, cash counts one FeeDen-th of quantity times price, so that a  *)
(* fee is a whole amount.  Spread and slippage are amounts added to a      *)
(* price where the code multiplies it.  The quantity tolerance, 1e-12, is  *)
(* below every unit and is 0 here.  A quantity that is not on a grid is a  *)
(* fraction, written as a numerator and a denominator.                     *)
(***************************************************************************)
EXTENDS Integers

CONSTANTS
    Spread, Slip,    \* minimum_spread_rate, slippage_rate
    FeeNum, FeeDen   \* fee_rate

ASSUME CostsAssumption ==
    /\ Spread \in Nat /\ Slip \in Nat
    /\ FeeNum \in Nat /\ FeeDen \in Nat \ {0} /\ FeeNum <= FeeDen

\* LOT_SIZE (min, max, step), MARKET_LOT_SIZE (mmin, mmax, mstep), MIN_NOTIONAL
\* (least) and NOTIONAL (nmin, nmax); 0: no limit.  average: a notional limit
\* applies to market orders and is meant for an average price.
Rules == [active : BOOLEAN, min : Nat, max : Nat, step : Nat \ {0},
          mmin : Nat, mmax : Nat, mstep : Nat,
          least : Nat, nmin : Nat, nmax : Nat, average : BOOLEAN]

\* A quote, Binance's referencePrice (0: there is none) and the PRICE_RANGE rule
\* (its bounds in percent of the reference; 0: no bound).
Market == [bid : Nat \ {0}, ask : Nat \ {0}, last : Nat \ {0}, reference : Nat,
           rules : Rules, range : BOOLEAN,
           bidDown : Nat, bidUp : Nat, askDown : Nat, askUp : Nat]

-----------------------------------------------------------------------------
(* Prices *)

Mid(m) == (m.bid + m.ask) \div 2

\* _execution_terms
Price(m, side) ==
    LET adverse == IF side = "BUY" THEN Mid(m) + Spread ELSE Mid(m) - Spread
    IN  IF side = "BUY"
        THEN (IF m.ask > adverse THEN m.ask ELSE adverse) + Slip
        ELSE (IF m.bid < adverse THEN m.bid ELSE adverse) - Slip

\* What a fill does to the cash: the notional and the fee.
CashDelta(side, quantity, price) ==
    IF side = "BUY" THEN - (quantity * price * (FeeDen + FeeNum))
    ELSE quantity * price * (FeeDen - FeeNum)

PositionDelta(side, quantity) == IF side = "BUY" THEN quantity ELSE - quantity

\* evaluate_price_range_rule
RangeOutcome(m, side) ==
    LET down  == IF side = "BUY" THEN m.bidDown ELSE m.askDown
        up    == IF side = "BUY" THEN m.bidUp ELSE m.askUp
        price == 100 * Price(m, side)
    IN  IF ~m.range \/ m.reference = 0 THEN "NOT_ENFORCED"
        ELSE IF \/ down > 0 /\ price < m.reference * down
                \/ up > 0 /\ price > m.reference * up
             THEN "REJECTED" ELSE "ACCEPTED"

-----------------------------------------------------------------------------
(* Quantities *)

\* Mutant: rounds up to the step.
Ceiling(num, den, step) == ((num + den * step - 1) \div (den * step)) * step

\* floor_step on the fraction num / den.
Floor(num, den, step) == (num \div (den * step)) * step

\* After the LOT_SIZE step, and after the optional MARKET_LOT_SIZE step.
OnLotGrid(m, num, den) == Floor(num, den, m.rules.step)

OnGrids(m, num, den) ==
    IF m.rules.mstep > 0 THEN Floor(OnLotGrid(m, num, den), 1, m.rules.mstep)
    ELSE OnLotGrid(m, num, den)

Aligned(q, step) == q % step = 0
NotBelow(q, limit) == limit = 0 \/ q >= limit
NotAbove(q, limit) == limit = 0 \/ q <= limit

\* _market_rule_reference_price; 0: none.
RuleReference(m) ==
    IF m.reference > 0 THEN m.reference
    ELSE IF m.rules.average THEN 0 ELSE m.last

\* Two limits, each of which may be absent, do not contradict each other.
Consistent(low, high) == low = 0 \/ high = 0 \/ low <= high

\* The checks of _normalize_exchange_quantity in their order, each with the
\* reason given when it fails.  The limits of LOT_SIZE are looked at again after
\* the second floor.
Checks(m, num, den) ==
    LET r   == m.rules
        lot == OnLotGrid(m, num, den)
        q   == OnGrids(m, num, den)
        notional == q * RuleReference(m)
    IN  << [holds |-> num > 0,                    reason |-> "non_positive_quantity"],
           [holds |-> r.active,                   reason |-> "symbol_not_tradable"],
           [holds |-> Consistent(r.min, r.max) /\ Consistent(r.mmin, r.mmax),
                                                  reason |-> "invalid_exchange_rules"],
           [holds |-> r.average => m.reference > 0,
                          reason |-> "market_notional_reference_unverifiable"],
           [holds |-> lot > 0,                    reason |-> "non_positive_quantity"],
           [holds |-> NotBelow(lot, r.min),       reason |-> "below_min_quantity"],
           [holds |-> NotAbove(lot, r.max),       reason |-> "above_max_quantity"],
           [holds |-> NotBelow(q, r.mmin),        reason |-> "below_market_min_quantity"],
           [holds |-> NotAbove(q, r.mmax),        reason |-> "above_market_max_quantity"],
           [holds |-> r.mstep > 0 => Aligned(q, r.mstep),
                                                  reason |-> "market_lot_step_mismatch"],
           [holds |-> q > 0,                      reason |-> "non_positive_quantity"],
           [holds |-> NotBelow(q, r.min),         reason |-> "below_min_quantity"],
           [holds |-> NotAbove(q, r.max),         reason |-> "above_max_quantity"],
           [holds |-> Aligned(q, r.step),         reason |-> "lot_step_mismatch"],
           [holds |-> NotBelow(notional, r.least), reason |-> "below_min_notional"],
           [holds |-> NotBelow(notional, r.nmin), reason |-> "below_market_notional"],
           [holds |-> NotAbove(notional, r.nmax), reason |-> "above_market_notional"] >>

\* The reason of the first check that fails, or "none".
FirstFailure(checks) ==
    IF \A i \in DOMAIN checks : checks[i].holds THEN "none"
    ELSE checks[CHOOSE i \in DOMAIN checks :
                   ~checks[i].holds /\ \A j \in 1 .. i - 1 : checks[j].holds].reason

InvalidReason(m, num, den) == FirstFailure(Checks(m, num, den))

=============================================================================
