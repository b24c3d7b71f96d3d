--------------------------- MODULE OrderExecution ---------------------------
(***************************************************************************)
(* src/paper_broker.py: one weekly rebalance, from the reconciliation that *)
(* admits it to the one that judges it.                                    *)
(*                                                                         *)
(* The proposals are computed from the committed account.  _execute works  *)
(* inside one transaction: sells first, then all buys scaled to the cash   *)
(* there is, each quantity brought to the exchange's grids again.  The     *)
(* transaction is a working copy of the tables; an exception or a crash    *)
(* before COMMIT drops it and frees the week's key.                         *)
(*                                                                         *)
(* The run's row is RUNNING while its execution is reconciled for the      *)
(* first time, so that its rule evidence is replayed only afterwards.      *)
(***************************************************************************)
EXTENDS Reconciliation

CONSTANTS
    Rank,         \* asset -> its place in config.assets
    Weeks,        \* number of rebalances
    Markets,      \* market evidence a snapshot may hold for an asset
    Targets,      \* target weights a signal may give, in WeightDen-ths
    WeightDen,
    Noise         \* what (quantity * price) / price may be away from the quantity

Keys == 1 .. Weeks

\* A sell price is positive, and PRICE_RANGE bounds are not inverted: the code
\* raises an exception otherwise.
MarketFit(m) ==
    /\ m.bid <= m.ask
    /\ Price(m, "SELL") > 0
    /\ m.bidDown <= m.bidUp \/ m.bidUp = 0
    /\ m.askDown <= m.askUp \/ m.askUp = 0

ASSUME MarketsAssumption ==
    Markets \subseteq Market /\ \A m \in Markets : MarketFit(m)

\* A quotient has more digits than a step, and quantity_tolerance covers the error
\* of two roundings: an ulp is below 1e-12 for quantities up to 8192.
ASSUME PrecisionAssumption ==
    /\ \A m \in Markets : m.rules.step < 2 * Digits /\ m.rules.mstep < 2 * Digits
    /\ Noise \subseteq - Tolerance .. Tolerance

ASSUME AccountAssumption ==
    /\ InitialCash \in Nat /\ Weeks \in Nat
    /\ WeightDen \in Nat \ {0}
    /\ IsFiniteSet(Assets)
    /\ Rank \in [Assets -> Nat]
    /\ \A a, b \in Assets : Rank[a] = Rank[b] => a = b
    /\ Targets \subseteq [Assets -> 0 .. WeightDen]

VARIABLES
    db,         \* the committed tables
    halted,     \* the kill switch
    damaged,    \* a stored value was changed from outside
    pc,
    week,       \* the run in progress
    market,     \* its snapshot
    target,     \* its signal
    todo,       \* assets the current loop has not come to
    equity,     \* portfolio value when the proposals are made
    requested,  \* asset -> proposed quantity, 0: no proposal
    side,       \* asset -> side of the proposal
    required,   \* buy_required
    funds,      \* the cash the buys are scaled to
    work        \* the tables inside the transaction

vars == <<db, halted, damaged, pc, week, market, target, todo, equity,
          requested, side, required, funds, work>>

outside == <<db, halted, damaged>>
run     == <<week, market, target>>

NoRun == [status |-> "NONE", evidence |-> << >>, evidenceDigest |-> << >>,
          declaredRejections |-> {}, contexts |-> {}]

Empty ==
    [cash |-> InitialCash, pos |-> [a \in Assets |-> 0],
     orders |-> {}, rejections |-> {}, decisions |-> {},
     runs |-> [k \in Keys |-> NoRun]]

Sides == {"BUY", "SELL", "NONE"}

TablesOK(t) ==
    /\ t.cash \in Int
    /\ t.pos \in [Assets -> Int]
    /\ DOMAIN t.runs = Keys
    /\ \A k \in Keys : t.runs[k].status \in
          {"NONE", "RUNNING", "EXECUTED", "KILL_SWITCH", "RECOVERED_COMMITTED"}
    /\ \A o \in t.orders : o.week \in Keys /\ o.asset \in Assets

TypeOK ==
    /\ TablesOK(db) /\ TablesOK(work)
    /\ halted \in BOOLEAN /\ damaged \in BOOLEAN
    /\ pc \in {"idle", "value", "propose", "sell", "require", "buy", "commit", "verify"}
    /\ week \in Keys \cup {0}
    /\ todo \subseteq Assets
    /\ equity \in Nat /\ required \in Nat /\ funds \in Int
    /\ requested \in [Assets -> Nat]
    /\ side \in [Assets -> Sides]

Init ==
    /\ db = Empty /\ work = Empty
    /\ halted = FALSE /\ damaged = FALSE
    /\ pc = "idle"
    /\ week = 0
    /\ market = << >> /\ target = << >>
    /\ todo = {}
    /\ equity = 0 /\ required = 0 /\ funds = 0
    /\ requested = [a \in Assets |-> 0]
    /\ side = [a \in Assets |-> "NONE"]

\* The run ends, and what it held in memory is gone.
EndRun ==
    /\ pc' = "idle"
    /\ week' = 0
    /\ market' = << >> /\ target' = << >>
    /\ todo' = {}
    /\ equity' = 0 /\ required' = 0 /\ funds' = 0
    /\ requested' = [a \in Assets |-> 0]
    /\ side' = [a \in Assets |-> "NONE"]
    /\ work' = Empty

-----------------------------------------------------------------------------
(* Loops over config.assets *)

IsNext(a) == a \in todo /\ \A b \in todo : Rank[a] <= Rank[b]

Advance(a) == todo' = todo \ {a}

After == [value |-> "propose", propose |-> "sell", sell |-> "require",
          require |-> "buy", buy |-> "commit"]

\* The loop is over and the next one begins.  The cash that the buys are scaled
\* to is the cash of this moment: it holds the proceeds of the sells.
LoopEnds ==
    /\ pc \in DOMAIN After
    /\ todo = {}
    /\ pc' = After[pc]
    /\ todo' = IF pc = "buy" THEN {} ELSE Assets
    /\ funds' = IF pc = "require" THEN work.cash ELSE funds
    /\ UNCHANGED <<outside, run, equity, requested, side, required, work>>

-----------------------------------------------------------------------------
(* Admission and proposals *)

Free(k) == db.runs[k].status = "NONE"

\* The account is active and the ledger reconciles: a snapshot and a signal are
\* at hand for the next week.
Begin(k) ==
    /\ pc = "idle"
    /\ ~halted
    /\ Free(k) /\ \A j \in 1 .. k - 1 : ~Free(j)
    /\ Reconciles(db)
    /\ market' \in [Assets -> Markets]
    /\ target' \in Targets
    /\ week' = k
    /\ pc' = "value"
    /\ todo' = Assets
    /\ equity' = db.cash
    /\ required' = 0
    /\ funds' = 0
    /\ requested' = [a \in Assets |-> 0]
    /\ side' = [a \in Assets |-> "NONE"]
    /\ work' = db
    /\ UNCHANGED outside

\* The ledger does not reconcile: the kill switch is activated.
Refuse ==
    /\ pc = "idle"
    /\ ~halted
    /\ ~Reconciles(db)
    /\ halted' = TRUE
    /\ UNCHANGED <<db, damaged, pc, run, todo, equity, requested, side, required, funds, work>>

\* equity: the cash and every position at its midpoint.
Value(a) ==
    /\ pc = "value"
    /\ IsNext(a)
    /\ equity' = equity + FeeDen * db.pos[a] * Mid(market[a])
    /\ Advance(a)
    /\ UNCHANGED <<outside, pc, run, requested, side, required, funds, work>>

\* desired - current, as a fraction with the denominator DeltaDen.
DeltaDen(a) == FeeDen * WeightDen * Mid(market[a])
DeltaNum(a) == equity * target[a] - db.pos[a] * DeltaDen(a)

Size(n) == IF n < 0 THEN - n ELSE n

\* asked: what the proposal asks for; num: the quantity that was refused, kept as
\* a notional; both over den.  off: the error of getting it back from there.
Rejection(a, s, stage, reason, asked, num, den, off) ==
    [week |-> week, asset |-> a, side |-> s, stage |-> stage, reason |-> reason,
     asked |-> asked, num |-> num, den |-> den, off |-> off]

\* The errors there may be: none for a quantity of 0, and no quantity is lost.
Errors(num) == {0} \cup {n \in Noise : num > 0 /\ num * Ulp + n > 0}

\* _reject_quantity
Rejected(t, x) == [t EXCEPT !.rejections = @ \cup {x}]

Propose(a) ==
    /\ pc = "propose"
    /\ IsNext(a)
    /\ LET num == Size(DeltaNum(a))
           s   == IF DeltaNum(a) > 0 THEN "BUY" ELSE "SELL"
           why == InvalidReason(market[a], num, DeltaDen(a))
       IN  IF num = 0
           THEN UNCHANGED <<requested, side, work>>
           ELSE IF why # "none"
           THEN /\ work' = Rejected(work, Rejection(a, s, "PROPOSAL", why, num, num, DeltaDen(a), 0))
                /\ UNCHANGED <<requested, side>>
           ELSE /\ requested' = [requested EXCEPT ![a] = OnGrids(market[a], num, DeltaDen(a))]
                /\ side' = [side EXCEPT ![a] = s]
                /\ UNCHANGED work
    /\ Advance(a)
    /\ UNCHANGED <<outside, pc, run, equity, required, funds>>

-----------------------------------------------------------------------------
(* The transaction *)

\* _record_price_range_decision names the reference there is, whether or not
\* there is a rule.
Decided(t, a) ==
    [t EXCEPT !.decisions = @ \cup
        {[week |-> week, asset |-> a, side |-> side[a],
          price |-> Price(market[a], side[a]),
          outcome |-> RangeOutcome(market[a], side[a]),
          reference |-> market[a].reference]}]

\* persist_fill: the order, the fill, both ledgers, the position and the cash.
Filled(t, a, q) ==
    LET p == Price(market[a], side[a]) IN
    [t EXCEPT !.cash = @ + CashDelta(side[a], q, p),
              !.pos[a] = @ + PositionDelta(side[a], q),
              !.orders = @ \cup
                 {[week |-> week, asset |-> a, side |-> side[a], ordered |-> q,
                   filled |-> q, price |-> p, cash |-> CashDelta(side[a], q, p),
                   position |-> PositionDelta(side[a], q)]}]

Lesser(m, n) == IF m <= n THEN m ELSE n

\* What a proposal outside its PRICE_RANGE is rejected as.
OutOfRange(a) ==
    Rejection(a, side[a], "FINAL", "EXECUTION_RULE_PRICE_RANGE_EXCEEDED",
              requested[a], requested[a], 1, 0)

\* A sell is checked against PRICE_RANGE, cut to what is held, normalised again,
\* and filled.
Sell(a) ==
    /\ pc = "sell"
    /\ IsNext(a)
    /\ IF side[a] # "SELL"
       THEN UNCHANGED work
       ELSE LET t   == Decided(work, a)
                num == Lesser(requested[a], work.pos[a])
                why == InvalidReason(market[a], num, 1)
            IN  IF RangeOutcome(market[a], "SELL") = "REJECTED"
                THEN work' = Rejected(t, OutOfRange(a))
                ELSE IF why = "none"
                THEN work' = Filled(t, a, OnGrids(market[a], num, 1))
                ELSE \E off \in Errors(num) :
                        work' = Rejected(t, Rejection(a, "SELL", "FINAL", why,
                                                      requested[a], num, 1, off))
    /\ Advance(a)
    /\ UNCHANGED <<outside, pc, run, equity, requested, side, required, funds>>

\* Mutant: a rejected buy stays in the loop.
StaysInLoop(a) == side

LeavesLoop(a) == [side EXCEPT ![a] = "NONE"]

\* The cash all buys would need; a buy outside its PRICE_RANGE is rejected here
\* and leaves the loop.
Require(a) ==
    /\ pc = "require"
    /\ IsNext(a)
    /\ IF side[a] # "BUY"
       THEN UNCHANGED <<work, required, side>>
       ELSE LET t == Decided(work, a) IN
            IF RangeOutcome(market[a], "BUY") = "REJECTED"
            THEN /\ work' = Rejected(t, OutOfRange(a))
                 /\ side' = LeavesLoop(a)
                 /\ UNCHANGED required
            ELSE /\ work' = t
                 /\ required' = required -
                       CashDelta("BUY", requested[a], Price(market[a], "BUY"))
                 /\ UNCHANGED side
    /\ Advance(a)
    /\ UNCHANGED <<outside, pc, run, equity, requested, funds>>

\* What a proposal asks for once all buys are scaled to the cash.
ScaledNum(a) == IF funds >= required THEN requested[a] ELSE requested[a] * funds
ScaledDen == IF funds >= required THEN 1 ELSE required

\* The buys of the transaction, one after the other.  A buy that rounding made
\* dearer than the cash left is rejected.
Buy(a) ==
    /\ pc = "buy"
    /\ IsNext(a)
    /\ IF side[a] # "BUY"
       THEN UNCHANGED work
       ELSE LET num == ScaledNum(a)
                q   == OnGrids(market[a], num, ScaledDen)
                why == IF InvalidReason(market[a], num, ScaledDen) # "none"
                       THEN InvalidReason(market[a], num, ScaledDen)
                       ELSE IF work.cash + CashDelta("BUY", q, Price(market[a], "BUY")) < 0
                       THEN "insufficient_cash_after_rounding"
                       ELSE "none"
            IN  IF why = "none"
                THEN work' = Filled(work, a, q)
                ELSE \E off \in Errors(num) :
                        work' = Rejected(work, Rejection(a, "BUY", "FINAL", why,
                                            requested[a] * ScaledDen, num, ScaledDen, off))
    /\ Advance(a)
    /\ UNCHANGED <<outside, pc, run, equity, requested, side, required, funds>>

\* One row of paper_execution_context for every proposal.
Contexts ==
    {[asset |-> a, spread |-> market[a].ask - market[a].bid] :
        a \in {b \in Assets : requested[b] > 0}}

\* Evidence, digests, contexts and the list of rejections go into the transaction
\* that they are about.  Negative cash is rolled back with an exception.
Commit ==
    /\ pc = "commit"
    /\ work.cash >= 0
    /\ db' = [work EXCEPT !.runs[week] =
                 [status |-> "RUNNING", evidence |-> market,
                  evidenceDigest |-> [a \in Assets |-> RuleEvidence(market[a])],
                  declaredRejections |-> Rejections(work, week),
                  contexts |-> Contexts]]
    /\ pc' = "verify"
    /\ UNCHANGED <<halted, damaged, run, todo, equity, requested, side, required, funds, work>>

\* The reconciliation after the execution decides the status of the run.
Verify ==
    /\ pc = "verify"
    /\ db' = [db EXCEPT !.runs[week].status =
                 IF Reconciles(db) THEN "EXECUTED" ELSE "KILL_SWITCH"]
    /\ halted' = ~Reconciles(db)
    /\ EndRun
    /\ UNCHANGED damaged

-----------------------------------------------------------------------------
(* Faults *)

\* The process ends.  The transaction is lost, and a committed run that was not
\* judged is recovered as such by the next start.
Crash ==
    /\ pc # "idle"
    /\ db' = IF pc = "verify"
             THEN [db EXCEPT !.runs[week].status = "RECOVERED_COMMITTED"]
             ELSE db
    /\ EndRun
    /\ UNCHANGED <<halted, damaged>>

Replace(rows, r, new) == (rows \ {r}) \cup {new}

Raised(r, f) == [r EXCEPT ![f] = @ + 1]

\* One number, or one whole row, of what the reconciliation reads is changed from
\* outside, between two runs: an account, a fill with its order and its ledgers, a
\* rejection, a decision, a rule or the reference of a run, the quote or the
\* spread of an execution context.
Damage ==
    /\ pc = "idle"
    /\ ~damaged
    /\ damaged' = TRUE
    /\ \/ db' = [db EXCEPT !.cash = @ + 1]
       \/ \E a \in Assets : db' = [db EXCEPT !.pos[a] = @ + 1]
       \/ \E o \in db.orders :
             \/ db' = [db EXCEPT !.orders = @ \ {o}]
             \/ \E f \in {"ordered", "filled", "price", "cash", "position"} :
                   db' = [db EXCEPT !.orders = Replace(@, o, Raised(o, f))]
       \/ \E x \in db.rejections :
             \/ db' = [db EXCEPT !.rejections = @ \ {x}]
             \/ db' = [db EXCEPT !.rejections =
                          Replace(@, x, [x EXCEPT !.reason = "manual"])]
             \/ \E f \in {"asked", "num"} :
                   db' = [db EXCEPT !.rejections = Replace(@, x, Raised(x, f))]
       \/ \E d \in db.decisions :
             \/ db' = [db EXCEPT !.decisions = @ \ {d}]
             \/ db' = [db EXCEPT !.decisions =
                          Replace(@, d, [d EXCEPT !.outcome = "EVIDENCE_UNAVAILABLE"])]
             \/ \E f \in {"price", "reference"} :
                   db' = [db EXCEPT !.decisions = Replace(@, d, Raised(d, f))]
       \/ \E k \in Keys :
             /\ ~Free(k)
             /\ \/ \E a \in Assets :
                      \/ db' = [db EXCEPT !.runs[k].evidence[a].rules.min = @ + 1]
                      \/ db' = [db EXCEPT !.runs[k].evidence[a].reference = @ + 1]
                \/ \E c \in db.runs[k].contexts :
                      \/ db' = [db EXCEPT !.runs[k].contexts = @ \ {c}]
                      \/ db' = [db EXCEPT !.runs[k].contexts = Replace(@, c, Raised(c, "spread"))]
                      \/ \E f \in {"bid", "ask"} :
                            db' = [db EXCEPT !.runs[k].evidence[c.asset] = Raised(@, f)]
    /\ UNCHANGED <<halted, pc, run, todo, equity, requested, side, required, funds, work>>

Next ==
    \/ \E k \in Keys : Begin(k)
    \/ Refuse
    \/ LoopEnds
    \/ \E a \in Assets : Value(a) \/ Propose(a) \/ Sell(a) \/ Require(a) \/ Buy(a)
    \/ Commit
    \/ Verify
    \/ Crash
    \/ Damage

Spec == Init /\ [][Next]_vars

-----------------------------------------------------------------------------
(* Properties *)

\* Cash and positions never go below zero, not even inside the transaction:
\* sells are cut to what is held and the sum of all scaled and rounded buys is
\* never more than the cash (paper_broker.py:1281 and 1315).
Solvent ==
    \A t \in {db, work} :
        ~damaged => t.cash >= 0 /\ \A a \in Assets : t.pos[a] >= 0

\* The account at midpoints, in the unit of cash.
Worth(t) == t.cash + FeeDen * MapThenSumSet(LAMBDA a : t.pos[a] * Mid(market[a]), Assets)

\* A rebalance creates no value: at the midpoints the proposals were made with,
\* the account inside the transaction is never worth more than the equity
\* before it, whichever of the orders are filled, rejected or scaled.
NoValueFromTrading ==
    pc \in {"sell", "require", "buy", "commit"} => Worth(work) <= equity

\* The buys, scaled together and rounded one by one, fit into the cash: the
\* rejection "insufficient_cash_after_rounding" (paper_broker.py:1306) is left to
\* the rounding of floats.
ScaledBuysFit ==
    \A x \in work.rejections :
        damaged \/ x.reason # "insufficient_cash_after_rounding"

Answers(k) == Orders(work, k) \cup {x \in Rejections(work, k) : x.stage = "FINAL"}

\* At the commit every proposal has been answered once, with an order or a final
\* rejection, and decided once; what PRICE_RANGE rejects has no order.
AnsweredOnce ==
    pc = "commit" =>
        \A a \in Assets :
            LET answers   == {r \in Answers(week) : r.asset = a}
                decisions == {d \in Decisions(work, week) : d.asset = a}
            IN  /\ Cardinality(answers) = IF requested[a] > 0 THEN 1 ELSE 0
                /\ Cardinality(decisions) = Cardinality(answers)
                /\ \A d \in decisions : d.outcome = "REJECTED" =>
                        \A r \in answers : r \in work.rejections

\* Evidence that keeps to what the reconciliation takes for granted: no limits
\* contradict each other (paper_store.py:1190), and a reference price comes with
\* a PRICE_RANGE rule (paper_store.py:1486).
Regular(markets) ==
    \A m \in markets : LimitsConsistent(m.rules) /\ (m.range \/ m.reference = 0)

\* The roundings leave a quantity in its cell of the LOT_SIZE grid: it lies far
\* enough from the cell's edges for the error of getting it back, `off', and for
\* the digits a quotient of Decimals loses.  Both are far below a step, so this
\* fails only next to a multiple of the step.
KeepsItsCell(m, x) ==
    LET cell  == x.den * m.rules.step
        place == (x.num % cell) * Ulp + x.off
    IN  0 <= place /\ 2 * Digits * place + Ulp * cell < 2 * Digits * Ulp * cell

CellsKept(t) ==
    \A x \in t.rejections :
        x.reason \in RuleReasons => KeepsItsCell(t.runs[x.week].evidence[x.asset], x)

\* The reconciliation accepts what the broker did, although it gets quantities
\* back from notionals and rounds them with an arithmetic of its own
\* (paper_store.py:970 and 1297), and although the rule evidence of a run is
\* replayed only after the run was judged (paper_broker.py:1636).  A disagreement
\* would halt the account one week after the run that caused it.
AcceptsItsOwnRuns ==
    ~damaged /\ CellsKept(db) => Reconciles(db) /\ ~halted

\* Without the condition it is refuted: where the scaled quantity of a buy is a
\* multiple of the step, the store may find it one step lower, and then another
\* limit that it misses first.
AcceptsRoundedRuns ==
    ~damaged => Reconciles(db) /\ ~halted

\* docs/execution-model.md:56: "No RANGE rule or no reference price is recorded as
\* non-enforcement" - a run in which nothing was enforced is accepted by the
\* reconciliations to come.
NonEnforcementReconciles ==
    ~damaged => \A k \in Replayed(db) : DecisionsAgree(db, k)

\* tests/test_paper_trading.py:1665 expects limits that contradict each other to
\* reject the order of their symbol: a run that did so is accepted as well.
InvalidRulesReconcile ==
    ~damaged /\ (\E x \in db.rejections : x.reason = "invalid_exchange_rules")
        => Reconciles(db)

\* What Damage changes does not pass the next reconciliation, as long as every run
\* was judged: the rule evidence of a recovered run is not replayed.  Every column
\* is found by another one: an amount by its ledger, a fill by its order and its
\* price, a row by its counterpart, evidence by its digest, a quote by its spread.
FindsDamage ==
    damaged /\ (\A k \in Keys : db.runs[k].status \in {"NONE", "EXECUTED"})
        => ~Reconciles(db)

=============================================================================
