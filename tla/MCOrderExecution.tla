-------------------------- MODULE MCOrderExecution --------------------------
(***************************************************************************)
(* Instances of OrderExecution: two assets, two rebalances.                 *)
(***************************************************************************)
EXTENDS OrderExecution

CONSTANTS BTC, ETH

MCAssets == {BTC, ETH}
MCRank == [a \in MCAssets |-> IF a = BTC THEN 1 ELSE 2]

Plain == [active |-> TRUE, min |-> 1, max |-> 0, step |-> 1,
          mmin |-> 0, mmax |-> 0, mstep |-> 0, least |-> 0, nmin |-> 0, nmax |-> 0,
          average |-> FALSE]

Quiet == [bid |-> 9, ask |-> 11, last |-> 10, reference |-> 10, rules |-> Plain,
          range |-> TRUE, bidDown |-> 50, bidUp |-> 200, askDown |-> 50, askUp |-> 200]

\* The second grid does not divide the first, limits bite before and after the
\* second floor.  Where all cash buys one asset, the scaled quantity is 15: a
\* multiple of the step of Exact, which is enough for mmin and not for nmin.
TwoGrids == [Quiet EXCEPT !.rules = [Plain EXCEPT !.step = 2, !.mstep = 3,
                                                  !.min = 4, !.max = 12]]
Exact == [Quiet EXCEPT !.rules = [Plain EXCEPT !.step = 3, !.mmin = 15, !.mmax = 18,
                                               !.nmin = 160]]

\* Prices fell, and only buys of some size are in range; rose, and only sells are,
\* up to some notional.
Fallen == [Quiet EXCEPT !.bid = 4, !.ask = 6, !.last = 5, !.askDown = 60,
                        !.rules = [Plain EXCEPT !.least = 40]]
Risen == [Quiet EXCEPT !.bid = 14, !.ask = 16, !.last = 15, !.bidUp = 150,
                       !.rules = [Plain EXCEPT !.nmax = 50]]
Unreferenced == [Quiet EXCEPT !.reference = 0, !.range = FALSE, !.rules = [Plain EXCEPT !.average = TRUE]]

\* There is a reference and no PRICE_RANGE rule; the limits of LOT_SIZE
\* contradict each other.
Unranged == [Quiet EXCEPT !.range = FALSE]
Inverted == [Quiet EXCEPT !.rules = [Plain EXCEPT !.min = 9, !.max = 5]]

MCUnranged == {Unranged}
MCInverted == {Quiet, Inverted}
MCMarkets == {Quiet, TwoGrids, Exact, Fallen, Risen, Unreferenced}

\* The hypothesis of theorem OwnRunsAccepted.
ASSUME RegularMarkets == Regular(MCMarkets)

W(b, e) == [a \in MCAssets |-> IF a = BTC THEN b ELSE e]
\* In Ulp-ths of 1 / den: the next smaller and the next larger quantity.
MCNoise == {-1, 1}
MCTargets == {W(3, 1), W(0, 4)}

=============================================================================
