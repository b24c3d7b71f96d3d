\* Two rebalances over every pair of markets: grids that do not divide each other,
\* limits on quantity and notional, price ranges, risen and fallen prices.
SPECIFICATION Spec
CONSTANTS
    BTC = BTC
    ETH = ETH
    Assets <- MCAssets
    Rank <- MCRank
    Markets <- MCMarkets
    Targets <- MCTargets
    WeightDen = 4
    InitialCash = 1980
    Weeks = 2
    Spread = 1
    Slip = 1
    FeeNum = 1
    FeeDen = 10
    Ulp = 1
    Digits = 10000
    Tolerance = 1
    Noise <- MCNoise
INVARIANT Solvent
INVARIANT AnsweredOnce
INVARIANT AcceptsItsOwnRuns
INVARIANT FindsDamage
CHECK_DEADLOCK FALSE
