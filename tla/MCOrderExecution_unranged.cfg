\* A symbol with a reference price and no PRICE_RANGE rule.
SPECIFICATION Spec
CONSTANTS
    BTC = BTC
    ETH = ETH
    Assets <- MCAssets
    Rank <- MCRank
    Markets <- MCUnranged
    Targets <- MCTargets
    WeightDen = 4
    InitialCash = 1980
    Weeks = 2
    Spread = 1
    Slip = 1
    FeeNum = 1
    FeeDen = 10
    Ulp = 1
    Digits = 10000
    Tolerance = 1
    Noise <- MCNoise
INVARIANT NonEnforcementReconciles
CHECK_DEADLOCK FALSE
