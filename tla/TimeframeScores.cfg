\* Every series of up to five bars.
SPECIFICATION Spec
CONSTANTS
    Config <- MCConfig
    Bar <- MCBar
    MaxBars = 5
    RsiBullish = 55  RsiBearish = 45
    RangeRatio <- MCRangeRatio
    SwingLookback = 2
INVARIANTS EmaIsWeightedMean IndicatorBounds MirrorSymmetric ScaleFree
CHECK_DEADLOCK FALSE
