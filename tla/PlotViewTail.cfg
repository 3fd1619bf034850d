\* One line on disk whose samples do not divide evenly into buckets.
SPECIFICATION Spec
CONSTANTS
    NaN = NaN
    SimdWidth = 2
    ChunkPoints = 5
    PyramidReduction = 3
    MinPoints = 5
    MemoryPoints = 15
    MaxSteps = 1
    Widths = {1}
    Datasets <- MCTailDatasets
    Thresholds <- MCThresholds
    Limits <- MCTailLimits
INVARIANT BucketsAlike
CHECK_DEADLOCK FALSE
