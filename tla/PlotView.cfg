\* Lines of 5 to 17 samples, short, in memory and on disk, with and without gaps.
SPECIFICATION Spec
CONSTANTS
    NaN = NaN
    SimdWidth = 2
    ChunkPoints = 5
    PyramidReduction = 3
    MinPoints = 5
    MemoryPoints = 15
    MaxSteps = 3
    Widths = {1, 3}
    Datasets <- MCDatasets
    Thresholds <- MCThresholds
    Limits <- MCLimits
INVARIANTS ViewFresh MarkersFresh LineHonest EnvelopeShown AlarmsRight StoreReads
CHECK_DEADLOCK FALSE
