\* Two monitors on one store, fed by a pipeline or by chunks.
SPECIFICATION Spec
CONSTANTS
    MaxSamples <- MCMaxSamples
    Configs <- MCConfigs
    MaxExtras = 1
    Keys <- MCKeys
    Levels <- MCLevels
    Rules <- MCRules
    Chunks <- MCChunks
    Starts <- MCStarts
INVARIANTS SignalMatchesBatch EventsAreRuns IdsNameOneEvent SamplesArrive
CHECK_DEADLOCK FALSE
