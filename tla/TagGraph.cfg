\* Every graph of at most four edges over six tags, one quiet change at a time, rows
\* of the monitor in a DataStore.
SPECIFICATION Spec
CONSTANTS
    s1 = s1
    m1 = m1
    d1 = d1
    c1 = c1
    c2 = c2
    c3 = c3
    Sensors = {s1}
    Monitors = {m1}
    Persistent = {m1}
    Composites = {c1, c2, c3}
    Deriveds = {d1}
    MaxEdges = 4
    MaxQuiet = 1
SYMMETRY CompositeSymmetry
INVARIANTS CleanMeansFresh NoCompositeCycle
