\* Two handlers at a time on two wirings of up to three versions.
CONSTANTS
    Wirings = {w1, w2}
    Configs = {c1, c2}
    Handlers = {h1, h2}
    MaxVersion = 3
SPECIFICATION Spec
SYMMETRY Symmetric
INVARIANTS
    HistoryIsComplete
PROPERTY HistoryOnlyGrows
