CONSTANTS
    w1 = w1
    w2 = w2
    c1 = c1
    c2 = c2
    Writers = {w1, w2}
    Collectors = {c1, c2}
    Ops <- SafeOps
    MaxItems = 2
    MaxLives = 2
    None = None
SYMMETRY Symmetry
SPECIFICATION Spec
INVARIANTS NoUseAfterFree ItemsDelivered
PROPERTIES ReaderUndisturbed
