CONSTANTS
    t1 = t1
    t2 = t2
    b1 = b1
    Threads = {t1, t2}
    NumSlots = 3
    Slots <- MCSlots
    Buffers = {b1}
    ExitSafe = TRUE
    Overlap = TRUE
    Ample = TRUE
    Null = Null
    None = None
    Exited = Exited
SYMMETRY Symmetry
SPECIFICATION Spec
INVARIANT SlotExists
