CONSTANTS
    t1 = t1
    t2 = t2
    b1 = b1
    b2 = b2
    Threads = {t1, t2}
    NumSlots = 2
    Slots <- MCSlots
    Buffers = {b1, b2}
    ExitSafe = TRUE
    Overlap = FALSE
    Ample = FALSE
    Null = Null
    None = None
    Exited = Exited
SYMMETRY Symmetry
SPECIFICATION Spec
INVARIANTS SlotsSound CallbacksSound
PROPERTIES ObjectKept
CHECK_DEADLOCK FALSE
