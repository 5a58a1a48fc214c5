SPECIFICATION Spec
CONSTANTS
    p1 = p1  p2 = p2  c1 = c1  k1 = k1  k2 = k2
    Publishers = {p1, p2}
    Consumers = {c1}
    Closers = {k1, k2}
    Capacity = 2
SYMMETRY Symmetry
INVARIANTS
    StrandedWerePublishing
PROPERTY
    ImplementsMailboxes
CHECK_DEADLOCK FALSE
