SPECIFICATION Spec
CONSTANTS
    Callers = {c1}
    Servers = {s1, s2}
INVARIANT NoCallWhileClosing
CHECK_DEADLOCK FALSE
