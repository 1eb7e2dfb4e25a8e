CONSTANTS
    Call = {c1, c2}
    Datasource = {d1, d2}
    Configured = {d1}
    Transport = {"run", "stream"}
    None = None
SPECIFICATION Spec
INVARIANT PoolsAreReleased
SYMMETRY MCSymmetry
CHECK_DEADLOCK FALSE
