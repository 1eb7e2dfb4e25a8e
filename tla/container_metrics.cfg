CONSTANTS
    Call = {c1, c2}
    Datasource = {d1, d2}
    Configured = {d1}
    Transport = {"run"}
    None = None
SPECIFICATION Spec
INVARIANT MetricsAreSafe
SYMMETRY MCSymmetry
CHECK_DEADLOCK FALSE
