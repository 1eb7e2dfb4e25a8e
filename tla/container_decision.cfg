CONSTANTS
    Call = {c1, c2, c3}
    Datasource = {d1, d2}
    Configured = {d1}
    Transport = {"run"}
    None = None
SPECIFICATION Spec
INVARIANT DecisionsFindTheirQuestion
SYMMETRY MCSymmetry
CHECK_DEADLOCK FALSE
