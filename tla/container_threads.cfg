CONSTANTS
    Call = {c1, c2, c3}
    Datasource = {d1, d2, d3}
    Configured = {d1, d2}
    Transport = {"run"}
    None = None
SPECIFICATION Spec
INVARIANTS TypeOK ServesItsDatasource LateQuestionsAreFound SettledAgentServes
           MetricsAgree
SYMMETRY MCSymmetry
CHECK_DEADLOCK FALSE
