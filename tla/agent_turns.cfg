CONSTANTS
    Thread = {t1, t2}
    Call = {c1, c2, c3}
    a = a
    b = b
    x = x
    Output <- MCOneOutput
    Statement <- MCOneStatement
    Extract <- MCOneExtract
    MaxSqlRetries = 1
    RequireApproval = TRUE
    CacheEnabled = TRUE
    Overlap = FALSE
    None = None
SPECIFICATION Spec
INVARIANTS TypeOK RetryBudget OneRunPerApproval ReplyIsCoherent RepliesStayOnTheirThread
SYMMETRY MCSymmetry
CHECK_DEADLOCK FALSE
