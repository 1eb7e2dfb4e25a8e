CONSTANTS
    Thread = {t1}
    Call = {c1, c2}
    a = a
    b = b
    x = x
    Output <- MCOneOutput
    Statement <- MCOneStatement
    Extract <- MCOneExtract
    MaxSqlRetries = 1
    RequireApproval = TRUE
    CacheEnabled = TRUE
    Overlap = FALSE
    None = None
SPECIFICATION Spec
INVARIANT PausedReplyIsOwn
CHECK_DEADLOCK FALSE
