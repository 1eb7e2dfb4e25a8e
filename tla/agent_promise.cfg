CONSTANTS
    Thread = {t1}
    Call = {c1, c2, c3}
    a = a
    b = b
    x = x
    Output <- MCOutput
    Statement <- MCStatement
    Extract <- MCExtract
    MaxSqlRetries = 1
    RequireApproval = TRUE
    CacheEnabled = TRUE
    Overlap = FALSE
    None = None
SPECIFICATION Spec
INVARIANTS ApprovedStatementRuns ReplyIsCoherent
PROPERTY KeepsPromise
CHECK_DEADLOCK FALSE
