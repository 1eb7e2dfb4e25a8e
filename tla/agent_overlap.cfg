CONSTANTS
    Thread = {t1}
    Call = {c1, c2}
    a = a
    b = b
    x = x
    Output <- MCOneOutput
    Statement <- MCOneStatement
    Extract <- MCOneExtract
    MaxSqlRetries = 1
    RequireApproval = TRUE
    CacheEnabled = TRUE
    Overlap = TRUE
    None = None
SPECIFICATION FairSpec
INVARIANTS RetryBudget OneRunPerApproval ReplyIsCoherent
PROPERTIES CallsGetOn EveryCallReturns
CHECK_DEADLOCK FALSE
