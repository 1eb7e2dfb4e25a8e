SPECIFICATION Spec
CONSTANTS
    c1 = c1
    c2 = c2
    None = None
    Call = {c1, c2}
    Datasource <- MCDatasource
    Table <- MCTable
    Name <- MCName
    TopK = 1
    Left <- MCLeft
    Output <- MCOutput
    Tables <- MCTables
    Dialect <- MCDialect
    MaxRows <- MCMaxRows
    ToolRows <- MCToolRows
    Count <- MCCount
    Threshold = 50
    Key <- MCKey
    Ttl = 1
    Inherited <- MCInherited
    Backend = "redis"
    MaxTime = 1
SYMMETRY MCSymmetry
CHECK_DEADLOCK FALSE
INVARIANTS TypeOK SchemaIsOwn StatementsKnowTheirTables RowsAnswerTheStatement TruncationIsTold ChartsFit
PROPERTY KeepsCachePromise
