\* Three calls on two threads: questions, and decisions on whatever a checkpoint holds.
\* Each run may remember its question: up to six messages for a memory of four.
CONSTANTS
    Thread = {t1, t2}
    Call = {c1, c2, c3}
    Asked <- MCAsked
    Said <- MCSaid
    MaxHistory = 4
    PlannerLimit = 2
    InputGuard = TRUE
    OutputGuard = TRUE
    PiiBlock = TRUE
    None = None
SPECIFICATION Spec
INVARIANTS
    TypeOK
    TurnsStayInOrder
    FollowUpSeesTheLastTurn
    RememberedAsDelivered
    VerdictsAreHeeded
SYMMETRY MCSymmetry
CHECK_DEADLOCK FALSE
