\* Two runs of the agent, from a script, a request or the evaluator.
CONSTANTS
    Run = {r1, r2}
    Thread = {t1}
    MaxLlmCalls = 2
    TracerWorks <- MCBestEffort
    Main = Main
    None = None
SPECIFICATION Spec
INVARIANTS
    TypeOK
    GenerationsAreOwn
    StatusTellsTheReply
    ShownIsTheAnswer
    PassedMeansAnswered
SYMMETRY MCSymmetry
CHECK_DEADLOCK FALSE
