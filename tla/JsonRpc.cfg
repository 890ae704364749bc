SPECIFICATION FairSpec
CONSTANTS
    Calls = {c1}
    Nodes = {n1, n2}
    EndPoints = {e1, e2}
    ToHighest = TRUE
    None = None
INVARIANT AnsweredOnce
INVARIANT ChosenWasReachable
PROPERTY EveryCallAnswered
