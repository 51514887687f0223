SPECIFICATION SetsSpec
CONSTANTS
    t1 = t1
    m1 = m1
    Pages = {p1}
    Tasks = {t1}
    Models = {m1}
    Marks = {w1}
    Pasts <- MCPasts
    None = None
    MaxVersion = 2
    MaxEdits = 1
INVARIANT
    RunsThePersistedSuite
