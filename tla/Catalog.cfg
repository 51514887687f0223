SPECIFICATION CatalogSpec
CONSTANTS
    t1 = t1
    m1 = m1
    Pages = {p1, p2}
    Tasks = {t1}
    Models = {m1}
    Marks = {}
    Pasts <- MCPasts
    None = None
    MaxVersion = 3
    MaxEdits = 1
    Editors = {e1, e2}
    Bodies = {b1, b2}
    NoTask = NoTask
    MaxTaskRev = 5
    Desks = {d1, d2}
    Texts = {x, y}
    NoRubric = NoRubric
    MaxRubricRev = 4
    Families = {f1, f2, f3}
    Cards = {c1, c2}
    NoFamily = NoFamily
    MaxFamilyRev = 1
    Panels = {n1, n2}
    MaxLinks = 3
SYMMETRY CatalogSymmetry
INVARIANTS
    CatalogTypeOK
    RunsWhatIsShown
    FamiliesAreAForest
PROPERTIES
    BasedOnCurrent
    StaysAligned
    TaskIsVersionLog
    VersionsAreKept
    OnlyThePrimaryEnds
