\* Three calls and one connection, which the database may keep for ever.
SPECIFICATION LocalSpec
CONSTANTS
    c1 = c1
    c2 = c2
    c3 = c3
    w1 = w1
    w2 = w2
    x1 = x1
    r1 = r1
    None = None
    Garbage = Garbage
    Calls = {c1, c2, c3}
    Workspaces = {w1, w2}
    Given = {x1}
    Requests = {r1}
    PoolSize = 1
    Shapes <- MCShapes
INVARIANTS
    PipelineTypeOK
    TagsMatch
    OutsidersLearnNothing
PROPERTIES
    RefusalsNeedNoDatabase
