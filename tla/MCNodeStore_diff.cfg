CONSTANTS
    e1 = e1
    e2 = e2
    w1 = w1
    w2 = w2
    n1 = n1
    n2 = n2
    ChangeSets = {c1, c2}
    NoCS = NoCS
    None = None
    SnapIds <- MCEntitySnapIds
    SnapIdsFor <- MCAnyIds
    Vals = {v1, v2}
    MaxCount = 3
    NodeIds = {n1, n2}
    EntityIds = {e1, e2}
    Positions = {p0, p1}
    Origin = p0
    MaxEvents = 2
    MaxLoads = 1
    SrvVals = {v1}
SYMMETRY MCSymmetry
SPECIFICATION Spec
INVARIANT
    DiffWithinChangeSet
