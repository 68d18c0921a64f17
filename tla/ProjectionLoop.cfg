CONSTANTS
    ChangeSets = {c1, c2}
    NoCS = NoCS
    SnapIds = {s1}
    Vals = {v1}
    MaxCount = 2
    None = None
    MaxLen = 3
SPECIFICATION Spec
INVARIANTS
    TypeOK
    LoopComputesProjection
CHECK_DEADLOCK FALSE
