CONSTANTS
    pa = pa
    pspec = pspec
    px = px
    pinner = pinner
    py = py
    pln = pln
    pports = pports
    pn = pn
    ptags = ptags
    None = None
    Props <- MCProps
    Names <- MCProps
    Name <- MCName
    Kind <- MCKind
    Repeated <- MCRepeated
    Children <- MCChildrenNested
    LinkTo <- MCLinkTo
    RootAttrs <- MCRootAttrs
    Indices = {0, 1, 2}
    MaxCalls = 1
SPECIFICATION Spec
INVARIANT
    RepeatedPathsExact
