CONSTANTS
    pa = pa
    pspec = pspec
    px = px
    pinner = pinner
    py = py
    pln = pln
    pports = pports
    pn = pn
    ptags = ptags
    None = None
    Props <- MCKubeProps
    Names <- MCKubeNames
    Name <- MCKubeName
    Kind <- MCKubeKind
    Repeated <- MCKubeRepeated
    Children <- MCKubeChildren
    LinkTo <- MCKubeLinkTo
    RootAttrs <- MCKubeRootAttrs
    Indices = {i0, i1}
    MaxCalls = 4
SPECIFICATION Spec
INVARIANTS
    TypeOK
    ListComplete
    GroupsFollowObjects
