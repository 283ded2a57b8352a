SPECIFICATION Spec
CONSTANTS
    u1 = u1
    u2 = u2
    e1 = e1
    e2 = e2
    b1 = b1
    b2 = b2
    r1 = r1
    r2 = r2
    Users <- TwoUsers
    Moderators <- Nobody
    Entities <- TwoEntities
    Bodies <- OneBody
    Requests <- TwoRequests
    MaxDepths <- Depths
    Notify = FALSE
    MaxComments = 3
    None = None
SYMMETRY Symmetry
INVARIANTS IsForest ReplyToIsNeighbour DepthBounded IndInv
