SPECIFICATION FairLife
CONSTANTS
    u1 = u1
    u2 = u2
    e1 = e1
    e2 = e2
    b1 = b1
    b2 = b2
    r1 = r1
    r2 = r2
    Users <- TwoUsers
    Moderators <- Mod
    Entities <- OneEntity
    Bodies <- OneBody
    Requests <- TwoRequests
    MaxDepths <- One
    Notify = TRUE
    MaxComments = 2
    None = None
INVARIANT LifeOK
PROPERTIES AcceptedAreAnswered DrainEnds
