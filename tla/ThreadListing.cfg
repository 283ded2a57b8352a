SPECIFICATION Spec
CONSTANTS
    u1 = u1
    e1 = e1
    e2 = e2
    b1 = b1
    Users <- MCUsers
    Entities <- TwoEntities
    Bodies <- MCBodies
    Entity = e1
    Limits <- OddLimits
    MaxComments = 4
    None = None
INVARIANTS TypeOK LiveNeverMissed NoRepeats PageHangsTogether DeletedStayHidden QuietPageExact
