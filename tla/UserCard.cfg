SPECIFICATION CardSpec
CONSTANTS
    u1 = u1
    u2 = u2
    e1 = e1
    b1 = b1
    thumb = thumb
    r1 = r1
    r2 = r2
    Users <- MCUsers
    Entities <- MCEntities
    Bodies <- MCBodies
    Emojis <- MCEmojis
    Requests <- MCRequests
    MaxReactions = 1
    MaxBirths = 2
    MaxComments = 2
    None = None
SYMMETRY Symmetry
INVARIANTS TypeOK NotifiedOncePerReaction CardHangsTogether
PROPERTY LateReactsNothing
