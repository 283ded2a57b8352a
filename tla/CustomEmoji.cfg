SPECIFICATION Spec
CONSTANTS
    party = party
    png = png
    gif = gif
    i1 = i1
    i2 = i2
    r1 = r1
    r2 = r2
    r3 = r3
    url1 = url1
    url2 = url2
    ann = ann
    bob = bob
    Users <- MCUsers
    Names <- MCNames
    Exts <- MCExts
    Images <- OneImage
    Bases <- MCBases
    Requests <- MCRequests
    None = None
SYMMETRY Symmetry
INVARIANTS TypeOK OnlyHazardsBreak
PROPERTY ChangesByAdmins
