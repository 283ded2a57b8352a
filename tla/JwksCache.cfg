SPECIFICATION FairSpec
CONSTANTS
    k1 = k1
    k2 = k2
    enc = enc
    Signing <- MCSigning
    Other <- MCOther
INVARIANTS TypeOK NeverWithoutKeys RefreshesInOrder
PROPERTY KeysCatchUp
