SPECIFICATION CodeSpec
CONSTANTS
    k1 = k1
    k2 = k2
    enc = enc
    Signing <- MCSigning
    Other <- NoOther
PROPERTY RefreshesPeriodically
