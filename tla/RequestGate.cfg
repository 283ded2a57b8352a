SPECIFICATION Spec
CONSTANTS
    site = site
    sibling = sibling
    alice = alice
    Hosts <- MCHosts
    Urls <- MCUrls
    Configs <- MCConfigs
    Users <- MCUsers
    Star = Star
    Forged = Forged
    Unreadable = Unreadable
    Basic = Basic
    None = None
INVARIANTS TypeOK CookieWritesFromSite OneIdentity RefusedForCause ListedSiteServed
