\* A server that groups entries by website key, as the payload and the doc
\* comment of get_cache_site describe it.
CONSTANTS
    u1 = u1
    u2 = u2
    h1 = h1
    k1 = k1
    k2 = k2
    NoEntry = NoEntry
    Urls <- MCUrls
    Hosts <- MCHosts
    HostOf <- MCHostOf
    Keys <- MCKeys
    KeyOf <- MCKeyOf
    BadUri <- MCBadUri
    ReqHeaderSets <- MCReqHeaderSets
    ResHeaderSets <- MCResHeaderSets
    MaxVer = 1
    MaxAge = 2
    ReadTimeout = 1
    PushTimeout = 1
    MaxPull = 2
    GroupByWebsiteKey = TRUE
SPECIFICATION Spec
PROPERTY PulledSiteHasPushedPages
