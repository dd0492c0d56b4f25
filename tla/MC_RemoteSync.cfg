\* Two versions of a page let a later fetch race an earlier push or pull;
\* a max-age of two ticks against a one-tick read timeout lets an entry
\* turn stale while a read is waiting.
CONSTANTS
    u1 = u1
    u2 = u2
    h1 = h1
    k1 = k1
    k2 = k2
    NoEntry = NoEntry
    Urls <- MCUrls
    Hosts <- MCHosts
    HostOf <- MCHostOf
    Keys <- MCKeys
    KeyOf <- MCKeyOf
    BadUri <- MCBadUri
    ReqHeaderSets <- MCReqHeaderSets
    ResHeaderSets <- MCResHeaderSets
    MaxVer = 1
    MaxAge = 2
    ReadTimeout = 1
    PushTimeout = 1
    MaxPull = 2
    GroupByWebsiteKey = FALSE
SPECIFICATION Spec
INVARIANT TypeOK
INVARIANT StoreHoldsFetchedVersions
PROPERTY SeedIsolation
