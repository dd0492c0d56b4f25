\* Five tokens reach <html><head></head></html> with a base or text inside,
\* two heads, head-less pages and bases before and after the insertion.
\* rewrite_base_tag returns: the final state has no successor.
CONSTANTS
    MaxLen = 5
SPECIFICATION Spec
CHECK_DEADLOCK FALSE
INVARIANT TypeOK
INVARIANT AtLeastOneBase
INVARIANT NoStrayBase
