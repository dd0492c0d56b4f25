\* Two characters, one of them the separator, reach every way a ':' inside
\* a uri can shift the split point of a key.
CONSTANTS
    Chars <- MCChars
    Methods <- MCMethods
    MaxStrLen = 2
    None = None
SPECIFICATION Spec
INVARIANT KeysCollideExactly
