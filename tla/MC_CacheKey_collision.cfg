\* The smallest instance of the collision spec 8 rules out: a uri with a
\* ":" against a shorter uri with a credential.
CONSTANTS
    Chars <- MCChars
    Methods <- MCMethods
    MaxStrLen = 2
    None = None
SPECIFICATION Spec
INVARIANT KeysInjective
