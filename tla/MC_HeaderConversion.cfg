\* A break after index 1 converts three entries; maps of four entries reach
\* past the bound, with malformed names and values and a case-folded pair.
CONSTANTS
    Names <- MCNames
    CanonOf <- MCCanonOf
    BadNames = {"x y"}
    Values = {"v", "w", "bad"}
    BadValues = {"bad"}
    Limit = 1
    MaxLen = 4
    NoValue = NoValue
SPECIFICATION Spec
CHECK_DEADLOCK FALSE
INVARIANT ConvertsPrefix
