SPECIFICATION Spec
CONSTANTS
    MAX_PATTERN_LENGTH = 4
    LowerCase <- MCLowerCase
    UnsafeTokens = {"slow"}
    Handwritten <- MCHandwritten
    ReadBefore <- MCReadBefore
    Contents <- MCContents
    Uploads <- MCUploads
    Event <- MCEvent
    Requests = {r1, r2}
    MaxImports = 2
    MaxEdits = 1
CHECK_DEADLOCK FALSE
INVARIANT GoodRulesFire
INVARIANT AcceptedRulesSurvive
INVARIANT SigmaFaithful
INVARIANT NoUnsafeRegexLive
SYMMETRY RequestSymmetry
