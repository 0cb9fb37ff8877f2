SPECIFICATION Spec
CONSTANTS
    MAX_PATTERN_LENGTH = 4
    LowerCase <- MCLowerCase
    UnsafeTokens = {"slow"}
    Handwritten <- MCHandwritten
    ReadBefore <- MCReadBefore
    Contents <- MCBadContents
    Uploads <- MCFewUploads
    Event <- MCEvent
    Requests = {r1}
    MaxImports = 1
    MaxEdits = 1
CHECK_DEADLOCK FALSE
INVARIANT GoodRulesFire
