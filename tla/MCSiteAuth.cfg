CONSTANTS
    b1 = b1
    a1 = a1
    Browsers = {b1, b2}
    MaxRequests = 2
    Audiences <- MCAudiences
    Codes = {k1, k2}
    Keys = {a1, a2}
    MaxTokens = 3
    MaxPasskeys = 1
    MaxAttempts = 2
    MaxTracked = 1
    MaxSign = 2
    SessionLife = 2
    ChallengeLife = 1
    CodeLife = 1
    RecentAge = 0
    AttemptWindow = 2
    None = None
SPECIFICATION SiteSpec
INVARIANTS PasskeyLimit CodeLogsInOnce RotatedSessionIsDead
PROPERTIES CounterNeverBack LimiterLetsInAgain
CHECK_DEADLOCK FALSE
