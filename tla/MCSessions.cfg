\* Days scaled down; two logins or ceremonies, one change of the account, two
\* replies at a time.
CONSTANTS
    Day = 1
    Week = 2
    AndroidMin = 3
    MaxDuration = 3
    MaxNow = 4
    MaxTokens = 2
    MaxChanges = 1
    MaxReplies = 2
    None = None
SPECIFICATION Spec
INVARIANTS
    TypeOK
    AcceptedWithinLimits
    ActiveSessionAccepted
    LoggedOutStaysOut
    
