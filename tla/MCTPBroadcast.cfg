SPECIFICATION Spec
CHECK_DEADLOCK FALSE
CONSTANTS
    r1 = r1
    r2 = r2
    r3 = r3
    f1 = f1
    f2 = f2
    None = None
    Request = {r1, r2, r3}
    Follower = {f1, f2}
    Rows = 2
    MaxTokens <- MCMaxTokens
    Refused = {r3}
INVARIANTS
    RanksAgree
    MessagesInStep
PROPERTIES
    EveryRequestEnds
    FollowersLeave
