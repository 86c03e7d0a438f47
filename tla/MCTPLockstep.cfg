SPECIFICATION Spec
CHECK_DEADLOCK FALSE
CONSTANTS
    r1 = r1
    r2 = r2
    r3 = r3
    f1 = f1
    f2 = f2
    t1 = t1
    t2 = t2
    None = None
    Request = {r1, r2, r3}
    Follower = {f1, f2}
    Token = {t1, t2}
    MaxTokens <- MCMaxTokens
    Refused = {r3}
INVARIANTS
    SameForward
PROPERTIES
    FollowersLeave
    
