CONSTANTS
    Workers = {w1}
    Clients = {h1}
    FollowUps = {FALSE, TRUE}
SPECIFICATION HookSpec
INVARIANT NoSelfWait
