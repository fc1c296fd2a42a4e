\* two threads, one user, a limit of 2 in 2 ticks, 4 requests
SPECIFICATION LimitSpec
CONSTANTS
    Threads = {t1, t2}
    Names = {u1}
    LOGIN_MAX_ATTEMPTS = 2
    LOGIN_WINDOW_SECONDS = 2
    MaxTime = 1
    MaxAttempts = 4
INVARIANT AlwaysLimited
CHECK_DEADLOCK FALSE
