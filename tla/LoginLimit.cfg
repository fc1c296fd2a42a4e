\* two threads, two users, a limit of 2 in 2 ticks, 4 requests; a server without
\* requests is idle
SPECIFICATION LimitSpec
CONSTANTS
    Threads = {t1, t2}
    Names = {u1, u2}
    LOGIN_MAX_ATTEMPTS = 2
    LOGIN_WINDOW_SECONDS = 2
    MaxTime = 2
    MaxAttempts = 4
SYMMETRY Alike
INVARIANTS RefusedRightly QuietLimit
PROPERTY QuietRefusal
CHECK_DEADLOCK FALSE
