\* two threads, two names, two tasks, two tokens; a server with a file for its
\* database cannot be started again
SPECIFICATION Spec
CONSTANTS
    Threads = {t1, t2}
    Names = {u1, u2}
    MaxUsers = 2
    MaxTasks = 2
    MaxTokens = 2
SYMMETRY Alike
INVARIANTS OwnTasksOnly RegisteredOnce GoneForGood AcksAreSaved QuietAnswers
CHECK_DEADLOCK FALSE
