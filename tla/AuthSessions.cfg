\* Two registrations, one client, two processes that may restart once.
SYMMETRY Alike
SPECIFICATION Spec
CONSTANTS
    Registration = {r1, r2}
    Email = {ann}
    Client = {c1}
    Process = {p1, p2}
    Request = {q1}
    LIMIT = 2
    WINDOW = 3
    TICK = 2
    ACCESS = 2
    REFRESH = 3
    EndOfTime = 5
    MaxRestarts = 1
    MaxTokens = 3
INVARIANTS TypeOK RegisteredOnce SessionsEnd SessionsLast LimiterIsExact RetryAfterSuffices
CHECK_DEADLOCK FALSE
