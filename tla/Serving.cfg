\* A pool of two connections under two exports, a rate that is not cached, a
\* stream or a readiness check, with one outage of the database.
SPECIFICATION FairSpec
CONSTANTS
    e1 = e1  e2 = e2  slow = slow  any = any
    Request = {e1, e2, slow, any}
    Kinds <- MCKinds
    PoolSize = 1
    MaxOverflow = 1
    MaxOutages = 1
INVARIANTS TypeOK ConnectionsComeBack WedgedOnlyByExports
PROPERTIES FailuresHaveACause EveryRequestEnds
CHECK_DEADLOCK FALSE
