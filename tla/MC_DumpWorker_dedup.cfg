\* qps 125 gives tick_ms 8; the 10 ms timeout exceeds the tick so pushes
\* make later ticks late by more and by less than tokio's 5 ms slack.
CONSTANTS
    k1 = k1
    k2 = k2
    j1 = j1
    j2 = j2
    j3 = j3
    NoJob = NoJob
    Keys <- MCKeys
    Jobs <- MCJobs
    KeyOf <- MCKeyOf
    QueueCap = 1
    Qps = 125
    TimeoutMs = 10
    TickSlack = 5
SPECIFICATION Spec
INVARIANT DedupSuppressesDuplicate
