\* qps 125 gives tick_ms 8; the 10 ms timeout exceeds the tick so pushes
\* make later ticks late by more and by less than tokio's 5 ms slack.  A
\* two-slot channel with three jobs fills up, so try_send drops and send
\* suspends, and a suspended sender is handed a permit while another job
\* is still buffered, so where it joins the line matters.
CONSTANTS
    k1 = k1
    k2 = k2
    j1 = j1
    j2 = j2
    j3 = j3
    NoJob = NoJob
    Keys <- MCKeys
    Jobs <- MCJobs
    KeyOf <- MCKeyOf
    QueueCap = 2
    Qps = 125
    TimeoutMs = 10
    TickSlack = 5
SPECIFICATION Spec
INVARIANT TypeOK
INVARIANT InflightOnlyCurrent
INVARIANT JobsConserved
PROPERTY MinGap
PROPERTY AcceptedJobFinishes
PROPERTY Refines
