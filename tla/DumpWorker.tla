----------------------------- MODULE DumpWorker -----------------------------
(***************************************************************************)
(* The remote dump worker of src/src/cache/dump_remote.rs.                 *)
(*                                                                         *)
(* A process-wide OnceCell (REMOTE_DUMP_TX) holds the sender of a bounded  *)
(* tokio mpsc channel; the first enqueue or explicit init spawns a single  *)
(* worker task that receives jobs one at a time, skips a job whose cache   *)
(* key is in its in-flight set, waits for the next tick of a               *)
(* MissedTickBehavior::Delay interval, pushes the job under a timeout and  *)
(* removes the key from the in-flight set.                                 *)
(*                                                                         *)
(* Callers are the jobs themselves: each job is handed once to one of the  *)
(* three enqueue entry points.  Time advances in steps of one millisecond. *)
(***************************************************************************)
EXTENDS Integers, Sequences, FiniteSets

CONSTANTS
    Keys,        \* cache keys (DumpJob.cache_key)
    Jobs,        \* the jobs callers create, one enqueue call each
    KeyOf,       \* KeyOf[j]: the cache key of job j
    QueueCap,    \* queue_cap passed to init_inner
    Qps,         \* qps passed to init_inner
    TimeoutMs,   \* timeout_ms passed to init_inner
    TickSlack,   \* lateness (ms) below which tokio's Interval keeps its schedule
    NoJob        \* the worker holds no job

ASSUME ConstantsAssumption ==
    /\ IsFiniteSet(Jobs)
    /\ KeyOf \in [Jobs -> Keys]
    /\ QueueCap \in Nat
    /\ Qps \in Nat
    /\ TimeoutMs \in Nat
    /\ TickSlack \in Nat
    /\ NoJob \notin Jobs

(* mpsc::channel(queue_cap.max(1)) *)
Cap == IF QueueCap < 1 THEN 1 ELSE QueueCap

(* qps.max(1), then tick_ms = (1000 / qps).max(1) *)
TickMs == LET q == IF Qps < 1 THEN 1 ELSE Qps
              t == 1000 \div q
          IN  IF t < 1 THEN 1 ELSE t

(* The lowest value of toTick kept: the tick is late by more than TickSlack. *)
LateCap == -(TickSlack + 1)

JobStates == {"new", "blocked", "rejected", "queued", "taken", "deduped", "done"}

VARIABLES
    inited,      \* REMOTE_DUMP_TX is initialized (worker spawned)
    queue,       \* the jobs buffered in the channel, oldest first
    waiters,     \* jobs of callers suspended in tx.send(job).await, FIFO
    st,          \* st[j]: where job j is in its lifecycle
    wpc,         \* the worker: "recv" (rx.recv), "tick" (tick.tick), "push"
    cur,         \* the job the worker holds, or NoJob
    inflight,    \* the worker's in-flight set of cache keys
    toTick,      \* ms until the interval's next deadline (<= 0: due)
    elapsed,     \* ms since the current push started (capped at TimeoutMs)
    sinceStart,  \* ms since the previous push started (capped at TickMs)
    dupOnAccept  \* jobs that entered the channel while their key was pending

vars == <<inited, queue, waiters, st, wpc, cur, inflight, toTick, elapsed,
          sinceStart, dupOnAccept>>

-----------------------------------------------------------------------------
(* Jobs of key k that entered the channel and whose push has not ended. *)
Pending(k) == {i \in Jobs : KeyOf[i] = k /\ st[i] \in {"queued", "taken"}}

(* The history of dupOnAccept when job j enters the channel. *)
NoteDup(j) == dupOnAccept' = IF Pending(KeyOf[j]) # {}
                             THEN dupOnAccept \cup {j} ELSE dupOnAccept

(* tx.try_send(job) / tx.send(job) with a free slot: the job is buffered. *)
Accept(j) ==
    /\ queue' = Append(queue, j)
    /\ st' = [st EXCEPT ![j] = "queued"]
    /\ NoteDup(j)

(* tx.try_send(job) on a full channel, or try_enqueue before init: dropped. *)
Reject(j) ==
    /\ st' = [st EXCEPT ![j] = "rejected"]
    /\ UNCHANGED <<queue, dupOnAccept>>

(* REMOTE_DUMP_TX.get_or_init(|| init_inner(..)): init_inner has no       *)
(* suspension point, so the first caller initializes atomically.          *)
InitWorker == inited' = TRUE

Init ==
    /\ inited = FALSE
    /\ queue = <<>>
    /\ waiters = <<>>
    /\ st = [j \in Jobs |-> "new"]
    /\ wpc = "recv"
    /\ cur = NoJob
    /\ inflight = {}
    /\ toTick = 0
    /\ elapsed = 0
    /\ sinceStart = TickMs
    /\ dupOnAccept = {}

-----------------------------------------------------------------------------
(* init_remote_dump_worker / init_default_cache_worker before first use. *)
InitRemoteDumpWorker ==
    /\ ~inited
    /\ InitWorker
    /\ UNCHANGED <<queue, waiters, st, wpc, cur, inflight, toTick, elapsed,
                   sinceStart, dupOnAccept>>

(* Mutant: the free-slot test is off by one. *)
EnqueueBestEffortOffByOne(j) ==
    /\ st[j] = "new"
    /\ InitWorker
    /\ IF Len(queue) <= Cap THEN Accept(j) ELSE Reject(j)
    /\ UNCHANGED <<waiters, wpc, cur, inflight, toTick, elapsed, sinceStart>>

(* enqueue_best_effort: init on first use, then try_send; never suspends. *)
EnqueueBestEffort(j) ==
    /\ st[j] = "new"
    /\ InitWorker
    /\ IF Len(queue) < Cap THEN Accept(j) ELSE Reject(j)
    /\ UNCHANGED <<waiters, wpc, cur, inflight, toTick, elapsed, sinceStart>>

(* enqueue: init on first use, then send().await; on a full channel the   *)
(* caller joins the semaphore's FIFO of waiters.                          *)
Enqueue(j) ==
    /\ st[j] = "new"
    /\ InitWorker
    /\ IF Len(queue) < Cap
       THEN Accept(j) /\ UNCHANGED waiters
       ELSE /\ st' = [st EXCEPT ![j] = "blocked"]
            /\ waiters' = Append(waiters, j)
            /\ UNCHANGED <<queue, dupOnAccept>>
    /\ UNCHANGED <<wpc, cur, inflight, toTick, elapsed, sinceStart>>

(* try_enqueue: REMOTE_DUMP_TX.get() and try_send; drops before init. *)
TryEnqueue(j) ==
    /\ st[j] = "new"
    /\ IF inited /\ Len(queue) < Cap THEN Accept(j) ELSE Reject(j)
    /\ UNCHANGED <<inited, waiters, wpc, cur, inflight, toTick, elapsed,
                   sinceStart>>

(* Mutant: a freed permit is not handed to a suspended sender. *)
RecvStepNoHandOff(j, s) ==
    /\ queue' = Tail(queue)
    /\ st' = [st EXCEPT ![j] = s]
    /\ UNCHANGED <<waiters, dupOnAccept>>

(* Mutant: the freed permit's job is put at the front of the channel. *)
RecvStepHandOffFront(j, s) ==
    IF waiters = <<>>
    THEN /\ queue' = Tail(queue)
         /\ st' = [st EXCEPT ![j] = s]
         /\ UNCHANGED <<waiters, dupOnAccept>>
    ELSE LET w == Head(waiters) IN
         /\ queue' = <<w>> \o Tail(queue)
         /\ waiters' = Tail(waiters)
         /\ st' = [st EXCEPT ![j] = s, ![w] = "queued"]
         /\ NoteDup(w)

(* rx.recv() takes the head job, leaving it in state s.  The freed permit *)
(* goes to the first suspended sender, whose job enters the channel.      *)
RecvStep(j, s) ==
    IF waiters = <<>>
    THEN /\ queue' = Tail(queue)
         /\ st' = [st EXCEPT ![j] = s]
         /\ UNCHANGED <<waiters, dupOnAccept>>
    ELSE LET w == Head(waiters) IN
         /\ queue' = Append(Tail(queue), w)
         /\ waiters' = Tail(waiters)
         /\ st' = [st EXCEPT ![j] = s, ![w] = "queued"]
         /\ NoteDup(w)

(* while let Some(job) = rx.recv().await { if !inflight.insert(key) {     *)
(* continue; } ... }                                                      *)
Recv ==
    /\ inited
    /\ wpc = "recv"
    /\ queue # <<>>
    /\ LET j == Head(queue) IN
       IF KeyOf[j] \in inflight
       THEN /\ RecvStep(j, "deduped")
            /\ UNCHANGED <<wpc, cur, inflight>>
       ELSE /\ RecvStep(j, "taken")
            /\ inflight' = inflight \cup {KeyOf[j]}
            /\ cur' = j
            /\ wpc' = "tick"
    /\ UNCHANGED <<inited, toTick, elapsed, sinceStart>>

(* Mutant: MissedTickBehavior::Burst keeps the old schedule. *)
NextTickOffsetBurst == toTick + TickMs

(* Interval::tick under MissedTickBehavior::Delay: a tick later than the  *)
(* slack reschedules from now, otherwise from the missed deadline.        *)
NextTickOffset == IF toTick < -TickSlack THEN TickMs ELSE toTick + TickMs

(* tick.tick().await completes; the push of the held job starts. *)
Tick ==
    /\ wpc = "tick"
    /\ toTick <= 0
    /\ toTick' = NextTickOffset
    /\ wpc' = "push"
    /\ elapsed' = 0
    /\ sinceStart' = 0
    /\ UNCHANGED <<inited, queue, waiters, st, cur, inflight, dupOnAccept>>

(* Mutant: the key is not removed after the attempt. *)
FinishKeepsKey ==
    /\ UNCHANGED inflight
    /\ st' = [st EXCEPT ![cur] = "done"]
    /\ cur' = NoJob
    /\ wpc' = "recv"
    /\ UNCHANGED <<inited, queue, waiters, toTick, elapsed, sinceStart,
                   dupOnAccept>>

(* After the attempt: inflight.remove(&job.cache_key). *)
Finish ==
    /\ inflight' = inflight \ {KeyOf[cur]}
    /\ st' = [st EXCEPT ![cur] = "done"]
    /\ cur' = NoJob
    /\ wpc' = "recv"
    /\ UNCHANGED <<inited, queue, waiters, toTick, elapsed, sinceStart,
                   dupOnAccept>>

(* dump_job returns within the timeout (any outcome: it only logs). *)
DumpJobReturns ==
    /\ wpc = "push"
    /\ Finish

(* Mutant: dump_job is awaited without tokio::time::timeout. *)
DumpJobNoTimeout == FALSE

(* tokio::time::timeout elapses: the push is cancelled, a warning logged. *)
DumpJobTimeout ==
    /\ wpc = "push"
    /\ elapsed >= TimeoutMs
    /\ Finish

(* One millisecond passes for the interval and the timeout timers. *)
Advance ==
    /\ toTick' = IF inited /\ toTick > LateCap THEN toTick - 1 ELSE toTick
    /\ elapsed' = IF wpc = "push" /\ elapsed < TimeoutMs
                  THEN elapsed + 1 ELSE elapsed
    /\ sinceStart' = IF sinceStart < TickMs THEN sinceStart + 1 ELSE sinceStart
    /\ UNCHANGED <<inited, queue, waiters, st, wpc, cur, inflight, dupOnAccept>>

Next ==
    \/ InitRemoteDumpWorker
    \/ \E j \in Jobs : EnqueueBestEffort(j) \/ Enqueue(j) \/ TryEnqueue(j)
    \/ Recv
    \/ Tick
    \/ DumpJobReturns
    \/ DumpJobTimeout
    \/ Advance

(* The worker task and time are fair; callers and the remote server are   *)
(* not: a caller may never enqueue, and a POST may never be answered.     *)
Fairness ==
    /\ WF_vars(Recv)
    /\ WF_vars(Tick)
    /\ WF_vars(DumpJobTimeout)
    /\ WF_vars(Advance)

Spec == Init /\ [][Next]_vars /\ Fairness

-----------------------------------------------------------------------------
(* Every variable has the type of the code's value; the channel never     *)
(* holds more than its capacity.                                          *)
TypeOK ==
    /\ inited \in BOOLEAN
    /\ queue \in Seq(Jobs)
    /\ Len(queue) <= Cap
    /\ waiters \in Seq(Jobs)
    /\ st \in [Jobs -> JobStates]
    /\ wpc \in {"recv", "tick", "push"}
    /\ cur \in Jobs \cup {NoJob}
    /\ inflight \in SUBSET Keys
    /\ toTick \in LateCap..TickMs
    /\ elapsed \in 0..TimeoutMs
    /\ sinceStart \in 0..TickMs
    /\ dupOnAccept \in SUBSET Jobs

(* The in-flight set holds exactly the key of the job the worker is       *)
(* between recv and remove for, and is empty while it waits in recv; so   *)
(* the `continue` branch of the dedup check can never be taken.           *)
InflightOnlyCurrent ==
    /\ (wpc = "recv") <=> (cur = NoJob)
    /\ inflight = IF wpc = "recv" THEN {} ELSE {KeyOf[cur]}

(* No job is lost or duplicated between the callers, the channel and the  *)
(* worker: a job is buffered, suspended or held exactly when its state    *)
(* says so, once; and a sender is suspended only while the channel is     *)
(* full (a freed permit goes to a waiting sender).                        *)
JobsConserved ==
    /\ \A j \in Jobs :
          /\ (st[j] = "queued") <=> (\E i \in DOMAIN queue : queue[i] = j)
          /\ (st[j] = "blocked") <=> (\E i \in DOMAIN waiters : waiters[i] = j)
          /\ (st[j] = "taken") <=> (cur = j)
    /\ \A a, b \in DOMAIN queue : queue[a] = queue[b] => a = b
    /\ \A a, b \in DOMAIN waiters : waiters[a] = waiters[b] => a = b
    /\ waiters # <<>> => Len(queue) = Cap

(* A push starts when tick.tick() completes and the worker leaves "tick". *)
PushStarts == wpc = "tick" /\ wpc' = "push"

(* The strengthening of MinGap: since the previous push start, the time  *)
(* passed plus the time still to the next deadline is at least tick_ms    *)
(* minus the slack, unless the counter has reached its cap.               *)
GapInv == sinceStart = TickMs \/ sinceStart + toTick >= TickMs - TickSlack

(* Rate limit: after a stall the Delay interval never lets two pushes     *)
(* start closer than tick_ms minus tokio's lateness slack.                *)
MinGap == [][PushStarts => sinceStart >= TickMs - TickSlack]_vars

(* Spec 4.4: "a missed tick is delayed rather than fired in a burst": two *)
(* pushes never start in the same millisecond.                            *)
NoBurst == [][PushStarts => sinceStart > 0]_vars

(* Every job that a caller got into the channel, or that is suspended in  *)
(* enqueue, is eventually pushed or skipped: a hung POST cannot stall the *)
(* worker because of the timeout.                                         *)
AcceptedJobFinishes ==
    \A j \in Jobs : st[j] \in {"queued", "blocked"} ~> st[j] \in {"done", "deduped"}

(* Spec 8: two jobs of one cache key enqueued before the first completes  *)
(* give exactly one push attempt: the later one is never pushed.          *)
DedupSuppressesDuplicate ==
    \A j \in dupOnAccept : st[j] \notin {"taken", "done"}

-----------------------------------------------------------------------------
(* The refinement mapping: the worker's accepted jobs, in the order the   *)
(* abstract queue serves them, are the held job, then the channel, then   *)
(* the suspended senders; each job state maps to the abstract one.        *)
(* The job the worker holds, as a sequence of at most one job. *)
Held == IF cur = NoJob THEN <<>> ELSE <<cur>>

AbstractPending == (Held \o queue) \o waiters

AbstractState ==
    [new |-> "new", blocked |-> "accepted", queued |-> "accepted",
     taken |-> "accepted", rejected |-> "dropped", deduped |-> "done",
     done |-> "done"]

AbstractStatus == [j \in Jobs |-> AbstractState[st[j]]]

BEQ == INSTANCE BestEffortQueue WITH pending <- AbstractPending,
                                    status <- AbstractStatus

(* The worker implements the best-effort FIFO of spec 4.4: every step of  *)
(* the three enqueue paths, recv with its permit hand-off, and the push   *)
(* outcomes is an accept, a drop or a completion of the oldest accepted   *)
(* job, or leaves the abstract queue unchanged; and every accepted job is *)
(* eventually completed.                                                  *)
Refines == BEQ!Spec
=============================================================================
