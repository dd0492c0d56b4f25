------------------------- MODULE DumpWorker_proofs -------------------------
(* Proofs about DumpWorker for every value of its constants. *)
EXTENDS DumpWorker, TLAPS

(* The channel capacity and the tick period are positive. *)
LEMMA ConstFacts == /\ Cap \in Nat \ {0}
                    /\ TickMs \in Nat \ {0}
                    /\ LateCap \in Int /\ LateCap < 0
BY ConstantsAssumption DEF Cap, TickMs, LateCap

(* Accepting a job into a channel with a free slot keeps the types. *)
LEMMA AcceptType ==
    ASSUME TypeOK, NEW j \in Jobs, Len(queue) < Cap, Accept(j)
    PROVE  /\ queue' \in Seq(Jobs) /\ Len(queue') <= Cap
           /\ st' \in [Jobs -> JobStates]
           /\ dupOnAccept' \in SUBSET Jobs
<1>1. queue' \in Seq(Jobs) /\ Len(queue') <= Cap
  BY ConstFacts DEF TypeOK, Accept
<1>2. st' \in [Jobs -> JobStates]
  BY DEF TypeOK, Accept, JobStates
<1>3. dupOnAccept' \in SUBSET Jobs
  BY DEF TypeOK, Accept, NoteDup
<1>4. QED
  BY <1>1, <1>2, <1>3

(* Rejecting a job keeps the types. *)
LEMMA RejectType ==
    ASSUME TypeOK, NEW j \in Jobs, Reject(j)
    PROVE  /\ queue' = queue
           /\ st' \in [Jobs -> JobStates]
           /\ dupOnAccept' = dupOnAccept
BY DEF TypeOK, Reject, JobStates

(* Receiving the head job, with or without a hand-off to a suspended    *)
(* sender, keeps the types and the channel within its capacity.          *)
LEMMA RecvStepType ==
    ASSUME TypeOK, queue # <<>>, NEW s \in JobStates,
           RecvStep(Head(queue), s)
    PROVE  /\ queue' \in Seq(Jobs) /\ Len(queue') <= Cap
           /\ waiters' \in Seq(Jobs)
           /\ st' \in [Jobs -> JobStates]
           /\ dupOnAccept' \in SUBSET Jobs
<1> DEFINE j == Head(queue)
<1>1. j \in Jobs
  BY DEF TypeOK
<1>2. CASE waiters = <<>>
  <2>1. queue' = Tail(queue) /\ st' = [st EXCEPT ![j] = s]
        /\ UNCHANGED <<waiters, dupOnAccept>>
    BY <1>2 DEF RecvStep
  <2>2. queue' \in Seq(Jobs) /\ Len(queue') <= Cap
    BY <2>1, ConstFacts DEF TypeOK
  <2>3. QED
    BY <1>1, <2>1, <2>2 DEF TypeOK
<1>3. CASE waiters # <<>>
  <2> DEFINE w == Head(waiters)
  <2>1. /\ queue' = Append(Tail(queue), w)
        /\ waiters' = Tail(waiters)
        /\ st' = [st EXCEPT ![j] = s, ![w] = "queued"]
        /\ NoteDup(w)
    BY <1>3 DEF RecvStep
  <2>2. w \in Jobs
    BY <1>3 DEF TypeOK
  <2>3. queue' \in Seq(Jobs) /\ Len(queue') <= Cap
    BY <2>1, <2>2 DEF TypeOK
  <2>4. waiters' \in Seq(Jobs)
    BY <1>3, <2>1 DEF TypeOK
  <2>5. st' \in [Jobs -> JobStates]
    BY <1>1, <2>1, <2>2 DEF TypeOK, JobStates
  <2>6. dupOnAccept' \in SUBSET Jobs
    BY <2>1, <2>2 DEF TypeOK, NoteDup
  <2>7. QED
    BY <2>3, <2>4, <2>5, <2>6
<1>4. QED
  BY <1>2, <1>3

(* Type correctness of the worker, the channel and the timers. *)
THEOREM TypeCorrect == Spec => []TypeOK
<1> USE ConstantsAssumption, ConstFacts
<1>1. Init => TypeOK
  <2> SUFFICES ASSUME Init PROVE TypeOK
    OBVIOUS
  <2>1. inited \in BOOLEAN
    BY DEF Init
  <2>2. QED
    BY <2>1 DEF Init, TypeOK, JobStates
<1>2. TypeOK /\ [Next]_vars => TypeOK'
  <2> SUFFICES ASSUME TypeOK, [Next]_vars PROVE TypeOK'
    OBVIOUS
  \* SMT handles the Boolean conjunct badly inside the whole type: prove it apart.
  <2>0. inited' \in BOOLEAN
    BY Zenon DEF TypeOK, Next, vars, InitRemoteDumpWorker, InitWorker,
                 EnqueueBestEffort, Enqueue, TryEnqueue, Recv, Tick,
                 DumpJobReturns, DumpJobTimeout, Finish, Advance
  <2>1. CASE InitRemoteDumpWorker
    BY <2>0, <2>1 DEF InitRemoteDumpWorker, InitWorker, TypeOK
  <2>2. ASSUME NEW j \in Jobs, EnqueueBestEffort(j) PROVE TypeOK'
    <3>1. CASE Len(queue) < Cap
      <4>1. Accept(j) /\ UNCHANGED <<waiters, wpc, cur, inflight, toTick, elapsed, sinceStart>>
        BY <2>2, <3>1 DEF EnqueueBestEffort
      <4>2. QED
        BY <2>0, <3>1, <4>1, AcceptType DEF TypeOK
    <3>2. CASE ~(Len(queue) < Cap)
      <4>1. Reject(j) /\ UNCHANGED <<waiters, wpc, cur, inflight, toTick, elapsed, sinceStart>>
        BY <2>2, <3>2 DEF EnqueueBestEffort
      <4>2. QED
        BY <2>0, <4>1, RejectType DEF TypeOK
    <3>3. QED
      BY <3>1, <3>2
  <2>3. ASSUME NEW j \in Jobs, Enqueue(j) PROVE TypeOK'
    <3>1. CASE Len(queue) < Cap
      <4>1. Accept(j) /\ UNCHANGED <<waiters, wpc, cur, inflight, toTick, elapsed, sinceStart>>
        BY <2>3, <3>1 DEF Enqueue
      <4>2. QED
        BY <2>0, <3>1, <4>1, AcceptType DEF TypeOK
    <3>2. CASE ~(Len(queue) < Cap)
      <4>1. /\ st' = [st EXCEPT ![j] = "blocked"]
            /\ waiters' = Append(waiters, j)
            /\ UNCHANGED <<queue, dupOnAccept, wpc, cur, inflight, toTick, elapsed, sinceStart>>
        BY <2>3, <3>2 DEF Enqueue
      <4>2. st' \in [Jobs -> JobStates] /\ waiters' \in Seq(Jobs)
        BY <4>1 DEF TypeOK, JobStates
      <4>3. QED
        BY <2>0, <4>1, <4>2 DEF TypeOK
    <3>3. QED
      BY <3>1, <3>2
  <2>4. ASSUME NEW j \in Jobs, TryEnqueue(j) PROVE TypeOK'
    <3>1. CASE inited /\ Len(queue) < Cap
      <4>1. Accept(j) /\ UNCHANGED <<inited, waiters, wpc, cur, inflight, toTick, elapsed, sinceStart>>
        BY <2>4, <3>1 DEF TryEnqueue
      <4>2. QED
        BY <2>0, <3>1, <4>1, AcceptType DEF TypeOK
    <3>2. CASE ~(inited /\ Len(queue) < Cap)
      <4>1. Reject(j) /\ UNCHANGED <<inited, waiters, wpc, cur, inflight, toTick, elapsed, sinceStart>>
        BY <2>4, <3>2 DEF TryEnqueue
      <4>2. QED
        BY <2>0, <4>1, RejectType DEF TypeOK
    <3>3. QED
      BY <3>1, <3>2
  <2>5. CASE Recv
    <3>1. queue # <<>> /\ Head(queue) \in Jobs
      BY <2>5 DEF Recv, TypeOK
    <3>2. CASE KeyOf[Head(queue)] \in inflight
      <4>1. RecvStep(Head(queue), "deduped") /\ UNCHANGED <<wpc, cur, inflight>>
            /\ UNCHANGED <<inited, toTick, elapsed, sinceStart>>
        BY <2>5, <3>2 DEF Recv
      <4>2. QED
        BY <3>1, <4>1, RecvStepType DEF TypeOK, JobStates
    <3>3. CASE KeyOf[Head(queue)] \notin inflight
      <4>1. /\ RecvStep(Head(queue), "taken")
            /\ inflight' = inflight \cup {KeyOf[Head(queue)]}
            /\ cur' = Head(queue) /\ wpc' = "tick"
            /\ UNCHANGED <<inited, toTick, elapsed, sinceStart>>
        BY <2>5, <3>3 DEF Recv
      <4>2. KeyOf[Head(queue)] \in Keys
        BY <3>1, ConstantsAssumption
      <4>3. QED
        BY <3>1, <4>1, <4>2, RecvStepType DEF TypeOK, JobStates
    <3>4. QED
      BY <3>2, <3>3
  <2>6. CASE Tick
    BY <2>0, <2>6 DEF Tick, NextTickOffset, TypeOK
  <2>7. CASE DumpJobReturns
    BY <2>0, <2>7 DEF DumpJobReturns, Finish, TypeOK, JobStates
  <2>8. CASE DumpJobTimeout
    BY <2>0, <2>8 DEF DumpJobTimeout, Finish, TypeOK, JobStates
  <2>9. CASE Advance
    BY <2>0, <2>9 DEF Advance, TypeOK
  <2>10. CASE UNCHANGED vars
    BY <2>0, <2>10 DEF vars, TypeOK
  <2>11. QED
    BY <2>1, <2>2, <2>3, <2>4, <2>5, <2>6, <2>7, <2>8, <2>9, <2>10 DEF Next
<1>3. QED
  BY <1>1, <1>2, PTL DEF Spec
-----------------------------------------------------------------------------
(* The in-flight set is exactly the key of the held job: the dedup check  *)
(* of the worker loop never skips a job.                                  *)
THEOREM InflightInvariant == Spec => []InflightOnlyCurrent
<1>1. Init => InflightOnlyCurrent
  BY ConstantsAssumption DEF Init, InflightOnlyCurrent
<1>2. TypeOK /\ InflightOnlyCurrent /\ [Next]_vars => InflightOnlyCurrent'
  <2> SUFFICES ASSUME TypeOK, InflightOnlyCurrent, [Next]_vars
               PROVE  InflightOnlyCurrent'
    OBVIOUS
  <2>1. CASE InitRemoteDumpWorker
    BY <2>1 DEF InitRemoteDumpWorker, InflightOnlyCurrent
  <2>2. ASSUME NEW j \in Jobs,
               EnqueueBestEffort(j) \/ Enqueue(j) \/ TryEnqueue(j)
        PROVE  InflightOnlyCurrent'
    BY <2>2 DEF EnqueueBestEffort, Enqueue, TryEnqueue, InflightOnlyCurrent
  <2>3. CASE Recv
    <3>1. wpc = "recv" /\ inflight = {} /\ Head(queue) \in Jobs
      BY <2>3 DEF Recv, InflightOnlyCurrent, TypeOK
    <3>2. /\ inflight' = {KeyOf[Head(queue)]}
          /\ cur' = Head(queue)
          /\ wpc' = "tick"
      BY <2>3, <3>1 DEF Recv
    <3>3. QED
      BY <3>1, <3>2, ConstantsAssumption DEF InflightOnlyCurrent
  <2>4. CASE Tick
    BY <2>4 DEF Tick, InflightOnlyCurrent
  <2>5. CASE DumpJobReturns \/ DumpJobTimeout
    <3>1. Finish /\ wpc = "push"
      BY <2>5 DEF DumpJobReturns, DumpJobTimeout
    <3>2. inflight = {KeyOf[cur]} /\ cur # NoJob
      BY <3>1 DEF InflightOnlyCurrent
    <3>3. QED
      BY <3>1, <3>2 DEF Finish, InflightOnlyCurrent
  <2>6. CASE Advance
    BY <2>6 DEF Advance, InflightOnlyCurrent
  <2>7. CASE UNCHANGED vars
    BY <2>7 DEF vars, InflightOnlyCurrent
  <2>8. QED
    BY <2>1, <2>2, <2>3, <2>4, <2>5, <2>6, <2>7 DEF Next
<1>3. QED
  BY <1>1, <1>2, TypeCorrect, PTL DEF Spec

-----------------------------------------------------------------------------
(* GapInv is inductive: a tick leaves at least tick_ms - slack to the next *)
(* deadline, and every millisecond adds to one side what it takes from    *)
(* the other.                                                             *)
LEMMA GapInvariant == Spec => []GapInv
<1> USE ConstFacts, ConstantsAssumption
<1>1. Init => GapInv
  BY DEF Init, GapInv
<1>2. TypeOK /\ GapInv /\ [Next]_vars => GapInv'
  <2> SUFFICES ASSUME TypeOK, GapInv, [Next]_vars PROVE GapInv'
    OBVIOUS
  <2>1. CASE Tick
    BY <2>1 DEF Tick, NextTickOffset, GapInv, TypeOK, LateCap
  <2>2. CASE Advance
    BY <2>2 DEF Advance, GapInv, TypeOK, LateCap
  <2>3. CASE ~Tick /\ ~Advance
    <3>1. UNCHANGED <<toTick, sinceStart>>
      BY <2>3 DEF Next, vars, InitRemoteDumpWorker, EnqueueBestEffort, Enqueue,
                  TryEnqueue, Recv, DumpJobReturns, DumpJobTimeout, Finish
    <3>2. QED
      BY <3>1 DEF GapInv
  <2>4. QED
    BY <2>1, <2>2, <2>3
<1>3. QED
  BY <1>1, <1>2, TypeCorrect, PTL DEF Spec

(* Only Tick moves the worker from "tick" to "push". *)
LEMMA PushStartsIsTick ==
    ASSUME [Next]_vars, PushStarts PROVE Tick
BY DEF Next, vars, PushStarts, InitRemoteDumpWorker, EnqueueBestEffort, Enqueue,
       TryEnqueue, Recv, DumpJobReturns, DumpJobTimeout, Finish, Advance

(* The rate limit: no two pushes start closer than tick_ms - slack. *)
THEOREM MinGapHolds == Spec => MinGap
<1>1. TypeOK /\ GapInv /\ [Next]_vars => (PushStarts => sinceStart >= TickMs - TickSlack)
  <2> SUFFICES ASSUME TypeOK, GapInv, [Next]_vars, PushStarts
               PROVE  sinceStart >= TickMs - TickSlack
    OBVIOUS
  <2>1. toTick <= 0
    BY PushStartsIsTick DEF Tick
  <2>2. QED
    BY <2>1, ConstFacts, ConstantsAssumption DEF GapInv, TypeOK
<1>2. QED
  BY <1>1, TypeCorrect, GapInvariant, PTL DEF Spec, MinGap
=============================================================================
