----------------------- MODULE DumpWorkerQueue_proofs -----------------------
(* Proofs that the worker loses and duplicates no job (JobsConserved) and *)
(* implements the best-effort FIFO of BestEffortQueue (safety part).      *)
EXTENDS DumpWorker_proofs, SequenceTheorems

(* An element occurs in Append(s, x) iff it is x or occurs in s. *)
LEMMA AppendOccurs ==
    ASSUME NEW S, NEW s \in Seq(S), NEW x \in S, NEW k
    PROVE  (\E i \in DOMAIN Append(s, x) : Append(s, x)[i] = k)
               <=> (k = x \/ \E i \in DOMAIN s : s[i] = k)
<1>1. /\ DOMAIN Append(s, x) = 1..(Len(s) + 1)
      /\ Append(s, x)[Len(s) + 1] = x
      /\ \A i \in 1..Len(s) : Append(s, x)[i] = s[i]
      /\ DOMAIN s = 1..Len(s)
  OBVIOUS
<1>2. QED
  BY <1>1

(* Appending an element that does not occur keeps a sequence free of      *)
(* repetitions.                                                           *)
LEMMA AppendNoDup ==
    ASSUME NEW S, NEW s \in Seq(S), NEW x \in S,
           \A a, b \in DOMAIN s : s[a] = s[b] => a = b,
           \A i \in DOMAIN s : s[i] # x
    PROVE  \A a, b \in DOMAIN Append(s, x) : Append(s, x)[a] = Append(s, x)[b] => a = b
<1>1. /\ DOMAIN Append(s, x) = 1..(Len(s) + 1)
      /\ Append(s, x)[Len(s) + 1] = x
      /\ \A i \in 1..Len(s) : Append(s, x)[i] = s[i]
      /\ DOMAIN s = 1..Len(s)
  OBVIOUS
<1>2. QED
  BY <1>1

(* Without repetitions, an element occurs in the tail of a non-empty     *)
(* sequence iff it occurs in it and is not its head; the tail has no       *)
(* repetitions either.                                                     *)
LEMMA TailOccurs ==
    ASSUME NEW S, NEW s \in Seq(S), s # <<>>,
           \A a, b \in DOMAIN s : s[a] = s[b] => a = b,
           NEW k
    PROVE  /\ (\E i \in DOMAIN Tail(s) : Tail(s)[i] = k)
                 <=> (k # Head(s) /\ \E i \in DOMAIN s : s[i] = k)
           /\ \A a, b \in DOMAIN Tail(s) : Tail(s)[a] = Tail(s)[b] => a = b
<1>1. /\ Len(s) \in Nat /\ Len(s) >= 1
      /\ DOMAIN s = 1..Len(s)
      /\ DOMAIN Tail(s) = 1..(Len(s) - 1)
      /\ \A i \in 1..(Len(s) - 1) : Tail(s)[i] = s[i + 1]
      /\ Head(s) = s[1]
  OBVIOUS
<1>2. ASSUME NEW i \in DOMAIN Tail(s), Tail(s)[i] = k
      PROVE  k # Head(s) /\ \E m \in DOMAIN s : s[m] = k
  <2>1. i + 1 \in DOMAIN s /\ s[i + 1] = k /\ i + 1 # 1
    BY <1>1, <1>2
  <2>2. QED
    BY <1>1, <2>1
<1>3. ASSUME k # Head(s), NEW m \in DOMAIN s, s[m] = k
      PROVE  \E i \in DOMAIN Tail(s) : Tail(s)[i] = k
  <2>1. m # 1
    BY <1>1, <1>3
  <2>2. m - 1 \in DOMAIN Tail(s) /\ Tail(s)[m - 1] = k
    BY <1>1, <1>3, <2>1
  <2>3. QED
    BY <2>2
<1>4. \A a, b \in DOMAIN Tail(s) : Tail(s)[a] = Tail(s)[b] => a = b
  BY <1>1
<1>5. QED
  BY <1>2, <1>3, <1>4

(* Accepting a new job into a channel with a free slot keeps every job in *)
(* exactly one place.                                                     *)
LEMMA AcceptConserves ==
    ASSUME TypeOK, JobsConserved, NEW j \in Jobs, st[j] = "new",
           Len(queue) < Cap,
           queue' = Append(queue, j), st' = [st EXCEPT ![j] = "queued"],
           UNCHANGED <<waiters, cur>>
    PROVE  JobsConserved'
<1>1. waiters = <<>>
  BY DEF JobsConserved
<1>2. \A i \in DOMAIN queue : queue[i] # j
  BY DEF JobsConserved
<1>3. queue' = Append(queue, j) /\ st' = [st EXCEPT ![j] = "queued"]
  OBVIOUS
<1>4. \A k \in Jobs : (st'[k] = "queued") <=> (\E i \in DOMAIN queue' : queue'[i] = k)
  <2> SUFFICES ASSUME NEW k \in Jobs
               PROVE  (st'[k] = "queued") <=> (\E i \in DOMAIN queue' : queue'[i] = k)
    OBVIOUS
  <2>0. (\E i \in DOMAIN Append(queue, j) : Append(queue, j)[i] = k)
            <=> (k = j \/ \E i \in DOMAIN queue : queue[i] = k)
    <3>1. queue \in Seq(Jobs) /\ j \in Jobs
      BY DEF TypeOK
    <3>2. QED
      BY <3>1, AppendOccurs
  <2>1. (\E i \in DOMAIN queue' : queue'[i] = k) <=> (k = j \/ \E i \in DOMAIN queue : queue[i] = k)
    BY <1>3, <2>0
  <2>2. QED
    BY <2>1, <1>3 DEF JobsConserved, TypeOK
<1>5. \A k \in Jobs : /\ (st'[k] = "blocked") <=> (\E i \in DOMAIN waiters' : waiters'[i] = k)
                      /\ (st'[k] = "taken") <=> (cur' = k)
  BY <1>3 DEF JobsConserved, TypeOK
<1>6. \A a, b \in DOMAIN queue' : queue'[a] = queue'[b] => a = b
  <2>1. \A a, b \in DOMAIN Append(queue, j) : Append(queue, j)[a] = Append(queue, j)[b] => a = b
    BY <1>2, AppendNoDup DEF JobsConserved, TypeOK
  <2>2. QED
    BY <1>3, <2>1
<1>7. QED
  BY <1>1, <1>4, <1>5, <1>6 DEF JobsConserved

(* Refusing a new job keeps every job in exactly one place. *)
LEMMA RejectConserves ==
    ASSUME TypeOK, JobsConserved, NEW j \in Jobs, st[j] = "new",
           Reject(j), UNCHANGED <<waiters, cur>>
    PROVE  JobsConserved'
BY DEF Reject, JobsConserved, TypeOK

(* Suspending a sender on a full channel keeps every job in one place. *)
LEMMA BlockConserves ==
    ASSUME TypeOK, JobsConserved, NEW j \in Jobs, st[j] = "new",
           Len(queue) = Cap,
           st' = [st EXCEPT ![j] = "blocked"], waiters' = Append(waiters, j),
           UNCHANGED <<queue, cur>>
    PROVE  JobsConserved'
<1>1. \A i \in DOMAIN waiters : waiters[i] # j
  BY DEF JobsConserved
<1>2. \A k \in Jobs : (st'[k] = "blocked") <=> (\E i \in DOMAIN waiters' : waiters'[i] = k)
  <2> SUFFICES ASSUME NEW k \in Jobs
               PROVE  (st'[k] = "blocked") <=> (\E i \in DOMAIN waiters' : waiters'[i] = k)
    OBVIOUS
  <2>0. (\E i \in DOMAIN Append(waiters, j) : Append(waiters, j)[i] = k)
            <=> (k = j \/ \E i \in DOMAIN waiters : waiters[i] = k)
    <3>1. waiters \in Seq(Jobs) /\ j \in Jobs
      BY DEF TypeOK
    <3>2. QED
      BY <3>1, AppendOccurs
  <2>1. (\E i \in DOMAIN waiters' : waiters'[i] = k) <=> (k = j \/ \E i \in DOMAIN waiters : waiters[i] = k)
    BY <2>0
  <2>2. QED
    BY <2>1 DEF JobsConserved, TypeOK
<1>3. \A a, b \in DOMAIN waiters' : waiters'[a] = waiters'[b] => a = b
  <2>1. \A a, b \in DOMAIN Append(waiters, j) : Append(waiters, j)[a] = Append(waiters, j)[b] => a = b
    BY <1>1, AppendNoDup DEF JobsConserved, TypeOK
  <2>2. QED
    BY <2>1
<1>4. QED
  BY <1>2, <1>3 DEF JobsConserved, TypeOK

(* The worker takes the head job from a channel with no suspended sender. *)
LEMMA RecvAloneConserves ==
    ASSUME TypeOK, JobsConserved, cur = NoJob, queue # <<>>, waiters = <<>>,
           queue' = Tail(queue), st' = [st EXCEPT ![Head(queue)] = "taken"],
           cur' = Head(queue), waiters' = waiters
    PROVE  JobsConserved'
<1> DEFINE j == Head(queue)
<1>1. queue \in Seq(Jobs) /\ j \in Jobs /\ st[j] = "queued" /\ NoJob \notin Jobs
  BY ConstantsAssumption DEF TypeOK, JobsConserved
<1>2. \A a, b \in DOMAIN queue : queue[a] = queue[b] => a = b
  BY DEF JobsConserved
<1>3. ASSUME NEW k \in Jobs
      PROVE  (\E i \in DOMAIN queue' : queue'[i] = k)
                 <=> (k # j /\ \E i \in DOMAIN queue : queue[i] = k)
  <2>1. (\E i \in DOMAIN Tail(queue) : Tail(queue)[i] = k)
            <=> (k # j /\ \E i \in DOMAIN queue : queue[i] = k)
    BY <1>1, <1>2, TailOccurs
  <2>2. QED
    BY <2>1
<1>4. \A a, b \in DOMAIN queue' : queue'[a] = queue'[b] => a = b
  <2>1. \A a, b \in DOMAIN Tail(queue) : Tail(queue)[a] = Tail(queue)[b] => a = b
    BY <1>1, <1>2, TailOccurs
  <2>2. QED
    BY <2>1
<1>5. \A k \in Jobs : st[k] # "taken" /\ st[k] # "blocked"
  BY <1>1 DEF JobsConserved
<1>6. QED
  BY <1>1, <1>3, <1>4, <1>5 DEF JobsConserved, TypeOK

(* The worker takes the head job and the freed permit hands the first    *)
(* suspended sender's job to the back of the channel.                    *)
LEMMA RecvHandOffConserves ==
    ASSUME TypeOK, JobsConserved, cur = NoJob, queue # <<>>, waiters # <<>>,
           queue' = Append(Tail(queue), Head(waiters)),
           waiters' = Tail(waiters),
           st' = [st EXCEPT ![Head(queue)] = "taken", ![Head(waiters)] = "queued"],
           cur' = Head(queue)
    PROVE  JobsConserved'
<1> DEFINE j == Head(queue)
           w == Head(waiters)
<1>1. /\ queue \in Seq(Jobs) /\ waiters \in Seq(Jobs)
      /\ j \in Jobs /\ w \in Jobs /\ NoJob \notin Jobs
      /\ st[j] = "queued" /\ st[w] = "blocked"
  BY ConstantsAssumption DEF TypeOK, JobsConserved
<1>2. /\ \A a, b \in DOMAIN queue : queue[a] = queue[b] => a = b
      /\ \A a, b \in DOMAIN waiters : waiters[a] = waiters[b] => a = b
  BY DEF JobsConserved
<1>3. Tail(queue) \in Seq(Jobs) /\ Len(queue') = Len(queue)
  BY <1>1
<1>4. ASSUME NEW k \in Jobs
      PROVE  /\ (\E i \in DOMAIN Tail(queue) : Tail(queue)[i] = k)
                   <=> (k # j /\ \E i \in DOMAIN queue : queue[i] = k)
             /\ (\E i \in DOMAIN waiters' : waiters'[i] = k)
                   <=> (k # w /\ \E i \in DOMAIN waiters : waiters[i] = k)
  <2>1. (\E i \in DOMAIN Tail(queue) : Tail(queue)[i] = k)
            <=> (k # j /\ \E i \in DOMAIN queue : queue[i] = k)
    BY <1>1, <1>2, TailOccurs
  <2>2. (\E i \in DOMAIN Tail(waiters) : Tail(waiters)[i] = k)
            <=> (k # w /\ \E i \in DOMAIN waiters : waiters[i] = k)
    BY <1>1, <1>2, TailOccurs
  <2>3. QED
    BY <2>1, <2>2
<1>5. ASSUME NEW k \in Jobs
      PROVE  (\E i \in DOMAIN Append(Tail(queue), w) : Append(Tail(queue), w)[i] = k)
                 <=> (k = w \/ \E i \in DOMAIN Tail(queue) : Tail(queue)[i] = k)
  BY <1>1, <1>3, AppendOccurs
<1>6. \A i \in DOMAIN Tail(queue) : Tail(queue)[i] # w
  BY <1>1, <1>4 DEF JobsConserved
<1>7. \A a, b \in DOMAIN Append(Tail(queue), w) :
          Append(Tail(queue), w)[a] = Append(Tail(queue), w)[b] => a = b
  <2>1. \A a, b \in DOMAIN Tail(queue) : Tail(queue)[a] = Tail(queue)[b] => a = b
    BY <1>1, <1>2, TailOccurs
  <2>2. QED
    BY <1>1, <1>3, <1>6, <2>1, AppendNoDup
<1>8. \A a, b \in DOMAIN waiters' : waiters'[a] = waiters'[b] => a = b
  <2>1. \A a, b \in DOMAIN Tail(waiters) : Tail(waiters)[a] = Tail(waiters)[b] => a = b
    BY <1>1, <1>2, TailOccurs
  <2>2. QED
    BY <2>1
<1>9. \A k \in Jobs : st[k] # "taken"
  BY <1>1 DEF JobsConserved
<1>10. Len(queue) = Cap
  BY DEF JobsConserved
<1>11. \A k \in Jobs :
          /\ (st'[k] = "queued") <=> (\E i \in DOMAIN queue' : queue'[i] = k)
          /\ (st'[k] = "blocked") <=> (\E i \in DOMAIN waiters' : waiters'[i] = k)
          /\ (st'[k] = "taken") <=> (cur' = k)
  <2> SUFFICES ASSUME NEW k \in Jobs
               PROVE  /\ (st'[k] = "queued") <=> (\E i \in DOMAIN queue' : queue'[i] = k)
                      /\ (st'[k] = "blocked") <=> (\E i \in DOMAIN waiters' : waiters'[i] = k)
                      /\ (st'[k] = "taken") <=> (cur' = k)
    OBVIOUS
  <2>1. /\ (\E i \in DOMAIN queue' : queue'[i] = k)
              <=> (k = w \/ (k # j /\ \E i \in DOMAIN queue : queue[i] = k))
        /\ (\E i \in DOMAIN waiters' : waiters'[i] = k)
              <=> (k # w /\ \E i \in DOMAIN waiters : waiters[i] = k)
    BY <1>4, <1>5
  <2>2. /\ (st[k] = "queued") <=> (\E i \in DOMAIN queue : queue[i] = k)
        /\ (st[k] = "blocked") <=> (\E i \in DOMAIN waiters : waiters[i] = k)
        /\ st[k] # "taken"
    BY <1>9 DEF JobsConserved
  <2>3. j # w
    BY <1>1
  <2>4. CASE k = j
    BY <2>1, <2>2, <2>3, <2>4, <1>1 DEF TypeOK
  <2>5. CASE k = w
    BY <2>1, <2>2, <2>3, <2>5, <1>1 DEF TypeOK
  <2>6. CASE k # j /\ k # w
    <3>1. st'[k] = st[k] /\ cur' # k
      BY <2>6, <1>1 DEF TypeOK
    <3>2. QED
      BY <2>1, <2>2, <2>6, <3>1
  <2>7. QED
    BY <2>4, <2>5, <2>6
<1>12. QED
  BY <1>3, <1>7, <1>8, <1>10, <1>11 DEF JobsConserved

(* The push attempt ends: the held job is done and the worker holds none. *)
LEMMA FinishConserves ==
    ASSUME TypeOK, JobsConserved, cur # NoJob,
           st' = [st EXCEPT ![cur] = "done"], cur' = NoJob,
           UNCHANGED <<queue, waiters>>
    PROVE  JobsConserved'
<1>1. cur \in Jobs /\ st[cur] = "taken" /\ NoJob \notin Jobs
  BY ConstantsAssumption DEF TypeOK, JobsConserved
<1>2. QED
  BY <1>1 DEF JobsConserved, TypeOK
-----------------------------------------------------------------------------
(* No job is lost or duplicated between the callers, the channel and the *)
(* worker, and a sender waits only on a full channel: JobsConserved holds *)
(* for every capacity, job set and key assignment.                       *)
THEOREM QueueConserved == Spec => []JobsConserved
<1>1. Init => JobsConserved
  BY ConstantsAssumption DEF Init, JobsConserved
<1>2. TypeOK /\ InflightOnlyCurrent /\ JobsConserved /\ [Next]_vars => JobsConserved'
  <2> SUFFICES ASSUME TypeOK, InflightOnlyCurrent, JobsConserved, [Next]_vars
               PROVE  JobsConserved'
    OBVIOUS
  <2>1. CASE InitRemoteDumpWorker
    BY <2>1 DEF InitRemoteDumpWorker, JobsConserved
  <2>2. ASSUME NEW j \in Jobs, EnqueueBestEffort(j) PROVE JobsConserved'
    <3>1. st[j] = "new" /\ UNCHANGED <<waiters, cur>>
      BY <2>2 DEF EnqueueBestEffort
    <3>2. CASE Len(queue) < Cap
      <4>1. queue' = Append(queue, j) /\ st' = [st EXCEPT ![j] = "queued"]
        BY <2>2, <3>2 DEF EnqueueBestEffort, Accept
      <4>2. QED
        BY <3>1, <3>2, <4>1, AcceptConserves
    <3>3. CASE ~(Len(queue) < Cap)
      BY <2>2, <3>1, <3>3, RejectConserves DEF EnqueueBestEffort
    <3>4. QED
      BY <3>2, <3>3
  <2>3. ASSUME NEW j \in Jobs, Enqueue(j) PROVE JobsConserved'
    <3>1. st[j] = "new" /\ UNCHANGED cur
      BY <2>3 DEF Enqueue
    <3>2. CASE Len(queue) < Cap
      <4>1. queue' = Append(queue, j) /\ st' = [st EXCEPT ![j] = "queued"]
            /\ UNCHANGED waiters
        BY <2>3, <3>2 DEF Enqueue, Accept
      <4>2. QED
        BY <3>1, <3>2, <4>1, AcceptConserves
    <3>3. CASE ~(Len(queue) < Cap)
      <4>1. /\ st' = [st EXCEPT ![j] = "blocked"]
            /\ waiters' = Append(waiters, j)
            /\ UNCHANGED queue
        BY <2>3, <3>3 DEF Enqueue
      <4>2. Len(queue) = Cap
        BY <3>3, ConstFacts DEF TypeOK
      <4>3. QED
        BY <3>1, <4>1, <4>2, BlockConserves
    <3>4. QED
      BY <3>2, <3>3
  <2>4. ASSUME NEW j \in Jobs, TryEnqueue(j) PROVE JobsConserved'
    <3>1. st[j] = "new" /\ UNCHANGED <<waiters, cur>>
      BY <2>4 DEF TryEnqueue
    <3>2. CASE inited /\ Len(queue) < Cap
      <4>1. queue' = Append(queue, j) /\ st' = [st EXCEPT ![j] = "queued"]
        BY <2>4, <3>2 DEF TryEnqueue, Accept
      <4>2. QED
        BY <3>1, <3>2, <4>1, AcceptConserves
    <3>3. CASE ~(inited /\ Len(queue) < Cap)
      BY <2>4, <3>1, <3>3, RejectConserves DEF TryEnqueue
    <3>4. QED
      BY <3>2, <3>3
  <2>5. CASE Recv
    <3>1. wpc = "recv" /\ queue # <<>> /\ cur = NoJob /\ inflight = {}
      BY <2>5 DEF Recv, InflightOnlyCurrent
    <3>2. RecvStep(Head(queue), "taken") /\ cur' = Head(queue)
      BY <2>5, <3>1 DEF Recv
    <3>3. CASE waiters = <<>>
      <4>1. queue' = Tail(queue) /\ st' = [st EXCEPT ![Head(queue)] = "taken"]
            /\ waiters' = waiters
        BY <3>2, <3>3 DEF RecvStep
      <4>2. QED
        BY <3>1, <3>2, <3>3, <4>1, RecvAloneConserves
    <3>4. CASE waiters # <<>>
      <4>1. /\ queue' = Append(Tail(queue), Head(waiters))
            /\ waiters' = Tail(waiters)
            /\ st' = [st EXCEPT ![Head(queue)] = "taken", ![Head(waiters)] = "queued"]
        BY <3>2, <3>4 DEF RecvStep
      <4>2. QED
        BY <3>1, <3>2, <3>4, <4>1, RecvHandOffConserves
    <3>5. QED
      BY <3>3, <3>4
  <2>6. CASE DumpJobReturns \/ DumpJobTimeout
    <3>1. Finish /\ wpc = "push"
      BY <2>6 DEF DumpJobReturns, DumpJobTimeout
    <3>2. cur # NoJob
      BY <3>1 DEF InflightOnlyCurrent
    <3>3. st' = [st EXCEPT ![cur] = "done"] /\ cur' = NoJob /\ UNCHANGED <<queue, waiters>>
      BY <3>1 DEF Finish
    <3>4. QED
      BY <3>2, <3>3, FinishConserves
  <2>7. CASE Tick \/ Advance \/ UNCHANGED vars
    <3>1. UNCHANGED <<queue, waiters, st, cur>>
      BY <2>7 DEF Tick, Advance, vars
    <3>2. QED
      BY <3>1 DEF JobsConserved
  <2>8. QED
    BY <2>1, <2>2, <2>3, <2>4, <2>5, <2>6, <2>7 DEF Next
<1>3. QED
  BY <1>1, <1>2, TypeCorrect, InflightInvariant, PTL DEF Spec
-----------------------------------------------------------------------------
(* Sequence facts for the refinement mapping.                             *)

(* Appending after a concatenation appends to its second part. *)
LEMMA ConcatAppend ==
    ASSUME NEW S, NEW a \in Seq(S), NEW b \in Seq(S), NEW x \in S
    PROVE  a \o Append(b, x) = Append(a \o b, x)
<1>1. Append(b, x) = b \o <<x>> /\ Append(a \o b, x) = (a \o b) \o <<x>>
  BY AppendIsConcat, ConcatProperties
<1>2. <<x>> \in Seq(S)
  OBVIOUS
<1>3. (a \o b) \o <<x>> = a \o (b \o <<x>>)
  BY <1>2, ConcatAssociative
<1>4. QED
  BY <1>1, <1>3

(* A non-empty sequence is its head followed by its tail. *)
LEMMA ConsHeadTail ==
    ASSUME NEW S, NEW s \in Seq(S), s # <<>>
    PROVE  <<Head(s)>> \o Tail(s) = s
<1>1. /\ Len(s) >= 1
      /\ Tail(s) \in Seq(S)
      /\ Len(Tail(s)) = Len(s) - 1
      /\ \A i \in 1..Len(Tail(s)) : Tail(s)[i] = s[i + 1]
  BY HeadTailProperties, EmptySeq
<1>2. QED
  BY <1>1

(* The head and tail of a sequence that starts with x. *)
LEMMA HeadTailCons ==
    ASSUME NEW S, NEW x \in S, NEW a \in Seq(S), NEW b \in Seq(S)
    PROVE  /\ (<<x>> \o a) \o b # <<>>
           /\ Head((<<x>> \o a) \o b) = x
           /\ Tail((<<x>> \o a) \o b) = a \o b
BY ConcatProperties

(* Moving the first waiter to the back of the channel while the head of   *)
(* the channel is taken keeps the order of channel-then-waiters.          *)
LEMMA HandOffOrder ==
    ASSUME NEW S, NEW q \in Seq(S), NEW w \in Seq(S), q # <<>>, w # <<>>
    PROVE  (<<Head(q)>> \o Append(Tail(q), Head(w))) \o Tail(w) = q \o w
<1>1. Tail(q) \in Seq(S) /\ Tail(w) \in Seq(S) /\ Head(q) \in S /\ Head(w) \in S
  BY HeadTailProperties
<1>2. <<Head(q)>> \o Append(Tail(q), Head(w)) = Append(q, Head(w))
  <2>1. <<Head(q)>> \in Seq(S)
    BY <1>1
  <2>2. <<Head(q)>> \o Append(Tail(q), Head(w)) = Append(<<Head(q)>> \o Tail(q), Head(w))
    BY <1>1, <2>1, ConcatAppend
  <2>3. QED
    BY <2>2, ConsHeadTail
<1>3. Append(q, Head(w)) \o Tail(w) = q \o (<<Head(w)>> \o Tail(w))
  <2>1. Append(q, Head(w)) = q \o <<Head(w)>>
    BY <1>1, AppendIsConcat
  <2>2. <<Head(w)>> \in Seq(S)
    BY <1>1
  <2>3. QED
    BY <1>1, <2>1, <2>2, ConcatAssociative
<1>4. QED
  BY <1>2, <1>3, ConsHeadTail

-----------------------------------------------------------------------------
(* The refinement mapping, one step of the worker at a time.              *)

(* Setting one job's state sets its abstract status to the image. *)
LEMMA StatusExcept ==
    ASSUME st \in [Jobs -> JobStates], NEW j \in Jobs, NEW s \in JobStates,
           st' = [st EXCEPT ![j] = s]
    PROVE  AbstractStatus' = [AbstractStatus EXCEPT ![j] = AbstractState[s]]
BY DEF AbstractStatus

(* The held job is a sequence of jobs. *)
LEMMA HeldType ==
    ASSUME TypeOK PROVE Held \in Seq(Jobs)
BY DEF TypeOK, Held

(* An enqueue into a free slot accepts the job at the abstract level. *)
LEMMA RefAccept ==
    ASSUME TypeOK, JobsConserved, NEW j \in Jobs, st[j] = "new",
           Len(queue) < Cap, queue' = Append(queue, j),
           st' = [st EXCEPT ![j] = "queued"], UNCHANGED <<waiters, cur>>
    PROVE  BEQ!Accept(j)
<1>1. waiters = <<>>
  BY DEF JobsConserved
<1>2. Held \in Seq(Jobs) /\ Held' = Held /\ queue \in Seq(Jobs)
  BY HeldType DEF TypeOK, Held
<1>3. Held \o queue \in Seq(Jobs) /\ Held \o Append(queue, j) \in Seq(Jobs)
  BY <1>2, ConcatProperties, AppendProperties
<1>4. AbstractPending = Held \o queue
  BY <1>1, <1>3, ConcatEmptySeq DEF AbstractPending
<1>5. AbstractPending' = Held \o Append(queue, j)
  BY <1>1, <1>2, <1>3, ConcatEmptySeq DEF AbstractPending
<1>6. Held \o Append(queue, j) = Append(Held \o queue, j)
  BY <1>2, ConcatAppend
<1>7. AbstractStatus[j] = "new"
  BY DEF AbstractStatus, AbstractState
<1>8. AbstractStatus' = [AbstractStatus EXCEPT ![j] = "accepted"]
  <2>1. AbstractStatus' = [AbstractStatus EXCEPT ![j] = AbstractState["queued"]]
    BY StatusExcept DEF TypeOK, JobStates
  <2>2. QED
    BY <2>1 DEF AbstractState
<1>9. QED
  BY <1>4, <1>5, <1>6, <1>7, <1>8 DEF BEQ!Accept

(* A sender suspended on a full channel is accepted at the abstract level, *)
(* behind every job in the channel.                                        *)
LEMMA RefBlock ==
    ASSUME TypeOK, NEW j \in Jobs, st[j] = "new",
           st' = [st EXCEPT ![j] = "blocked"], waiters' = Append(waiters, j),
           UNCHANGED <<queue, cur>>
    PROVE  BEQ!Accept(j)
<1>1. Held \in Seq(Jobs) /\ Held' = Held /\ queue \in Seq(Jobs) /\ waiters \in Seq(Jobs)
  BY HeldType DEF TypeOK, Held
<1>2. Held \o queue \in Seq(Jobs)
  BY <1>1, ConcatProperties
<1>3. (Held \o queue) \o Append(waiters, j) = Append((Held \o queue) \o waiters, j)
  BY <1>1, <1>2, ConcatAppend
<1>4. AbstractPending' = Append(AbstractPending, j)
  BY <1>1, <1>3 DEF AbstractPending
<1>5. AbstractStatus[j] = "new"
  BY DEF AbstractStatus, AbstractState
<1>6. AbstractStatus' = [AbstractStatus EXCEPT ![j] = "accepted"]
  <2>1. AbstractStatus' = [AbstractStatus EXCEPT ![j] = AbstractState["blocked"]]
    BY StatusExcept DEF TypeOK, JobStates
  <2>2. QED
    BY <2>1 DEF AbstractState
<1>7. QED
  BY <1>4, <1>5, <1>6 DEF BEQ!Accept

(* A dropped enqueue is an abstract drop. *)
LEMMA RefReject ==
    ASSUME TypeOK, NEW j \in Jobs, st[j] = "new",
           st' = [st EXCEPT ![j] = "rejected"], UNCHANGED <<queue, waiters, cur>>
    PROVE  BEQ!Drop(j)
<1>1. AbstractPending' = AbstractPending
  BY DEF AbstractPending, Held
<1>2. AbstractStatus[j] = "new"
  BY DEF AbstractStatus, AbstractState
<1>3. AbstractStatus' = [AbstractStatus EXCEPT ![j] = "dropped"]
  <2>1. AbstractStatus' = [AbstractStatus EXCEPT ![j] = AbstractState["rejected"]]
    BY StatusExcept DEF TypeOK, JobStates
  <2>2. QED
    BY <2>1 DEF AbstractState
<1>4. QED
  BY <1>1, <1>2, <1>3 DEF BEQ!Drop

(* recv with no suspended sender moves the head job from the channel to   *)
(* the worker: the abstract queue and statuses are unchanged.              *)
LEMMA RefRecvAlone ==
    ASSUME TypeOK, JobsConserved, cur = NoJob, queue # <<>>, waiters = <<>>,
           queue' = Tail(queue), st' = [st EXCEPT ![Head(queue)] = "taken"],
           cur' = Head(queue), waiters' = waiters
    PROVE  UNCHANGED <<AbstractPending, AbstractStatus>>
<1>1. queue \in Seq(Jobs) /\ Head(queue) \in Jobs /\ Tail(queue) \in Seq(Jobs)
  BY HeadTailProperties DEF TypeOK
<1>2. AbstractPending = queue
  BY <1>1, ConcatEmptySeq DEF AbstractPending, Held
<1>3. AbstractPending' = <<Head(queue)>> \o Tail(queue)
  <2>1. <<Head(queue)>> \o Tail(queue) \in Seq(Jobs)
    BY <1>1, ConcatProperties
  <2>2. QED
    BY <2>1, ConcatEmptySeq, ConstantsAssumption DEF AbstractPending, Held
<1>4. st[Head(queue)] = "queued"
  <2>1. 1 \in DOMAIN queue /\ queue[1] = Head(queue)
    BY <1>1, EmptySeq
  <2>2. QED
    BY <1>1, <2>1 DEF JobsConserved
<1>5. AbstractStatus' = AbstractStatus
  BY <1>1, <1>4 DEF AbstractStatus, AbstractState, TypeOK
<1>6. QED
  BY <1>1, <1>2, <1>3, <1>5, ConsHeadTail

(* recv with suspended senders: the head job goes to the worker and the   *)
(* first sender's job to the back of the channel, which is where it       *)
(* already was in the abstract queue.                                     *)
LEMMA RefRecvHandOff ==
    ASSUME TypeOK, JobsConserved, cur = NoJob, queue # <<>>, waiters # <<>>,
           queue' = Append(Tail(queue), Head(waiters)),
           waiters' = Tail(waiters),
           st' = [st EXCEPT ![Head(queue)] = "taken", ![Head(waiters)] = "queued"],
           cur' = Head(queue)
    PROVE  UNCHANGED <<AbstractPending, AbstractStatus>>
<1>1. /\ queue \in Seq(Jobs) /\ waiters \in Seq(Jobs)
      /\ Head(queue) \in Jobs /\ Tail(queue) \in Seq(Jobs)
      /\ Head(waiters) \in Jobs /\ Tail(waiters) \in Seq(Jobs)
  BY HeadTailProperties DEF TypeOK
<1>2. AbstractPending = queue \o waiters
  BY <1>1, ConcatEmptySeq DEF AbstractPending, Held
<1>3. AbstractPending' = (<<Head(queue)>> \o Append(Tail(queue), Head(waiters))) \o Tail(waiters)
  BY <1>1, ConstantsAssumption DEF AbstractPending, Held
<1>4. st[Head(queue)] = "queued" /\ st[Head(waiters)] = "blocked"
  <2>1. 1 \in DOMAIN queue /\ queue[1] = Head(queue)
    BY <1>1, EmptySeq
  <2>2. 1 \in DOMAIN waiters /\ waiters[1] = Head(waiters)
    BY <1>1, EmptySeq
  <2>3. QED
    BY <1>1, <2>1, <2>2 DEF JobsConserved
<1>5. AbstractStatus' = AbstractStatus
  BY <1>1, <1>4 DEF AbstractStatus, AbstractState, TypeOK
<1>6. QED
  BY <1>1, <1>2, <1>3, <1>5, HandOffOrder

(* The end of a push, by return or by timeout, completes the oldest       *)
(* accepted job: the one the worker holds.                                 *)
LEMMA RefFinish ==
    ASSUME TypeOK, cur # NoJob, st' = [st EXCEPT ![cur] = "done"],
           cur' = NoJob, UNCHANGED <<queue, waiters>>
    PROVE  BEQ!Complete
<1>1. cur \in Jobs /\ queue \in Seq(Jobs) /\ waiters \in Seq(Jobs)
  BY DEF TypeOK
<1>2. AbstractPending = (<<cur>> \o queue) \o waiters
  BY DEF AbstractPending, Held
<1>3. /\ AbstractPending # <<>>
      /\ Head(AbstractPending) = cur
      /\ Tail(AbstractPending) = queue \o waiters
  BY <1>1, <1>2, HeadTailCons
<1>4. AbstractPending' = queue \o waiters
  <2>1. queue \o waiters \in Seq(Jobs)
    BY <1>1, ConcatProperties
  <2>2. QED
    BY <1>1, <2>1, ConcatEmptySeq DEF AbstractPending, Held
<1>5. AbstractStatus' = [AbstractStatus EXCEPT ![cur] = "done"]
  <2>1. AbstractStatus' = [AbstractStatus EXCEPT ![cur] = AbstractState["done"]]
    BY <1>1, StatusExcept DEF TypeOK, JobStates
  <2>2. QED
    BY <2>1 DEF AbstractState
<1>6. QED
  BY <1>3, <1>4, <1>5 DEF BEQ!Complete

(* The worker implements the safety part of the best-effort FIFO: every   *)
(* enqueue is an abstract accept or drop, recv with its permit hand-off    *)
(* leaves the abstract queue as it was, and the end of a push completes    *)
(* the oldest accepted job; init, tick and time are abstract stutters.    *)
THEOREM RefinesSafely == Spec => BEQ!SafeSpec
<1>1. Init => BEQ!Init
  <2> SUFFICES ASSUME Init PROVE BEQ!Init
    OBVIOUS
  <2>1. AbstractPending = <<>>
    BY ConcatEmptySeq DEF Init, AbstractPending, Held
  <2>2. AbstractStatus = [j \in Jobs |-> "new"]
    BY DEF Init, AbstractStatus, AbstractState
  <2>3. QED
    BY <2>1, <2>2 DEF BEQ!Init
<1>2. TypeOK /\ InflightOnlyCurrent /\ JobsConserved /\ [Next]_vars
        => [BEQ!Next]_BEQ!avars
  <2> SUFFICES ASSUME TypeOK, InflightOnlyCurrent, JobsConserved, [Next]_vars
               PROVE  [BEQ!Next]_BEQ!avars
    OBVIOUS
  <2>0. ASSUME UNCHANGED <<queue, waiters, st, cur>>
        PROVE  [BEQ!Next]_BEQ!avars
    BY <2>0 DEF BEQ!avars, AbstractPending, Held, AbstractStatus
  <2>1. CASE InitRemoteDumpWorker \/ Tick \/ Advance \/ UNCHANGED vars
    BY <2>1, <2>0 DEF InitRemoteDumpWorker, Tick, Advance, vars
  <2>2. ASSUME NEW j \in Jobs, EnqueueBestEffort(j) PROVE [BEQ!Next]_BEQ!avars
    <3>1. st[j] = "new" /\ UNCHANGED <<waiters, cur>>
      BY <2>2 DEF EnqueueBestEffort
    <3>2. CASE Len(queue) < Cap
      <4>1. queue' = Append(queue, j) /\ st' = [st EXCEPT ![j] = "queued"]
        BY <2>2, <3>2 DEF EnqueueBestEffort, Accept
      <4>2. BEQ!Accept(j)
        BY <3>1, <3>2, <4>1, RefAccept
      <4>3. QED
        BY <4>2 DEF BEQ!Next
    <3>3. CASE ~(Len(queue) < Cap)
      <4>1. st' = [st EXCEPT ![j] = "rejected"] /\ UNCHANGED queue
        BY <2>2, <3>3 DEF EnqueueBestEffort, Reject
      <4>2. BEQ!Drop(j)
        BY <3>1, <4>1, RefReject
      <4>3. QED
        BY <4>2 DEF BEQ!Next
    <3>4. QED
      BY <3>2, <3>3
  <2>3. ASSUME NEW j \in Jobs, Enqueue(j) PROVE [BEQ!Next]_BEQ!avars
    <3>1. st[j] = "new" /\ UNCHANGED cur
      BY <2>3 DEF Enqueue
    <3>2. CASE Len(queue) < Cap
      <4>1. queue' = Append(queue, j) /\ st' = [st EXCEPT ![j] = "queued"]
            /\ UNCHANGED waiters
        BY <2>3, <3>2 DEF Enqueue, Accept
      <4>2. BEQ!Accept(j)
        BY <3>1, <3>2, <4>1, RefAccept
      <4>3. QED
        BY <4>2 DEF BEQ!Next
    <3>3. CASE ~(Len(queue) < Cap)
      <4>1. /\ st' = [st EXCEPT ![j] = "blocked"]
            /\ waiters' = Append(waiters, j)
            /\ UNCHANGED queue
        BY <2>3, <3>3 DEF Enqueue
      <4>2. BEQ!Accept(j)
        BY <3>1, <4>1, RefBlock
      <4>3. QED
        BY <4>2 DEF BEQ!Next
    <3>4. QED
      BY <3>2, <3>3
  <2>4. ASSUME NEW j \in Jobs, TryEnqueue(j) PROVE [BEQ!Next]_BEQ!avars
    <3>1. st[j] = "new" /\ UNCHANGED <<waiters, cur>>
      BY <2>4 DEF TryEnqueue
    <3>2. CASE inited /\ Len(queue) < Cap
      <4>1. queue' = Append(queue, j) /\ st' = [st EXCEPT ![j] = "queued"]
        BY <2>4, <3>2 DEF TryEnqueue, Accept
      <4>2. BEQ!Accept(j)
        BY <3>1, <3>2, <4>1, RefAccept
      <4>3. QED
        BY <4>2 DEF BEQ!Next
    <3>3. CASE ~(inited /\ Len(queue) < Cap)
      <4>1. st' = [st EXCEPT ![j] = "rejected"] /\ UNCHANGED queue
        BY <2>4, <3>3 DEF TryEnqueue, Reject
      <4>2. BEQ!Drop(j)
        BY <3>1, <4>1, RefReject
      <4>3. QED
        BY <4>2 DEF BEQ!Next
    <3>4. QED
      BY <3>2, <3>3
  <2>5. CASE Recv
    <3>1. wpc = "recv" /\ queue # <<>> /\ cur = NoJob /\ inflight = {}
      BY <2>5 DEF Recv, InflightOnlyCurrent
    <3>2. RecvStep(Head(queue), "taken") /\ cur' = Head(queue)
      BY <2>5, <3>1 DEF Recv
    <3>3. CASE waiters = <<>>
      <4>1. queue' = Tail(queue) /\ st' = [st EXCEPT ![Head(queue)] = "taken"]
            /\ waiters' = waiters
        BY <3>2, <3>3 DEF RecvStep
      <4>2. UNCHANGED <<AbstractPending, AbstractStatus>>
        BY <3>1, <3>2, <3>3, <4>1, RefRecvAlone
      <4>3. QED
        BY <4>2 DEF BEQ!avars
    <3>4. CASE waiters # <<>>
      <4>1. /\ queue' = Append(Tail(queue), Head(waiters))
            /\ waiters' = Tail(waiters)
            /\ st' = [st EXCEPT ![Head(queue)] = "taken", ![Head(waiters)] = "queued"]
        BY <3>2, <3>4 DEF RecvStep
      <4>2. UNCHANGED <<AbstractPending, AbstractStatus>>
        BY <3>1, <3>2, <3>4, <4>1, RefRecvHandOff
      <4>3. QED
        BY <4>2 DEF BEQ!avars
    <3>5. QED
      BY <3>3, <3>4
  <2>6. CASE DumpJobReturns \/ DumpJobTimeout
    <3>1. Finish /\ wpc = "push"
      BY <2>6 DEF DumpJobReturns, DumpJobTimeout
    <3>2. cur # NoJob
      BY <3>1 DEF InflightOnlyCurrent
    <3>3. st' = [st EXCEPT ![cur] = "done"] /\ cur' = NoJob /\ UNCHANGED <<queue, waiters>>
      BY <3>1 DEF Finish
    <3>4. BEQ!Complete
      BY <3>2, <3>3, RefFinish
    <3>5. QED
      BY <3>4 DEF BEQ!Next
  <2>7. QED
    BY <2>1, <2>2, <2>3, <2>4, <2>5, <2>6 DEF Next
<1>3. QED
  BY <1>1, <1>2, TypeCorrect, InflightInvariant, QueueConserved, PTL DEF Spec, BEQ!SafeSpec
=============================================================================
