--------------------------- MODULE SchedulerProofs ---------------------------
(***************************************************************************)
(* Theorems about Scheduler, for every set of threads and requests and     *)
(* every value of the limits: types; the slots of a call; that no accepted *)
(* request is lost, from what each point of a round owes to the sessions   *)
(* it works on; that a request is in one place at a time, is answered once *)
(* and gets no more tokens then; and what the admission pass does: it pops *)
(* what it selected, leaves no slot idle, and goes by priority and arrival.*)
(***************************************************************************)
EXTENDS Scheduler, SequenceLemmas, FiniteSetTheorems

\* The admission comprehension.
PassPcs == {"select"} \cup PopPcs

\* How a call keeps its sessions within the slots: what each point of a round
\* knows of the locals.  Only the admission pass holds popped requests and a
\* quota, and only from the ready comprehension to the end of the round is
\* ready in use, never with more sessions than active had.
Slots(t) ==
    /\ Len(active[t]) + Len(batch[t]) + quota[t] <= MaxBatch
    /\ pc[t] \notin PassPcs => quota[t] = 0
    /\ pc[t] \notin PassPcs \cup {"prefill"} => batch[t] = <<>>
    /\ pc[t] \in PopPcs => quota[t] > 0
    /\ pc[t] \in {"take", "withdraw"} => pick[t] > 0
    /\ pc[t] = "snapshot" => Len(ready[t]) + Len(scan[t]) <= Len(active[t])
    /\ pc[t] \in {"retire", "decode"} => Len(ready[t]) <= Len(active[t])
    /\ pc[t] = "collect" => Len(active[t]) + Len(ready[t]) <= MaxBatch
    /\ pc[t] \notin {"snapshot", "retire", "decode", "collect"} => ready[t] = <<>>

SlotsInv == /\ metrics.maxBatch <= MaxBatch
            /\ \A t \in Threads : Slots(t)

\* What moving a thread, and what each way of counting, does to the types.
LEMMA GotoType ==
    ASSUME TypeOK, NEW t \in Threads, NEW from, NEW to \in Pcs, Goto(t, from, to)
    PROVE  pc' \in [Threads -> Pcs]
BY DEF TypeOK, Goto

LEMMA CountType ==
    ASSUME NEW m \in Metrics, NEW n \in Nat
    PROVE  /\ [m EXCEPT !.submitted = @ + 1] \in Metrics
           /\ [m EXCEPT !.rejected = @ + n] \in Metrics
           /\ [m EXCEPT !.cancelled = @ + 1] \in Metrics
           /\ [m EXCEPT !.completed = @ + 1] \in Metrics
           /\ [m EXCEPT !.generated = @ + n] \in Metrics
           /\ [m EXCEPT !.waits = @ + 1] \in Metrics
           /\ [m EXCEPT !.preemptions = @ + 1] \in Metrics
           /\ [m EXCEPT !.cancelled = @ + 1, !.completed = @ + 1] \in Metrics
           /\ [m EXCEPT !.maxBatch = n, !.rounds = @ + 1] \in Metrics
<1>1. [m EXCEPT !.submitted = @ + 1] \in Metrics
  BY DEF Metrics
<1>2. [m EXCEPT !.rejected = @ + n] \in Metrics
  BY DEF Metrics
<1>3. [m EXCEPT !.cancelled = @ + 1] \in Metrics
  BY DEF Metrics
<1>4. [m EXCEPT !.completed = @ + 1] \in Metrics
  BY DEF Metrics
<1>5. [m EXCEPT !.generated = @ + n] \in Metrics
  BY DEF Metrics
<1>6. [m EXCEPT !.waits = @ + 1] \in Metrics
  BY DEF Metrics
<1>7. [m EXCEPT !.preemptions = @ + 1] \in Metrics
  BY DEF Metrics
<1>8. [m EXCEPT !.cancelled = @ + 1, !.completed = @ + 1] \in Metrics
  <2>1. m.cancelled + 1 \in Nat /\ m.completed + 1 \in Nat
    BY DEF Metrics
  <2>2. QED BY <2>1 DEF Metrics
<1>9. [m EXCEPT !.maxBatch = n, !.rounds = @ + 1] \in Metrics
  <2>1. m.rounds + 1 \in Nat
    BY DEF Metrics
  <2>2. QED BY <2>1 DEF Metrics
<1>10. QED BY <1>1, <1>2, <1>3, <1>4, <1>5, <1>6, <1>7, <1>8, <1>9

LEMMA InitTypeOK == Init => TypeOK
<1>1. SUFFICES ASSUME Init PROVE TypeOK
  OBVIOUS
<1>2. /\ submitted \in [Ids -> Nat] /\ arrival \in [Ids -> Nat] /\ drawn \in [times : Nat, numbers : Nat]
      /\ choice \in [Threads -> [now : Nat, scores : Seq(Score)]] /\ gen \in [Requests -> Nat] /\ metrics \in Metrics
  BY <1>1 DEF Init, Metrics, NoChoice
<1>3. pc \in [Threads -> Pcs] /\ call \in [Threads -> [batch : Seq(Requests), block : Blocking]]
  BY <1>1 DEF Init, Pcs, NoCall, Blocking
<1>4. active \in [Threads -> Seq(Requests)] /\ batch \in [Threads -> Seq(Requests)]
      /\ scan \in [Threads -> Seq(Requests)] /\ ready \in [Threads -> Seq(Requests)]
      /\ results \in [Threads -> Seq(Result)]
  BY <1>1 DEF Init
<1>5. fate \in [Requests -> Fates] /\ returned \in Seq(Result)
  BY <1>1 DEF Init, Fates
<1>6. QED BY <1>1, <1>2, <1>3, <1>4, <1>5 DEF TypeOK, stamps, Init

------------------------------------------------------------------------------
LEMMA SubmitTypeOK ==
    ASSUME TypeOK, NEW t \in Threads, NEW c \in Calls, Submit(t, c)
    PROVE  TypeOK'
<1>1. c \in [batch : Seq(Requests), block : Blocking]
  BY SchedulerAssumption
<1>2. call' \in [Threads -> [batch : Seq(Requests), block : Blocking]]
  BY <1>1 DEF TypeOK, stamps, Submit
<1>3. metrics' \in Metrics
  <2>1. metrics \in Metrics
    BY DEF TypeOK, stamps
  <2>2. [metrics EXCEPT !.rejected = @ + 1] \in Metrics
    BY <2>1, CountType
  <2>3. QED BY <2>1, <2>2 DEF Submit
<1>4. fate' \in [Requests -> Fates]
  BY DEF TypeOK, stamps, Submit, Fates
<1>5. pc' \in [Threads -> Pcs]
  BY GotoType DEF Submit, Pcs, SubmitPcs, StampPcs
<1>6. QED BY <1>2, <1>3, <1>4, <1>5 DEF TypeOK, stamps, Submit

LEMMA RejectTypeOK ==
    ASSUME TypeOK, NEW t \in Threads, Reject(t)
    PROVE  /\ pc' \in [Threads -> Pcs] /\ metrics' \in Metrics
           /\ call' \in [Threads -> [batch : Seq(Requests), block : Blocking]]
           /\ fate' \in [Requests -> Fates]
<1>1. Len(call[t].batch) \in Nat
  BY DEF TypeOK, stamps
<1>2. metrics' \in Metrics
  BY <1>1, CountType DEF TypeOK, stamps, Reject
<1>3. QED BY <1>2 DEF TypeOK, stamps, Reject, Pcs, NoCall, Blocking, Fates

LEMMA CheckCapacityTypeOK ==
    ASSUME TypeOK, NEW t \in Threads, CheckCapacity(t)
    PROVE  TypeOK'
<1>1. /\ pc' \in [Threads -> Pcs] /\ metrics' \in Metrics
      /\ call' \in [Threads -> [batch : Seq(Requests), block : Blocking]]
      /\ fate' \in [Requests -> Fates]
  <2>1. CASE Goto(t, "capacity", "enqueue") /\ UNCHANGED <<metrics, call, fate>>
    BY <2>1, GotoType DEF TypeOK, stamps, Pcs, SubmitPcs, StampPcs
  <2>2. CASE Reject(t)
    BY <2>2, RejectTypeOK
  <2>3. CASE /\ Goto(t, "capacity", "waiting")
             /\ metrics' = [metrics EXCEPT !.waits = @ + 1]
             /\ UNCHANGED <<call, fate>>
    BY <2>3, GotoType, CountType DEF TypeOK, stamps, Pcs, SubmitPcs, StampPcs
  <2>4. QED BY <2>1, <2>2, <2>3 DEF CheckCapacity
<1>2. QED BY <1>1 DEF TypeOK, stamps, CheckCapacity

LEMMA StopWaitingTypeOK ==
    ASSUME TypeOK, NEW t \in Threads, StopWaiting(t)
    PROVE  TypeOK'
<1>1. pc' \in [Threads -> Pcs]
  BY GotoType DEF StopWaiting, Pcs, SubmitPcs, StampPcs
<1>2. QED BY <1>1 DEF TypeOK, stamps, StopWaiting, shared, locals, history

LEMMA RecheckTypeOK ==
    ASSUME TypeOK, NEW t \in Threads, Recheck(t)
    PROVE  TypeOK'
<1>1. /\ pc' \in [Threads -> Pcs] /\ metrics' \in Metrics
      /\ call' \in [Threads -> [batch : Seq(Requests), block : Blocking]]
      /\ fate' \in [Requests -> Fates]
  <2>1. CASE Goto(t, "recheck", "enqueue") /\ UNCHANGED <<metrics, call, fate>>
    BY <2>1, GotoType DEF TypeOK, stamps, Pcs, SubmitPcs, StampPcs
  <2>2. CASE Reject(t)
    BY <2>2, RejectTypeOK
  <2>3. QED BY <2>1, <2>2 DEF Recheck
<1>2. QED BY <1>1 DEF TypeOK, stamps, Recheck

LEMMA EnqueueTypeOK ==
    ASSUME TypeOK, NEW t \in Threads, Enqueue(t)
    PROVE  TypeOK'
<1>1. UNCHANGED <<paused, cancelled, stamps, metrics, gen, active, batch, quota, pick, choice,
                  preempted, scan, ready, results, fate, returned>>
  BY DEF Enqueue, history
<1>2. CASE Goto(t, "enqueue", "idle") /\ call' = [call EXCEPT ![t] = NoCall] /\ UNCHANGED pending
  <2>1. pc' \in [Threads -> Pcs]
    BY <1>2, GotoType DEF Pcs
  <2>2. call' \in [Threads -> [batch : Seq(Requests), block : Blocking]]
    BY <1>2 DEF TypeOK, stamps, NoCall, Blocking
  <2>3. QED BY <1>1, <1>2, <2>1, <2>2 DEF TypeOK, stamps
<1>3. CASE /\ call[t].batch # <<>>
           /\ Goto(t, "enqueue", "stamp")
           /\ pending' = Append(pending, Head(call[t].batch))
           /\ UNCHANGED call
  <2>1. pc' \in [Threads -> Pcs]
    BY <1>3, GotoType DEF Pcs, SubmitPcs, StampPcs
  <2>2. call[t].batch \in Seq(Requests)
    BY DEF TypeOK, stamps
  <2>3. Head(call[t].batch) \in Requests
    BY <1>3, <2>2
  <2>4. pending' \in Seq(Requests)
    BY <1>3, <2>3 DEF TypeOK, stamps
  <2>5. QED BY <1>1, <1>3, <2>1, <2>4 DEF TypeOK, stamps
<1>4. QED BY <1>2, <1>3 DEF Enqueue

LEMMA StampTypeOK ==
    ASSUME TypeOK, NEW t \in Threads, Stamp(t) \/ Number(t)
    PROVE  TypeOK'
<1>1. UNCHANGED <<pending, paused, cancelled, metrics, gen, call, active, batch, quota, pick,
                  choice, preempted, scan, ready, results, fate, returned>>
  BY DEF Stamp, Number, locals, history
<1>2. pc' \in [Threads -> Pcs]
  BY GotoType DEF Stamp, Number, Pcs, SubmitPcs, StampPcs
<1>3. drawn.times \in Nat /\ drawn.numbers \in Nat
  BY DEF TypeOK
<1>4. drawn' \in [times : Nat, numbers : Nat]
  <2>1. drawn \in [times : Nat, numbers : Nat]
    BY DEF TypeOK
  <2>2. drawn' = [drawn EXCEPT !.times = @ + 1] \/ drawn' = [drawn EXCEPT !.numbers = @ + 1]
    BY DEF Stamp, Number
  <2>3. QED BY <1>3, <2>1, <2>2
<1>5. submitted' \in [Ids -> Nat]
  <2>1. 2 * drawn'.times \in Nat
    BY <1>4
  <2>2. QED BY <2>1 DEF TypeOK, Stamp, Number
<1>6. arrival' \in [Ids -> Nat]
  <2>1. drawn'.numbers \in Nat
    BY <1>4
  <2>2. QED BY <2>1 DEF TypeOK, Stamp, Number
<1>7. QED BY <1>1, <1>2, <1>4, <1>5, <1>6 DEF TypeOK

LEMMA CountSubmittedTypeOK ==
    ASSUME TypeOK, NEW t \in Threads, CountSubmitted(t)
    PROVE  TypeOK'
<1>1. UNCHANGED <<pending, paused, cancelled, stamps, gen, active, batch, quota, pick, choice,
                  preempted, scan, ready, results, fate, returned>>
  BY DEF CountSubmitted, history
<1>2. pc' \in [Threads -> Pcs]
  BY GotoType DEF CountSubmitted, Pcs, SubmitPcs
<1>3. metrics \in Metrics /\ call[t] \in [batch : Seq(Requests), block : Blocking]
  BY DEF TypeOK
<1>4. metrics' \in Metrics
  BY <1>3, CountType DEF CountSubmitted
<1>5. call' \in [Threads -> [batch : Seq(Requests), block : Blocking]]
  <2>1. RemoveAt(call[t].batch, 1) \in Seq(Requests)
    BY <1>3 DEF RemoveAt
  <2>2. [call[t] EXCEPT !.batch = RemoveAt(@, 1)] \in [batch : Seq(Requests), block : Blocking]
    BY <1>3, <2>1
  <2>3. QED BY <2>2 DEF TypeOK, CountSubmitted
<1>6. QED BY <1>1, <1>2, <1>4, <1>5 DEF TypeOK, stamps

LEMMA CancelTypeOK ==
    ASSUME TypeOK, NEW t \in Threads, NEW i \in Ids, Cancel(t, i)
    PROVE  TypeOK'
<1>1. UNCHANGED <<pending, paused, stamps, metrics, gen, active, batch, quota, choice, preempted,
                  scan, ready, results, fate, returned>>
  BY DEF Cancel, history
<1>2. pc' \in [Threads -> Pcs]
  BY GotoType DEF Cancel, Pcs
<1>3. ASSUME NEW k \in DOMAIN pending, pick' = [pick EXCEPT ![t] = k],
             call' = [call EXCEPT ![t] = [batch |-> <<pending[k]>>, block |-> "no"]], UNCHANGED cancelled
      PROVE  TypeOK'
  <2>1. k \in Nat /\ pending[k] \in Requests
    <3>1. pending \in Seq(Requests)
      BY DEF TypeOK
    <3>2. QED BY <3>1
  <2>2. [batch |-> <<pending[k]>>, block |-> "no"] \in [batch : Seq(Requests), block : Blocking]
    BY <2>1 DEF Blocking
  <2>3. call' \in [Threads -> [batch : Seq(Requests), block : Blocking]]
    BY <1>3, <2>2 DEF TypeOK, stamps
  <2>4. pick' \in [Threads -> Nat]
    BY <1>3, <2>1 DEF TypeOK, stamps
  <2>5. QED BY <1>1, <1>2, <1>3, <2>3, <2>4 DEF TypeOK, stamps
<1>4. CASE cancelled' = cancelled \cup {i} /\ UNCHANGED <<pick, call>>
  BY <1>1, <1>2, <1>4 DEF TypeOK, stamps
<1>5. QED BY <1>3, <1>4 DEF Cancel

LEMMA WithdrawTypeOK ==
    ASSUME TypeOK, SlotsInv, NEW t \in Threads, Withdraw(t)
    PROVE  TypeOK'
<1>1. UNCHANGED <<paused, cancelled, stamps, gen, active, batch, quota, choice, preempted, scan,
                  ready, results, returned>>
  BY DEF Withdraw
<1>2. pc' \in [Threads -> Pcs]
  BY GotoType DEF Withdraw, Pcs
<1>3. pick' \in [Threads -> Nat]
  BY DEF TypeOK, stamps, Withdraw
<1>4. call' \in [Threads -> [batch : Seq(Requests), block : Blocking]]
  BY DEF TypeOK, stamps, Withdraw, NoCall, Blocking
<1>5. CASE /\ pick[t] <= Len(pending)
           /\ pending' = RemoveAt(pending, pick[t])
           /\ metrics' = [metrics EXCEPT !.cancelled = @ + 1]
           /\ fate' = [fate EXCEPT ![pending[pick[t]]] = "dropped", ![Head(call[t].batch)] = "withdrawn"]
  <2>1. pick[t] > 0
    BY DEF Withdraw, Goto, SlotsInv, Slots
  <2>2. pick[t] \in DOMAIN pending
    BY <1>5, <2>1 DEF TypeOK, stamps
  <2>3. pending' \in Seq(Requests)
    BY <1>5, <2>2, RemoveAtType DEF TypeOK, stamps
  <2>4. metrics' \in Metrics
    BY <1>5, CountType DEF TypeOK, stamps
  <2>5. fate' \in [Requests -> Fates]
    BY <1>5 DEF TypeOK, stamps, Fates
  <2>6. QED BY <1>1, <1>2, <1>3, <1>4, <2>3, <2>4, <2>5 DEF TypeOK, stamps
<1>6. CASE UNCHANGED <<pending, metrics, fate>>
  BY <1>1, <1>2, <1>3, <1>4, <1>6 DEF TypeOK, stamps
<1>7. QED BY <1>5, <1>6 DEF Withdraw

------------------------------------------------------------------------------
LEMMA RunTypeOK ==
    ASSUME TypeOK, NEW t \in Threads, Run(t)
    PROVE  TypeOK'
<1>1. pc' \in [Threads -> Pcs]
  BY GotoType DEF Run, Pcs, RunPcs, PopPcs
<1>2. QED BY <1>1 DEF TypeOK, stamps, Run, shared, locals, history

LEMMA LoopTypeOK ==
    ASSUME TypeOK, NEW t \in Threads, Loop(t)
    PROVE  TypeOK'
<1>1. UNCHANGED <<pending, paused, cancelled, stamps, metrics, gen, call, active, batch, quota,
                  pick, choice, scan, ready, fate>>
  BY DEF Loop, shared
<1>2. pc' \in [Threads -> Pcs]
  BY GotoType DEF Loop, Pcs, RunPcs, PopPcs
<1>3. returned' \in Seq(Result)
  <2>1. results[t] \in Seq(Result) /\ returned \in Seq(Result)
    BY DEF TypeOK, stamps
  <2>2. returned \o results[t] \in Seq(Result)
    BY <2>1
  <2>3. QED BY <2>1, <2>2 DEF Loop
<1>4. results' \in [Threads -> Seq(Result)]
  <2>1. results' = [results EXCEPT ![t] = <<>>] \/ results' = results
    BY DEF Loop
  <2>2. results \in [Threads -> Seq(Result)] /\ <<>> \in Seq(Result)
    BY DEF TypeOK, stamps
  <2>3. QED BY <2>1, <2>2
<1>5. preempted' \in [Threads -> BOOLEAN]
  <2>1. preempted' = [preempted EXCEPT ![t] = FALSE] \/ preempted' = preempted
    BY DEF Loop
  <2>2. QED BY <2>1 DEF TypeOK, stamps
<1>6. QED BY <1>1, <1>2, <1>3, <1>4, <1>5 DEF TypeOK, stamps

\* Sorting the paused requests keeps their type and their number.
LEMMA SortedType ==
    ASSUME NEW S, NEW s \in Seq(S), NEW z \in Sorted(s, Ahead)
    PROVE  z \in Seq(S) /\ Len(z) = Len(s)
<1>1. PICK p \in [DOMAIN s -> DOMAIN s] : z = [i \in DOMAIN s |-> s[p[i]]]
  BY DEF Sorted
<1>2. DOMAIN s = 1..Len(s) /\ Len(s) \in Nat
  OBVIOUS
<1>3. \A i \in 1..Len(s) : z[i] \in S
  BY <1>1, <1>2
<1>4. QED BY <1>1, <1>2, <1>3

LEMMA ResumeTypeOK ==
    ASSUME TypeOK, NEW t \in Threads, Resume(t)
    PROVE  TypeOK'
<1>1. UNCHANGED <<pending, cancelled, stamps, metrics, gen, call, batch, quota, choice, preempted,
                  scan, ready, results, fate, returned>>
  BY DEF Resume, history
<1>2. pc' \in [Threads -> Pcs]
  BY GotoType DEF Resume, Pcs, RunPcs, PopPcs
<1>3. ASSUME NEW s \in Sorted(paused, Ahead), paused' = s, Capacity(t) > 0,
             active' = [active EXCEPT ![t] = @ \o SubSeq(s, 1, Least(Capacity(t), Len(s)))],
             pick' = [pick EXCEPT ![t] = Capacity(t)]
      PROVE  TypeOK'
  <2>1. paused \in Seq(Requests)
    BY DEF TypeOK, stamps
  <2>2. s \in Seq(Requests)
    BY <2>1, SortedType
  <2>3. Capacity(t) \in Nat
    <3>1. Len(active[t]) \in Nat /\ MaxBatch \in Nat
      BY SchedulerAssumption DEF TypeOK, stamps
    <3>2. QED BY <1>3, <3>1 DEF Capacity
  <2>4. SubSeq(s, 1, Least(Capacity(t), Len(s))) \in Seq(Requests)
    BY <2>2, <2>3 DEF Least
  <2>5. active' \in [Threads -> Seq(Requests)]
    <3>1. active \in [Threads -> Seq(Requests)]
      BY DEF TypeOK
    <3>2. active[t] \o SubSeq(s, 1, Least(Capacity(t), Len(s))) \in Seq(Requests)
      BY <2>4, <3>1
    <3>3. QED BY <1>3, <3>1, <3>2
  <2>6. pick' \in [Threads -> Nat]
    BY <1>3, <2>3 DEF TypeOK, stamps
  <2>7. QED BY <1>1, <1>2, <1>3, <2>2, <2>5, <2>6 DEF TypeOK, stamps
<1>4. CASE UNCHANGED <<paused, active, pick>>
  BY <1>1, <1>2, <1>4 DEF TypeOK, stamps
<1>5. QED BY <1>3, <1>4 DEF Resume

LEMMA UnpauseTypeOK ==
    ASSUME TypeOK, NEW t \in Threads, Unpause(t)
    PROVE  TypeOK'
<1>1. UNCHANGED <<pending, cancelled, stamps, metrics, gen, call, active, batch, quota, choice,
                  preempted, scan, ready, results, fate, returned>>
  BY DEF Unpause, history
<1>2. pc' \in [Threads -> Pcs]
  BY GotoType DEF Unpause, Pcs, RunPcs, PopPcs
<1>3. paused' \in Seq(Requests)
  <2>1. paused \in Seq(Requests) /\ pick[t] + 1 \in 1..(pick[t] + 1) /\ pick[t] \in Nat
    BY DEF TypeOK, stamps
  <2>2. SubSeq(paused, pick[t] + 1, Len(paused)) \in Seq(Requests)
    BY <2>1
  <2>3. QED BY <2>2 DEF Unpause
<1>4. pick' \in [Threads -> Nat]
  BY DEF TypeOK, stamps, Unpause
<1>5. QED BY <1>1, <1>2, <1>3, <1>4 DEF TypeOK, stamps

LEMMA AdmitTypeOK ==
    ASSUME TypeOK, SlotsInv, NEW t \in Threads, Admit(t)
    PROVE  TypeOK'
<1>1. AdmitQuota(t) \in Nat
  <2>1. /\ Len(active[t]) \in Nat /\ Len(batch[t]) \in Nat /\ quota[t] \in Nat /\ MaxBatch \in Nat
        /\ Len(pending) \in Nat
    BY SchedulerAssumption DEF TypeOK
  <2>2. Len(active[t]) + Len(batch[t]) + quota[t] <= MaxBatch
    BY DEF SlotsInv, Slots
  <2> DEFINE p == Len(pending)  a == Len(active[t])  b == Len(batch[t])
  <2>3. AdmitQuota(t) = IF p < MaxBatch - a THEN p ELSE MaxBatch - a
    BY DEF AdmitQuota, Capacity, Least
  <2>4. a \in Nat /\ b \in Nat /\ p \in Nat /\ a + b + quota[t] <= MaxBatch
    BY <2>1, <2>2
  <2>5. SUFFICES AdmitQuota(t) \in Nat
    OBVIOUS
  <2> HIDE DEF p, a, b
  <2>6. QED BY <2>1, <2>3, <2>4
<1>2. pc' \in [Threads -> Pcs]
  BY GotoType DEF Admit, Pcs, RunPcs, PopPcs
<1>3. quota' \in [Threads -> Nat]
  BY <1>1 DEF TypeOK, stamps, Admit
<1>4. QED BY <1>2, <1>3 DEF TypeOK, stamps, Admit, shared, history

LEMMA RaiseTypeOK ==
    ASSUME TypeOK, NEW t \in Threads, Raise(t)
    PROVE  TypeOK'
<1>1. pc' \in [Threads -> Pcs] /\ fate' \in [Requests -> Fates]
  BY DEF TypeOK, stamps, Raise, Pcs, Fates
<1>2. active' \in [Threads -> Seq(Requests)] /\ batch' \in [Threads -> Seq(Requests)]
      /\ scan' \in [Threads -> Seq(Requests)] /\ ready' \in [Threads -> Seq(Requests)]
      /\ results' \in [Threads -> Seq(Result)]
  BY DEF TypeOK, stamps, Raise
<1>3. /\ quota' \in [Threads -> Nat] /\ pick' \in [Threads -> Nat]
      /\ choice' \in [Threads -> [now : Nat, scores : Seq(Score)]]
  BY DEF TypeOK, Raise, NoChoice
<1>4. QED BY <1>1, <1>2, <1>3 DEF TypeOK, stamps, Raise, shared

LEMMA SelectTypeOK ==
    ASSUME TypeOK, NEW t \in Threads, Select(t)
    PROVE  TypeOK'
<1>1. UNCHANGED <<pending, paused, cancelled, stamps, metrics, gen, call, active, batch, quota,
                  pick, preempted, scan, ready, results, fate, returned>>
  BY DEF Select, shared, locals, history
<1>2. pc' \in [Threads -> Pcs]
  BY GotoType DEF Select, Pcs, RunPcs, PopPcs
<1>3. choice' \in [Threads -> [now : Nat, scores : Seq(Score)]]
  <2>1. 2 * drawn.times + 1 \in Nat
    BY DEF TypeOK
  <2>2. choice \in [Threads -> [now : Nat, scores : Seq(Score)]]
    BY DEF TypeOK
  <2>3. [choice[t] EXCEPT !.now = 2 * drawn.times + 1] \in [now : Nat, scores : Seq(Score)]
    BY <2>1, <2>2
  <2>4. choice' = choice \/ choice' = [choice EXCEPT ![t].now = 2 * drawn.times + 1]
    BY DEF Select, locals
  <2>5. QED BY <2>2, <2>3, <2>4
<1>4. QED BY <1>1, <1>2, <1>3 DEF TypeOK, stamps

LEMMA OpenRangeTypeOK ==
    ASSUME TypeOK, NEW t \in Threads, OpenRange(t)
    PROVE  TypeOK'
<1>1. CASE /\ Goto(t, "range", "weigh")
           /\ pick' = [pick EXCEPT ![t] = Len(pending)]
           /\ UNCHANGED <<shared, gen, call, active, batch, quota, choice, preempted, scan, ready,
                          results, history>>
  <2>1. pc' \in [Threads -> Pcs]
    BY <1>1, GotoType DEF Pcs, RunPcs, PopPcs
  <2>2. pick' \in [Threads -> Nat]
    BY <1>1 DEF TypeOK
  <2>3. QED BY <1>1, <2>1, <2>2 DEF TypeOK, shared, stamps, history
<1>2. QED BY <1>1, RaiseTypeOK DEF OpenRange

\* The scores, with one more or with the last one's arrival number.
LEMMA ScoresType ==
    ASSUME TypeOK, NEW t \in Threads
    PROVE  /\ choice[t].now \in Nat /\ choice[t].scores \in Seq(Score)
           /\ \A x \in Score : Append(choice[t].scores, x) \in Seq(Score)
           /\ \A n \in Nat, i \in Nat : [choice[t].scores EXCEPT ![i].arrival = n] \in Seq(Score)
<1>1. choice[t].now \in Nat /\ choice[t].scores \in Seq(Score)
  BY DEF TypeOK
<1>2. ASSUME NEW n \in Nat, NEW i \in Nat
      PROVE  [choice[t].scores EXCEPT ![i].arrival = n] \in Seq(Score)
  <2>1. \A x \in Score : [x EXCEPT !.arrival = n] \in Score
    BY DEF Score
  <2> DEFINE s == choice[t].scores
             z == [s EXCEPT ![i].arrival = n]
  <2>2. s \in Seq(Score) /\ DOMAIN s = 1..Len(s) /\ Len(s) \in Nat
    BY <1>1
  <2>3. DOMAIN z = 1..Len(s)
    BY <2>2
  <2>4. \A k \in 1..Len(s) : z[k] \in Score
    BY <2>1, <2>2
  <2>5. z \in Seq(Score)
    <3>1. z = [k \in 1..Len(s) |-> z[k]]
      BY <2>3
    <3> HIDE DEF z, s
    <3>2. QED BY <2>2, <2>4, <3>1
  <2>6. QED BY <2>5
<1>3. QED BY <1>1, <1>2

LEMMA WeighTypeOK ==
    ASSUME TypeOK, NEW t \in Threads, Weigh(t)
    PROVE  TypeOK'
<1> DEFINE next == Len(choice[t].scores) + 1
           since == IF submitted[Id[pending[next]]] = 0 THEN choice[t].now ELSE submitted[Id[pending[next]]]
           x == [req |-> pending[next], since |-> since, arrival |-> 0]
<1>1. CASE /\ next <= Len(pending)
           /\ Goto(t, "weigh", "rank")
           /\ choice' = [choice EXCEPT ![t].scores = Append(@, x)]
           /\ UNCHANGED <<shared, gen, call, active, batch, quota, pick, preempted, scan, ready,
                          results, history>>
  <2>1. pc' \in [Threads -> Pcs]
    BY <1>1, GotoType DEF Pcs, RunPcs, PopPcs
  <2>2. pending[next] \in Requests
    BY <1>1, ScoresType DEF TypeOK
  <2>3. since \in Nat
    <3>1. Id[pending[next]] \in Ids
      BY <2>2, SchedulerAssumption
    <3>2. QED BY <3>1, ScoresType DEF TypeOK
  <2>4. x \in Score
    BY <2>2, <2>3 DEF Score
  <2>5. choice' \in [Threads -> [now : Nat, scores : Seq(Score)]]
    <3>1. Append(choice[t].scores, x) \in Seq(Score)
      BY <2>4, ScoresType
    <3>2. QED BY <1>1, <3>1 DEF TypeOK
  <2>6. QED BY <1>1, <2>1, <2>5 DEF TypeOK, shared, stamps, history
<1>2. CASE /\ Goto(t, "weigh", "take")
           /\ \E k \in FirstIn(choice[t].scores, Outscores) : pick' = [pick EXCEPT ![t] = k]
           /\ UNCHANGED <<shared, gen, call, active, batch, quota, choice, preempted, scan, ready,
                          results, history>>
  <2>1. pick' \in [Threads -> Nat]
    <3>1. \A k \in FirstIn(choice[t].scores, Outscores) : k \in Nat
      BY ScoresType DEF FirstIn
    <3>2. pick \in [Threads -> Nat]
      BY DEF TypeOK
    <3>3. QED BY <1>2, <3>1, <3>2
  <2>2. pc' \in [Threads -> Pcs]
    BY <1>2, GotoType DEF Pcs, RunPcs, PopPcs
  <2>3. QED BY <1>2, <2>1, <2>2 DEF TypeOK, shared, stamps, history
<1>3. QED BY <1>1, <1>2, RaiseTypeOK DEF Weigh

LEMMA RankTypeOK ==
    ASSUME TypeOK, NEW t \in Threads, Rank(t)
    PROVE  TypeOK'
<1> DEFINE last == Len(choice[t].scores)
           n == arrival[Id[choice[t].scores[last].req]]
<1>1. pc' \in [Threads -> Pcs]
  BY GotoType DEF Rank, Pcs, RunPcs, PopPcs
<1>2. last \in Nat
  BY ScoresType
<1>3. choice' \in [Threads -> [now : Nat, scores : Seq(Score)]]
  <2>1. CASE last = 0
    <3>1. [choice[t].scores EXCEPT ![last].arrival = n] = choice[t].scores
      BY <2>1, ScoresType
    <3>2. QED BY <3>1, ScoresType DEF TypeOK, Rank
  <2>2. CASE last # 0
    <3>1. choice[t].scores[last].req \in Requests
      <4>1. choice[t].scores \in Seq(Score) /\ last \in DOMAIN choice[t].scores
        BY <1>2, <2>2, ScoresType
      <4>2. choice[t].scores[last] \in Score
        BY <4>1
      <4>3. QED BY <4>2 DEF Score
    <3>2. n \in Nat
      BY <3>1, SchedulerAssumption DEF TypeOK
    <3>3. [choice[t].scores EXCEPT ![last].arrival = n] \in Seq(Score)
      BY <1>2, <3>2, ScoresType
    <3>4. QED BY <3>3 DEF TypeOK, Rank
  <2>3. QED BY <2>1, <2>2
<1>4. QED BY <1>1, <1>3 DEF TypeOK, Rank, shared, stamps, history

LEMMA TakeTypeOK ==
    ASSUME TypeOK, SlotsInv, NEW t \in Threads, Take(t)
    PROVE  TypeOK'
<1>1. CASE /\ pick[t] <= Len(pending)
           /\ Goto(t, "take", "select")
           /\ batch' = [batch EXCEPT ![t] = Append(@, pending[pick[t]])]
           /\ pending' = RemoveAt(pending, pick[t])
           /\ quota' = [quota EXCEPT ![t] = @ - 1]
           /\ pick' = [pick EXCEPT ![t] = 0]
           /\ choice' = [choice EXCEPT ![t] = NoChoice]
           /\ UNCHANGED <<paused, cancelled, stamps, metrics, gen, call, active, preempted, scan,
                          ready, results, history>>
  <2>1. pick[t] \in DOMAIN pending
    BY <1>1 DEF TypeOK, stamps, SlotsInv, Slots, Goto
  <2>2. pending' \in Seq(Requests) /\ pending[pick[t]] \in Requests
    BY <1>1, <2>1, RemoveAtType DEF TypeOK, stamps
  <2>3. batch' \in [Threads -> Seq(Requests)]
    BY <1>1, <2>2 DEF TypeOK, stamps
  <2>4. quota[t] - 1 \in Nat
    <3>1. quota[t] \in Nat
      BY DEF TypeOK, stamps
    <3>2. quota[t] > 0
      BY <1>1 DEF SlotsInv, Slots, Goto, PopPcs
    <3>3. QED BY <3>1, <3>2
  <2>5. /\ quota' \in [Threads -> Nat] /\ pick' \in [Threads -> Nat]
        /\ choice' \in [Threads -> [now : Nat, scores : Seq(Score)]]
    <3>1. /\ quota \in [Threads -> Nat] /\ pick \in [Threads -> Nat]
          /\ choice \in [Threads -> [now : Nat, scores : Seq(Score)]]
      BY DEF TypeOK
    <3>2. NoChoice \in [now : Nat, scores : Seq(Score)]
      BY DEF NoChoice
    <3>3. QED BY <1>1, <2>4, <3>1, <3>2
  <2>6. pc' \in [Threads -> Pcs]
    BY <1>1, GotoType DEF Pcs, RunPcs, PopPcs
  <2>7. QED BY <1>1, <2>2, <2>3, <2>5, <2>6 DEF TypeOK, stamps, history
<1>2. CASE Raise(t)
  BY <1>2, RaiseTypeOK
<1>3. QED BY <1>1, <1>2 DEF Take

LEMMA PrefillTypeOK ==
    ASSUME TypeOK, NEW t \in Threads, Prefill(t)
    PROVE  TypeOK'
<1>1. pc' \in [Threads -> Pcs]
  BY GotoType DEF Prefill, Pcs, RunPcs, PopPcs
<1>2. active' \in [Threads -> Seq(Requests)] /\ batch' \in [Threads -> Seq(Requests)]
  BY DEF TypeOK, stamps, Prefill
<1>3. QED BY <1>1, <1>2 DEF TypeOK, stamps, Prefill, shared, history

LEMMA PreemptTypeOK ==
    ASSUME TypeOK, NEW t \in Threads, Preempt(t)
    PROVE  TypeOK'
<1>1. UNCHANGED <<pending, paused, cancelled, stamps, metrics, gen, call, active, batch, quota,
                  pick, choice, scan, ready, results, fate, returned>>
  BY DEF Preempt, shared, history
<1>2. pc' \in [Threads -> Pcs]
  BY GotoType DEF Preempt, Pcs, RunPcs, PopPcs
<1>3. preempted' \in [Threads -> BOOLEAN]
  BY DEF Preempt, TypeOK, stamps
<1>4. QED BY <1>1, <1>2, <1>3 DEF TypeOK, stamps

LEMMA DisplaceTypeOK ==
    ASSUME TypeOK, NEW t \in Threads, Displace(t)
    PROVE  TypeOK'
<1>1. CASE Raise(t)
  BY <1>1, RaiseTypeOK
<1>2. ASSUME NEW k \in DOMAIN active[t],
             Goto(t, "displace", "admit"),
             preempted' = [preempted EXCEPT ![t] = TRUE],
             \/ /\ paused' = Append(paused, active[t][k])
                /\ active' = [active EXCEPT ![t] = RemoveAt(@, k)]
                /\ metrics' = [metrics EXCEPT !.preemptions = @ + 1]
             \/ UNCHANGED <<paused, active, metrics>>,
             UNCHANGED <<pending, cancelled, stamps, gen, call, batch, quota, pick, choice, scan,
                         ready, results, history>>
      PROVE  TypeOK'
  <2>1. pc' \in [Threads -> Pcs]
    BY <1>2, GotoType DEF Pcs, RunPcs, PopPcs
  <2>2. preempted' \in [Threads -> BOOLEAN]
    BY <1>2 DEF TypeOK, stamps
  <2>3. paused' \in Seq(Requests) /\ active' \in [Threads -> Seq(Requests)] /\ metrics' \in Metrics
    <3>1. CASE /\ paused' = Append(paused, active[t][k])
               /\ active' = [active EXCEPT ![t] = RemoveAt(@, k)]
               /\ metrics' = [metrics EXCEPT !.preemptions = @ + 1]
      <4>1. active[t] \in Seq(Requests)
        BY DEF TypeOK, stamps
      <4>2. RemoveAt(active[t], k) \in Seq(Requests) /\ active[t][k] \in Requests
        BY <4>1, RemoveAtType
      <4>3. paused' \in Seq(Requests) /\ active' \in [Threads -> Seq(Requests)]
        BY <3>1, <4>2 DEF TypeOK, stamps
      <4>4. metrics' \in Metrics
        BY <3>1, CountType DEF TypeOK, stamps
      <4>5. QED BY <4>3, <4>4
    <3>2. CASE UNCHANGED <<paused, active, metrics>>
      BY <3>2 DEF TypeOK, stamps
    <3>3. QED BY <1>2, <3>1, <3>2
  <2>4. QED BY <1>2, <2>1, <2>2, <2>3 DEF TypeOK, stamps, history
<1>3. QED BY <1>1, <1>2 DEF Displace, FirstIn

LEMMA RoundTypeOK ==
    ASSUME TypeOK, NEW t \in Threads, Round(t)
    PROVE  TypeOK'
<1>1. pc' \in [Threads -> Pcs]
  BY GotoType DEF Round, Pcs, RunPcs, PopPcs
<1>2. metrics \in Metrics /\ Len(active[t]) \in Nat
  BY DEF TypeOK, stamps
<1>3. metrics' \in Metrics
  <2>1. metrics.maxBatch \in Nat
    BY <1>2 DEF Metrics
  <2>2. \A n \in Nat : [metrics EXCEPT !.maxBatch = n, !.rounds = @ + 1] \in Metrics
    BY <1>2, CountType
  <2>3. QED BY <1>2, <2>1, <2>2 DEF Round
<1>4. scan' \in [Threads -> Seq(Requests)]
  <2>1. scan \in [Threads -> Seq(Requests)] /\ active[t] \in Seq(Requests)
    BY DEF TypeOK
  <2>2. scan' = scan \/ scan' = [scan EXCEPT ![t] = active[t]]
    BY DEF Round
  <2>3. QED BY <2>1, <2>2
<1>5. UNCHANGED <<pending, paused, cancelled, stamps, gen, call, active, batch, quota, pick, choice,
                  preempted, ready, results, fate, returned>>
  BY DEF Round, history
<1>6. QED BY <1>1, <1>3, <1>4, <1>5 DEF TypeOK, stamps

LEMMA SnapshotTypeOK ==
    ASSUME TypeOK, NEW t \in Threads, Snapshot(t)
    PROVE  TypeOK'
<1>1. pc' \in [Threads -> Pcs]
  BY GotoType DEF Snapshot, Pcs, RunPcs, PopPcs
<1>2. UNCHANGED <<pending, paused, cancelled, stamps, metrics, gen, call, active, batch, quota,
                  pick, choice, preempted, results, fate, returned>>
  BY DEF Snapshot, shared, history
<1>3. CASE scan[t] = <<>>
  <2>1. scan' = [scan EXCEPT ![t] = active[t]] /\ ready' = ready
    BY <1>3 DEF Snapshot
  <2>2. scan' \in [Threads -> Seq(Requests)]
    BY <2>1 DEF TypeOK, stamps
  <2>3. QED BY <1>1, <1>2, <2>1, <2>2 DEF TypeOK, stamps
<1>4. CASE scan[t] # <<>>
  <2>1. Head(scan[t]) \in Requests /\ Tail(scan[t]) \in Seq(Requests)
    BY <1>4 DEF TypeOK, stamps
  <2>2. scan' = [scan EXCEPT ![t] = Tail(@)]
        /\ (ready' = ready \/ ready' = [ready EXCEPT ![t] = Append(@, Head(scan[t]))])
    BY <1>4 DEF Snapshot
  <2>3. scan' \in [Threads -> Seq(Requests)]
    BY <2>1, <2>2 DEF TypeOK, stamps
  <2>4. ready' \in [Threads -> Seq(Requests)]
    <3>1. ready \in [Threads -> Seq(Requests)]
      BY DEF TypeOK, stamps
    <3>2. Append(ready[t], Head(scan[t])) \in Seq(Requests)
      BY <2>1, <3>1
    <3>3. QED BY <2>2, <3>1, <3>2
  <2>5. QED BY <1>1, <1>2, <2>3, <2>4 DEF TypeOK, stamps
<1>5. QED BY <1>3, <1>4

LEMMA FinishTypeOK ==
    ASSUME TypeOK, NEW t \in Threads, NEW r \in Requests, FinishIfOver(t, r)
    PROVE  /\ cancelled' \in SUBSET Ids /\ metrics' \in Metrics
           /\ results' \in [Threads -> Seq(Result)]
<1>1. ASSUME NEW reason \in {"length", "cancelled"}, Finish(t, r, reason)
      PROVE  results' \in [Threads -> Seq(Result)]
  <2>1. [req |-> r, reason |-> reason, tokens |-> gen[r]] \in Result
    BY DEF TypeOK, stamps, Result
  <2>2. QED BY <1>1, <2>1 DEF TypeOK, stamps, Finish
<1>2. metrics' \in Metrics
  BY CountType DEF TypeOK, stamps, FinishIfOver
<1>3. cancelled' \in SUBSET Ids
  BY DEF TypeOK, stamps, FinishIfOver
<1>4. results' \in [Threads -> Seq(Result)]
  BY <1>1 DEF TypeOK, stamps, FinishIfOver
<1>5. QED BY <1>2, <1>3, <1>4

LEMMA RetireTypeOK ==
    ASSUME TypeOK, NEW t \in Threads, Retire(t)
    PROVE  TypeOK'
<1>1. UNCHANGED <<pending, paused, stamps, gen, call, active, batch, quota, pick, choice, preempted,
                  ready, fate, returned>>
  BY DEF Retire, history
<1>2. pc' \in [Threads -> Pcs]
  BY GotoType DEF Retire, Pcs, RunPcs, PopPcs
<1>3. CASE scan[t] = <<>>
  <2>1. UNCHANGED <<cancelled, metrics, results, scan>>
    BY <1>3 DEF Retire
  <2>2. QED BY <1>1, <1>2, <2>1 DEF TypeOK, stamps
<1>4. CASE scan[t] # <<>>
  <2>1. Head(scan[t]) \in Requests /\ Tail(scan[t]) \in Seq(Requests)
    BY <1>4 DEF TypeOK, stamps
  <2>2. FinishIfOver(t, Head(scan[t])) /\ scan' = [scan EXCEPT ![t] = Tail(@)]
    BY <1>4 DEF Retire
  <2>3. /\ cancelled' \in SUBSET Ids /\ metrics' \in Metrics
        /\ results' \in [Threads -> Seq(Result)]
    BY <2>1, <2>2, FinishTypeOK
  <2>4. scan' \in [Threads -> Seq(Requests)]
    BY <2>1, <2>2 DEF TypeOK, stamps
  <2>5. QED BY <1>1, <1>2, <2>3, <2>4 DEF TypeOK, stamps
<1>5. QED BY <1>3, <1>4

LEMMA DecodeTypeOK ==
    ASSUME TypeOK, NEW t \in Threads, Decode(t)
    PROVE  TypeOK'
<1>1. UNCHANGED <<pending, paused, cancelled, stamps, call, batch, quota, pick, choice, preempted,
                  scan, ready, results, fate, returned>>
  BY DEF Decode, history
<1>2. pc' \in [Threads -> Pcs]
  BY GotoType DEF Decode, Pcs, RunPcs, PopPcs
<1>3. metrics' \in Metrics
  <2>1. Len(ready[t]) \in Nat
    BY DEF TypeOK, stamps
  <2>2. QED BY <2>1, CountType DEF TypeOK, stamps, Decode
<1>4. active' \in [Threads -> Seq(Requests)]
  BY DEF TypeOK, stamps, Decode
<1>5. gen' \in [Requests -> Nat]
  BY DEF TypeOK, stamps, Decode
<1>6. QED BY <1>1, <1>2, <1>3, <1>4, <1>5 DEF TypeOK, stamps

LEMMA CollectTypeOK ==
    ASSUME TypeOK, NEW t \in Threads, Collect(t)
    PROVE  TypeOK'
<1>1. UNCHANGED <<pending, paused, stamps, gen, call, batch, quota, pick, choice, preempted, scan,
                  fate, returned>>
  BY DEF Collect, history
<1>2. pc' \in [Threads -> Pcs]
  BY GotoType DEF Collect, Pcs, RunPcs, PopPcs
<1>3. CASE ready[t] = <<>>
  <2>1. UNCHANGED <<cancelled, metrics, results, ready, active>>
    BY <1>3 DEF Collect
  <2>2. QED BY <1>1, <1>2, <2>1 DEF TypeOK, stamps
<1>4. CASE ready[t] # <<>>
  <2> DEFINE r == Head(ready[t])
  <2>1. r \in Requests /\ Tail(ready[t]) \in Seq(Requests)
    BY <1>4 DEF TypeOK, stamps
  <2>2. /\ FinishIfOver(t, r)
        /\ ready' = [ready EXCEPT ![t] = Tail(@)]
        /\ active' = active \/ active' = [active EXCEPT ![t] = Append(@, r)]
    BY <1>4 DEF Collect
  <2>3. /\ cancelled' \in SUBSET Ids /\ metrics' \in Metrics
        /\ results' \in [Threads -> Seq(Result)]
    BY <2>1, <2>2, FinishTypeOK
  <2>4. ready' \in [Threads -> Seq(Requests)]
    BY <2>1, <2>2 DEF TypeOK, stamps
  <2>5. active' \in [Threads -> Seq(Requests)]
    <3>1. active \in [Threads -> Seq(Requests)]
      BY DEF TypeOK, stamps
    <3>2. Append(active[t], r) \in Seq(Requests)
      BY <2>1, <3>1
    <3> HIDE DEF r
    <3>3. QED BY <2>2, <3>1, <3>2
  <2>6. QED BY <1>1, <1>2, <2>3, <2>4, <2>5 DEF TypeOK, stamps
<1>5. QED BY <1>3, <1>4

------------------------------------------------------------------------------
\* The locals of the other threads are their own.
SameLocals(u) ==
    /\ pc'[u] = pc[u] /\ active'[u] = active[u] /\ batch'[u] = batch[u] /\ quota'[u] = quota[u]
    /\ pick'[u] = pick[u] /\ scan'[u] = scan[u] /\ ready'[u] = ready[u]

LEMMA SlotsKept ==
    ASSUME SlotsInv, NEW t \in Threads, metrics'.maxBatch <= MaxBatch, Slots(t)',
           \A u \in Threads \ {t} : SameLocals(u)
    PROVE  SlotsInv'
<1>1. \A u \in Threads \ {t} : Slots(u)'
  BY DEF SlotsInv, Slots, SameLocals, PassPcs, PopPcs
<1>2. QED BY <1>1 DEF SlotsInv

\* No way of counting but the one of a round touches max_observed_batch.
LEMMA CountKeepsMax ==
    ASSUME NEW m \in Metrics, NEW n \in Nat
    PROVE  /\ [m EXCEPT !.submitted = @ + 1].maxBatch = m.maxBatch
           /\ [m EXCEPT !.rejected = @ + n].maxBatch = m.maxBatch
           /\ [m EXCEPT !.cancelled = @ + 1].maxBatch = m.maxBatch
           /\ [m EXCEPT !.completed = @ + 1].maxBatch = m.maxBatch
           /\ [m EXCEPT !.generated = @ + n].maxBatch = m.maxBatch
           /\ [m EXCEPT !.waits = @ + 1].maxBatch = m.maxBatch
           /\ [m EXCEPT !.preemptions = @ + 1].maxBatch = m.maxBatch
           /\ [m EXCEPT !.cancelled = @ + 1, !.completed = @ + 1].maxBatch = m.maxBatch
BY DEF Metrics

\* Outside the admission pass a call has nothing admitted and no quota.
LEMMA NotAdmitting ==
    ASSUME TypeOK, SlotsInv, NEW t \in Threads, pc[t] \notin PassPcs \cup {"prefill"}
    PROVE  batch[t] = <<>> /\ quota[t] = 0 /\ Len(active[t]) \in Nat /\ Len(active[t]) <= MaxBatch
<1>1. batch[t] = <<>> /\ quota[t] = 0 /\ Len(active[t]) + Len(batch[t]) + quota[t] <= MaxBatch
  BY DEF SlotsInv, Slots, PassPcs, PopPcs
<1>2. Len(active[t]) \in Nat /\ Len(batch[t]) \in Nat /\ MaxBatch \in Nat
  BY SchedulerAssumption DEF TypeOK
<1>3. QED BY <1>1, <1>2

LEMMA InitSlots == Init => SlotsInv
<1>1. SUFFICES ASSUME Init PROVE SlotsInv
  OBVIOUS
<1>2. metrics.maxBatch <= MaxBatch
  BY <1>1, SchedulerAssumption DEF Init
<1>3. ASSUME NEW t \in Threads PROVE Slots(t)
  BY <1>1, SchedulerAssumption DEF Init, Slots, PassPcs, PopPcs
<1>4. QED BY <1>2, <1>3 DEF SlotsInv

\* A step of submit or cancel leaves the locals of the loop alone.
OutsideLoop == {"idle", "withdraw"} \cup SubmitPcs

LEMMA OutsideSlots ==
    ASSUME TypeOK, SlotsInv, NEW t \in Threads, NEW to \in OutsideLoop, pc[t] \in OutsideLoop,
           pc' = [pc EXCEPT ![t] = to], metrics'.maxBatch = metrics.maxBatch,
           UNCHANGED <<active, batch, quota, scan, ready>>,
           \A u \in Threads \ {t} : pick'[u] = pick[u], to = "withdraw" => pick'[t] > 0
    PROVE  SlotsInv'
<1>1. Slots(t)'
  BY DEF TypeOK, SlotsInv, Slots, OutsideLoop, SubmitPcs, StampPcs, PassPcs, PopPcs
<1>2. \A u \in Threads \ {t} : SameLocals(u)
  BY DEF TypeOK, SameLocals
<1>3. QED BY <1>1, <1>2, SlotsKept DEF SlotsInv

LEMMA SubmitSlots ==
    ASSUME TypeOK, SlotsInv, NEW t \in Threads, NEW c \in Calls, Submit(t, c)
    PROVE  SlotsInv'
<1>1. metrics \in Metrics
  BY DEF TypeOK
<1>2. metrics'.maxBatch = metrics.maxBatch
  <2>1. [metrics EXCEPT !.rejected = @ + 1].maxBatch = metrics.maxBatch
    BY <1>1, CountKeepsMax
  <2>2. QED BY <2>1 DEF Submit
<1>3. \E to \in OutsideLoop \ {"withdraw"} : pc[t] = "idle" /\ pc' = [pc EXCEPT ![t] = to]
  BY DEF Submit, Goto, OutsideLoop, SubmitPcs, StampPcs
<1>4. UNCHANGED <<active, batch, quota, pick, choice, scan, ready>>
  BY DEF Submit
<1>5. QED BY <1>2, <1>3, <1>4, OutsideSlots DEF OutsideLoop

LEMMA CheckCapacitySlots ==
    ASSUME TypeOK, SlotsInv, NEW t \in Threads, CheckCapacity(t) \/ Recheck(t)
    PROVE  SlotsInv'
<1>1. metrics \in Metrics /\ Len(call[t].batch) \in Nat
  BY DEF TypeOK
<1>2. metrics'.maxBatch = metrics.maxBatch
  <2>1. /\ [metrics EXCEPT !.rejected = @ + Len(call[t].batch)].maxBatch = metrics.maxBatch
        /\ [metrics EXCEPT !.waits = @ + 1].maxBatch = metrics.maxBatch
    BY <1>1, CountKeepsMax
  <2>2. QED BY <2>1 DEF CheckCapacity, Recheck, Reject
<1>3. pc[t] \in OutsideLoop /\ \E to \in OutsideLoop \ {"withdraw"} : pc' = [pc EXCEPT ![t] = to]
  BY DEF CheckCapacity, Recheck, Reject, Goto, OutsideLoop, SubmitPcs, StampPcs
<1>4. UNCHANGED <<active, batch, quota, pick, choice, scan, ready>>
  BY DEF CheckCapacity, Recheck
<1>5. QED BY <1>2, <1>3, <1>4, OutsideSlots

LEMMA StopWaitingSlots ==
    ASSUME TypeOK, SlotsInv, NEW t \in Threads, StopWaiting(t)
    PROVE  SlotsInv'
<1>1. pc[t] \in OutsideLoop /\ \E to \in OutsideLoop \ {"withdraw"} : pc' = [pc EXCEPT ![t] = to]
  BY DEF StopWaiting, Goto, OutsideLoop, SubmitPcs, StampPcs
<1>2. UNCHANGED <<active, batch, quota, pick, choice, scan, ready, metrics>>
  BY DEF StopWaiting, locals, shared
<1>3. QED BY <1>1, <1>2, OutsideSlots

LEMMA EnqueueSlots ==
    ASSUME TypeOK, SlotsInv, NEW t \in Threads,
           Enqueue(t) \/ Stamp(t) \/ Number(t) \/ CountSubmitted(t)
    PROVE  SlotsInv'
<1>1. metrics \in Metrics
  BY DEF TypeOK
<1>2. metrics'.maxBatch = metrics.maxBatch
  <2>1. [metrics EXCEPT !.submitted = @ + 1].maxBatch = metrics.maxBatch
    BY <1>1, CountKeepsMax
  <2>2. QED BY <2>1 DEF Enqueue, Stamp, Number, CountSubmitted, locals
<1>3. pc[t] \in OutsideLoop /\ \E to \in OutsideLoop \ {"withdraw"} : pc' = [pc EXCEPT ![t] = to]
  BY DEF Enqueue, Stamp, Number, CountSubmitted, locals, Goto, OutsideLoop, SubmitPcs, StampPcs
<1>4. UNCHANGED <<active, batch, quota, pick, choice, scan, ready>>
  BY DEF Enqueue, Stamp, Number, CountSubmitted, locals
<1>5. QED BY <1>2, <1>3, <1>4, OutsideSlots

LEMMA CancelSlots ==
    ASSUME TypeOK, SlotsInv, NEW t \in Threads, NEW i \in Ids, Cancel(t, i)
    PROVE  SlotsInv'
<1>1. UNCHANGED <<metrics, active, batch, quota, scan, ready>> /\ pc[t] = "idle"
  BY DEF Cancel, Goto
<1>2. pending \in Seq(Requests) /\ pick \in [Threads -> Nat]
  BY DEF TypeOK
<1>3. CASE pc' = [pc EXCEPT ![t] = "idle"] /\ pick' = pick
  BY <1>1, <1>3, OutsideSlots DEF OutsideLoop
<1>4. ASSUME NEW k \in DOMAIN pending, pc' = [pc EXCEPT ![t] = "withdraw"], pick' = [pick EXCEPT ![t] = k]
      PROVE  SlotsInv'
  <2>1. pick'[t] > 0 /\ \A u \in Threads \ {t} : pick'[u] = pick[u]
    BY <1>2, <1>4
  <2>2. QED BY <1>1, <1>4, <2>1, OutsideSlots DEF OutsideLoop
<1>5. QED BY <1>3, <1>4 DEF Cancel, Goto

LEMMA WithdrawSlots ==
    ASSUME TypeOK, SlotsInv, NEW t \in Threads, Withdraw(t)
    PROVE  SlotsInv'
<1>1. metrics \in Metrics /\ pick \in [Threads -> Nat]
  BY DEF TypeOK
<1>2. metrics'.maxBatch = metrics.maxBatch
  <2>1. [metrics EXCEPT !.cancelled = @ + 1].maxBatch = metrics.maxBatch
    BY <1>1, CountKeepsMax
  <2>2. QED BY <2>1 DEF Withdraw
<1>3. /\ pc[t] = "withdraw" /\ pc' = [pc EXCEPT ![t] = "idle"] /\ pick' = [pick EXCEPT ![t] = 0]
      /\ UNCHANGED <<active, batch, quota, scan, ready>>
  BY DEF Withdraw, Goto
<1>4. \A u \in Threads \ {t} : pick'[u] = pick[u]
  BY <1>1, <1>3
<1>5. QED BY <1>2, <1>3, <1>4, OutsideSlots DEF OutsideLoop

------------------------------------------------------------------------------
LEMMA RunLoopSlots ==
    ASSUME TypeOK, SlotsInv, NEW t \in Threads, Run(t) \/ Loop(t)
    PROVE  SlotsInv'
<1>1. metrics' = metrics /\ UNCHANGED <<active, batch, quota, pick, choice, scan, ready>>
  BY DEF Run, Loop, shared, locals
<1>2. pc[t] \in {"idle", "loop"}
      /\ \E to \in {"loop", "resume", "idle"} : pc' = [pc EXCEPT ![t] = to]
  BY DEF Run, Loop, Goto
<1>3. \A u \in Threads \ {t} : SameLocals(u)
  BY <1>1, <1>2 DEF TypeOK, SameLocals
<1>4. Slots(t)'
  BY <1>1, <1>2 DEF TypeOK, SlotsInv, Slots, PassPcs, PopPcs
<1>5. QED BY <1>1, <1>3, <1>4, SlotsKept DEF SlotsInv

LEMMA ResumeSlots ==
    ASSUME TypeOK, SlotsInv, NEW t \in Threads, Resume(t)
    PROVE  SlotsInv'
<1>1. metrics' = metrics /\ pc[t] = "resume" /\ UNCHANGED <<batch, quota, scan, ready>>
  BY DEF Resume, Goto
<1>2. active[t] \in Seq(Requests) /\ paused \in Seq(Requests) /\ pick \in [Threads -> Nat]
      /\ active \in [Threads -> Seq(Requests)] /\ pc \in [Threads -> Pcs] /\ MaxBatch \in Nat
  BY SchedulerAssumption DEF TypeOK
<1>3. batch[t] = <<>> /\ quota[t] = 0 /\ ready[t] = <<>> /\ Len(active[t]) <= MaxBatch
  BY <1>1, NotAdmitting DEF SlotsInv, Slots, PassPcs, PopPcs
<1>4. ASSUME NEW s \in Sorted(paused, Ahead), Capacity(t) > 0,
             pc' = [pc EXCEPT ![t] = "unpause"],
             active' = [active EXCEPT ![t] = @ \o SubSeq(s, 1, Least(Capacity(t), Len(s)))],
             pick' = [pick EXCEPT ![t] = Capacity(t)]
      PROVE  SlotsInv'
  <2> DEFINE m == Least(Capacity(t), Len(s))
             n == Len(active[t])
  <2>1. s \in Seq(Requests) /\ Len(s) \in Nat /\ n \in Nat /\ Capacity(t) = MaxBatch - n
    BY <1>2, SortedType DEF Capacity
  <2>2. m \in Nat /\ m <= Len(s) /\ m + n <= MaxBatch
    <3> DEFINE l == Len(s)
    <3>1. l \in Nat /\ n \in Nat /\ Capacity(t) = MaxBatch - n /\ Capacity(t) > 0 /\ MaxBatch \in Nat
      BY <1>2, <1>4, <2>1
    <3>2. m = (IF Capacity(t) < l THEN Capacity(t) ELSE l)
      BY DEF Least
    <3>3. SUFFICES m \in Nat /\ m <= l /\ m + n <= MaxBatch
      OBVIOUS
    <3> HIDE DEF l, m, n
    <3>4. QED BY <3>1, <3>2
  <2> HIDE DEF m
  <2>3. SubSeq(s, 1, m) \in Seq(Requests) /\ Len(SubSeq(s, 1, m)) = m
    BY <2>1, <2>2
  <2>4. active'[t] = active[t] \o SubSeq(s, 1, m) /\ pc'[t] = "unpause"
    BY <1>2, <1>4 DEF m
  <2>5. Len(active'[t]) = n + m
    BY <1>2, <2>3, <2>4
  <2> HIDE DEF n
  <2>6. Len(active'[t]) + Len(batch'[t]) + quota'[t] <= MaxBatch
    BY <1>1, <1>2, <1>3, <2>1, <2>2, <2>5
  <2>7. Slots(t)'
    BY <1>1, <1>3, <2>4, <2>6 DEF Slots, PassPcs, PopPcs
  <2>8. \A u \in Threads \ {t} : SameLocals(u)
    BY <1>1, <1>2, <1>4 DEF SameLocals
  <2>9. QED BY <1>1, <2>7, <2>8, SlotsKept DEF SlotsInv
<1>5. CASE Goto(t, "resume", "admit") /\ UNCHANGED <<paused, active, pick>>
  <2>1. Slots(t)'
    BY <1>1, <1>2, <1>5 DEF SlotsInv, Slots, Goto, PassPcs, PopPcs
  <2>2. \A u \in Threads \ {t} : SameLocals(u)
    BY <1>1, <1>2, <1>5 DEF SameLocals, Goto
  <2>3. QED BY <1>1, <2>1, <2>2, SlotsKept DEF SlotsInv
<1>6. QED BY <1>4, <1>5 DEF Resume, Goto

LEMMA UnpauseSlots ==
    ASSUME TypeOK, SlotsInv, NEW t \in Threads, Unpause(t)
    PROVE  SlotsInv'
<1>1. /\ metrics' = metrics /\ pc[t] = "unpause" /\ pc' = [pc EXCEPT ![t] = "admit"]
      /\ pick' = [pick EXCEPT ![t] = 0] /\ UNCHANGED <<active, batch, quota, scan, ready>>
  BY DEF Unpause, Goto
<1>2. Slots(t)'
  BY <1>1 DEF TypeOK, SlotsInv, Slots, PassPcs, PopPcs
<1>3. \A u \in Threads \ {t} : SameLocals(u)
  BY <1>1 DEF TypeOK, SameLocals
<1>4. QED BY <1>1, <1>2, <1>3, SlotsKept DEF SlotsInv

\* The quota of an admission pass is what active leaves free.
LEMMA AdmitSlots ==
    ASSUME TypeOK, SlotsInv, NEW t \in Threads, Admit(t)
    PROVE  SlotsInv'
<1>1. /\ metrics' = metrics /\ pc[t] = "admit" /\ pc' = [pc EXCEPT ![t] = "select"]
      /\ quota' = [quota EXCEPT ![t] = AdmitQuota(t)]
      /\ UNCHANGED <<active, batch, pick, choice, scan, ready>>
  BY DEF Admit, Goto, shared
<1>2. batch[t] = <<>> /\ Len(active[t]) \in Nat /\ Len(active[t]) <= MaxBatch
  BY <1>1, NotAdmitting DEF PassPcs, PopPcs
<1>3. Len(pending) \in Nat /\ MaxBatch \in Nat
  BY SchedulerAssumption DEF TypeOK
<1>4. AdmitQuota(t) \in Nat /\ Len(active[t]) + AdmitQuota(t) <= MaxBatch
  <2> DEFINE p == Len(pending)  a == Len(active[t])
  <2>1. AdmitQuota(t) = IF p < MaxBatch - a THEN p ELSE MaxBatch - a
    BY DEF AdmitQuota, Capacity, Least
  <2>2. p \in Nat /\ a \in Nat /\ a <= MaxBatch /\ MaxBatch \in Nat
    BY <1>2, <1>3
  <2>3. SUFFICES AdmitQuota(t) \in Nat /\ a + AdmitQuota(t) <= MaxBatch
    OBVIOUS
  <2> HIDE DEF p, a
  <2>4. QED BY <2>1, <2>2
<1>5. pc'[t] = "select" /\ quota'[t] = AdmitQuota(t)
  BY <1>1 DEF TypeOK
<1>6. ready'[t] = <<>>
  BY <1>1 DEF SlotsInv, Slots, PassPcs, PopPcs
<1>7. Slots(t)'
  <2>1. Len(active'[t]) + Len(batch'[t]) + quota'[t] <= MaxBatch
    BY <1>1, <1>2, <1>4, <1>5
  <2>2. QED BY <2>1, <1>5, <1>6 DEF Slots, PassPcs, PopPcs
<1>8. \A u \in Threads \ {t} : SameLocals(u)
  BY <1>1 DEF TypeOK, SameLocals
<1>9. QED BY <1>1, <1>7, <1>8, SlotsKept DEF SlotsInv

LEMMA RaiseSlots ==
    ASSUME TypeOK, SlotsInv, NEW t \in Threads, Raise(t)
    PROVE  SlotsInv'
<1>1. Slots(t)'
  BY SchedulerAssumption DEF TypeOK, Raise, Slots, PassPcs, PopPcs
<1>2. \A u \in Threads \ {t} : SameLocals(u)
  BY DEF TypeOK, Raise, SameLocals
<1>3. metrics' = metrics
  BY DEF Raise, shared
<1>4. QED BY <1>1, <1>2, <1>3, SlotsKept DEF SlotsInv

\* The steps of the comprehension before the pop.  Unless one raises it moves the
\* thread on, and touches no more than pick and choice of its own.
Scoring(t) == Select(t) \/ OpenRange(t) \/ Weigh(t) \/ Rank(t)

LEMMA ScoringStep ==
    ASSUME TypeOK, SlotsInv, NEW t \in Threads, Scoring(t), ~Raise(t)
    PROVE  /\ UNCHANGED <<shared, gen, call, active, batch, quota, preempted, scan, ready, results, history>>
           /\ pc[t] \in PassPcs \ {"take"}
           /\ \E to \in PopPcs \cup {"prefill"} :
                /\ pc' = [pc EXCEPT ![t] = to]
                /\ IF to = "prefill" THEN quota[t] = 0 ELSE quota[t] > 0
           /\ pick' \in [Threads -> Nat] /\ \A u \in Threads \ {t} : pick'[u] = pick[u]
           /\ pc'[t] = "take" => pick'[t] > 0
<1>1. pick \in [Threads -> Nat] /\ pc \in [Threads -> Pcs] /\ quota[t] \in Nat
  BY DEF TypeOK
<1>2. CASE Select(t)
  BY <1>1, <1>2 DEF Select, Goto, locals, PassPcs, PopPcs
<1>3. CASE OpenRange(t)
  <2>1. quota[t] > 0
    BY <1>3 DEF OpenRange, Goto, SlotsInv, Slots, PopPcs, PassPcs
  <2>2. Len(pending) \in Nat
    BY DEF TypeOK
  <2>3. QED BY <1>1, <1>3, <2>1, <2>2 DEF OpenRange, Goto, PassPcs, PopPcs
<1>4. CASE Weigh(t)
  <2>1. quota[t] > 0 /\ pc[t] = "weigh"
    BY <1>4 DEF Weigh, Goto, SlotsInv, Slots, PopPcs, PassPcs
  <2>2. \A k \in FirstIn(choice[t].scores, Outscores) : k \in Nat /\ k > 0
    BY ScoresType DEF FirstIn
  <2>3. /\ UNCHANGED <<shared, gen, call, active, batch, quota, preempted, scan, ready, results, history>>
        /\ \/ pc' = [pc EXCEPT ![t] = "rank"] /\ pick' = pick
           \/ /\ pc' = [pc EXCEPT ![t] = "take"]
              /\ \E k \in FirstIn(choice[t].scores, Outscores) : pick' = [pick EXCEPT ![t] = k]
    BY <1>4 DEF Weigh, Goto
  <2>4. QED BY <1>1, <2>1, <2>2, <2>3 DEF PassPcs, PopPcs
<1>5. CASE Rank(t)
  <2>1. quota[t] > 0
    BY <1>5 DEF Rank, Goto, SlotsInv, Slots, PopPcs, PassPcs
  <2>2. QED BY <1>1, <1>5, <2>1 DEF Rank, Goto, PassPcs, PopPcs
<1>6. QED BY <1>2, <1>3, <1>4, <1>5 DEF Scoring

LEMMA ScoringSlots ==
    ASSUME TypeOK, SlotsInv, NEW t \in Threads, Scoring(t)
    PROVE  SlotsInv'
<1>1. CASE ~Raise(t)
  <2>1. pc \in [Threads -> Pcs]
    BY DEF TypeOK
  <2>2. Slots(t)'
    BY <1>1, <2>1, ScoringStep DEF SlotsInv, Slots, PassPcs, PopPcs
  <2>3. \A u \in Threads \ {t} : SameLocals(u)
    BY <1>1, <2>1, ScoringStep DEF SameLocals
  <2>4. metrics' = metrics
    BY <1>1, ScoringStep DEF shared
  <2>5. QED BY <2>2, <2>3, <2>4, SlotsKept DEF SlotsInv
<1>2. QED BY <1>1, RaiseSlots

\* A pop takes one from the quota and adds one to the admitted requests.
LEMMA TakeSlots ==
    ASSUME TypeOK, SlotsInv, NEW t \in Threads, Take(t)
    PROVE  SlotsInv'
<1>1. CASE /\ pick[t] <= Len(pending)
           /\ Goto(t, "take", "select")
           /\ batch' = [batch EXCEPT ![t] = Append(@, pending[pick[t]])]
           /\ quota' = [quota EXCEPT ![t] = @ - 1]
           /\ pick' = [pick EXCEPT ![t] = 0]
           /\ UNCHANGED <<metrics, active, scan, ready>>
  <2>1. /\ batch[t] \in Seq(Requests) /\ batch \in [Threads -> Seq(Requests)]
        /\ pc \in [Threads -> Pcs] /\ quota \in [Threads -> Nat] /\ pick \in [Threads -> Nat]
        /\ quota[t] \in Nat /\ Len(active[t]) \in Nat /\ MaxBatch \in Nat
    <3>1. /\ batch \in [Threads -> Seq(Requests)] /\ active \in [Threads -> Seq(Requests)]
          /\ pc \in [Threads -> Pcs] /\ quota \in [Threads -> Nat] /\ pick \in [Threads -> Nat]
      BY DEF TypeOK
    <3>2. QED BY <3>1, SchedulerAssumption
  <2>2. /\ Len(active[t]) + Len(batch[t]) + quota[t] <= MaxBatch /\ ready[t] = <<>>
    BY <1>1 DEF SlotsInv, Slots, Goto, PassPcs, PopPcs
  <2>3. Len(Append(batch[t], pending[pick[t]])) = Len(batch[t]) + 1
    <3>1. pick[t] \in DOMAIN pending
      BY <1>1 DEF TypeOK, SlotsInv, Slots, Goto, PassPcs, PopPcs
    <3>2. pending[pick[t]] \in Requests
      BY <3>1 DEF TypeOK
    <3>3. QED BY <2>1, <3>2
  <2>4. /\ pc'[t] = "select" /\ quota'[t] = quota[t] - 1 /\ Len(batch'[t]) = Len(batch[t]) + 1
        /\ active'[t] = active[t] /\ ready'[t] = ready[t]
    BY <1>1, <2>1, <2>3 DEF Goto
  <2>5. Len(batch[t]) \in Nat
    BY <2>1
  <2>6. Len(active'[t]) + Len(batch'[t]) + quota'[t] <= MaxBatch
    <3> DEFINE a == Len(active[t])  b == Len(batch[t])
    <3>1. a \in Nat /\ b \in Nat /\ quota[t] \in Nat /\ MaxBatch \in Nat /\ a + b + quota[t] <= MaxBatch
      BY <2>1, <2>2, <2>5
    <3>2. SUFFICES a + (b + 1) + (quota[t] - 1) <= MaxBatch
      BY <2>4
    <3> HIDE DEF a, b
    <3>3. QED BY <3>1
  <2>7. Slots(t)'
    <3>1. pc'[t] = "select" /\ ready'[t] = <<>>
      BY <2>2, <2>4
    <3>2. QED BY <2>6, <3>1 DEF Slots, PassPcs, PopPcs
  <2>8. \A u \in Threads \ {t} : SameLocals(u)
    BY <1>1, <2>1 DEF SameLocals, Goto
  <2>9. QED BY <1>1, <2>7, <2>8, SlotsKept DEF SlotsInv
<1>2. CASE Raise(t)
  BY <1>2, RaiseSlots
<1>3. QED BY <1>1, <1>2 DEF Take

LEMMA PrefillSlots ==
    ASSUME TypeOK, SlotsInv, NEW t \in Threads, Prefill(t)
    PROVE  SlotsInv'
<1>1. /\ metrics' = metrics /\ pc[t] = "prefill"
      /\ \E to \in {"round", "preempt"} : pc' = [pc EXCEPT ![t] = to]
      /\ active' = [active EXCEPT ![t] = @ \o batch[t]]
      /\ batch' = [batch EXCEPT ![t] = <<>>]
      /\ UNCHANGED <<quota, pick, choice, scan, ready>>
  BY DEF Prefill, Goto, shared
<1>2. /\ batch[t] \in Seq(Requests) /\ batch \in [Threads -> Seq(Requests)]
      /\ active[t] \in Seq(Requests) /\ active \in [Threads -> Seq(Requests)]
      /\ pc \in [Threads -> Pcs] /\ MaxBatch \in Nat
  BY SchedulerAssumption DEF TypeOK
<1>3. Len(active[t] \o batch[t]) = Len(active[t]) + Len(batch[t])
  BY <1>2
<1>4. quota[t] = 0 /\ ready[t] = <<>> /\ Len(active[t]) + Len(batch[t]) + quota[t] <= MaxBatch
  BY <1>1 DEF SlotsInv, Slots, PassPcs, PopPcs
<1>5. Slots(t)'
  BY <1>1, <1>2, <1>3, <1>4 DEF Slots, PassPcs, PopPcs
<1>6. \A u \in Threads \ {t} : SameLocals(u)
  BY <1>1, <1>2 DEF SameLocals
<1>7. QED BY <1>1, <1>5, <1>6, SlotsKept DEF SlotsInv

LEMMA PreemptSlots ==
    ASSUME TypeOK, SlotsInv, NEW t \in Threads, Preempt(t)
    PROVE  SlotsInv'
<1>1. /\ metrics' = metrics /\ pc[t] = "preempt" /\ UNCHANGED <<active, batch, quota, pick, choice,
                                                                scan, ready>>
      /\ \E to \in {"displace", "admit"} : pc' = [pc EXCEPT ![t] = to]
  BY DEF Preempt, Goto, shared
<1>2. Slots(t)'
  BY <1>1 DEF TypeOK, SlotsInv, Slots, PassPcs, PopPcs
<1>3. \A u \in Threads \ {t} : SameLocals(u)
  BY <1>1 DEF TypeOK, SameLocals
<1>4. QED BY <1>1, <1>2, <1>3, SlotsKept DEF SlotsInv

LEMMA DisplaceSlots ==
    ASSUME TypeOK, SlotsInv, NEW t \in Threads, Displace(t)
    PROVE  SlotsInv'
<1>1. CASE Raise(t)
  BY <1>1, RaiseSlots
<1>2. CASE /\ Goto(t, "displace", "admit")
           /\ UNCHANGED <<batch, quota, pick, choice, scan, ready>>
           /\ \/ UNCHANGED <<active, metrics>>
              \/ /\ \E k \in DOMAIN active[t] : active' = [active EXCEPT ![t] = RemoveAt(@, k)]
                 /\ metrics' = [metrics EXCEPT !.preemptions = @ + 1]
  <2>1. /\ pc[t] = "displace" /\ pc' = [pc EXCEPT ![t] = "admit"]
        /\ active[t] \in Seq(Requests) /\ active \in [Threads -> Seq(Requests)]
        /\ pc \in [Threads -> Pcs] /\ MaxBatch \in Nat /\ metrics \in Metrics
    BY <1>2, SchedulerAssumption DEF TypeOK, Goto
  <2>2. metrics'.maxBatch = metrics.maxBatch
    <3>1. [metrics EXCEPT !.preemptions = @ + 1].maxBatch = metrics.maxBatch
      BY <2>1, CountKeepsMax
    <3>2. QED BY <1>2, <3>1
  <2>3. active' \in [Threads -> Seq(Requests)] /\ Len(active'[t]) <= Len(active[t])
        /\ \A u \in Threads \ {t} : active'[u] = active[u]
    <3>1. \A k \in DOMAIN active[t] : /\ RemoveAt(active[t], k) \in Seq(Requests)
                                     /\ Len(RemoveAt(active[t], k)) <= Len(active[t])
      BY <2>1, RemoveAtType
    <3>2. CASE UNCHANGED active
      BY <2>1, <3>2
    <3>3. ASSUME NEW k \in DOMAIN active[t], active' = [active EXCEPT ![t] = RemoveAt(@, k)]
          PROVE  active' \in [Threads -> Seq(Requests)] /\ Len(active'[t]) <= Len(active[t])
                 /\ \A u \in Threads \ {t} : active'[u] = active[u]
      BY <2>1, <3>1, <3>3
    <3>4. QED BY <1>2, <3>2, <3>3
  <2>4. batch[t] = <<>> /\ quota[t] = 0 /\ ready[t] = <<>> /\ Len(active[t]) <= MaxBatch
    BY <2>1, NotAdmitting DEF SlotsInv, Slots, PassPcs, PopPcs
  <2>5. Slots(t)'
    BY <1>2, <2>1, <2>3, <2>4 DEF Slots, PassPcs, PopPcs
  <2>6. \A u \in Threads \ {t} : SameLocals(u)
    BY <1>2, <2>1, <2>3 DEF SameLocals
  <2>7. QED BY <2>2, <2>5, <2>6, SlotsKept DEF SlotsInv
<1>3. QED BY <1>1, <1>2 DEF Displace, FirstIn

\* max_observed_batch only ever takes the length of an active list.
LEMMA RoundSlots ==
    ASSUME TypeOK, SlotsInv, NEW t \in Threads, Round(t)
    PROVE  SlotsInv'
<1>1. /\ active[t] \in Seq(Requests) /\ pc \in [Threads -> Pcs]
      /\ scan \in [Threads -> Seq(Requests)] /\ MaxBatch \in Nat /\ metrics \in Metrics
  BY SchedulerAssumption DEF TypeOK
<1>2. pc[t] = "round" /\ UNCHANGED <<active, batch, quota, pick, choice, ready>>
  BY DEF Round
<1>3. batch[t] = <<>> /\ quota[t] = 0 /\ ready[t] = <<>> /\ Len(active[t]) <= MaxBatch
      /\ metrics.maxBatch <= MaxBatch
  BY <1>2, NotAdmitting DEF SlotsInv, Slots, PassPcs, PopPcs
<1>4. CASE pc' = [pc EXCEPT ![t] = "loop"] /\ UNCHANGED <<metrics, scan>>
  <2>1. Slots(t)'
    BY <1>1, <1>2, <1>3, <1>4 DEF Slots, PassPcs, PopPcs
  <2>2. \A u \in Threads \ {t} : SameLocals(u)
    BY <1>1, <1>2, <1>4 DEF SameLocals
  <2>3. QED BY <1>3, <1>4, <2>1, <2>2, SlotsKept
<1>5. ASSUME NEW n \in {Len(active[t]), metrics.maxBatch}, pc' = [pc EXCEPT ![t] = "snapshot"],
             metrics' = [metrics EXCEPT !.maxBatch = n, !.rounds = @ + 1],
             scan' = [scan EXCEPT ![t] = active[t]]
      PROVE  SlotsInv'
  <2>1. Slots(t)'
    BY <1>1, <1>2, <1>3, <1>5 DEF Slots, PassPcs, PopPcs
  <2>2. \A u \in Threads \ {t} : SameLocals(u)
    BY <1>1, <1>2, <1>5 DEF SameLocals
  <2>3. metrics'.maxBatch = n
    BY <1>1, <1>5 DEF Metrics
  <2>4. QED BY <1>3, <2>1, <2>2, <2>3, SlotsKept
<1>6. QED BY <1>4, <1>5 DEF Round, Goto

\* ready is chosen from active: what is still to scan bounds what it can gain.
LEMMA SnapshotSlots ==
    ASSUME TypeOK, SlotsInv, NEW t \in Threads, Snapshot(t)
    PROVE  SlotsInv'
<1>1. /\ active[t] \in Seq(Requests) /\ scan[t] \in Seq(Requests) /\ ready[t] \in Seq(Requests)
      /\ scan \in [Threads -> Seq(Requests)] /\ ready \in [Threads -> Seq(Requests)]
      /\ pc \in [Threads -> Pcs] /\ MaxBatch \in Nat
  BY SchedulerAssumption DEF TypeOK
<1>2. /\ metrics' = metrics /\ pc[t] = "snapshot" /\ UNCHANGED <<active, batch, quota, pick,
                                                                 choice>>
      /\ \E to \in {"retire", "snapshot"} : pc' = [pc EXCEPT ![t] = to]
  BY DEF Snapshot, Goto, shared
<1>3. batch[t] = <<>> /\ quota[t] = 0 /\ Len(active[t]) <= MaxBatch
      /\ Len(ready[t]) + Len(scan[t]) <= Len(active[t])
  BY <1>2, NotAdmitting DEF SlotsInv, Slots, PassPcs, PopPcs
<1>4. \A u \in Threads \ {t} : SameLocals(u)
  BY <1>1, <1>2 DEF SameLocals, Snapshot
<1>5. CASE scan[t] = <<>>
  <2>1. pc' = [pc EXCEPT ![t] = "retire"] /\ ready' = ready
    BY <1>5 DEF Snapshot, Goto
  <2>2. Slots(t)'
    BY <1>1, <1>2, <1>3, <1>5, <2>1 DEF Slots, PassPcs, PopPcs
  <2>3. QED BY <1>2, <1>4, <2>2, SlotsKept DEF SlotsInv
<1>6. CASE scan[t] # <<>>
  <2>1. /\ pc' = [pc EXCEPT ![t] = "snapshot"] /\ scan' = [scan EXCEPT ![t] = Tail(@)]
        /\ ready' = ready \/ ready' = [ready EXCEPT ![t] = Append(@, Head(scan[t]))]
    BY <1>6 DEF Snapshot, Goto
  <2>2. Head(scan[t]) \in Requests /\ Len(Tail(scan[t])) = Len(scan[t]) - 1
    BY <1>1, <1>6
  <2>3. Len(Append(ready[t], Head(scan[t]))) = Len(ready[t]) + 1
    BY <1>1, <2>2
  <2>4. Len(scan'[t]) = Len(scan[t]) - 1 /\ Len(ready'[t]) <= Len(ready[t]) + 1
        /\ Len(ready'[t]) \in Nat
    BY <1>1, <2>1, <2>2, <2>3
  <2>5. Len(ready'[t]) + Len(scan'[t]) <= Len(active[t])
    <3> DEFINE n == Len(ready[t])  s == Len(scan[t])  a == Len(active[t])  m == Len(ready'[t])
    <3>1. n \in Nat /\ s \in Nat /\ a \in Nat /\ m \in Nat /\ m <= n + 1 /\ n + s <= a
      BY <1>1, <1>3, <2>4
    <3>2. SUFFICES m + (s - 1) <= a
      BY <2>4
    <3> HIDE DEF n, s, a, m
    <3>3. QED BY <3>1
  <2>6. pc'[t] = "snapshot"
    BY <1>1, <2>1
  <2>7. Slots(t)'
    BY <1>2, <1>3, <2>5, <2>6 DEF SlotsInv, Slots, PassPcs, PopPcs
  <2>8. QED BY <1>2, <1>4, <2>7, SlotsKept DEF SlotsInv
<1>7. QED BY <1>5, <1>6

LEMMA FinishKeepsMax ==
    ASSUME TypeOK, NEW t \in Threads, NEW r \in Requests, FinishIfOver(t, r)
    PROVE  metrics'.maxBatch = metrics.maxBatch
<1>1. metrics \in Metrics
  BY DEF TypeOK
<1>2. /\ [metrics EXCEPT !.completed = @ + 1].maxBatch = metrics.maxBatch
      /\ [metrics EXCEPT !.cancelled = @ + 1, !.completed = @ + 1].maxBatch = metrics.maxBatch
  BY <1>1, CountKeepsMax
<1>3. QED BY <1>2 DEF FinishIfOver

LEMMA RetireSlots ==
    ASSUME TypeOK, SlotsInv, NEW t \in Threads, Retire(t)
    PROVE  SlotsInv'
<1>1. /\ scan \in [Threads -> Seq(Requests)] /\ scan[t] \in Seq(Requests) /\ pc \in [Threads -> Pcs]
  BY DEF TypeOK
<1>2. /\ pc[t] = "retire" /\ UNCHANGED <<active, batch, quota, pick, choice, ready>>
      /\ \E to \in {"decode", "retire"} : pc' = [pc EXCEPT ![t] = to]
  BY DEF Retire, Goto
<1>3. metrics'.maxBatch = metrics.maxBatch
  <2>1. scan[t] # <<>> => Head(scan[t]) \in Requests
    BY <1>1
  <2>2. QED BY <2>1, FinishKeepsMax DEF Retire
<1>4. \A u \in Threads \ {t} : SameLocals(u)
  BY <1>1, <1>2 DEF SameLocals, Retire
<1>5. Slots(t)'
  BY <1>1, <1>2 DEF SlotsInv, Slots, PassPcs, PopPcs
<1>6. QED BY <1>3, <1>4, <1>5, SlotsKept DEF SlotsInv

LEMMA DecodeSlots ==
    ASSUME TypeOK, SlotsInv, NEW t \in Threads, Decode(t)
    PROVE  SlotsInv'
<1>1. /\ active \in [Threads -> Seq(Requests)] /\ active[t] \in Seq(Requests)
      /\ ready[t] \in Seq(Requests) /\ pc \in [Threads -> Pcs] /\ MaxBatch \in Nat
      /\ metrics \in Metrics
  BY SchedulerAssumption DEF TypeOK
<1>2. /\ pc[t] = "decode" /\ pc' = [pc EXCEPT ![t] = "collect"]
      /\ active' = [active EXCEPT ![t] = <<>>] /\ UNCHANGED <<batch, quota, pick, choice, scan,
                                                              ready>>
  BY DEF Decode, Goto
<1>3. batch[t] = <<>> /\ quota[t] = 0 /\ Len(ready[t]) <= Len(active[t]) /\ Len(active[t]) <= MaxBatch
  BY <1>2, NotAdmitting DEF SlotsInv, Slots, PassPcs, PopPcs
<1>4. metrics'.maxBatch = metrics.maxBatch
  <2>1. [metrics EXCEPT !.generated = @ + Len(ready[t])].maxBatch = metrics.maxBatch
    BY <1>1, CountKeepsMax
  <2>2. QED BY <2>1 DEF Decode
<1>5. Slots(t)'
  BY <1>1, <1>2, <1>3 DEF Slots, PassPcs, PopPcs
<1>6. \A u \in Threads \ {t} : SameLocals(u)
  BY <1>1, <1>2 DEF SameLocals
<1>7. QED BY <1>4, <1>5, <1>6, SlotsKept DEF SlotsInv

\* A session moves from ready to the survivors, or leaves both.
LEMMA CollectSlots ==
    ASSUME TypeOK, SlotsInv, NEW t \in Threads, Collect(t)
    PROVE  SlotsInv'
<1>1. /\ active \in [Threads -> Seq(Requests)] /\ active[t] \in Seq(Requests)
      /\ ready \in [Threads -> Seq(Requests)] /\ ready[t] \in Seq(Requests)
      /\ pc \in [Threads -> Pcs] /\ MaxBatch \in Nat
  BY SchedulerAssumption DEF TypeOK
<1>2. pc[t] = "collect" /\ UNCHANGED <<batch, quota, pick, choice, scan>>
  BY DEF Collect, Goto
<1>3. batch[t] = <<>> /\ quota[t] = 0 /\ Len(active[t]) + Len(ready[t]) <= MaxBatch
  BY <1>2 DEF SlotsInv, Slots, PassPcs, PopPcs
<1>4. CASE ready[t] = <<>>
  <2>1. pc' = [pc EXCEPT ![t] = "loop"] /\ UNCHANGED <<metrics, ready, active>>
    BY <1>4 DEF Collect, Goto
  <2>2. Slots(t)'
    BY <1>1, <1>2, <1>3, <1>4, <2>1 DEF Slots, PassPcs, PopPcs
  <2>3. \A u \in Threads \ {t} : SameLocals(u)
    BY <1>1, <1>2, <2>1 DEF SameLocals
  <2>4. QED BY <2>1, <2>2, <2>3, SlotsKept DEF SlotsInv
<1>5. CASE ready[t] # <<>>
  <2> DEFINE r == Head(ready[t])
  <2>1. r \in Requests /\ Len(Tail(ready[t])) = Len(ready[t]) - 1
    BY <1>1, <1>5
  <2>2. /\ FinishIfOver(t, r) /\ pc' = [pc EXCEPT ![t] = "collect"]
        /\ ready' = [ready EXCEPT ![t] = Tail(@)]
        /\ active' = active \/ active' = [active EXCEPT ![t] = Append(@, r)]
    BY <1>5 DEF Collect, Goto
  <2>3. metrics'.maxBatch = metrics.maxBatch
    BY <2>1, <2>2, FinishKeepsMax
  <2> HIDE DEF r
  <2>4. Len(Append(active[t], r)) = Len(active[t]) + 1
    BY <1>1, <2>1
  <2>5. Len(ready'[t]) = Len(ready[t]) - 1
    BY <1>1, <2>1, <2>2
  <2>6. Len(active'[t]) \in Nat /\ Len(active'[t]) <= Len(active[t]) + 1
    BY <1>1, <2>2, <2>4
  <2>7. Len(active'[t]) + Len(ready'[t]) <= MaxBatch
    <3> DEFINE n == Len(ready[t])  a == Len(active[t])  m == Len(active'[t])
    <3>1. n \in Nat /\ a \in Nat /\ m \in Nat /\ m <= a + 1 /\ a + n <= MaxBatch /\ MaxBatch \in Nat
      BY <1>1, <1>3, <2>6
    <3>2. SUFFICES m + (n - 1) <= MaxBatch
      BY <2>5
    <3> HIDE DEF n, a, m
    <3>3. QED BY <3>1
  <2>8. pc'[t] = "collect" /\ Len(ready'[t]) \in Nat
    <3>1. Tail(ready[t]) \in Seq(Requests)
      BY <1>1, <1>5
    <3>2. ready'[t] = Tail(ready[t])
      BY <1>1, <2>2
    <3>3. QED BY <1>1, <2>2, <3>1, <3>2
  <2>9. batch'[t] = <<>> /\ quota'[t] = 0
    BY <1>2, <1>3
  <2>10. Slots(t)'
    <3>1. Len(active'[t]) + Len(batch'[t]) + quota'[t] <= MaxBatch
      <4> DEFINE n == Len(ready'[t])  m == Len(active'[t])
      <4>1. n \in Nat /\ m \in Nat /\ m + n <= MaxBatch /\ MaxBatch \in Nat
        BY <1>1, <2>6, <2>7, <2>8
      <4>2. SUFFICES m + 0 + 0 <= MaxBatch
        BY <2>9
      <4> HIDE DEF n, m
      <4>3. QED BY <4>1
    <3>2. QED BY <2>7, <2>8, <2>9, <3>1 DEF Slots, PassPcs, PopPcs
  <2>11. \A u \in Threads \ {t} : SameLocals(u)
    BY <1>1, <1>2, <2>2 DEF SameLocals
  <2>12. QED BY <2>3, <2>10, <2>11, SlotsKept DEF SlotsInv
<1>6. QED BY <1>4, <1>5

------------------------------------------------------------------------------
\* One step of the scheduler keeps the types and the slots.
LEMMA Inductive == TypeOK /\ SlotsInv /\ [Next]_vars => TypeOK' /\ SlotsInv'
<1>1. SUFFICES ASSUME TypeOK, SlotsInv, [Next]_vars PROVE TypeOK' /\ SlotsInv'
  OBVIOUS
<1>2. CASE UNCHANGED vars
  <2>1. UNCHANGED <<pending, paused, cancelled, submitted, arrival, drawn, metrics, gen, pc, call,
                    active, batch, quota, pick, choice, preempted, scan, ready, results, fate,
                    returned>>
    BY <1>2 DEF vars, shared, stamps, locals, history
  <2>2. TypeOK'
    BY <1>1, <2>1 DEF TypeOK
  <2>3. SlotsInv'
    BY <1>1, <2>1 DEF SlotsInv, Slots, PassPcs, PopPcs
  <2>4. QED BY <2>2, <2>3
<1>3. ASSUME NEW t \in Threads, NEW c \in Calls, Submit(t, c) PROVE TypeOK' /\ SlotsInv'
  BY <1>1, <1>3, SubmitTypeOK, SubmitSlots
<1>4. ASSUME NEW t \in Threads, NEW i \in Ids, Cancel(t, i) PROVE TypeOK' /\ SlotsInv'
  BY <1>1, <1>4, CancelTypeOK, CancelSlots
<1>5. ASSUME NEW t \in Threads, ClientStep(t) PROVE TypeOK' /\ SlotsInv'
  BY <1>1, <1>5, CheckCapacityTypeOK, CheckCapacitySlots, StopWaitingTypeOK, StopWaitingSlots,
     RecheckTypeOK, EnqueueTypeOK, StampTypeOK, CountSubmittedTypeOK, EnqueueSlots, WithdrawTypeOK,
     WithdrawSlots
     DEF ClientStep
<1>6. ASSUME NEW t \in Threads, RunStep(t) PROVE TypeOK' /\ SlotsInv'
  BY <1>1, <1>6, LoopTypeOK, RunLoopSlots, ResumeTypeOK, ResumeSlots, UnpauseTypeOK, UnpauseSlots,
     AdmitTypeOK, AdmitSlots, SelectTypeOK, OpenRangeTypeOK, WeighTypeOK, RankTypeOK, ScoringSlots,
     TakeTypeOK, TakeSlots, PrefillTypeOK,
     PrefillSlots, PreemptTypeOK, PreemptSlots, DisplaceTypeOK, DisplaceSlots, RoundTypeOK, RoundSlots,
     SnapshotTypeOK, SnapshotSlots, RetireTypeOK, RetireSlots, DecodeTypeOK, DecodeSlots,
     CollectTypeOK, CollectSlots DEF RunStep, Scoring
<1>7. ASSUME NEW t \in Threads, Run(t) PROVE TypeOK' /\ SlotsInv'
  BY <1>1, <1>7, RunTypeOK, RunLoopSlots
<1>8. ASSUME NEW t \in Threads, RuntimeError(t) PROVE TypeOK' /\ SlotsInv'
  BY <1>1, <1>8, RaiseTypeOK, RaiseSlots DEF RuntimeError
<1>9. QED BY <1>1, <1>2, <1>3, <1>4, <1>5, <1>6, <1>7, <1>8 DEF Next

\* In every reachable state every variable has its type.
THEOREM TypeCorrect == Spec => []TypeOK
<1>1. Init => TypeOK /\ SlotsInv
  BY InitTypeOK, InitSlots
<1>2. QED BY <1>1, Inductive, PTL DEF Spec

\* For any number of threads, whatever they submit, cancel and run, and
\* whichever session raises, no call of run_until_complete ever holds more
\* sessions, admitted ones included, than max_batch_size.
THEOREM SlotBoundHolds == Spec => []SlotBound
<1>1. Init => TypeOK /\ SlotsInv
  BY InitTypeOK, InitSlots
<1>2. SlotsInv => SlotBound
  BY DEF SlotsInv, Slots, SlotBound
<1>3. QED BY <1>1, <1>2, Inductive, PTL DEF Spec

------------------------------------------------------------------------------
(* No accepted request is lost *)

\* What the theorem assumes of the callers, where the code provides no more:
\* ids that name one request each, and one thread that runs the loop if a request
\* can preempt another.
DistinctIds == \A r, s \in Requests : Id[r] = Id[s] => r = s
OneLoop == \A t, u \in Runners : t = u
Preempts == Preemptive /\ \E r, s \in Requests : Priority[r] > Priority[s]

\* The requests a submit has yet to put into the queue.
Unsubmitted(t) ==
    CASE pc[t] \in StampPcs -> ToSet(Tail(call[t].batch))
      [] pc[t] \in SubmitPcs \ StampPcs -> ToSet(call[t].batch)
      [] OTHER -> {}

\* r has a result, or an exception or a cancellation took it away.
Settled(r) == HasResult(r) \/ fate[r] \notin {"unsent", "sent"}

\* r is somewhere from where it will go on.
Kept(r) ==
    \/ r \in ToSet(pending) \cup ToSet(paused)
    \/ \E t \in Threads : r \in InSession(t) \cup Unsubmitted(t)
    \/ Settled(r)

\* What a round owes to its sessions while they are in more than one list: a
\* session that the ready comprehension leaves out is one the retire loop will
\* finish, and a resumed one is in active before it leaves the paused list.
Owed(t) ==
    /\ pc[t] \in RunPcs => t \in Runners
    /\ pc[t] = "withdraw" => t \in Cancellers
    /\ pc[t] \in StampPcs => call[t].batch # <<>>
    /\ pc[t] = "displace" => Preemptive
    /\ pc[t] = "unpause" => \A k \in 1..Len(paused) : k <= pick[t] => paused[k] \in ToSet(active[t])
    /\ pc[t] = "snapshot" /\ DistinctIds => \A r \in ToSet(active[t]) :
         r \in ToSet(ready[t]) \cup ToSet(scan[t]) \/ Marked(r) \/ Done(r) \/ Settled(r)
    /\ pc[t] = "retire" /\ DistinctIds => \A r \in ToSet(active[t]) :
         r \in ToSet(ready[t]) \/ (r \in ToSet(scan[t]) /\ (Marked(r) \/ Done(r))) \/ Settled(r)
    /\ pc[t] = "decode" /\ DistinctIds => \A r \in ToSet(active[t]) : r \in ToSet(ready[t]) \/ Settled(r)

LossInv ==
    /\ ~Preempts => paused = <<>>
    /\ DistinctIds => \A r \in Requests : fate[r] = "sent" => Kept(r)
    /\ \A t \in Threads : Owed(t)

\* What no step undoes: a request stays settled, a session that is to finish
\* stays so or is settled by the step.
Progress ==
    /\ \A r \in Requests : Settled(r) => Settled(r)'
    /\ DistinctIds => \A r \in Requests : Marked(r) => Marked(r)' \/ Settled(r)'
    /\ \A r \in Requests : Done(r) => Done(r)'

SameCall(u) == SameLocals(u) /\ call'[u] = call[u]

Here(t) == ToSet(pending) \cup ToSet(paused) \cup InSession(t) \cup Unsubmitted(t)

\* A thread's lists have requests in them.
LEMMA ListsOfRequests ==
    ASSUME TypeOK, NEW t \in Threads
    PROVE  /\ pending \in Seq(Requests) /\ paused \in Seq(Requests) /\ call[t].batch \in Seq(Requests)
           /\ active[t] \in Seq(Requests) /\ batch[t] \in Seq(Requests)
           /\ scan[t] \in Seq(Requests) /\ ready[t] \in Seq(Requests) /\ results[t] \in Seq(Result)
           /\ ToSet(active[t]) \subseteq Requests /\ ToSet(pending) \subseteq Requests
<1>1. /\ pending \in Seq(Requests) /\ paused \in Seq(Requests) /\ call[t].batch \in Seq(Requests)
      /\ active[t] \in Seq(Requests) /\ batch[t] \in Seq(Requests)
      /\ scan[t] \in Seq(Requests) /\ ready[t] \in Seq(Requests) /\ results[t] \in Seq(Result)
  BY DEF TypeOK
<1> QED BY <1>1, ToSetElement

LEMMA OthersOwe ==
    ASSUME TypeOK, Progress, NEW u \in Threads, Owed(u), SameCall(u), pc[u] = "unpause" => paused' = paused
    PROVE  Owed(u)'
<1>1. ToSet(active[u]) \subseteq Requests
  BY ListsOfRequests
<1> QED BY <1>1 DEF Owed, Progress, SameCall, SameLocals

\* What a step of t has to show.
LEMMA LossKept ==
    ASSUME TypeOK, LossInv, NEW t \in Threads, \A u \in Threads \ {t} : SameCall(u), Progress,
           ~Preempts => paused' = <<>>,
           \A u \in Threads \ {t} : pc[u] = "unpause" => paused' = paused,
           \A r \in Requests : fate'[r] = "sent" => fate[r] = "sent" \/ Kept(r)',
           DistinctIds => \A r \in Requests : r \in Here(t) => Kept(r)',
           Owed(t)'
    PROVE  LossInv'
<1>1. ASSUME NEW u \in Threads PROVE Owed(u)'
  BY OthersOwe DEF LossInv
<1>2. ASSUME DistinctIds, NEW r \in Requests, fate[r] = "sent" PROVE Kept(r)'
  <2>1. Kept(r)
    BY <1>2 DEF LossInv
  <2>2. CASE r \in Here(t)
    BY <1>2, <2>2
  <2>3. CASE \E u \in Threads \ {t} : r \in InSession(u) \cup Unsubmitted(u)
    <3>1. PICK u \in Threads \ {t} : r \in InSession(u) \cup Unsubmitted(u)
      BY <2>3
    <3>2. SameCall(u)
      OBVIOUS
    <3>3. InSession(u)' = InSession(u) /\ Unsubmitted(u)' = Unsubmitted(u)
      BY <3>2 DEF SameCall, SameLocals, InSession, Unsubmitted
    <3> QED BY <3>1, <3>3 DEF Kept
  <2>4. CASE Settled(r)
    BY <2>4 DEF Progress, Kept
  <2> QED BY <2>1, <2>2, <2>3, <2>4 DEF Kept, Here
<1> QED BY <1>1, <1>2 DEF LossInv

\* A step that tells nobody anything.
LEMMA QuietProgress ==
    ASSUME UNCHANGED <<results, returned, fate, gen>>, cancelled \subseteq cancelled'
    PROVE  Progress
BY DEF Progress, Settled, HasResult, Marked, Done

------------------------------------------------------------------------------
(* submit, submit_many and cancel *)

LEMMA SubmitLoss ==
    ASSUME TypeOK, LossInv, NEW t \in Threads, NEW c \in Calls, Submit(t, c)
    PROVE  LossInv'
<1>1. /\ UNCHANGED <<pending, paused, cancelled, gen, active, batch, quota, pick, choice, scan,
                     ready, results, returned>>
      /\ pc[t] = "idle" /\ \A r \in ToSet(c.batch) : fate[r] = "unsent"
      /\ pc \in [Threads -> Pcs] /\ call \in [Threads -> [batch : Seq(Requests), block : Blocking]]
      /\ fate \in [Requests -> Fates]
  BY DEF Submit, Goto, TypeOK
<1>2. /\ \E to \in {"capacity", "idle"} : pc' = [pc EXCEPT ![t] = to]
      /\ call' = call \/ call' = [call EXCEPT ![t] = c]
      /\ \E f \in {"sent", "rejected"} : fate' = [r \in Requests |-> IF r \in ToSet(c.batch) THEN f ELSE fate[r]]
  BY DEF Submit, Goto
<1>3. \A u \in Threads \ {t} : SameCall(u)
  BY <1>1, <1>2 DEF SameCall, SameLocals
<1>4. \A r \in Requests : Settled(r) => Settled(r)'
  BY <1>1, <1>2 DEF Settled, HasResult
<1>5. Progress
  BY <1>1, <1>4 DEF Progress, Marked, Done
<1>6. ASSUME NEW r \in Requests, fate'[r] = "sent" PROVE fate[r] = "sent" \/ Kept(r)'
  <2>1. CASE pc' = [pc EXCEPT ![t] = "capacity"] /\ call' = [call EXCEPT ![t] = c]
             /\ fate' = [q \in Requests |-> IF q \in ToSet(c.batch) THEN "sent" ELSE fate[q]]
    <3>1. pc'[t] = "capacity" /\ call'[t] = c
      BY <1>1, <2>1
    <3>2. r \in ToSet(c.batch) => r \in Unsubmitted(t)'
      BY <3>1 DEF Unsubmitted, SubmitPcs, StampPcs
    <3> QED BY <1>6, <2>1, <3>2 DEF Kept
  <2>2. CASE fate' = [q \in Requests |-> IF q \in ToSet(c.batch) THEN "rejected" ELSE fate[q]]
    BY <1>6, <2>2
  <2> QED BY <2>1, <2>2 DEF Submit, Goto
<1>7. ASSUME NEW r \in Requests, r \in Here(t) PROVE Kept(r)'
  <2>1. Unsubmitted(t) = {}
    BY <1>1 DEF Unsubmitted, SubmitPcs, StampPcs
  <2>2. r \in ToSet(pending) \cup ToSet(paused) \cup InSession(t)
    BY <1>7, <2>1 DEF Here
  <2> QED BY <1>1, <2>2 DEF Kept, InSession
<1>8. Owed(t)'
  <2>1. pc'[t] \in {"capacity", "idle"}
    BY <1>1, <1>2
  <2> QED BY <2>1 DEF Owed, RunPcs, PopPcs, StampPcs
<1> QED BY <1>1, <1>3, <1>5, <1>6, <1>7, <1>8, LossKept DEF LossInv

\* The two tests of the capacity.
LEMMA CapacityLoss ==
    ASSUME TypeOK, LossInv, NEW t \in Threads, CheckCapacity(t) \/ Recheck(t)
    PROVE  LossInv'
<1>1. /\ UNCHANGED <<pending, paused, cancelled, gen, active, batch, quota, pick, choice, scan,
                     ready, results, returned>>
      /\ pc[t] \in {"capacity", "recheck"}
      /\ pc \in [Threads -> Pcs] /\ call \in [Threads -> [batch : Seq(Requests), block : Blocking]]
      /\ fate \in [Requests -> Fates]
  BY DEF CheckCapacity, Recheck, Goto, TypeOK
<1>2. \/ /\ \E to \in {"enqueue", "waiting"} : pc' = [pc EXCEPT ![t] = to]
         /\ UNCHANGED <<call, fate>>
      \/ Reject(t)
  BY DEF CheckCapacity, Recheck, Goto
<1>3. \A u \in Threads \ {t} : SameCall(u)
  BY <1>1, <1>2 DEF SameCall, SameLocals, Reject
<1>4. \A r \in Requests : fate'[r] = fate[r] \/ fate'[r] = "rejected"
  BY <1>1, <1>2 DEF Reject
<1>5. Progress
  BY <1>1, <1>4 DEF Progress, Settled, HasResult, Marked, Done
<1>6. \A r \in Requests : fate'[r] = "sent" => fate[r] = "sent"
  BY <1>4
<1>7. ASSUME NEW r \in Requests, r \in Here(t) PROVE Kept(r)'
  <2>1. CASE r \in ToSet(pending) \cup ToSet(paused) \cup InSession(t)
    BY <1>1, <2>1 DEF Kept, InSession
  <2>2. CASE r \in Unsubmitted(t)
    <3>1. r \in ToSet(call[t].batch)
      BY <1>1, <2>2 DEF Unsubmitted, StampPcs
    <3>2. CASE Reject(t)
      BY <3>1, <3>2 DEF Reject, Kept, Settled
    <3>3. CASE (\E to \in {"enqueue", "waiting"} : pc' = [pc EXCEPT ![t] = to]) /\ UNCHANGED call
      <4>1. r \in Unsubmitted(t)'
        BY <1>1, <3>1, <3>3 DEF Unsubmitted, SubmitPcs, StampPcs
      <4> QED BY <4>1 DEF Kept
    <3> QED BY <1>2, <3>2, <3>3
  <2> QED BY <1>7, <2>1, <2>2 DEF Here
<1>8. Owed(t)'
  <2>1. pc'[t] \in {"enqueue", "waiting", "idle"}
    BY <1>1, <1>2 DEF Reject
  <2> QED BY <2>1 DEF Owed, RunPcs, PopPcs, StampPcs
<1> QED BY <1>1, <1>3, <1>5, <1>6, <1>7, <1>8, LossKept DEF LossInv

LEMMA StopWaitingLoss ==
    ASSUME TypeOK, LossInv, NEW t \in Threads, StopWaiting(t)
    PROVE  LossInv'
<1>1. /\ UNCHANGED <<pending, paused, cancelled, gen, call, active, batch, quota, pick, choice,
                     scan, ready, results, returned, fate>>
      /\ pc[t] = "waiting" /\ pc' = [pc EXCEPT ![t] = "recheck"] /\ pc \in [Threads -> Pcs]
  BY DEF StopWaiting, Goto, TypeOK, shared, locals, history
<1>2. \A u \in Threads \ {t} : SameCall(u)
  BY <1>1 DEF SameCall, SameLocals
<1>3. Progress
  BY <1>1, QuietProgress
<1>4. \A r \in Requests : r \in Here(t) => Kept(r)'
  <2>1. pc'[t] = "recheck"
    BY <1>1
  <2> QED BY <1>1, <2>1 DEF Here, Kept, InSession, Unsubmitted, SubmitPcs, StampPcs
<1>5. Owed(t)'
  BY <1>1 DEF Owed, RunPcs, PopPcs, StampPcs
<1> QED BY <1>1, <1>2, <1>3, <1>4, <1>5, LossKept DEF LossInv

\* A request is in the queue before it has left the call.
LEMMA EnqueueLoss ==
    ASSUME TypeOK, LossInv, NEW t \in Threads, Enqueue(t)
    PROVE  LossInv'
<1>1. /\ UNCHANGED <<paused, cancelled, gen, active, batch, quota, pick, choice, scan, ready,
                     results, returned, fate>>
      /\ pc[t] = "enqueue"
      /\ pc \in [Threads -> Pcs] /\ call \in [Threads -> [batch : Seq(Requests), block : Blocking]]
      /\ pending \in Seq(Requests) /\ call[t].batch \in Seq(Requests)
  BY DEF Enqueue, Goto, TypeOK, history
<1>2. \/ /\ call[t].batch = <<>> /\ pc' = [pc EXCEPT ![t] = "idle"]
         /\ call' = [call EXCEPT ![t] = NoCall] /\ pending' = pending
      \/ /\ call[t].batch # <<>> /\ pc' = [pc EXCEPT ![t] = "stamp"] /\ call' = call
         /\ pending' = Append(pending, Head(call[t].batch))
  BY DEF Enqueue, Goto
<1>3. \A u \in Threads \ {t} : SameCall(u)
  BY <1>1, <1>2 DEF SameCall, SameLocals
<1>4. Progress
  BY <1>1, QuietProgress
<1>5. ASSUME NEW r \in Requests, r \in Here(t) PROVE Kept(r)'
  <2>1. /\ ToSet(pending) \subseteq ToSet(pending')
        /\ call[t].batch # <<>> => ToSet(pending') = ToSet(pending) \cup {Head(call[t].batch)}
    <3>1. call[t].batch # <<>> => Head(call[t].batch) \in Requests
      BY <1>1
    <3>2. \A e \in Requests : ToSet(Append(pending, e)) = ToSet(pending) \cup {e}
      BY <1>1, ToSetAppend
    <3> QED BY <1>2, <3>1, <3>2
  <2>2. CASE r \in ToSet(pending) \cup ToSet(paused) \cup InSession(t)
    BY <1>1, <2>1, <2>2 DEF Kept, InSession
  <2>3. CASE r \in Unsubmitted(t)
    <3>1. r \in ToSet(call[t].batch)
      BY <1>1, <2>3 DEF Unsubmitted, SubmitPcs, StampPcs
    <3>2. call[t].batch # <<>>
      BY <3>1, ToSetEmpty
    <3>3. r = Head(call[t].batch) \/ r \in ToSet(Tail(call[t].batch))
      BY <1>1, <3>1, <3>2, ToSetTail
    <3>4. ToSet(pending') = ToSet(pending) \cup {Head(call[t].batch)}
      BY <2>1, <3>2
    <3>5. Unsubmitted(t)' = ToSet(Tail(call[t].batch))
      BY <1>1, <1>2, <3>2 DEF Unsubmitted, StampPcs
    <3> QED BY <3>3, <3>4, <3>5 DEF Kept
  <2> QED BY <1>5, <2>2, <2>3 DEF Here
<1>6. Owed(t)'
  BY <1>1, <1>2 DEF Owed, RunPcs, PopPcs, StampPcs
<1> QED BY <1>1, <1>3, <1>4, <1>5, <1>6, LossKept DEF LossInv

LEMMA StampLoss ==
    ASSUME TypeOK, LossInv, NEW t \in Threads, Stamp(t) \/ Number(t)
    PROVE  LossInv'
<1>1. /\ UNCHANGED <<pending, paused, cancelled, gen, call, active, batch, quota, pick, choice, scan,
                     ready, results, returned, fate>>
      /\ pc[t] \in StampPcs /\ \E to \in StampPcs : pc' = [pc EXCEPT ![t] = to]
      /\ pc \in [Threads -> Pcs]
  BY DEF Stamp, Number, Goto, TypeOK, locals, history, StampPcs
<1>2. \A u \in Threads \ {t} : SameCall(u)
  BY <1>1 DEF SameCall, SameLocals
<1>3. Progress
  BY <1>1, QuietProgress
<1>4. \A r \in Requests : r \in Here(t) => Kept(r)'
  <2>1. Unsubmitted(t)' = Unsubmitted(t)
    BY <1>1 DEF Unsubmitted
  <2> QED BY <1>1, <2>1 DEF Here, Kept, InSession
<1>5. Owed(t)'
  BY <1>1 DEF LossInv, Owed, RunPcs, PopPcs, StampPcs
<1> QED BY <1>1, <1>2, <1>3, <1>4, <1>5, LossKept DEF LossInv

LEMMA CountSubmittedLoss ==
    ASSUME TypeOK, LossInv, NEW t \in Threads, CountSubmitted(t)
    PROVE  LossInv'
<1>1. /\ UNCHANGED <<pending, paused, cancelled, gen, active, batch, quota, pick, choice, scan,
                     ready, results, returned, fate>>
      /\ pc[t] = "count" /\ pc' = [pc EXCEPT ![t] = "enqueue"]
      /\ call' = [call EXCEPT ![t].batch = RemoveAt(@, 1)]
      /\ pc \in [Threads -> Pcs] /\ call \in [Threads -> [batch : Seq(Requests), block : Blocking]]
      /\ call[t].batch \in Seq(Requests)
  BY DEF CountSubmitted, Goto, TypeOK, history
<1>2. call[t].batch # <<>>
  BY <1>1 DEF LossInv, Owed, StampPcs
<1>3. call'[t].batch = Tail(call[t].batch)
  BY <1>1, <1>2, RemoveAtHead
<1>4. \A u \in Threads \ {t} : SameCall(u)
  BY <1>1 DEF SameCall, SameLocals
<1>5. Progress
  BY <1>1, QuietProgress
<1>6. \A r \in Requests : r \in Here(t) => Kept(r)'
  <2>1. Unsubmitted(t)' = Unsubmitted(t)
    BY <1>1, <1>3 DEF Unsubmitted, SubmitPcs, StampPcs
  <2> QED BY <1>1, <2>1 DEF Here, Kept, InSession
<1>7. Owed(t)'
  BY <1>1 DEF Owed, RunPcs, PopPcs, StampPcs
<1> QED BY <1>1, <1>4, <1>5, <1>6, <1>7, LossKept DEF LossInv

LEMMA CancelLoss ==
    ASSUME TypeOK, LossInv, NEW t \in Threads, NEW i \in Ids, Cancel(t, i)
    PROVE  LossInv'
<1>1. /\ UNCHANGED <<pending, paused, gen, active, batch, quota, scan, ready, results, returned,
                     fate>>
      /\ pc[t] = "idle" /\ t \in Cancellers /\ cancelled \subseteq cancelled'
      /\ \E to \in {"idle", "withdraw"} : pc' = [pc EXCEPT ![t] = to]
      /\ pick' = pick \/ \E k : pick' = [pick EXCEPT ![t] = k]
      /\ call' = call \/ \E d : call' = [call EXCEPT ![t] = d]
      /\ pc \in [Threads -> Pcs] /\ call \in [Threads -> [batch : Seq(Requests), block : Blocking]]
      /\ pick \in [Threads -> Nat]
  BY DEF Cancel, Goto, TypeOK, history
<1>2. \A u \in Threads \ {t} : SameCall(u)
  BY <1>1 DEF SameCall, SameLocals
<1>3. Progress
  BY <1>1, QuietProgress
<1>4. \A r \in Requests : r \in Here(t) => Kept(r)'
  BY <1>1 DEF Here, Kept, InSession, Unsubmitted, SubmitPcs, StampPcs
<1>5. Owed(t)'
  BY <1>1 DEF Owed, RunPcs, PopPcs, StampPcs
<1> QED BY <1>1, <1>2, <1>3, <1>4, <1>5, LossKept DEF LossInv

\* Whichever request the pop removes is told so by its fate.
LEMMA WithdrawLoss ==
    ASSUME TypeOK, SlotsInv, LossInv, NEW t \in Threads, Withdraw(t)
    PROVE  LossInv'
<1>1. /\ UNCHANGED <<paused, cancelled, gen, active, batch, quota, scan, ready, results, returned>>
      /\ pc[t] = "withdraw" /\ pc' = [pc EXCEPT ![t] = "idle"]
      /\ pick' = [pick EXCEPT ![t] = 0] /\ call' = [call EXCEPT ![t] = NoCall]
      /\ pc \in [Threads -> Pcs] /\ call \in [Threads -> [batch : Seq(Requests), block : Blocking]]
      /\ pick \in [Threads -> Nat] /\ fate \in [Requests -> Fates]
      /\ pending \in Seq(Requests) /\ pick[t] > 0
  BY DEF Withdraw, Goto, TypeOK, SlotsInv, Slots
<1>2. \/ /\ pick[t] \in DOMAIN pending /\ pending' = RemoveAt(pending, pick[t])
         /\ fate' = [fate EXCEPT ![pending[pick[t]]] = "dropped", ![Head(call[t].batch)] = "withdrawn"]
      \/ pending' = pending /\ fate' = fate
  BY <1>1 DEF Withdraw
<1>3. \A u \in Threads \ {t} : SameCall(u)
  BY <1>1 DEF SameCall, SameLocals
<1>4. \A r \in Requests : fate'[r] \in {fate[r], "dropped", "withdrawn"}
  BY <1>1, <1>2
<1>5. Progress
  BY <1>1, <1>4 DEF Progress, Settled, HasResult, Marked, Done
<1>6. ASSUME NEW r \in Requests, r \in Here(t) PROVE Kept(r)'
  <2>1. r \in ToSet(pending) \cup ToSet(paused) \cup InSession(t)
    BY <1>1, <1>6 DEF Here, Unsubmitted, SubmitPcs, StampPcs
  <2>2. CASE r \in ToSet(paused) \cup InSession(t)
    BY <1>1, <2>2 DEF Kept, InSession
  <2>3. CASE r \in ToSet(pending) /\ pending' = pending
    BY <2>3 DEF Kept
  <2>4. CASE /\ r \in ToSet(pending) /\ pick[t] \in DOMAIN pending /\ pending' = RemoveAt(pending, pick[t])
             /\ fate' = [fate EXCEPT ![pending[pick[t]]] = "dropped", ![Head(call[t].batch)] = "withdrawn"]
    <3>1. r = pending[pick[t]] \/ r \in ToSet(pending')
      BY <1>1, <2>4, ToSetRemoveAt
    <3>2. r = pending[pick[t]] => fate'[r] \in {"dropped", "withdrawn"}
      BY <1>1, <2>4
    <3> QED BY <3>1, <3>2 DEF Kept, Settled
  <2> QED BY <1>2, <2>1, <2>2, <2>3, <2>4
<1>7. Owed(t)'
  BY <1>1 DEF Owed, RunPcs, PopPcs, StampPcs
<1> QED BY <1>1, <1>3, <1>4, <1>5, <1>6, <1>7, LossKept DEF LossInv

------------------------------------------------------------------------------
(* run_until_complete *)

LEMMA RunLoss ==
    ASSUME TypeOK, LossInv, NEW t \in Threads, Run(t)
    PROVE  LossInv'
<1>1. /\ UNCHANGED <<pending, paused, cancelled, gen, call, active, batch, quota, pick, choice,
                     scan, ready, results, returned, fate>>
      /\ pc[t] = "idle" /\ pc' = [pc EXCEPT ![t] = "loop"] /\ pc \in [Threads -> Pcs] /\ t \in Runners
  BY DEF Run, Goto, TypeOK, shared, locals, history
<1>2. \A u \in Threads \ {t} : SameCall(u)
  BY <1>1 DEF SameCall, SameLocals
<1>3. Progress
  BY <1>1, QuietProgress
<1>4. \A r \in Requests : r \in Here(t) => Kept(r)'
  BY <1>1 DEF Here, Kept, InSession, Unsubmitted, SubmitPcs, StampPcs
<1>5. Owed(t)'
  BY <1>1 DEF Owed, RunPcs, PopPcs, StampPcs
<1> QED BY <1>1, <1>2, <1>3, <1>4, <1>5, LossKept DEF LossInv

\* Results move from the loop to its caller.
LEMMA LoopLoss ==
    ASSUME TypeOK, SlotsInv, LossInv, NEW t \in Threads, Loop(t)
    PROVE  LossInv'
<1>1. /\ UNCHANGED <<pending, paused, cancelled, gen, call, active, batch, quota, pick, choice,
                     scan, ready, fate>>
      /\ pc[t] = "loop" /\ \E to \in {"resume", "idle"} : pc' = [pc EXCEPT ![t] = to]
      /\ pc \in [Threads -> Pcs]
      /\ results \in [Threads -> Seq(Result)] /\ returned \in Seq(Result) /\ results[t] \in Seq(Result)
  BY DEF Loop, Goto, TypeOK, shared
<1>2. \A u \in Threads \ {t} : SameCall(u)
  BY <1>1 DEF SameCall, SameLocals
<1>3. ASSUME NEW r \in Requests, HasResult(r) PROVE HasResult(r)'
  <2>1. CASE UNCHANGED <<results, returned>>
    BY <1>3, <2>1 DEF HasResult
  <2>2. CASE returned' = returned \o results[t] /\ results' = [results EXCEPT ![t] = <<>>]
    <3>1. CASE \E k \in DOMAIN returned : returned[k].req = r
      <4>1. PICK k \in DOMAIN returned : returned[k].req = r
        BY <3>1
      <4>2. k \in DOMAIN returned' /\ returned'[k] = returned[k]
        BY <1>1, <2>2
      <4> QED BY <4>1, <4>2 DEF HasResult
    <3>2. CASE \E k \in DOMAIN results[t] : results[t][k].req = r
      <4>1. PICK k \in DOMAIN results[t] : results[t][k].req = r
        BY <3>2
      <4>2. Len(returned) + k \in DOMAIN returned' /\ returned'[Len(returned) + k] = results[t][k]
        BY <1>1, <2>2
      <4> QED BY <4>1, <4>2 DEF HasResult
    <3>3. CASE \E u \in Threads \ {t} : \E k \in DOMAIN results[u] : results[u][k].req = r
      <4>1. \A u \in Threads \ {t} : results'[u] = results[u]
        BY <1>1, <2>2
      <4> QED BY <3>3, <4>1 DEF HasResult
    <3> QED BY <1>3, <3>1, <3>2, <3>3 DEF HasResult
  <2> QED BY <2>1, <2>2 DEF Loop
<1>4. Progress
  BY <1>1, <1>3 DEF Progress, Settled, Marked, Done
<1>5. \A r \in Requests : r \in Here(t) => Kept(r)'
  BY <1>1 DEF Here, Kept, InSession, Unsubmitted, SubmitPcs, StampPcs
<1>6. Owed(t)'
  BY <1>1 DEF Owed, RunPcs, PopPcs, StampPcs, LossInv
<1> QED BY <1>1, <1>2, <1>4, <1>5, <1>6, LossKept DEF LossInv

\* Nobody else touches the paused list while t takes requests from it.
LEMMA PausedAlone ==
    ASSUME LossInv, OneLoop \/ ~Preempts, NEW t \in Threads, NEW u \in Threads \ {t},
           pc[t] \in RunPcs, pc[u] \in RunPcs
    PROVE  paused = <<>> /\ ~Preempts
BY DEF LossInv, Owed, OneLoop

LEMMA NotAheadOfItself ==
    ASSUME TypeOK, NEW x \in Requests
    PROVE  ~Ahead(x, x)
<1>1. Priority[x] \in Int /\ gen[x] \in Nat
  BY SchedulerAssumption DEF TypeOK
<1> QED BY <1>1 DEF Ahead

\* The sorted list has every paused request, as often as it was there.
LEMMA SortedElements ==
    ASSUME TypeOK, NEW s \in Seq(Requests), NEW z \in Sorted(s, Ahead)
    PROVE  ToSet(z) = ToSet(s) /\ (IsInjective(s) => IsInjective(z))
<1>1. PICK p \in [DOMAIN s -> DOMAIN s] :
         /\ z = [i \in DOMAIN s |-> s[p[i]]]
         /\ \A i, j \in DOMAIN s : i < j => \/ Ahead(s[p[i]], s[p[j]])
                                            \/ ~Ahead(s[p[j]], s[p[i]]) /\ p[i] < p[j]
  BY DEF Sorted
<1>2. DOMAIN s = 1..Len(s) /\ Len(s) \in Nat /\ IsFiniteSet(DOMAIN s) /\ Cardinality(DOMAIN s) = Len(s)
  BY FS_Interval
<1>3. \A x \in Requests : ~Ahead(x, x)
  BY NotAheadOfItself
<1>4. ASSUME NEW i \in DOMAIN s, NEW j \in DOMAIN s, i < j, p[i] = p[j] PROVE FALSE
  <2>1. s[p[i]] \in Requests /\ p[i] \in Int /\ p[j] \in Int
    BY <1>2
  <2>2. Ahead(s[p[i]], s[p[j]]) \/ p[i] < p[j]
    BY <1>1, <1>4
  <2>3. ~(p[i] < p[j])
    BY <1>4, <2>1
  <2>4. Ahead(s[p[i]], s[p[i]])
    BY <1>4, <2>2, <2>3
  <2> QED BY <1>3, <2>1, <2>4
<1>5. \A i, j \in DOMAIN s : p[i] = p[j] => i = j
  BY <1>2, <1>4
<1>6. ASSUME NEW x \in ToSet(s) PROVE x \in ToSet(z)
  <2>1. PICK k \in DOMAIN s : s[k] = x
    BY DEF ToSet
  <2>2. \E i \in DOMAIN s : p[i] = k
    <3>1. SUFFICES ASSUME \A i \in DOMAIN s : p[i] # k PROVE FALSE
      OBVIOUS
    <3> DEFINE A == DOMAIN s  B == DOMAIN s \ {k}
    <3>2. IsFiniteSet(B) /\ Cardinality(B) = Len(s) - 1
      BY <1>2, <2>1, FS_RemoveElement
    <3>3. IsFiniteSet(A) /\ Cardinality(B) < Cardinality(A)
      BY <1>2, <3>2
    <3>4. p \in [A -> B]
      BY <3>1
    <3>5. \A i, j \in A : p[i] = p[j] => i = j
      BY <1>5
    <3> HIDE DEF A, B
    <3>6. \E i, j \in A : i # j /\ p[i] = p[j]
      BY <3>2, <3>3, <3>4, FS_PigeonHole
    <3> QED BY <3>5, <3>6
  <2> QED BY <1>1, <2>1, <2>2 DEF ToSet
<1>7. ToSet(z) \subseteq ToSet(s)
  BY <1>1 DEF ToSet
<1>8. ASSUME IsInjective(s) PROVE IsInjective(z)
  <2>1. DOMAIN z = DOMAIN s /\ \A i \in DOMAIN s : z[i] = s[p[i]] /\ p[i] \in DOMAIN s
    BY <1>1
  <2>2. \A i, j \in DOMAIN s : s[i] = s[j] => i = j
    BY <1>8 DEF IsInjective
  <2> QED BY <1>5, <2>1, <2>2 DEF IsInjective
<1> QED BY <1>6, <1>7, <1>8

LEMMA ResumeLoss ==
    ASSUME TypeOK, LossInv, OneLoop \/ ~Preempts, NEW t \in Threads, Resume(t)
    PROVE  LossInv'
<1>1. /\ UNCHANGED <<pending, cancelled, gen, call, batch, quota, scan, ready, results, returned,
                     fate>>
      /\ pc[t] = "resume" /\ pc \in [Threads -> Pcs] /\ t \in Runners
      /\ active \in [Threads -> Seq(Requests)] /\ active[t] \in Seq(Requests)
      /\ paused \in Seq(Requests) /\ pick \in [Threads -> Nat]
  BY DEF Resume, Goto, TypeOK, LossInv, Owed, RunPcs, PopPcs, StampPcs, history
<1>2. Progress
  BY <1>1, QuietProgress
<1>3. CASE pc' = [pc EXCEPT ![t] = "admit"] /\ UNCHANGED <<paused, active, pick>>
  <2>1. \A u \in Threads \ {t} : SameCall(u)
    BY <1>1, <1>3 DEF SameCall, SameLocals
  <2>2. \A r \in Requests : r \in Here(t) => Kept(r)'
    BY <1>1, <1>3 DEF Here, Kept, InSession, Unsubmitted, SubmitPcs, StampPcs
  <2>3. Owed(t)'
    BY <1>1, <1>3 DEF Owed, RunPcs, PopPcs, StampPcs
  <2> QED BY <1>1, <1>2, <1>3, <2>1, <2>2, <2>3, LossKept DEF LossInv
<1>4. ASSUME NEW s \in Sorted(paused, Ahead), paused' = s, paused # <<>>, Capacity(t) > 0,
             pc' = [pc EXCEPT ![t] = "unpause"],
             active' = [active EXCEPT ![t] = @ \o SubSeq(s, 1, Least(Capacity(t), Len(s)))],
             pick' = [pick EXCEPT ![t] = Capacity(t)]
      PROVE  LossInv'
  <2> DEFINE n == Capacity(t)  z == SubSeq(s, 1, IF n < Len(s) THEN n ELSE Len(s))
  <2>1. s \in Seq(Requests) /\ Len(s) \in Nat /\ ToSet(paused) \subseteq ToSet(s)
    BY <1>1, SortedElements, SortedType
  <2>2. n \in Nat
    <3>1. Len(active[t]) \in Nat /\ MaxBatch \in Nat
      BY <1>1, SchedulerAssumption
    <3> QED BY <1>4, <3>1 DEF Capacity
  <2>3. z \in Seq(Requests) /\ active' = [active EXCEPT ![t] = @ \o z]
    <3>1. z \in Seq(Requests)
      BY <2>1, <2>2
    <3>2. SubSeq(s, 1, Least(Capacity(t), Len(s))) = z
      BY DEF Least
    <3> QED BY <1>4, <3>1, <3>2
  <2>4. \A i \in 1..Len(s) : i <= n => s[i] \in ToSet(z)
    BY <2>1, <2>2, ToSetSplit
  <2> HIDE DEF n, z
  <2>5. active'[t] = active[t] \o z /\ pc'[t] = "unpause" /\ pick'[t] = n
    BY <1>1, <1>4, <2>3 DEF n
  <2>6. ToSet(active'[t]) = ToSet(active[t]) \cup ToSet(z)
    BY <1>1, <2>3, <2>5, ToSetConcat
  <2>7. \A u \in Threads \ {t} : SameCall(u)
    BY <1>1, <1>4 DEF SameCall, SameLocals
  <2>8. \A r \in Requests : r \in Here(t) => Kept(r)'
    BY <1>1, <1>4, <2>1, <2>6 DEF Here, Kept, InSession, Unsubmitted, SubmitPcs, StampPcs
  <2>9. Owed(t)'
    BY <1>1, <1>4, <2>4, <2>5, <2>6 DEF StampPcs, Owed
  <2>10. Preempts /\ \A u \in Threads \ {t} : pc[u] # "unpause"
    BY <1>1, <1>4, PausedAlone DEF RunPcs, PopPcs, LossInv
  <2> QED BY <1>1, <1>2, <2>7, <2>8, <2>9, <2>10, LossKept
<1> QED BY <1>3, <1>4 DEF Resume, Goto

\* The requests cut off the paused list are the ones the call has resumed.
LEMMA UnpauseLoss ==
    ASSUME TypeOK, LossInv, OneLoop \/ ~Preempts, NEW t \in Threads, Unpause(t)
    PROVE  LossInv'
<1>1. /\ UNCHANGED <<pending, cancelled, gen, call, active, batch, quota, scan, ready, results,
                     returned, fate>>
      /\ pc[t] = "unpause" /\ pc' = [pc EXCEPT ![t] = "admit"] /\ pc \in [Threads -> Pcs] /\ t \in Runners
      /\ paused \in Seq(Requests) /\ pick \in [Threads -> Nat] /\ pick[t] \in Nat
      /\ pick' = [pick EXCEPT ![t] = 0]
      /\ paused' = SubSeq(paused, pick[t] + 1, Len(paused))
  BY DEF Unpause, Goto, TypeOK, LossInv, Owed, RunPcs, PopPcs, StampPcs, history
<1>2. Progress
  BY <1>1, QuietProgress
<1>3. \A u \in Threads \ {t} : SameCall(u)
  BY <1>1 DEF SameCall, SameLocals
<1>4. paused = <<>> => paused' = <<>>
  BY <1>1
<1>5. \A u \in Threads \ {t} : pc[u] = "unpause" => paused' = paused
  BY <1>1, <1>4, PausedAlone DEF RunPcs, PopPcs
<1>6. ASSUME NEW r \in Requests, r \in ToSet(paused) PROVE r \in ToSet(active[t]) \cup ToSet(paused')
  <2>1. PICK i \in 1..Len(paused) : paused[i] = r
    BY <1>1, <1>6, ToSetElement
  <2>2. IF i <= pick[t] THEN TRUE ELSE r \in ToSet(paused')
    BY <1>1, <2>1, ToSetSplit
  <2>3. i <= pick[t] => r \in ToSet(active[t])
    BY <1>1, <2>1 DEF LossInv, Owed
  <2> QED BY <2>2, <2>3
<1>7. \A r \in Requests : r \in Here(t) => Kept(r)'
  BY <1>1, <1>6 DEF Here, Kept, InSession, Unsubmitted, SubmitPcs, StampPcs
<1>8. Owed(t)'
  BY <1>1 DEF Owed, RunPcs, PopPcs, StampPcs
<1> QED BY <1>1, <1>2, <1>3, <1>4, <1>5, <1>7, <1>8, LossKept DEF LossInv

LEMMA AdmitLoss ==
    ASSUME TypeOK, LossInv, NEW t \in Threads, Admit(t)
    PROVE  LossInv'
<1>1. /\ UNCHANGED <<pending, paused, cancelled, gen, call, active, batch, pick, choice, scan,
                     ready, results, returned, fate>>
      /\ pc[t] = "admit" /\ pc' = [pc EXCEPT ![t] = "select"] /\ pc \in [Threads -> Pcs] /\ t \in Runners
      /\ quota' = [quota EXCEPT ![t] = AdmitQuota(t)] /\ quota \in [Threads -> Nat]
  BY DEF Admit, Goto, TypeOK, LossInv, Owed, RunPcs, PopPcs, StampPcs, history, shared
<1>2. \A u \in Threads \ {t} : SameCall(u)
  BY <1>1 DEF SameCall, SameLocals
<1>3. Progress
  BY <1>1, QuietProgress
<1>4. \A r \in Requests : r \in Here(t) => Kept(r)'
  BY <1>1 DEF Here, Kept, InSession, Unsubmitted, SubmitPcs, StampPcs
<1>5. Owed(t)'
  BY <1>1 DEF Owed, RunPcs, PopPcs, StampPcs
<1> QED BY <1>1, <1>2, <1>3, <1>4, <1>5, LossKept DEF LossInv

\* What a call that raises held is settled: its callers are told it failed.
LEMMA RaiseLoss ==
    ASSUME TypeOK, LossInv, NEW t \in Threads, Raise(t), pc[t] \in RunPcs
    PROVE  LossInv'
<1>1. /\ UNCHANGED <<pending, paused, cancelled, gen, call, returned>>
      /\ pc' = [pc EXCEPT ![t] = "idle"] /\ pc \in [Threads -> Pcs]
      /\ fate \in [Requests -> Fates] /\ results \in [Threads -> Seq(Result)]
      /\ fate' = [r \in Requests |-> IF r \in Held(t) THEN "failed" ELSE fate[r]]
      /\ results' = [results EXCEPT ![t] = <<>>]
  BY DEF Raise, TypeOK, shared
<1>2. \A u \in Threads \ {t} : SameCall(u)
  BY <1>1 DEF SameCall, SameLocals, Raise, TypeOK
<1>3. ASSUME NEW r \in Requests, Settled(r) PROVE Settled(r)'
  <2>1. CASE r \in Held(t) \/ fate[r] \notin {"unsent", "sent"}
    BY <1>1, <2>1 DEF Settled
  <2>2. CASE r \notin Held(t) /\ HasResult(r)
    <3>1. ~(\E k \in DOMAIN results[t] : results[t][k].req = r)
      BY <2>2 DEF Held
    <3>2. \A u \in Threads \ {t} : results'[u] = results[u]
      BY <1>1
    <3> QED BY <1>1, <2>2, <3>1, <3>2 DEF Settled, HasResult
  <2> QED BY <1>3, <2>1, <2>2 DEF Settled
<1>4. Progress
  BY <1>1, <1>3 DEF Progress, Marked, Done
<1>5. \A r \in Requests : r \in Here(t) => Kept(r)'
  <2>1. Unsubmitted(t) = {}
    BY DEF Unsubmitted, RunPcs, PopPcs, SubmitPcs, StampPcs
  <2>2. \A r \in Requests : r \in InSession(t) => Settled(r)'
    BY <1>1 DEF InSession, Held, Settled
  <2> QED BY <1>1, <2>1, <2>2 DEF Here, Kept
<1>6. Owed(t)'
  BY <1>1 DEF Owed, RunPcs, PopPcs, StampPcs
<1>7. \A r \in Requests : fate'[r] = "sent" => fate[r] = "sent"
  BY <1>1
<1> QED BY <1>1, <1>2, <1>4, <1>5, <1>6, <1>7, LossKept DEF LossInv

LEMMA ScoringLoss ==
    ASSUME TypeOK, SlotsInv, LossInv, NEW t \in Threads, Scoring(t)
    PROVE  LossInv'
<1>1. pc[t] \in PassPcs
  BY DEF Scoring, Select, OpenRange, Weigh, Rank, Goto, PassPcs, PopPcs
<1>2. CASE Raise(t)
  BY <1>1, <1>2, RaiseLoss DEF PassPcs, RunPcs
<1>3. CASE ~Raise(t)
  <2>1. /\ UNCHANGED <<pending, paused, cancelled, gen, call, active, batch, quota, scan, ready,
                       results, returned, fate>>
        /\ \E to \in PopPcs \cup {"prefill"} : pc' = [pc EXCEPT ![t] = to]
        /\ \A u \in Threads \ {t} : pick'[u] = pick[u]
    BY <1>3, ScoringStep DEF history, shared
  <2>2. pc \in [Threads -> Pcs] /\ t \in Runners
    BY <1>1 DEF TypeOK, LossInv, Owed, PassPcs, RunPcs
  <2>3. \A u \in Threads \ {t} : SameCall(u)
    BY <2>1, <2>2 DEF SameCall, SameLocals
  <2>4. Progress
    BY <2>1, QuietProgress
  <2>5. \A r \in Requests : r \in Here(t) => Kept(r)'
    BY <1>1, <2>1 DEF Here, Kept, InSession, Unsubmitted, SubmitPcs, StampPcs, PassPcs, PopPcs
  <2>6. Owed(t)'
    BY <2>1, <2>2 DEF Owed, RunPcs, PopPcs, StampPcs
  <2> QED BY <2>1, <2>3, <2>4, <2>5, <2>6, LossKept DEF LossInv
<1> QED BY <1>2, <1>3

\* A popped request is among the admitted ones.
LEMMA TakeLoss ==
    ASSUME TypeOK, SlotsInv, LossInv, NEW t \in Threads, Take(t)
    PROVE  LossInv'
<1>1. CASE Raise(t)
  BY <1>1, RaiseLoss DEF Take, Goto, RunPcs, PopPcs
<1>2. CASE /\ pick[t] <= Len(pending)
           /\ Goto(t, "take", "select")
           /\ batch' = [batch EXCEPT ![t] = Append(@, pending[pick[t]])]
           /\ pending' = RemoveAt(pending, pick[t])
           /\ quota' = [quota EXCEPT ![t] = @ - 1]
           /\ pick' = [pick EXCEPT ![t] = 0]
           /\ choice' = [choice EXCEPT ![t] = NoChoice]
           /\ UNCHANGED <<paused, cancelled, stamps, metrics, gen, call, active, preempted, scan,
                          ready, results, history>>
  <2>1. /\ UNCHANGED <<paused, cancelled, gen, call, active, scan, ready, results, returned, fate>>
        /\ pc[t] = "take" /\ pc' = [pc EXCEPT ![t] = "select"] /\ pc \in [Threads -> Pcs] /\ t \in Runners
        /\ pick \in [Threads -> Nat] /\ quota \in [Threads -> Nat] /\ batch \in [Threads -> Seq(Requests)]
        /\ pending \in Seq(Requests) /\ pick[t] \in DOMAIN pending /\ batch[t] \in Seq(Requests)
    <3>1. /\ UNCHANGED <<paused, cancelled, gen, call, active, scan, ready, results, returned,
                         fate>>
          /\ pc[t] = "take" /\ pc' = [pc EXCEPT ![t] = "select"]
      BY <1>2 DEF Goto, history
    <3>2. /\ pc \in [Threads -> Pcs] /\ pick \in [Threads -> Nat] /\ quota \in [Threads -> Nat]
          /\ batch \in [Threads -> Seq(Requests)] /\ pending \in Seq(Requests) /\ batch[t] \in Seq(Requests)
      BY DEF TypeOK
    <3>3. t \in Runners /\ pick[t] > 0
      BY <3>1 DEF LossInv, Owed, RunPcs, PopPcs, StampPcs, SlotsInv, Slots
    <3>4. pick[t] \in DOMAIN pending
      BY <1>2, <3>2, <3>3
    <3> QED BY <3>1, <3>2, <3>3, <3>4
  <2>2. /\ pending[pick[t]] \in Requests
        /\ ToSet(pending) = {pending[pick[t]]} \cup ToSet(pending')
    BY <1>2, <2>1, ToSetRemoveAt
  <2>3. ToSet(batch'[t]) = ToSet(batch[t]) \cup {pending[pick[t]]}
    <3>1. batch'[t] = Append(batch[t], pending[pick[t]])
      BY <1>2, <2>1
    <3> QED BY <2>1, <2>2, <3>1, ToSetAppend
  <2>4. \A u \in Threads \ {t} : SameCall(u)
    BY <1>2, <2>1 DEF SameCall, SameLocals
  <2>5. Progress
    BY <2>1, QuietProgress
  <2>6. \A r \in Requests : r \in Here(t) => Kept(r)'
    BY <2>1, <2>2, <2>3 DEF Here, Kept, InSession, Unsubmitted, SubmitPcs, StampPcs
  <2>7. Owed(t)'
    BY <2>1 DEF Owed, RunPcs, PopPcs, StampPcs
  <2> QED BY <2>1, <2>4, <2>5, <2>6, <2>7, LossKept DEF LossInv
<1> QED BY <1>1, <1>2 DEF Take

LEMMA PrefillLoss ==
    ASSUME TypeOK, LossInv, NEW t \in Threads, Prefill(t)
    PROVE  LossInv'
<1>1. /\ UNCHANGED <<pending, paused, cancelled, gen, call, quota, pick, choice, scan, ready,
                     results, returned, fate>>
      /\ pc[t] = "prefill" /\ \E to \in {"round", "preempt"} : pc' = [pc EXCEPT ![t] = to]
      /\ pc \in [Threads -> Pcs] /\ t \in Runners
      /\ active' = [active EXCEPT ![t] = @ \o batch[t]] /\ batch' = [batch EXCEPT ![t] = <<>>]
      /\ active \in [Threads -> Seq(Requests)] /\ batch \in [Threads -> Seq(Requests)]
      /\ active[t] \in Seq(Requests) /\ batch[t] \in Seq(Requests)
  BY DEF Prefill, Goto, TypeOK, LossInv, Owed, RunPcs, PopPcs, StampPcs, history, shared
<1>2. ToSet(active'[t]) = ToSet(active[t]) \cup ToSet(batch[t])
  <2>1. active'[t] = active[t] \o batch[t]
    BY <1>1
  <2> QED BY <1>1, <2>1, ToSetConcat
<1>3. \A u \in Threads \ {t} : SameCall(u)
  BY <1>1 DEF SameCall, SameLocals
<1>4. Progress
  BY <1>1, QuietProgress
<1>5. \A r \in Requests : r \in Here(t) => Kept(r)'
  BY <1>1, <1>2 DEF Here, Kept, InSession, Unsubmitted, SubmitPcs, StampPcs
<1>6. Owed(t)'
  BY <1>1 DEF Owed, RunPcs, PopPcs, StampPcs
<1> QED BY <1>1, <1>3, <1>4, <1>5, <1>6, LossKept DEF LossInv

LEMMA PreemptLoss ==
    ASSUME TypeOK, LossInv, NEW t \in Threads, Preempt(t)
    PROVE  LossInv'
<1>1. /\ UNCHANGED <<pending, paused, cancelled, gen, call, active, batch, quota, pick, choice,
                     scan, ready, results, returned, fate>>
      /\ pc[t] = "preempt" /\ pc \in [Threads -> Pcs] /\ t \in Runners
      /\ \/ Preemptive /\ pc' = [pc EXCEPT ![t] = "displace"]
         \/ pc' = [pc EXCEPT ![t] = "admit"]
  BY DEF Preempt, Goto, TypeOK, LossInv, Owed, RunPcs, PopPcs, StampPcs, history, shared
<1>2. \A u \in Threads \ {t} : SameCall(u)
  BY <1>1 DEF SameCall, SameLocals
<1>3. Progress
  BY <1>1, QuietProgress
<1>4. \A r \in Requests : r \in Here(t) => Kept(r)'
  BY <1>1 DEF Here, Kept, InSession, Unsubmitted, SubmitPcs, StampPcs
<1>5. Owed(t)'
  BY <1>1 DEF Owed, RunPcs, PopPcs, StampPcs
<1> QED BY <1>1, <1>2, <1>3, <1>4, <1>5, LossKept DEF LossInv

\* A session that gives its slot up is in the paused list.
LEMMA DisplaceLoss ==
    ASSUME TypeOK, LossInv, OneLoop \/ ~Preempts, NEW t \in Threads, Displace(t)
    PROVE  LossInv'
<1>1. CASE Raise(t)
  BY <1>1, RaiseLoss DEF Displace, Goto, RunPcs, PopPcs
<1>2. ASSUME NEW k \in DOMAIN active[t],
             Goto(t, "displace", "admit"),
             \/ /\ Outranked(active[t][k])
                /\ paused' = Append(paused, active[t][k])
                /\ active' = [active EXCEPT ![t] = RemoveAt(@, k)]
             \/ UNCHANGED <<paused, active>>,
             UNCHANGED <<pending, cancelled, stamps, gen, call, batch, quota, pick, choice, scan,
                         ready, results, history>>
      PROVE  LossInv'
  <2>1. /\ UNCHANGED <<pending, cancelled, gen, call, batch, quota, pick, choice, scan, ready,
                       results, returned, fate>>
        /\ pc[t] = "displace" /\ pc' = [pc EXCEPT ![t] = "admit"] /\ pc \in [Threads -> Pcs] /\ t \in Runners
        /\ active \in [Threads -> Seq(Requests)] /\ active[t] \in Seq(Requests) /\ paused \in Seq(Requests)
    BY <1>2 DEF Goto, TypeOK, LossInv, Owed, RunPcs, PopPcs, StampPcs, history
  <2>2. (Preempts /\ OneLoop) \/ UNCHANGED <<paused, active>>
    <3>1. Preemptive
      BY <2>1 DEF LossInv, Owed
    <3>2. Outranked(active[t][k]) => Preempts
      <4>1. active[t][k] \in Requests /\ \A j \in DOMAIN pending : pending[j] \in Requests
        BY <2>1 DEF TypeOK
      <4> QED BY <3>1, <4>1 DEF Outranked, Preempts
    <3> QED BY <1>2, <3>2
  <2>3. \A u \in Threads \ {t} : pc[u] = "unpause" => paused' = paused
    BY <2>1, <2>2 DEF LossInv, Owed, OneLoop, RunPcs, PopPcs, StampPcs
  <2>4. ToSet(paused) \cup ToSet(active[t]) \subseteq ToSet(paused') \cup ToSet(active'[t])
    <3>1. CASE paused' = Append(paused, active[t][k]) /\ active' = [active EXCEPT ![t] = RemoveAt(@, k)]
      <4>1. active[t][k] \in Requests /\ ToSet(active[t]) = {active[t][k]} \cup ToSet(active'[t])
        <5>1. active'[t] = RemoveAt(active[t], k)
          BY <2>1, <3>1
        <5> QED BY <2>1, <5>1, ToSetRemoveAt
      <4>2. ToSet(paused') = ToSet(paused) \cup {active[t][k]}
        BY <2>1, <3>1, <4>1, ToSetAppend
      <4> QED BY <4>1, <4>2
    <3>2. CASE UNCHANGED <<paused, active>>
      BY <3>2
    <3> QED BY <1>2, <3>1, <3>2
  <2>5. \A u \in Threads \ {t} : SameCall(u)
    BY <1>2, <2>1 DEF SameCall, SameLocals
  <2>6. Progress
    BY <2>1, QuietProgress
  <2>7. \A r \in Requests : r \in Here(t) => Kept(r)'
    BY <2>1, <2>4 DEF Here, Kept, InSession, Unsubmitted, SubmitPcs, StampPcs
  <2>8. Owed(t)'
    BY <2>1 DEF Owed, RunPcs, PopPcs, StampPcs
  <2>9. ~Preempts => paused' = <<>>
    BY <2>2 DEF LossInv
  <2> QED BY <2>1, <2>3, <2>5, <2>6, <2>7, <2>8, <2>9, LossKept
<1> QED BY <1>1, <1>2 DEF Displace, FirstIn

LEMMA RoundLoss ==
    ASSUME TypeOK, LossInv, NEW t \in Threads, Round(t)
    PROVE  LossInv'
<1>1. /\ UNCHANGED <<pending, paused, cancelled, gen, call, active, batch, quota, pick, choice,
                     ready, results, returned, fate>>
      /\ pc[t] = "round" /\ pc \in [Threads -> Pcs] /\ t \in Runners /\ scan \in [Threads -> Seq(Requests)]
      /\ \/ pc' = [pc EXCEPT ![t] = "loop"] /\ scan' = scan
         \/ pc' = [pc EXCEPT ![t] = "snapshot"] /\ scan' = [scan EXCEPT ![t] = active[t]]
  BY DEF Round, Goto, TypeOK, LossInv, Owed, RunPcs, PopPcs, StampPcs, history
<1>2. \A u \in Threads \ {t} : SameCall(u)
  BY <1>1 DEF SameCall, SameLocals
<1>3. Progress
  BY <1>1, QuietProgress
<1>4. \A r \in Requests : r \in Here(t) => Kept(r)'
  BY <1>1 DEF Here, Kept, InSession, Unsubmitted, SubmitPcs, StampPcs
<1>5. Owed(t)'
  BY <1>1 DEF Owed, RunPcs, PopPcs, StampPcs
<1> QED BY <1>1, <1>2, <1>3, <1>4, <1>5, LossKept DEF LossInv

\* A session that ready leaves out was marked or done when it was looked at.
LEMMA SnapshotLoss ==
    ASSUME TypeOK, LossInv, NEW t \in Threads, Snapshot(t)
    PROVE  LossInv'
<1>1. /\ UNCHANGED <<pending, paused, cancelled, gen, call, active, batch, quota, pick, choice,
                     results, returned, fate>>
      /\ pc[t] = "snapshot" /\ pc \in [Threads -> Pcs] /\ t \in Runners
      /\ \E to \in {"retire", "snapshot"} : pc' = [pc EXCEPT ![t] = to]
      /\ scan \in [Threads -> Seq(Requests)] /\ ready \in [Threads -> Seq(Requests)]
      /\ scan[t] \in Seq(Requests) /\ ready[t] \in Seq(Requests)
      /\ ToSet(active[t]) \subseteq Requests
      /\ DistinctIds => \A r \in ToSet(active[t]) :
           r \in ToSet(ready[t]) \cup ToSet(scan[t]) \/ Marked(r) \/ Done(r) \/ Settled(r)
  BY ListsOfRequests DEF Snapshot, Goto, TypeOK, LossInv, Owed, RunPcs, PopPcs, StampPcs, history, shared
<1>2. \A u \in Threads \ {t} : SameCall(u)
  BY <1>1 DEF SameCall, SameLocals, Snapshot
<1>3. Progress
  BY <1>1, QuietProgress
<1>4. \A r \in Requests : (Marked(r) <=> Marked(r)') /\ (Done(r) <=> Done(r)') /\ (Settled(r) <=> Settled(r)')
  BY <1>1 DEF Marked, Done, Settled, HasResult
<1>5. CASE scan[t] = <<>>
  <2>1. pc'[t] = "retire" /\ scan'[t] = active[t] /\ ready' = ready
    BY <1>1, <1>5 DEF Snapshot, Goto
  <2>2. \A r \in Requests : r \in Here(t) => Kept(r)'
    BY <1>1, <2>1 DEF Here, Kept, InSession, Unsubmitted, SubmitPcs, StampPcs
  <2>3. ToSet(scan[t]) = {}
    BY <1>5, ToSetEmpty
  <2>4. Owed(t)'
    BY <1>1, <1>4, <2>1, <2>3 DEF StampPcs, Owed
  <2> QED BY <1>1, <1>2, <1>3, <2>2, <2>4, LossKept DEF LossInv
<1>6. CASE scan[t] # <<>>
  <2> DEFINE h == Head(scan[t])
  <2>1. h \in Requests /\ ToSet(scan[t]) = {h} \cup ToSet(Tail(scan[t]))
    BY <1>1, <1>6, ToSetTail
  <2>2. /\ pc'[t] = "snapshot" /\ scan'[t] = Tail(scan[t])
        /\ ready'[t] = IF IsReady(h) THEN Append(ready[t], h) ELSE ready[t]
    BY <1>1, <1>6 DEF Snapshot, Goto
  <2>3. ToSet(ready[t]) \subseteq ToSet(ready'[t]) /\ (h \in ToSet(ready'[t]) \/ Marked(h) \/ Done(h))
    <3>1. \A e \in Requests : ToSet(Append(ready[t], e)) = ToSet(ready[t]) \cup {e}
      BY <1>1, ToSetAppend
    <3> HIDE DEF h
    <3> QED BY <2>1, <2>2, <3>1 DEF IsReady
  <2> HIDE DEF h
  <2>4. \A r \in Requests : r \in Here(t) => Kept(r)'
    BY <1>1, <2>2, <2>3 DEF Here, Kept, InSession, Unsubmitted, SubmitPcs, StampPcs
  <2>5. Owed(t)'
    BY <1>1, <1>4, <2>1, <2>2, <2>3 DEF StampPcs, Owed
  <2> QED BY <1>1, <1>2, <1>3, <2>4, <2>5, LossKept DEF LossInv
<1> QED BY <1>5, <1>6

\* The if / elif settles a session that is marked or done, and consumes no
\* mark but its own.
LEMMA FinishProgress ==
    ASSUME TypeOK, NEW t \in Threads, NEW r \in Requests, FinishIfOver(t, r),
           UNCHANGED <<gen, returned, fate>>
    PROVE  Progress /\ (Marked(r) \/ Done(r) => Settled(r)')
<1>1. results \in [Threads -> Seq(Result)] /\ results[t] \in Seq(Result) /\ gen[r] \in Nat
  BY DEF TypeOK
<1>2. ASSUME NEW reason \in {"length", "cancelled"}, Finish(t, r, reason)
      PROVE  HasResult(r)' /\ \A x \in Requests : HasResult(x) => HasResult(x)'
  <2> DEFINE e == [req |-> r, reason |-> reason, tokens |-> gen[r]]
  <2>1. e \in Result /\ e.req = r
    BY <1>1 DEF Result
  <2>2. results' = [results EXCEPT ![t] = Append(results[t], e)]
    BY <1>2 DEF Finish
  <2> HIDE DEF e
  <2>3. /\ results'[t] = Append(results[t], e) /\ \A u \in Threads \ {t} : results'[u] = results[u]
        /\ DOMAIN results'[t] = 1..(Len(results[t]) + 1) /\ results'[t][Len(results[t]) + 1] = e
        /\ \A k \in DOMAIN results[t] : k \in DOMAIN results'[t] /\ results'[t][k] = results[t][k]
    BY <1>1, <2>1, <2>2
  <2>4. Len(results[t]) + 1 \in DOMAIN results'[t]
    BY <1>1, <2>3
  <2>5. HasResult(r)'
    BY <2>1, <2>3, <2>4 DEF HasResult
  <2>6. ASSUME NEW x \in Requests, HasResult(x) PROVE HasResult(x)'
    BY <2>3, <2>6 DEF HasResult
  <2> QED BY <2>5, <2>6
<1>3. CASE Marked(r) /\ cancelled' = cancelled \ {Id[r]} /\ Finish(t, r, "cancelled")
  <2>1. DistinctIds => \A x \in Requests : Marked(x) /\ x # r => Marked(x)'
    BY <1>3, SchedulerAssumption DEF Marked, DistinctIds
  <2> QED BY <1>2, <1>3, <2>1 DEF Progress, Settled, Done
<1>4. CASE Done(r) /\ Finish(t, r, "length") /\ UNCHANGED cancelled
  BY <1>2, <1>4 DEF Progress, Settled, Done, Marked
<1>5. CASE ~Marked(r) /\ ~Done(r) /\ UNCHANGED <<cancelled, results>>
  BY <1>5, QuietProgress
<1> QED BY <1>3, <1>4, <1>5 DEF FinishIfOver

LEMMA RetireLoss ==
    ASSUME TypeOK, LossInv, NEW t \in Threads, Retire(t)
    PROVE  LossInv'
<1>1. /\ UNCHANGED <<pending, paused, gen, call, active, batch, quota, pick, choice, ready,
                     returned, fate>>
      /\ pc[t] = "retire" /\ pc \in [Threads -> Pcs] /\ t \in Runners
      /\ \E to \in {"decode", "retire"} : pc' = [pc EXCEPT ![t] = to]
      /\ scan \in [Threads -> Seq(Requests)] /\ scan[t] \in Seq(Requests)
      /\ ToSet(active[t]) \subseteq Requests
      /\ DistinctIds => \A r \in ToSet(active[t]) :
           r \in ToSet(ready[t]) \/ (r \in ToSet(scan[t]) /\ (Marked(r) \/ Done(r))) \/ Settled(r)
  BY ListsOfRequests DEF Retire, Goto, TypeOK, LossInv, Owed, RunPcs, PopPcs, StampPcs, history
<1>2. \A u \in Threads \ {t} : SameCall(u)
  BY <1>1 DEF SameCall, SameLocals, Retire
<1>3. \A r \in Requests : r \in Here(t) => Kept(r)'
  BY <1>1 DEF Here, Kept, InSession, Unsubmitted, SubmitPcs, StampPcs
<1>4. CASE scan[t] = <<>>
  <2>1. pc'[t] = "decode" /\ UNCHANGED <<cancelled, results>>
    BY <1>1, <1>4 DEF Retire, Goto
  <2>2. Progress
    BY <1>1, <2>1, QuietProgress
  <2>3. ToSet(scan[t]) = {}
    BY <1>4, ToSetEmpty
  <2>4. Owed(t)'
    BY <1>1, <2>1, <2>2, <2>3 DEF StampPcs, Owed, Progress
  <2> QED BY <1>1, <1>2, <1>3, <2>2, <2>4, LossKept DEF LossInv
<1>5. CASE scan[t] # <<>>
  <2>1. PICK h \in Requests : h = Head(scan[t]) /\ ToSet(scan[t]) = {h} \cup ToSet(Tail(scan[t]))
    BY <1>1, <1>5, ToSetTail
  <2>2. pc'[t] = "retire" /\ scan'[t] = Tail(scan[t]) /\ FinishIfOver(t, h)
    BY <1>1, <1>5, <2>1 DEF Retire, Goto
  <2>3. Progress /\ (Marked(h) \/ Done(h) => Settled(h)')
    BY <1>1, <2>1, <2>2, FinishProgress
  <2>4. Owed(t)'
    BY <1>1, <2>1, <2>2, <2>3 DEF StampPcs, Owed, Progress
  <2> QED BY <1>1, <1>2, <1>3, <2>3, <2>4, LossKept DEF LossInv
<1> QED BY <1>4, <1>5

\* What active had is in ready, or has its answer.
LEMMA DecodeLoss ==
    ASSUME TypeOK, LossInv, NEW t \in Threads, Decode(t)
    PROVE  LossInv'
<1>1. /\ UNCHANGED <<pending, paused, cancelled, call, batch, quota, pick, choice, scan, ready,
                     results, returned, fate>>
      /\ pc[t] = "decode" /\ pc' = [pc EXCEPT ![t] = "collect"] /\ pc \in [Threads -> Pcs] /\ t \in Runners
      /\ gen' = [r \in Requests |-> IF r \in ToSet(ready[t]) THEN gen[r] + 1 ELSE gen[r]]
      /\ gen \in [Requests -> Nat] /\ MaxNew \in [Requests -> Nat]
      /\ active' = [active EXCEPT ![t] = <<>>] /\ active \in [Threads -> Seq(Requests)]
      /\ DistinctIds => \A r \in ToSet(active[t]) : r \in ToSet(ready[t]) \/ Settled(r)
  BY SchedulerAssumption DEF Decode, Goto, TypeOK, LossInv, Owed, RunPcs, PopPcs, StampPcs, history
<1>2. \A u \in Threads \ {t} : SameCall(u)
  BY <1>1 DEF SameCall, SameLocals
<1>3. Progress
  <2>1. \A r \in Requests : Done(r) => Done(r)'
    BY <1>1 DEF Done
  <2> QED BY <1>1, <2>1 DEF Progress, Settled, HasResult, Marked
<1>4. DistinctIds => \A r \in Requests : r \in Here(t) => Kept(r)'
  BY <1>1, <1>3 DEF Here, Kept, InSession, Unsubmitted, SubmitPcs, StampPcs, Progress
<1>5. Owed(t)'
  BY <1>1 DEF Owed, RunPcs, PopPcs, StampPcs
<1> QED BY <1>1, <1>2, <1>3, <1>4, <1>5, LossKept DEF LossInv

LEMMA CollectLoss ==
    ASSUME TypeOK, LossInv, NEW t \in Threads, Collect(t)
    PROVE  LossInv'
<1>1. /\ UNCHANGED <<pending, paused, gen, call, batch, quota, pick, choice, scan, returned, fate>>
      /\ pc[t] = "collect" /\ pc \in [Threads -> Pcs] /\ t \in Runners
      /\ \E to \in {"loop", "collect"} : pc' = [pc EXCEPT ![t] = to]
      /\ ready \in [Threads -> Seq(Requests)] /\ ready[t] \in Seq(Requests)
      /\ active \in [Threads -> Seq(Requests)] /\ active[t] \in Seq(Requests)
  BY DEF Collect, Goto, TypeOK, LossInv, Owed, RunPcs, PopPcs, StampPcs, history
<1>2. Owed(t)'
  BY <1>1 DEF Owed, RunPcs, PopPcs, StampPcs
<1>3. CASE ready[t] = <<>>
  <2>1. UNCHANGED <<cancelled, results, ready, active>>
    BY <1>3 DEF Collect
  <2>2. Progress
    BY <1>1, <2>1, QuietProgress
  <2>3. \A r \in Requests : r \in Here(t) => Kept(r)'
    BY <1>1, <2>1 DEF Here, Kept, InSession, Unsubmitted, SubmitPcs, StampPcs
  <2>4. \A u \in Threads \ {t} : SameCall(u)
    BY <1>1, <2>1 DEF SameCall, SameLocals
  <2> QED BY <1>1, <1>2, <2>2, <2>3, <2>4, LossKept DEF LossInv
<1>4. CASE ready[t] # <<>>
  <2>1. PICK h \in Requests : h = Head(ready[t]) /\ ToSet(ready[t]) = {h} \cup ToSet(Tail(ready[t]))
    BY <1>1, <1>4, ToSetTail
  <2>2. /\ FinishIfOver(t, h) /\ ready' = [ready EXCEPT ![t] = Tail(@)]
        /\ active' = IF IsReady(h) THEN [active EXCEPT ![t] = Append(@, h)] ELSE active
    BY <1>4, <2>1 DEF Collect
  <2>3. Progress /\ (Marked(h) \/ Done(h) => Settled(h)')
    BY <1>1, <2>1, <2>2, FinishProgress
  <2>4. ToSet(active[t]) \subseteq ToSet(active'[t]) /\ (h \in ToSet(active'[t]) \/ Settled(h)')
    <3>1. \A e \in Requests : ToSet(Append(active[t], e)) = ToSet(active[t]) \cup {e}
      BY <1>1, ToSetAppend
    <3>2. active'[t] = IF IsReady(h) THEN Append(active[t], h) ELSE active[t]
      BY <1>1, <2>2
    <3> QED BY <2>1, <2>3, <3>1, <3>2 DEF IsReady
  <2>5. \A r \in Requests : r \in Here(t) => Kept(r)'
    <3>1. ready'[t] = Tail(ready[t])
      BY <1>1, <2>2
    <3> QED BY <1>1, <2>1, <2>4, <3>1 DEF Here, Kept, InSession, Unsubmitted, SubmitPcs, StampPcs
  <2>6. \A u \in Threads \ {t} : SameCall(u)
    BY <1>1, <2>2 DEF SameCall, SameLocals
  <2> QED BY <1>1, <1>2, <2>3, <2>5, <2>6, LossKept DEF LossInv
<1> QED BY <1>3, <1>4

------------------------------------------------------------------------------
LEMMA InitLoss == Init => LossInv
<1>1. SUFFICES ASSUME Init PROVE LossInv
  OBVIOUS
<1>2. \A t \in Threads : Owed(t)
  BY <1>1 DEF Init, Owed, RunPcs, PopPcs, StampPcs
<1> QED BY <1>1, <1>2 DEF Init, LossInv

\* One step loses nothing.
LEMMA LossInductive ==
    ASSUME OneLoop \/ ~Preempts
    PROVE  TypeOK /\ SlotsInv /\ LossInv /\ [Next]_vars => LossInv'
<1>1. SUFFICES ASSUME TypeOK, SlotsInv, LossInv, [Next]_vars PROVE LossInv'
  OBVIOUS
<1>2. CASE UNCHANGED vars
  <2>1. UNCHANGED <<pending, paused, cancelled, gen, pc, call, active, batch, pick, scan, ready,
                    results, fate, returned>>
    BY <1>2 DEF vars, shared, locals, history
  <2> QED BY <1>1, <2>1 DEF LossInv, Kept, Owed, Settled, HasResult, InSession, Unsubmitted, Marked,
        Done
<1>3. ASSUME NEW t \in Threads, NEW c \in Calls, Submit(t, c) PROVE LossInv'
  BY <1>1, <1>3, SubmitLoss
<1>4. ASSUME NEW t \in Threads, NEW i \in Ids, Cancel(t, i) PROVE LossInv'
  BY <1>1, <1>4, CancelLoss
<1>5. ASSUME NEW t \in Threads, ClientStep(t) PROVE LossInv'
  BY <1>1, <1>5, CapacityLoss, StopWaitingLoss, EnqueueLoss, StampLoss, CountSubmittedLoss,
     WithdrawLoss DEF ClientStep
<1>6. ASSUME NEW t \in Threads, RunStep(t) PROVE LossInv'
  BY <1>1, <1>6, LoopLoss, ResumeLoss, UnpauseLoss, AdmitLoss, ScoringLoss, TakeLoss, PrefillLoss,
     PreemptLoss, DisplaceLoss, RoundLoss, SnapshotLoss, RetireLoss, DecodeLoss, CollectLoss
     DEF RunStep, Scoring
<1>7. ASSUME NEW t \in Threads, Run(t) \/ RuntimeError(t) PROVE LossInv'
  BY <1>1, <1>7, RunLoss, RaiseLoss DEF RuntimeError, RunPcs, PopPcs
<1> QED BY <1>1, <1>2, <1>3, <1>4, <1>5, <1>6, <1>7 DEF Next

LEMMA LossInvImplies ==
    ASSUME DistinctIds
    PROVE  TypeOK /\ LossInv => NoLoss
<1>1. ASSUME TypeOK, LossInv, NEW r \in Requests, fate[r] = "sent"
      PROVE  \/ r \in ToSet(pending) \cup ToSet(paused)
             \/ \E t \in Threads : r \in InSession(t) \/ (pc[t] \in SubmitPcs /\ r \in ToSet(call[t].batch))
             \/ HasResult(r)
  <2>1. ASSUME NEW t \in Threads, r \in Unsubmitted(t) PROVE pc[t] \in SubmitPcs /\ r \in ToSet(call[t].batch)
    <3>1. CASE pc[t] \in StampPcs
      <4>1. call[t].batch # <<>> /\ r \in ToSet(Tail(call[t].batch)) /\ call[t].batch \in Seq(Requests)
        BY <1>1, <2>1, <3>1 DEF LossInv, Owed, Unsubmitted, TypeOK
      <4> QED BY <3>1, <4>1, ToSetTail DEF SubmitPcs
    <3>2. CASE pc[t] \notin StampPcs
      BY <2>1, <3>2 DEF Unsubmitted
    <3> QED BY <3>1, <3>2
  <2> QED BY <1>1, <2>1 DEF LossInv, Kept, Settled
<1> QED BY <1>1 DEF NoLoss

\* Whatever the threads submit, cancel and run, and whichever session raises, an
\* accepted request stays in the queue, in the paused list, in the hands of a
\* running call or among its results, unless its caller was told otherwise.
\* Ids are distinct: of two sessions with one id, the ready comprehension leaves
\* both out while the mark is there, the first consumes it, and the second is
\* neither decoded nor finished.  One thread runs a scheduler that may preempt: two
\* loops resume the same paused request and each cuts its own number of requests
\* off the list, the second one requests that neither has resumed.
THEOREM NoLossHolds ==
    ASSUME DistinctIds, OneLoop \/ ~Preempts
    PROVE  Spec => []NoLoss
<1>1. Init => TypeOK /\ SlotsInv /\ LossInv
  BY InitTypeOK, InitSlots, InitLoss
<1>2. TypeOK /\ SlotsInv /\ LossInv /\ [Next]_vars => TypeOK' /\ SlotsInv' /\ LossInv'
  BY Inductive, LossInductive
<1>3. TypeOK /\ LossInv => NoLoss
  BY LossInvImplies
<1> QED BY <1>1, <1>2, <1>3, PTL DEF Spec

------------------------------------------------------------------------------
(* A request is in one place at a time *)

\* Cancellations come from the thread that runs the loop, between its calls.
OwnCancels == \A t \in Runners, u \in Cancellers : u = t

\* Besides, nobody else takes requests out of the queue.
SoleConsumer == OwnCancels /\ OneLoop

------------------------------------------------------------------------------
(* Where a request is *)

\* The requests of results.
Reqs(s) == [k \in DOMAIN s |-> s[k].req]
Answered(t) == ToSet(Reqs(results[t]))
Final == ToSet(Reqs(returned))

\* The paused requests nobody has resumed; while _pop_paused runs, the ones it
\* has taken are still in the list.
Resumable == {paused[k] : k \in {j \in DOMAIN paused : \A t \in Threads : pc[t] = "unpause" => j > pick[t]}}

\* The requests a call is to go on with.
Own(t) == Unsubmitted(t) \cup
    (CASE pc[t] = "retire" -> ToSet(ready[t]) \cup ToSet(scan[t])
       [] pc[t] = "decode" -> ToSet(ready[t])
       [] OTHER -> InSession(t))

Shared == ToSet(pending) \cup Resumable \cup Final
Mine(t) == Own(t) \cup Answered(t)

\* A request is in the queue, is paused, has been returned, or is in the hands
\* of one call, which will go on with it or has answered it; one that was never
\* submitted or was refused is nowhere.
Apart ==
    /\ ToSet(pending) \cap Resumable = {} /\ ToSet(pending) \cap Final = {} /\ Resumable \cap Final = {}
    /\ \A t \in Threads : Own(t) \cap Answered(t) = {} /\ Mine(t) \cap Shared = {}
    /\ \A t, u \in Threads : t # u => Mine(t) \cap Mine(u) = {}
    /\ \A r \in Requests : fate[r] \in {"unsent", "rejected"} => r \notin Shared /\ \A t \in Threads : r \notin Mine(t)

\* The lists of a call have no request twice, and outside the loop there are
\* none.
Tidy(t) ==
    /\ IsInjective(active[t]) /\ IsInjective(batch[t]) /\ IsInjective(ready[t])
    /\ ToSet(active[t]) \cap ToSet(batch[t]) = {}
    /\ IsInjective(Reqs(results[t]))
    /\ pc[t] \notin RunPcs => active[t] = <<>>
    /\ pc[t] \in SubmitPcs => IsInjective(call[t].batch)
    /\ pc[t] \in {"snapshot", "retire"} => IsInjective(scan[t])
    /\ pc[t] = "snapshot" => /\ ToSet(scan[t]) \cup ToSet(ready[t]) \subseteq ToSet(active[t])
                             /\ ToSet(scan[t]) \cap ToSet(ready[t]) = {}
    /\ pc[t] = "collect" => ToSet(active[t]) \cap ToSet(ready[t]) = {}

\* What is ready is neither marked nor done until it is decoded.
ReadyToDecode(t) ==
    pc[t] \in {"snapshot", "retire", "decode"} => \A r \in ToSet(ready[t]) : ~Marked(r) /\ ~Done(r)

OnceInv ==
    /\ Apart
    /\ IsInjective(pending) /\ IsInjective(paused) /\ IsInjective(Reqs(returned))
    /\ \A t \in Threads : Tidy(t) /\ ReadyToDecode(t)
    /\ \A r \in Requests : gen[r] <= MaxNew[r]
    /\ ResultsExact

\* The admission pass of t finds what it counted, what it scores and what it
\* selected.
Fresh(t) ==
    /\ pc[t] \in PassPcs => quota[t] <= Len(pending)
    /\ pc[t] \in {"weigh", "rank", "take"} => pick[t] \in DOMAIN pending
    /\ pc[t] \in {"weigh", "rank"} => Len(choice[t].scores) <= pick[t]
    /\ pc[t] \notin {"weigh", "rank", "take"} => choice[t].scores = <<>>

------------------------------------------------------------------------------
(* What a step leaves alone *)

SameThread(u) == SameCall(u) /\ results'[u] = results[u]

LEMMA ClientLeavesOthers ==
    ASSUME TypeOK, NEW t \in Threads,
           (\E c \in Calls : Submit(t, c)) \/ (\E i \in Ids : Cancel(t, i)) \/ ClientStep(t)
    PROVE  \A u \in Threads \ {t} : SameThread(u)
<1>1. pc \in [Threads -> Pcs] /\ call \in [Threads -> [batch : Seq(Requests), block : Blocking]]
      /\ pick \in [Threads -> Nat]
  BY DEF TypeOK
<1>2. ASSUME NEW c \in Calls, Submit(t, c) PROVE \A u \in Threads \ {t} : SameThread(u)
  BY <1>1, <1>2 DEF Submit, Goto, SameThread, SameCall, SameLocals
<1>3. ASSUME NEW i \in Ids, Cancel(t, i) PROVE \A u \in Threads \ {t} : SameThread(u)
  BY <1>1, <1>3 DEF Cancel, Goto, SameThread, SameCall, SameLocals
<1>4. CASE CheckCapacity(t) \/ Recheck(t)
  BY <1>1, <1>4 DEF CheckCapacity, Recheck, Reject, Goto, SameThread, SameCall, SameLocals
<1>5. CASE StopWaiting(t)
  BY <1>1, <1>5 DEF StopWaiting, Goto, SameThread, SameCall, SameLocals, locals
<1>6. CASE Enqueue(t) \/ Stamp(t) \/ Number(t) \/ CountSubmitted(t)
  BY <1>1, <1>6 DEF Enqueue, Stamp, Number, CountSubmitted, Goto, SameThread, SameCall, SameLocals,
     locals
<1>7. CASE Withdraw(t)
  BY <1>1, <1>7 DEF Withdraw, Goto, SameThread, SameCall, SameLocals
<1> QED BY <1>2, <1>3, <1>4, <1>5, <1>6, <1>7 DEF ClientStep

LEMMA RunLeavesOthers ==
    ASSUME TypeOK, SlotsInv, NEW t \in Threads, Run(t) \/ RunStep(t) \/ RuntimeError(t)
    PROVE  \A u \in Threads \ {t} : SameThread(u)
<1>1. /\ pc \in [Threads -> Pcs] /\ pick \in [Threads -> Nat] /\ quota \in [Threads -> Nat]
      /\ active \in [Threads -> Seq(Requests)] /\ batch \in [Threads -> Seq(Requests)]
      /\ scan \in [Threads -> Seq(Requests)] /\ ready \in [Threads -> Seq(Requests)]
      /\ results \in [Threads -> Seq(Result)]
  BY DEF TypeOK
<1>2. CASE Run(t) \/ Loop(t)
  BY <1>1, <1>2 DEF Run, Loop, Goto, SameThread, SameCall, SameLocals, locals
<1>3. CASE Resume(t) \/ Unpause(t) \/ Admit(t)
  BY <1>1, <1>3 DEF Resume, Unpause, Admit, Goto, SameThread, SameCall, SameLocals
<1>4. CASE Raise(t)
  BY <1>1, <1>4 DEF Raise, SameThread, SameCall, SameLocals
<1>5. CASE Scoring(t)
  BY <1>1, <1>4, <1>5, ScoringStep DEF SameThread, SameCall, SameLocals
<1>6. CASE Take(t)
  BY <1>1, <1>4, <1>6 DEF Take, Goto, SameThread, SameCall, SameLocals
<1>7. CASE Prefill(t) \/ Preempt(t) \/ Round(t)
  BY <1>1, <1>7 DEF Prefill, Preempt, Round, Goto, SameThread, SameCall, SameLocals
<1>8. CASE Displace(t)
  BY <1>1, <1>4, <1>8 DEF Displace, Goto, SameThread, SameCall, SameLocals
<1>9. CASE Snapshot(t)
  BY <1>1, <1>9 DEF Snapshot, Goto, SameThread, SameCall, SameLocals
<1>10. \A r : FinishIfOver(t, r) => \A u \in Threads \ {t} : results'[u] = results[u]
  BY <1>1 DEF FinishIfOver, Finish
<1>11. CASE Retire(t)
  BY <1>1, <1>10, <1>11 DEF Retire, Goto, SameThread, SameCall, SameLocals
<1>12. CASE Decode(t)
  BY <1>1, <1>12 DEF Decode, Goto, SameThread, SameCall, SameLocals
<1>13. CASE Collect(t)
  BY <1>1, <1>10, <1>13 DEF Collect, Goto, SameThread, SameCall, SameLocals
<1>14. RuntimeError(t) => Raise(t)
  BY DEF RuntimeError
<1> QED BY <1>2, <1>3, <1>4, <1>5, <1>6, <1>7, <1>8, <1>9, <1>11, <1>12, <1>13, <1>14
     DEF RunStep, Scoring

LEMMA ResumableSame ==
    ASSUME NEW t \in Threads, paused' = paused, pc[t] # "unpause", pc'[t] # "unpause",
           \A u \in Threads \ {t} : SameThread(u)
    PROVE  Resumable' = Resumable
<1>1. \A u \in Threads : \A j : (pc[u] = "unpause" => j > pick[u]) <=> (pc'[u] = "unpause" => j > pick'[u])
  BY DEF SameThread, SameCall, SameLocals
<1> QED BY <1>1 DEF Resumable

LEMMA ReqsType ==
    ASSUME NEW s \in Seq(Result)
    PROVE  Reqs(s) \in Seq(Requests) /\ Len(Reqs(s)) = Len(s) /\ DOMAIN Reqs(s) = DOMAIN s
<1>1. \A e \in Result : e.req \in Requests
  BY DEF Result
<1>2. \A k \in 1..Len(s) : s[k] \in Result
  OBVIOUS
<1> QED BY <1>1, <1>2 DEF Reqs

LEMMA ReqsEmpty == Reqs(<<>>) = <<>>
BY DEF Reqs

LEMMA ReqsAppend ==
    ASSUME NEW s \in Seq(Result), NEW e \in Result
    PROVE  Reqs(Append(s, e)) = Append(Reqs(s), e.req)
<1> DEFINE u == Reqs(Append(s, e))  v == Append(Reqs(s), e.req)
<1>1. e.req \in Requests /\ Append(s, e) \in Seq(Result) /\ Reqs(s) \in Seq(Requests) /\ Len(Reqs(s)) = Len(s)
  <2>1. e.req \in Requests
    BY DEF Result
  <2> QED BY <2>1, ReqsType
<1>2. u \in Seq(Requests) /\ Len(u) = Len(s) + 1 /\ v \in Seq(Requests) /\ Len(v) = Len(s) + 1 /\ Len(s) \in Nat
  <2>1. u \in Seq(Requests) /\ Len(u) = Len(Append(s, e))
    BY <1>1, ReqsType
  <2>2. v \in Seq(Requests) /\ Len(v) = Len(s) + 1 /\ Len(Append(s, e)) = Len(s) + 1 /\ Len(s) \in Nat
    BY <1>1
  <2> QED BY <2>1, <2>2
<1>3. \A k \in 1..(Len(s) + 1) : u[k] = v[k]
  <2>1. \A k \in 1..(Len(s) + 1) : u[k] = Append(s, e)[k].req
    BY <1>1 DEF Reqs
  <2>2. \A k \in 1..Len(s) : v[k] = Reqs(s)[k] /\ Reqs(s)[k] = s[k].req /\ Append(s, e)[k] = s[k]
    BY <1>1 DEF Reqs
  <2>3. v[Len(s) + 1] = e.req /\ Append(s, e)[Len(s) + 1] = e
    BY <1>1
  <2> HIDE DEF u, v
  <2> QED BY <1>2, <2>1, <2>2, <2>3
<1> HIDE DEF u, v
<1>4. u = v
  BY <1>2, <1>3, SeqEqual
<1> QED BY <1>4 DEF u, v

LEMMA ReqsConcat ==
    ASSUME NEW s \in Seq(Result), NEW z \in Seq(Result)
    PROVE  Reqs(s \o z) = Reqs(s) \o Reqs(z)
<1> DEFINE u == Reqs(s \o z)  v == Reqs(s) \o Reqs(z)  n == Len(s)
<1>1. s \o z \in Seq(Result) /\ Len(s \o z) = n + Len(z) /\ n \in Nat /\ Len(z) \in Nat
      /\ Reqs(s) \in Seq(Requests) /\ Len(Reqs(s)) = n /\ Reqs(z) \in Seq(Requests) /\ Len(Reqs(z)) = Len(z)
  BY ReqsType
<1>2. u \in Seq(Requests) /\ Len(u) = n + Len(z) /\ v \in Seq(Requests) /\ Len(v) = n + Len(z)
  <2>1. u \in Seq(Requests) /\ Len(u) = Len(s \o z)
    BY <1>1, ReqsType
  <2>2. v \in Seq(Requests) /\ Len(v) = Len(Reqs(s)) + Len(Reqs(z))
    BY <1>1
  <2> QED BY <1>1, <2>1, <2>2
<1>3. \A k \in 1..(n + Len(z)) : u[k] = v[k]
  <2>1. \A k \in 1..(n + Len(z)) : u[k] = (s \o z)[k].req
    BY <1>1 DEF Reqs
  <2>2. \A k \in 1..(n + Len(z)) : (s \o z)[k] = IF k <= n THEN s[k] ELSE z[k - n]
    BY ConcatProperties
  <2>3. \A k \in 1..(n + Len(z)) : v[k] = IF k <= n THEN Reqs(s)[k] ELSE Reqs(z)[k - n]
    <3>1. \A k \in 1..(Len(Reqs(s)) + Len(Reqs(z))) :
            v[k] = IF k <= Len(Reqs(s)) THEN Reqs(s)[k] ELSE Reqs(z)[k - Len(Reqs(s))]
      BY <1>1, ConcatProperties
    <3> QED BY <1>1, <3>1
  <2>4. (\A k \in 1..n : Reqs(s)[k] = s[k].req) /\ (\A k \in 1..Len(z) : Reqs(z)[k] = z[k].req)
    BY DEF Reqs
  <2>5. \A k \in 1..(n + Len(z)) : k \in 1..n \/ (~(k <= n) /\ k - n \in 1..Len(z))
    BY <1>1
  <2> HIDE DEF u, v, n
  <2>6. ASSUME NEW k \in 1..(n + Len(z)) PROVE u[k] = v[k]
    <3>1. CASE k \in 1..n
      <4>1. k <= n
        BY <1>1, <3>1
      <4> QED BY <2>1, <2>2, <2>3, <2>4, <3>1, <4>1
    <3>2. CASE ~(k <= n) /\ k - n \in 1..Len(z)
      <4>1. u[k] = z[k - n].req /\ v[k] = Reqs(z)[k - n]
        BY <2>1, <2>2, <2>3, <3>2
      <4> QED BY <2>4, <3>2, <4>1
    <3> QED BY <2>5, <3>1, <3>2
  <2> QED BY <2>6
<1> HIDE DEF u, v
<1>4. u = v
  BY <1>1, <1>2, <1>3, SeqEqual
<1> QED BY <1>4 DEF u, v

\* A step of t that hands requests over only between its own places and the
\* shared ones.
LEMMA ApartKept ==
    ASSUME Apart, NEW t \in Threads, \A u \in Threads \ {t} : SameThread(u),
           ToSet(pending)' \cap Resumable' = {}, ToSet(pending)' \cap Final' = {}, Resumable' \cap Final' = {},
           Own(t)' \cap Answered(t)' = {}, Mine(t)' \cap Shared' = {},
           Shared' \cup Mine(t)' \subseteq
               Shared \cup Mine(t) \cup {r \in Requests : fate[r] = "unsent" /\ fate'[r] = "sent"},
           \A r \in Requests : fate'[r] \in {"unsent", "rejected"} =>
               fate[r] \in {"unsent", "rejected"} \/ (r \in Mine(t) /\ r \notin Shared' \cup Mine(t)')
    PROVE  Apart'
<1>1. ASSUME NEW u \in Threads \ {t} PROVE Own(u)' = Own(u) /\ Answered(u)' = Answered(u) /\ Mine(u)' = Mine(u)
  <2>1. SameThread(u)
    OBVIOUS
  <2>2. Own(u)' = Own(u)
    BY <2>1 DEF SameThread, SameCall, SameLocals, Own, Unsubmitted, InSession
  <2>3. Answered(u)' = Answered(u)
    BY <2>1 DEF SameThread, Answered
  <2> QED BY <2>2, <2>3 DEF Mine
<1> DEFINE New == {r \in Requests : fate[r] = "unsent" /\ fate'[r] = "sent"}
<1>2. ASSUME NEW u \in Threads \ {t} PROVE Mine(u) \cap (Shared \cup Mine(t) \cup New) = {}
  BY DEF Apart
<1>3. ASSUME NEW u \in Threads \ {t} PROVE Mine(u)' \cap (Shared' \cup Mine(t)') = {}
  BY <1>1, <1>2
<1>4. \A u \in Threads : Own(u)' \cap Answered(u)' = {} /\ Mine(u)' \cap Shared' = {}
  BY <1>1, <1>3 DEF Apart
<1>5. ASSUME NEW u \in Threads, NEW w \in Threads, u # w PROVE Mine(u)' \cap Mine(w)' = {}
  <2>1. CASE u = t
    BY <1>3, <1>5, <2>1
  <2>2. CASE w = t
    BY <1>3, <1>5, <2>2
  <2>3. CASE u # t /\ w # t
    BY <1>1, <1>5, <2>3 DEF Apart
  <2> QED BY <2>1, <2>2, <2>3
<1>6. ASSUME NEW r \in Requests, fate'[r] \in {"unsent", "rejected"}
      PROVE  r \notin Shared' /\ \A u \in Threads : r \notin Mine(u)'
  <2>1. CASE fate[r] \in {"unsent", "rejected"}
    <3>1. r \notin New /\ r \notin Shared /\ \A u \in Threads : r \notin Mine(u)
      BY <1>6, <2>1 DEF Apart
    <3>2. r \notin Shared' \cup Mine(t)'
      BY <3>1
    <3> QED BY <1>1, <3>1, <3>2
  <2>2. CASE r \in Mine(t) /\ r \notin Shared' \cup Mine(t)'
    BY <1>1, <1>2, <2>2
  <2> QED BY <1>6, <2>1, <2>2
<1> QED BY <1>4, <1>5, <1>6 DEF Apart

Exact(s) == \A k \in DOMAIN s : ExactResult(s[k])

\* What a step of t has to show besides.
LEMMA OnceKept ==
    ASSUME TypeOK, LossInv, OnceInv, OwnCancels, NEW t \in Threads, \A u \in Threads \ {t} : SameThread(u),
           Apart', IsInjective(pending)', IsInjective(paused)', IsInjective(Reqs(returned))',
           Tidy(t)', ReadyToDecode(t)', Exact(results[t])', Exact(returned)',
           \A r \in Requests : gen'[r] <= MaxNew[r] /\ (gen'[r] = gen[r] \/ r \in Own(t)),
           cancelled' \subseteq cancelled \/ t \in Cancellers
    PROVE  OnceInv'
<1>1. ASSUME NEW u \in Threads \ {t} PROVE Tidy(u)'
  <2>1. SameThread(u) /\ Tidy(u)
    BY DEF OnceInv
  <2> QED BY <2>1 DEF SameThread, SameCall, SameLocals, Tidy
<1>2. ASSUME NEW u \in Threads \ {t} PROVE ReadyToDecode(u)'
  <2>1. SUFFICES ASSUME pc'[u] \in {"snapshot", "retire", "decode"}, NEW r \in ToSet(ready'[u])
                 PROVE  Id[r] \notin cancelled' /\ ~(gen'[r] >= MaxNew[r])
    BY DEF ReadyToDecode, Marked, Done
  <2>2. SameThread(u) /\ pc[u] = pc'[u] /\ ready[u] = ready'[u]
    BY DEF SameThread, SameCall, SameLocals
  <2>3. r \in Requests
    BY <2>2, ListsOfRequests, ToSetElement
  <2>4. Id[r] \notin cancelled /\ ~(gen[r] >= MaxNew[r])
    BY <2>1, <2>2 DEF OnceInv, ReadyToDecode, Marked, Done
  <2>5. r \in Own(u)
    BY <2>1, <2>2 DEF Own, InSession
  <2>6. gen'[r] = gen[r]
    BY <2>3, <2>5 DEF OnceInv, Apart, Mine
  <2>7. cancelled' \subseteq cancelled
    BY <2>1, <2>2 DEF LossInv, Owed, RunPcs, PopPcs, StampPcs, OwnCancels
  <2> QED BY <2>4, <2>6, <2>7
<1>3. ASSUME NEW u \in Threads \ {t} PROVE Exact(results[u])'
  <2>1. SameThread(u) /\ Exact(results[u])
    BY DEF OnceInv, ResultsExact, Exact
  <2>2. results'[u] = results[u] /\ results[u] \in Seq(Result)
    BY <2>1 DEF SameThread, TypeOK
  <2>3. ASSUME NEW k \in DOMAIN results[u] PROVE gen'[results[u][k].req] = gen[results[u][k].req]
    <3>1. results[u][k].req \in Answered(u)
      BY DEF Answered, Reqs, ToSet
    <3>2. results[u][k].req \in Requests
      <4>1. results[u][k] \in Result
        BY <2>2
      <4> QED BY <4>1 DEF Result
    <3> QED BY <3>1, <3>2 DEF OnceInv, Apart, Mine
  <2> QED BY <2>1, <2>2, <2>3 DEF Exact, ExactResult
<1>4. ResultsExact'
  BY <1>3 DEF ResultsExact, Exact
<1> QED BY <1>1, <1>2, <1>4 DEF OnceInv

\* A step after which nobody has more than before.
LEMMA OnceStays ==
    ASSUME TypeOK, LossInv, OnceInv, OwnCancels, NEW t \in Threads, \A u \in Threads \ {t} : SameThread(u),
           UNCHANGED <<gen, returned>>, results'[t] = results[t] \/ results'[t] = <<>>,
           ToSet(pending') \subseteq ToSet(pending), IsInjective(pending'),
           Resumable' \subseteq Resumable, IsInjective(paused'),
           Own(t)' \subseteq Own(t), Tidy(t)', ReadyToDecode(t)',
           \A r \in Requests : fate'[r] \in {"unsent", "rejected"} =>
               fate[r] \in {"unsent", "rejected"} \/ (r \in Own(t) /\ r \notin Own(t)'),
           cancelled' \subseteq cancelled \/ t \in Cancellers
    PROVE  OnceInv'
<1>1. Final' = Final
  BY DEF Final
<1>2. Answered(t)' \subseteq Answered(t)
  BY ReqsEmpty, ToSetEmpty DEF Answered
<1>3. Apart'
  <2>1. Shared' \subseteq Shared /\ Mine(t)' \subseteq Mine(t)
    BY <1>1, <1>2 DEF Shared, Mine
  <2>2. /\ ToSet(pending) \cap Resumable = {} /\ ToSet(pending) \cap Final = {} /\ Resumable \cap Final = {}
        /\ Own(t) \cap Answered(t) = {} /\ Mine(t) \cap Shared = {} /\ Apart
    BY DEF OnceInv, Apart
  <2>3. ToSet(pending)' \subseteq ToSet(pending)
    OBVIOUS
  <2>4. \A r \in Own(t) : r \notin Own(t)' => r \in Mine(t) /\ r \notin Shared' \cup Mine(t)'
    BY <1>2, <2>1, <2>2 DEF Mine
  <2>5. \A r \in Requests : fate'[r] \in {"unsent", "rejected"} =>
          fate[r] \in {"unsent", "rejected"} \/ (r \in Mine(t) /\ r \notin Shared' \cup Mine(t)')
    BY <2>4
  <2> QED BY <1>1, <1>2, <2>1, <2>2, <2>3, <2>5, ApartKept
<1>4. Exact(results[t])' /\ Exact(returned)'
  <2>1. Exact(results[t]) /\ Exact(returned)
    BY DEF OnceInv, ResultsExact, Exact
  <2> QED BY <2>1 DEF Exact, ExactResult
<1>5. \A r \in Requests : gen'[r] <= MaxNew[r]
  BY DEF OnceInv
<1>6. IsInjective(Reqs(returned))'
  BY DEF OnceInv, Reqs
<1> QED BY <1>3, <1>4, <1>5, <1>6, OnceKept

------------------------------------------------------------------------------
(* submit, submit_many and cancel *)

LEMMA SubmitOnce ==
    ASSUME TypeOK, LossInv, OnceInv, OwnCancels, NEW t \in Threads, NEW c \in Calls, Submit(t, c)
    PROVE  OnceInv'
<1>1. /\ UNCHANGED <<pending, paused, cancelled, gen, active, batch, pick, choice, scan, ready,
                     results, returned>>
      /\ pc[t] = "idle" /\ \A r \in ToSet(c.batch) : fate[r] = "unsent"
      /\ pc \in [Threads -> Pcs] /\ call \in [Threads -> [batch : Seq(Requests), block : Blocking]]
      /\ fate \in [Requests -> Fates] /\ c.batch \in Seq(Requests) /\ IsInjective(c.batch)
  BY SchedulerAssumption DEF Submit, Goto, TypeOK
<1>2. \A u \in Threads \ {t} : SameThread(u)
  BY ClientLeavesOthers
<1>3. CASE /\ pc' = [pc EXCEPT ![t] = "idle"] /\ call' = call
           /\ fate' = [r \in Requests |-> IF r \in ToSet(c.batch) THEN "rejected" ELSE fate[r]]
  <2>1. Resumable' = Resumable
    BY <1>1, <1>2, <1>3, ResumableSame
  <2>2. Tidy(t)' /\ ReadyToDecode(t)'
    BY <1>1, <1>3 DEF OnceInv, Tidy, ReadyToDecode, SubmitPcs, StampPcs, RunPcs, PopPcs
  <2>3. Own(t)' = Own(t)
    BY <1>1, <1>3 DEF Own, Unsubmitted, InSession, SubmitPcs, StampPcs
  <2>4. \A r \in Requests : fate'[r] \in {"unsent", "rejected"} => fate[r] \in {"unsent", "rejected"}
    BY <1>1, <1>3
  <2> QED BY <1>1, <1>2, <1>3, <2>1, <2>2, <2>3, <2>4, OnceStays DEF OnceInv
<1>4. CASE /\ pc' = [pc EXCEPT ![t] = "capacity"] /\ call' = [call EXCEPT ![t] = c]
           /\ fate' = [r \in Requests |-> IF r \in ToSet(c.batch) THEN "sent" ELSE fate[r]]
  <2> DEFINE B == ToSet(c.batch)
  <2>1. pc'[t] = "capacity" /\ call'[t] = c /\ B \subseteq Requests
    BY <1>1, <1>4, ToSetElement
  <2>2. Resumable' = Resumable /\ Final' = Final /\ Answered(t)' = Answered(t) /\ ToSet(pending)' = ToSet(pending)
    BY <1>1, <1>2, <2>1, ResumableSame DEF Final, Answered
  <2>3. Own(t) = InSession(t) /\ Own(t)' = Own(t) \cup B
    BY <1>1, <2>1 DEF Own, Unsubmitted, InSession, SubmitPcs, StampPcs
  <2>4. B \cap (Shared \cup Mine(t)) = {} /\ \A r \in B : fate[r] = "unsent" /\ fate'[r] = "sent"
    BY <1>1, <1>4, <2>1 DEF OnceInv, Apart
  <2>5. Shared' = Shared /\ Mine(t)' = Mine(t) \cup B
    BY <2>2, <2>3 DEF Shared, Mine
  <2>6. /\ ToSet(pending) \cap Resumable = {} /\ ToSet(pending) \cap Final = {} /\ Resumable \cap Final = {}
        /\ Own(t) \cap Answered(t) = {} /\ Mine(t) \cap Shared = {} /\ Apart
    BY DEF OnceInv, Apart
  <2>7. Own(t)' \cap Answered(t)' = {} /\ Mine(t)' \cap Shared' = {}
    BY <2>2, <2>3, <2>4, <2>5, <2>6 DEF Mine
  <2>8. \A r \in Requests : fate'[r] \in {"unsent", "rejected"} => fate[r] \in {"unsent", "rejected"}
    BY <1>4
  <2> HIDE DEF B
  <2>9. Shared' \cup Mine(t)' \subseteq
          Shared \cup Mine(t) \cup {r \in Requests : fate[r] = "unsent" /\ fate'[r] = "sent"}
    BY <2>1, <2>4, <2>5
  <2>10. Apart'
    BY <1>2, <2>2, <2>6, <2>7, <2>8, <2>9, ApartKept
  <2>11. Tidy(t)' /\ ReadyToDecode(t)'
    BY <1>1, <2>1 DEF OnceInv, Tidy, ReadyToDecode, SubmitPcs, StampPcs, RunPcs, PopPcs
  <2>12. /\ IsInjective(pending)' /\ IsInjective(paused)' /\ IsInjective(Reqs(returned))'
         /\ Exact(results[t])' /\ Exact(returned)' /\ \A r \in Requests : gen'[r] <= MaxNew[r] /\ gen'[r] = gen[r]
    BY <1>1 DEF OnceInv, ResultsExact, Exact, ExactResult, Reqs
  <2> QED BY <1>1, <1>2, <2>10, <2>11, <2>12, OnceKept
<1> QED BY <1>3, <1>4 DEF Submit, Goto

LEMMA WaitOnce ==
    ASSUME TypeOK, SlotsInv, LossInv, OnceInv, OwnCancels, NEW t \in Threads,
           CheckCapacity(t) \/ StopWaiting(t) \/ Recheck(t)
    PROVE  OnceInv'
<1>1. /\ UNCHANGED <<pending, paused, cancelled, gen, active, batch, pick, choice, scan, ready,
                     results, returned>>
      /\ pc[t] \in {"capacity", "waiting", "recheck"} /\ pc \in [Threads -> Pcs]
      /\ call \in [Threads -> [batch : Seq(Requests), block : Blocking]]
      /\ \E to \in {"enqueue", "waiting", "recheck", "idle"} : pc' = [pc EXCEPT ![t] = to]
      /\ call' = call \/ (call' = [call EXCEPT ![t] = NoCall] /\ pc' = [pc EXCEPT ![t] = "idle"])
      /\ \/ fate' = fate
         \/ /\ call' = [call EXCEPT ![t] = NoCall] /\ pc' = [pc EXCEPT ![t] = "idle"]
            /\ fate' = [r \in Requests |-> IF r \in ToSet(call[t].batch) THEN "rejected" ELSE fate[r]]
  BY DEF CheckCapacity, StopWaiting, Recheck, Reject, Goto, TypeOK, shared, locals, history
<1>2. \A u \in Threads \ {t} : SameThread(u)
  BY ClientLeavesOthers DEF ClientStep
<1>3. Resumable' = Resumable
  BY <1>1, <1>2, ResumableSame
<1>4. Tidy(t)' /\ ReadyToDecode(t)'
  BY <1>1, InjectiveEmpty DEF OnceInv, Tidy, ReadyToDecode, SubmitPcs, StampPcs, RunPcs, PopPcs
<1>5. Own(t)' \subseteq Own(t)
  BY <1>1 DEF Own, Unsubmitted, InSession, SubmitPcs, StampPcs
<1>6. \A r \in Requests : fate'[r] \in {"unsent", "rejected"} =>
        fate[r] \in {"unsent", "rejected"} \/ (r \in Own(t) /\ r \notin Own(t)')
  <2>1. CASE fate' = fate
    BY <2>1
  <2>2. CASE /\ call' = [call EXCEPT ![t] = NoCall] /\ pc' = [pc EXCEPT ![t] = "idle"]
             /\ fate' = [r \in Requests |-> IF r \in ToSet(call[t].batch) THEN "rejected" ELSE fate[r]]
    <3>1. active[t] = <<>> /\ batch[t] = <<>> /\ ready[t] = <<>>
      BY <1>1 DEF OnceInv, Tidy, RunPcs, PopPcs, SlotsInv, Slots, PassPcs
    <3>2. Own(t)' = {}
      BY <1>1, <2>2, <3>1, ToSetEmpty DEF Own, Unsubmitted, InSession, SubmitPcs, StampPcs
    <3>3. ToSet(call[t].batch) \subseteq Own(t)
      BY <1>1 DEF Own, Unsubmitted, SubmitPcs, StampPcs
    <3> QED BY <2>2, <3>2, <3>3
  <2> QED BY <1>1, <2>1, <2>2
<1> QED BY <1>1, <1>2, <1>3, <1>4, <1>5, <1>6, OnceStays DEF OnceInv

LEMMA EnqueueOnce ==
    ASSUME TypeOK, SlotsInv, LossInv, OnceInv, OwnCancels, NEW t \in Threads, Enqueue(t)
    PROVE  OnceInv'
<1>1. /\ UNCHANGED <<paused, cancelled, gen, active, batch, pick, choice, scan, ready, results,
                     returned, fate>>
      /\ pc[t] = "enqueue" /\ pc \in [Threads -> Pcs] /\ pending \in Seq(Requests)
      /\ call \in [Threads -> [batch : Seq(Requests), block : Blocking]] /\ call[t].batch \in Seq(Requests)
  BY DEF Enqueue, Goto, TypeOK, history
<1>2. \A u \in Threads \ {t} : SameThread(u)
  BY ClientLeavesOthers DEF ClientStep
<1>3. CASE /\ call[t].batch = <<>> /\ pc' = [pc EXCEPT ![t] = "idle"]
           /\ call' = [call EXCEPT ![t] = NoCall] /\ pending' = pending
  <2>1. Resumable' = Resumable
    BY <1>1, <1>2, <1>3, ResumableSame
  <2>2. Tidy(t)' /\ ReadyToDecode(t)'
    BY <1>1, <1>3 DEF OnceInv, Tidy, ReadyToDecode, SubmitPcs, StampPcs, RunPcs, PopPcs
  <2>3. Own(t)' \subseteq Own(t)
    BY <1>1, <1>3 DEF Own, Unsubmitted, InSession, SubmitPcs, StampPcs
  <2> QED BY <1>1, <1>2, <1>3, <2>1, <2>2, <2>3, OnceStays DEF OnceInv
<1>4. CASE /\ call[t].batch # <<>> /\ pc' = [pc EXCEPT ![t] = "stamp"] /\ call' = call
           /\ pending' = Append(pending, Head(call[t].batch))
  <2>1. PICK h \in Requests : h = Head(call[t].batch)
    BY <1>1, <1>4
  <2>2. IsInjective(call[t].batch) /\ Tidy(t) /\ pc'[t] = "stamp"
    BY <1>1, <1>4 DEF OnceInv, Tidy, SubmitPcs, StampPcs
  <2>3. ToSet(Tail(call[t].batch)) = ToSet(call[t].batch) \ {h} /\ h \in ToSet(call[t].batch)
    BY <1>1, <1>4, <2>1, <2>2, InjectiveTail, ToSetTail
  <2>4. Resumable' = Resumable /\ Final' = Final /\ Answered(t)' = Answered(t)
    BY <1>1, <1>2, <2>2, ResumableSame DEF Final, Answered
  <2>5. ToSet(pending)' = ToSet(pending) \cup {h}
    BY <1>1, <1>4, <2>1, ToSetAppend
  <2>6. Unsubmitted(t) = ToSet(call[t].batch) /\ Unsubmitted(t)' = ToSet(call[t].batch) \ {h}
    BY <1>1, <1>4, <2>2, <2>3 DEF Unsubmitted, SubmitPcs, StampPcs
  <2>7. Own(t) = ToSet(call[t].batch) \cup InSession(t) /\ Own(t)' = (ToSet(call[t].batch) \ {h}) \cup InSession(t)
    BY <1>1, <2>2, <2>6 DEF Own, InSession
  <2>8. /\ ToSet(pending) \cap Resumable = {} /\ ToSet(pending) \cap Final = {} /\ Resumable \cap Final = {}
        /\ Own(t) \cap Answered(t) = {} /\ Mine(t) \cap Shared = {} /\ Apart
    BY DEF OnceInv, Apart
  <2>9. h \notin InSession(t)
    <3>1. active[t] = <<>> /\ batch[t] = <<>> /\ ready[t] = <<>>
      BY <1>1, <2>2 DEF Tidy, RunPcs, PopPcs, SlotsInv, Slots, PassPcs
    <3> QED BY <3>1, ToSetEmpty DEF InSession
  <2>10. Own(t)' = Own(t) \ {h} /\ h \in Own(t)
    BY <2>3, <2>7, <2>9
  <2>11. h \notin Shared /\ h \notin Answered(t)
    BY <2>8, <2>10 DEF Mine
  <2>12. Shared' = Shared \cup {h} /\ Mine(t)' = Mine(t) \ {h}
    BY <2>4, <2>5, <2>10, <2>11 DEF Shared, Mine
  <2>13. Own(t)' \cap Answered(t)' = {} /\ Mine(t)' \cap Shared' = {}
    BY <2>4, <2>8, <2>10, <2>12
  <2>14. /\ ToSet(pending)' \cap Resumable' = {} /\ ToSet(pending)' \cap Final' = {} /\ Resumable' \cap Final' = {}
    BY <2>4, <2>5, <2>8, <2>11 DEF Shared
  <2>15. Shared' \cup Mine(t)' \subseteq
           Shared \cup Mine(t) \cup {r \in Requests : fate[r] = "unsent" /\ fate'[r] = "sent"}
    BY <2>10, <2>12 DEF Mine
  <2>16. Apart'
    BY <1>1, <1>2, <2>8, <2>13, <2>14, <2>15, ApartKept
  <2>17. IsInjective(pending)'
    BY <1>1, <1>4, <2>1, <2>11, InjectiveAppend DEF OnceInv, Shared
  <2>18. Tidy(t)' /\ ReadyToDecode(t)'
    BY <1>1, <1>4, <2>2 DEF OnceInv, Tidy, ReadyToDecode, SubmitPcs, StampPcs, RunPcs, PopPcs
  <2>19. /\ IsInjective(paused)' /\ IsInjective(Reqs(returned))'
         /\ Exact(results[t])' /\ Exact(returned)' /\ \A r \in Requests : gen'[r] <= MaxNew[r] /\ gen'[r] = gen[r]
    BY <1>1 DEF OnceInv, ResultsExact, Exact, ExactResult, Reqs
  <2> QED BY <1>1, <1>2, <2>16, <2>17, <2>18, <2>19, OnceKept
<1> QED BY <1>3, <1>4 DEF Enqueue, Goto

LEMMA StampOnce ==
    ASSUME TypeOK, LossInv, OnceInv, OwnCancels, NEW t \in Threads, Stamp(t) \/ Number(t)
    PROVE  OnceInv'
<1>1. /\ UNCHANGED <<pending, paused, cancelled, gen, call, active, batch, pick, choice, scan, ready,
                     results, returned, fate>>
      /\ pc[t] \in StampPcs /\ \E to \in StampPcs : pc' = [pc EXCEPT ![t] = to]
      /\ pc \in [Threads -> Pcs]
  BY DEF Stamp, Number, Goto, TypeOK, locals, history, StampPcs
<1>2. \A u \in Threads \ {t} : SameThread(u)
  BY ClientLeavesOthers DEF ClientStep
<1>3. Resumable' = Resumable
  BY <1>1, <1>2, ResumableSame DEF StampPcs
<1>4. Tidy(t)' /\ ReadyToDecode(t)'
  BY <1>1 DEF OnceInv, Tidy, ReadyToDecode, SubmitPcs, StampPcs, RunPcs, PopPcs
<1>5. Own(t)' = Own(t)
  BY <1>1 DEF Own, Unsubmitted, InSession, StampPcs
<1> QED BY <1>1, <1>2, <1>3, <1>4, <1>5, OnceStays DEF OnceInv

LEMMA CountSubmittedOnce ==
    ASSUME TypeOK, LossInv, OnceInv, OwnCancels, NEW t \in Threads, CountSubmitted(t)
    PROVE  OnceInv'
<1>1. /\ UNCHANGED <<pending, paused, cancelled, gen, active, batch, pick, choice, scan, ready,
                     results, returned, fate>>
      /\ pc[t] = "count" /\ pc' = [pc EXCEPT ![t] = "enqueue"]
      /\ call' = [call EXCEPT ![t].batch = RemoveAt(@, 1)]
      /\ pc \in [Threads -> Pcs] /\ call \in [Threads -> [batch : Seq(Requests), block : Blocking]]
      /\ call[t].batch \in Seq(Requests) /\ call[t].batch # <<>>
  BY DEF CountSubmitted, Goto, TypeOK, LossInv, Owed, history, StampPcs
<1>2. \A u \in Threads \ {t} : SameThread(u)
  BY ClientLeavesOthers DEF ClientStep
<1>3. call'[t].batch = Tail(call[t].batch)
  BY <1>1, RemoveAtHead
<1>4. Resumable' = Resumable
  BY <1>1, <1>2, ResumableSame
<1>5. Tidy(t)' /\ ReadyToDecode(t)'
  <2>1. Tidy(t) /\ IsInjective(call[t].batch)
    BY <1>1 DEF OnceInv, Tidy, SubmitPcs, StampPcs
  <2>2. IsInjective(call'[t].batch)
    BY <1>1, <1>3, <2>1, InjectiveTail
  <2> QED BY <1>1, <2>1, <2>2 DEF Tidy, ReadyToDecode, SubmitPcs, StampPcs, RunPcs, PopPcs
<1>6. Own(t)' = Own(t)
  BY <1>1, <1>3 DEF Own, Unsubmitted, InSession, SubmitPcs, StampPcs
<1> QED BY <1>1, <1>2, <1>4, <1>5, <1>6, OnceStays DEF OnceInv

LEMMA CancelOnce ==
    ASSUME TypeOK, LossInv, OnceInv, OwnCancels, NEW t \in Threads, NEW i \in Ids, Cancel(t, i)
    PROVE  OnceInv'
<1>1. /\ UNCHANGED <<pending, paused, gen, active, batch, scan, ready, results, returned, fate>>
      /\ pc[t] = "idle" /\ t \in Cancellers /\ pc \in [Threads -> Pcs]
      /\ \E to \in {"idle", "withdraw"} : pc' = [pc EXCEPT ![t] = to]
  BY DEF Cancel, Goto, TypeOK, history
<1>2. \A u \in Threads \ {t} : SameThread(u)
  BY ClientLeavesOthers
<1>3. Resumable' = Resumable
  BY <1>1, <1>2, ResumableSame
<1>4. Tidy(t)' /\ ReadyToDecode(t)'
  BY <1>1 DEF OnceInv, Tidy, ReadyToDecode, SubmitPcs, StampPcs, RunPcs, PopPcs
<1>5. Own(t)' = Own(t)
  BY <1>1 DEF Own, Unsubmitted, InSession, SubmitPcs, StampPcs
<1> QED BY <1>1, <1>2, <1>3, <1>4, <1>5, OnceStays DEF OnceInv

LEMMA WithdrawOnce ==
    ASSUME TypeOK, SlotsInv, LossInv, OnceInv, OwnCancels, NEW t \in Threads, Withdraw(t)
    PROVE  OnceInv'
<1>1. /\ UNCHANGED <<paused, cancelled, gen, active, batch, scan, ready, results, returned>>
      /\ pc[t] = "withdraw" /\ pc' = [pc EXCEPT ![t] = "idle"] /\ pc \in [Threads -> Pcs]
      /\ pick[t] > 0 /\ pick \in [Threads -> Nat] /\ pending \in Seq(Requests) /\ fate \in [Requests -> Fates]
  BY DEF Withdraw, Goto, TypeOK, SlotsInv, Slots
<1>2. \A u \in Threads \ {t} : SameThread(u)
  BY ClientLeavesOthers DEF ClientStep
<1>3. Resumable' = Resumable
  BY <1>1, <1>2, ResumableSame
<1>4. Tidy(t)' /\ ReadyToDecode(t)'
  BY <1>1 DEF OnceInv, Tidy, ReadyToDecode, SubmitPcs, StampPcs, RunPcs, PopPcs
<1>5. Own(t)' = Own(t)
  BY <1>1 DEF Own, Unsubmitted, InSession, SubmitPcs, StampPcs
<1>6. ToSet(pending') \subseteq ToSet(pending) /\ IsInjective(pending')
  <2>1. IsInjective(pending)
    BY DEF OnceInv
  <2>2. pick[t] <= Len(pending) => pick[t] \in DOMAIN pending
    BY <1>1
  <2> QED BY <1>1, <2>1, <2>2, InjectiveRemoveAt DEF Withdraw
<1>7. \A r \in Requests : fate'[r] \in {"unsent", "rejected"} => fate[r] \in {"unsent", "rejected"}
  BY <1>1 DEF Withdraw
<1> QED BY <1>1, <1>2, <1>3, <1>4, <1>5, <1>6, <1>7, OnceStays DEF OnceInv

------------------------------------------------------------------------------
(* run_until_complete *)

LEMMA RunOnce ==
    ASSUME TypeOK, SlotsInv, LossInv, OnceInv, OwnCancels, NEW t \in Threads, Run(t)
    PROVE  OnceInv'
<1>1. /\ UNCHANGED <<pending, paused, cancelled, gen, call, active, batch, scan, ready, results,
                     returned, fate>>
      /\ pc[t] = "idle" /\ pc' = [pc EXCEPT ![t] = "loop"] /\ pc \in [Threads -> Pcs]
  BY DEF Run, Goto, TypeOK, shared, locals, history
<1>2. \A u \in Threads \ {t} : SameThread(u)
  BY RunLeavesOthers
<1>3. Resumable' = Resumable
  BY <1>1, <1>2, ResumableSame
<1>4. Tidy(t)' /\ ReadyToDecode(t)'
  BY <1>1 DEF OnceInv, Tidy, ReadyToDecode, SubmitPcs, StampPcs, RunPcs, PopPcs
<1>5. Own(t)' = Own(t)
  BY <1>1 DEF Own, Unsubmitted, InSession, SubmitPcs, StampPcs
<1> QED BY <1>1, <1>2, <1>3, <1>4, <1>5, OnceStays DEF OnceInv

\* The results of a call become those of its caller.
LEMMA LoopOnce ==
    ASSUME TypeOK, SlotsInv, LossInv, OnceInv, OwnCancels, NEW t \in Threads, Loop(t)
    PROVE  OnceInv'
<1>1. /\ UNCHANGED <<pending, paused, cancelled, gen, call, active, batch, scan, ready, fate>>
      /\ pc[t] = "loop" /\ pc \in [Threads -> Pcs]
      /\ results \in [Threads -> Seq(Result)] /\ returned \in Seq(Result) /\ results[t] \in Seq(Result)
  BY DEF Loop, Goto, TypeOK, shared
<1>2. \A u \in Threads \ {t} : SameThread(u)
  BY RunLeavesOthers DEF RunStep
<1>3. CASE pc' = [pc EXCEPT ![t] = "resume"] /\ UNCHANGED <<results, returned>>
  <2>1. Resumable' = Resumable
    BY <1>1, <1>2, <1>3, ResumableSame
  <2>2. Tidy(t)' /\ ReadyToDecode(t)'
    BY <1>1, <1>3 DEF OnceInv, Tidy, ReadyToDecode, SubmitPcs, StampPcs, RunPcs, PopPcs
  <2>3. Own(t)' = Own(t)
    BY <1>1, <1>3 DEF Own, Unsubmitted, InSession, SubmitPcs, StampPcs
  <2> QED BY <1>1, <1>2, <1>3, <2>1, <2>2, <2>3, OnceStays DEF OnceInv
<1>4. CASE /\ pc' = [pc EXCEPT ![t] = "idle"] /\ ~WorkLeft(t)
           /\ returned' = returned \o results[t] /\ results' = [results EXCEPT ![t] = <<>>]
  <2>1. Resumable' = Resumable /\ ToSet(pending)' = ToSet(pending)
    BY <1>1, <1>2, <1>4, ResumableSame
  <2>2. results'[t] = <<>> /\ Answered(t)' = {}
    BY <1>1, <1>4, ReqsEmpty, ToSetEmpty DEF Answered
  <2>3. /\ Reqs(returned)' = Reqs(returned) \o Reqs(results[t])
        /\ Reqs(returned) \in Seq(Requests) /\ Reqs(results[t]) \in Seq(Requests)
    BY <1>1, <1>4, ReqsConcat, ReqsType
  <2>4. Final' = Final \cup Answered(t)
    BY <2>3, ToSetConcat DEF Final, Answered
  <2>5. Own(t)' = Own(t)
    BY <1>1, <1>4 DEF Own, Unsubmitted, InSession, SubmitPcs, StampPcs
  <2>6. /\ ToSet(pending) \cap Resumable = {} /\ ToSet(pending) \cap Final = {} /\ Resumable \cap Final = {}
        /\ Own(t) \cap Answered(t) = {} /\ Mine(t) \cap Shared = {} /\ Apart
    BY DEF OnceInv, Apart
  <2>7. Shared' = Shared \cup Answered(t) /\ Mine(t)' = Own(t)
    BY <2>1, <2>2, <2>4, <2>5 DEF Shared, Mine
  <2>8. Own(t)' \cap Answered(t)' = {} /\ Mine(t)' \cap Shared' = {}
    BY <2>2, <2>6, <2>7 DEF Mine
  <2>9. ToSet(pending)' \cap Resumable' = {} /\ ToSet(pending)' \cap Final' = {} /\ Resumable' \cap Final' = {}
    BY <2>1, <2>4, <2>6 DEF Shared, Mine
  <2>10. Shared' \cup Mine(t)' \subseteq Shared \cup Mine(t)
    BY <2>7 DEF Mine
  <2>11. Apart'
    BY <1>1, <1>2, <2>6, <2>8, <2>9, <2>10, ApartKept
  <2>12. IsInjective(Reqs(returned))'
    <3>1. IsInjective(Reqs(returned)) /\ IsInjective(Reqs(results[t]))
      BY DEF OnceInv, Tidy
    <3>2. ToSet(Reqs(returned)) \cap ToSet(Reqs(results[t])) = {}
      BY <2>6 DEF Shared, Mine, Final, Answered
    <3> QED BY <2>3, <3>1, <3>2, InjectiveConcat
  <2>13. Tidy(t)' /\ ReadyToDecode(t)'
    <3>1. active[t] = <<>> /\ pc'[t] = "idle"
      BY <1>1, <1>4 DEF WorkLeft
    <3> QED BY <1>1, <2>2, <3>1, ReqsEmpty, InjectiveEmpty DEF OnceInv, Tidy, ReadyToDecode, SubmitPcs, StampPcs, RunPcs, PopPcs
  <2>14. Exact(results[t])' /\ Exact(returned)'
    <3>1. Exact(results[t]) /\ Exact(returned) /\ \A x : ExactResult(x)' <=> ExactResult(x)
      BY <1>1 DEF OnceInv, ResultsExact, Exact, ExactResult
    <3>2. \A k \in DOMAIN returned' : ExactResult(returned'[k])
      <4>1. SUFFICES ASSUME NEW k \in 1..(Len(returned) + Len(results[t])) PROVE ExactResult(returned'[k])
        BY <1>1, <1>4
      <4>2. returned'[k] = IF k <= Len(returned) THEN returned[k] ELSE results[t][k - Len(returned)]
        BY <1>1, <1>4, ConcatProperties
      <4>3. k \in DOMAIN returned \/ (~(k <= Len(returned)) /\ k - Len(returned) \in DOMAIN results[t])
        BY <1>1
      <4>4. k \in DOMAIN returned => k <= Len(returned)
        BY <1>1
      <4> QED BY <3>1, <4>2, <4>3, <4>4 DEF Exact
    <3>3. DOMAIN results'[t] = {}
      BY <2>2
    <3> QED BY <1>1, <3>2, <3>3 DEF Exact, ExactResult
  <2>15. IsInjective(pending)' /\ IsInjective(paused)' /\ \A r \in Requests : gen'[r] <= MaxNew[r] /\ gen'[r] = gen[r]
    BY <1>1 DEF OnceInv
  <2> QED BY <1>1, <1>2, <2>11, <2>12, <2>13, <2>14, <2>15, OnceKept
<1> QED BY <1>3, <1>4 DEF Loop, Goto

\* Nobody is at unpause while t takes paused requests, so that all are there.
LEMMA ResumableAll ==
    ASSUME TypeOK, \A u \in Threads : pc[u] # "unpause"
    PROVE  Resumable = ToSet(paused)
<1>1. paused \in Seq(Requests)
  BY DEF TypeOK
<1> QED BY <1>1 DEF Resumable, ToSet

\* The best of the paused requests, in the hands of t from now on.
LEMMA ResumeOnce ==
    ASSUME TypeOK, SlotsInv, LossInv, OnceInv, OwnCancels, OneLoop \/ ~Preempts, NEW t \in Threads, Resume(t)
    PROVE  OnceInv'
<1>1. /\ UNCHANGED <<pending, cancelled, gen, call, batch, scan, ready, results, returned, fate>>
      /\ pc[t] = "resume" /\ pc \in [Threads -> Pcs]
      /\ active \in [Threads -> Seq(Requests)] /\ active[t] \in Seq(Requests)
      /\ paused \in Seq(Requests) /\ pick \in [Threads -> Nat]
  BY DEF Resume, Goto, TypeOK, history
<1>2. \A u \in Threads \ {t} : SameThread(u)
  BY RunLeavesOthers DEF RunStep
<1>3. CASE pc' = [pc EXCEPT ![t] = "admit"] /\ UNCHANGED <<paused, active, pick>>
  <2>1. Resumable' = Resumable
    BY <1>1, <1>2, <1>3, ResumableSame
  <2>2. Tidy(t)' /\ ReadyToDecode(t)'
    BY <1>1, <1>3 DEF OnceInv, Tidy, ReadyToDecode, SubmitPcs, StampPcs, RunPcs, PopPcs
  <2>3. Own(t)' = Own(t)
    BY <1>1, <1>3 DEF Own, Unsubmitted, InSession, SubmitPcs, StampPcs
  <2> QED BY <1>1, <1>2, <1>3, <2>1, <2>2, <2>3, OnceStays DEF OnceInv
<1>4. ASSUME NEW s \in Sorted(paused, Ahead), paused' = s, paused # <<>>, Capacity(t) > 0,
             pc' = [pc EXCEPT ![t] = "unpause"],
             active' = [active EXCEPT ![t] = @ \o SubSeq(s, 1, Least(Capacity(t), Len(s)))],
             pick' = [pick EXCEPT ![t] = Capacity(t)]
      PROVE  OnceInv'
  <2>1. s \in Seq(Requests) /\ Len(s) \in Nat /\ ToSet(s) = ToSet(paused) /\ IsInjective(s)
    BY <1>1, SortedElements, SortedType DEF OnceInv
  <2>2. PICK n \in Nat : n = Capacity(t)
    <3>1. Len(active[t]) \in Nat /\ MaxBatch \in Nat
      BY <1>1, SchedulerAssumption
    <3>2. Capacity(t) \in Nat
      BY <1>4, <3>1 DEF Capacity
    <3> QED BY <3>2
  <2>3. PICK m \in 0..Len(s) : m = Least(n, Len(s))
    BY <2>1, <2>2 DEF Least
  <2>4. PICK z \in Seq(Requests) : z = SubSeq(s, 1, m) /\ IsInjective(z) /\ ToSet(z) = {s[i] : i \in 1..m}
    <3>1. 1 \in 1..(Len(s) + 1)
      BY <2>1
    <3>2. /\ SubSeq(s, 1, m) \in Seq(Requests) /\ IsInjective(SubSeq(s, 1, m))
          /\ ToSet(SubSeq(s, 1, m)) = {s[i] : i \in 1..m}
      BY <2>1, <2>3, <3>1, InjectiveSubSeq
    <3> QED BY <3>2
  <2>5. z \in Seq(Requests) /\ active'[t] = active[t] \o z /\ pc'[t] = "unpause" /\ pick'[t] = n
    BY <1>1, <1>4, <2>2, <2>3, <2>4
  <2>6. \A u \in Threads \ {t} : pc[u] \notin RunPcs /\ pc'[u] = pc[u]
    BY <1>1, <1>2, <1>4, PausedAlone DEF RunPcs, PopPcs, SameThread, SameCall, SameLocals
  <2>7. Resumable = ToSet(paused)
    BY <1>1, <2>6, ResumableAll DEF RunPcs, PopPcs
  <2>8. Resumable' = {s[k] : k \in {j \in 1..Len(s) : j > n}}
    <3>1. \A j : (\A u \in Threads : pc'[u] = "unpause" => j > pick'[u]) <=> j > n
      BY <2>5, <2>6 DEF RunPcs, PopPcs
    <3>2. DOMAIN s = 1..Len(s)
      BY <2>1
    <3> QED BY <1>4, <3>1, <3>2 DEF Resumable
  <2>9. ToSet(z) \cap Resumable' = {} /\ ToSet(z) \cup Resumable' \subseteq ToSet(paused)
    <3>1. \A i, j \in 1..Len(s) : s[i] = s[j] => i = j
      BY <2>1 DEF IsInjective
    <3>2. \A i \in 1..m : i \in 1..Len(s) /\ ~(i > n)
      BY <2>1, <2>2, <2>3 DEF Least
    <3>3. \A i \in 1..Len(s) : s[i] \in ToSet(s)
      BY <2>1, ToSetElement
    <3> QED BY <2>1, <2>4, <2>8, <3>1, <3>2, <3>3
  <2>10. Final' = Final /\ Answered(t)' = Answered(t) /\ ToSet(pending)' = ToSet(pending)
    BY <1>1 DEF Final, Answered
  <2>11. Own(t)' = Own(t) \cup ToSet(z) /\ ToSet(active[t]) \subseteq Own(t)
    <3>1. ToSet(active'[t]) = ToSet(active[t]) \cup ToSet(z)
      BY <1>1, <2>5, ToSetConcat
    <3> QED BY <1>1, <1>4, <2>5, <3>1 DEF Own, Unsubmitted, InSession, SubmitPcs, StampPcs
  <2>12. /\ ToSet(pending) \cap Resumable = {} /\ ToSet(pending) \cap Final = {} /\ Resumable \cap Final = {}
         /\ Own(t) \cap Answered(t) = {} /\ Mine(t) \cap Shared = {} /\ Apart
    BY DEF OnceInv, Apart
  <2>13. ToSet(pending)' \cap Resumable' = {} /\ ToSet(pending)' \cap Final' = {} /\ Resumable' \cap Final' = {}
    BY <2>7, <2>9, <2>10, <2>12
  <2>14. Own(t)' \cap Answered(t)' = {} /\ Mine(t)' \cap Shared' = {}
    BY <2>7, <2>9, <2>10, <2>11, <2>12 DEF Mine, Shared
  <2>15. Shared' \cup Mine(t)' \subseteq Shared \cup Mine(t)
    BY <2>7, <2>9, <2>10, <2>11 DEF Mine, Shared
  <2>16. Apart'
    BY <1>1, <1>2, <2>12, <2>13, <2>14, <2>15, ApartKept
  <2>17. Tidy(t)'
    <3>1. Tidy(t) /\ batch[t] = <<>> /\ ready[t] = <<>>
      BY <1>1 DEF OnceInv, SlotsInv, Slots, PassPcs, PopPcs
    <3>2. IsInjective(active'[t])
      <4>1. ToSet(active[t]) \cap ToSet(z) = {}
        BY <2>7, <2>9, <2>11, <2>12 DEF Mine, Shared
      <4>2. IsInjective(active[t]) /\ IsInjective(z)
        BY <2>4, <3>1 DEF Tidy
      <4>3. IsInjective(active[t] \o z)
        BY <1>1, <2>5, <4>1, <4>2, InjectiveConcat
      <4> QED BY <2>5, <4>3
    <3> QED BY <1>1, <2>5, <3>1, <3>2, ToSetEmpty DEF Tidy, RunPcs, PopPcs, SubmitPcs, StampPcs
  <2>18. /\ IsInjective(pending)' /\ IsInjective(paused)' /\ IsInjective(Reqs(returned))'
         /\ Exact(results[t])' /\ Exact(returned)' /\ ReadyToDecode(t)'
         /\ \A r \in Requests : gen'[r] <= MaxNew[r] /\ gen'[r] = gen[r]
    BY <1>1, <1>4, <2>1, <2>5 DEF OnceInv, ResultsExact, Exact, ExactResult, Reqs, ReadyToDecode
  <2> QED BY <1>1, <1>2, <2>16, <2>17, <2>18, OnceKept
<1> QED BY <1>3, <1>4 DEF Resume, Goto

\* The resumed requests leave the list they were taken from.
LEMMA UnpauseOnce ==
    ASSUME TypeOK, SlotsInv, LossInv, OnceInv, OwnCancels, OneLoop \/ ~Preempts, NEW t \in Threads, Unpause(t)
    PROVE  OnceInv'
<1>1. /\ UNCHANGED <<pending, cancelled, gen, call, active, batch, scan, ready, results, returned,
                     fate>>
      /\ pc[t] = "unpause" /\ pc' = [pc EXCEPT ![t] = "admit"] /\ pc \in [Threads -> Pcs]
      /\ paused \in Seq(Requests) /\ pick \in [Threads -> Nat] /\ pick[t] \in Nat
      /\ paused' = SubSeq(paused, pick[t] + 1, Len(paused))
  BY DEF Unpause, Goto, TypeOK, history
<1>2. \A u \in Threads \ {t} : SameThread(u)
  BY RunLeavesOthers DEF RunStep
<1>3. IsInjective(paused') /\ Resumable' \subseteq Resumable
  <2>1. CASE paused = <<>>
    <3>1. paused' = <<>>
      BY <1>1, <2>1
    <3> QED BY <3>1, InjectiveEmpty DEF Resumable
  <2>2. CASE paused # <<>>
    <3>1. \A u \in Threads \ {t} : pc[u] # "unpause"
      BY <1>1, <2>2, PausedAlone DEF RunPcs, PopPcs
    <3>2. CASE pick[t] + 1 \in 1..(Len(paused) + 1)
      <4>1. paused' \in Seq(Requests) /\ IsInjective(paused') /\ ToSet(paused') = {paused[i] : i \in (pick[t] + 1)..Len(paused)}
        <5>1. Len(paused) \in 0..Len(paused) /\ IsInjective(paused)
          BY <1>1 DEF OnceInv
        <5> QED BY <1>1, <3>2, <5>1, InjectiveSubSeq
      <4>2. Resumable' \subseteq ToSet(paused')
        BY DEF Resumable, ToSet
      <4>3. \A i \in (pick[t] + 1)..Len(paused) : i \in DOMAIN paused /\ i > pick[t]
        BY <1>1
      <4>4. \A i \in DOMAIN paused : i > pick[t] => paused[i] \in Resumable
        BY <3>1 DEF Resumable
      <4> QED BY <4>1, <4>2, <4>3, <4>4
    <3>3. CASE pick[t] + 1 \notin 1..(Len(paused) + 1)
      <4>1. paused' = <<>>
        BY <1>1, <3>3
      <4> QED BY <4>1, InjectiveEmpty DEF Resumable
    <3> QED BY <3>2, <3>3
  <2> QED BY <2>1, <2>2
<1>4. Tidy(t)' /\ ReadyToDecode(t)'
  BY <1>1 DEF OnceInv, Tidy, ReadyToDecode, SubmitPcs, StampPcs, RunPcs, PopPcs
<1>5. Own(t)' = Own(t)
  BY <1>1 DEF Own, Unsubmitted, InSession, SubmitPcs, StampPcs
<1> QED BY <1>1, <1>2, <1>3, <1>4, <1>5, OnceStays DEF OnceInv

\* A step between points of the round where t's sessions stay as they are.
LEMMA QuietOnce ==
    ASSUME TypeOK, LossInv, OnceInv, OwnCancels, NEW t \in Threads, \A u \in Threads \ {t} : SameThread(u),
           UNCHANGED <<pending, paused, cancelled, gen, call, active, batch, ready, results,
                       returned, fate>>,
           pc[t] \in {"admit", "preempt", "round"} \cup PassPcs,
           pc'[t] \in {"prefill", "admit", "displace", "loop"} \cup PassPcs
    PROVE  OnceInv'
<1>1. Resumable' = Resumable
  BY ResumableSame DEF PassPcs, PopPcs
<1>2. Tidy(t)' /\ ReadyToDecode(t)'
  BY DEF OnceInv, Tidy, ReadyToDecode, SubmitPcs, StampPcs, RunPcs, PopPcs, PassPcs
<1>3. Own(t)' = Own(t)
  BY DEF Own, Unsubmitted, InSession, SubmitPcs, StampPcs, PassPcs, PopPcs
<1> QED BY <1>1, <1>2, <1>3, OnceStays DEF OnceInv

LEMMA AdmitOnce ==
    ASSUME TypeOK, SlotsInv, LossInv, OnceInv, OwnCancels, NEW t \in Threads, Admit(t)
    PROVE  OnceInv'
<1>1. /\ UNCHANGED <<pending, paused, cancelled, gen, call, active, batch, ready, results, returned,
                     fate>>
      /\ pc[t] = "admit" /\ pc' = [pc EXCEPT ![t] = "select"] /\ pc \in [Threads -> Pcs]
  BY DEF Admit, Goto, TypeOK, shared, history
<1>2. \A u \in Threads \ {t} : SameThread(u)
  BY RunLeavesOthers DEF RunStep
<1> QED BY <1>1, <1>2, QuietOnce DEF PassPcs

\* The call that raises takes its sessions and its results with it.
LEMMA RaiseOnce ==
    ASSUME TypeOK, LossInv, OnceInv, OwnCancels, NEW t \in Threads, Raise(t),
           pc[t] \in RunPcs \ {"unpause"}, \A u \in Threads \ {t} : SameThread(u)
    PROVE  OnceInv'
<1>1. /\ UNCHANGED <<pending, paused, cancelled, gen, call, returned>>
      /\ pc' = [pc EXCEPT ![t] = "idle"] /\ pc \in [Threads -> Pcs]
      /\ active'[t] = <<>> /\ batch'[t] = <<>> /\ ready'[t] = <<>> /\ results'[t] = <<>>
      /\ \A r \in Requests : fate'[r] \in {"unsent", "rejected"} => fate[r] \in {"unsent", "rejected"}
  BY DEF Raise, TypeOK, shared
<1>2. Resumable' = Resumable
  BY <1>1, ResumableSame
<1>3. Tidy(t)' /\ ReadyToDecode(t)'
  BY <1>1, InjectiveEmpty, ToSetEmpty, ReqsEmpty DEF Tidy, ReadyToDecode, SubmitPcs, StampPcs, RunPcs, PopPcs
<1>4. Own(t)' = {}
  BY <1>1, ToSetEmpty DEF Own, Unsubmitted, InSession, SubmitPcs, StampPcs
<1> QED BY <1>1, <1>2, <1>3, <1>4, OnceStays DEF OnceInv

LEMMA RuntimeErrorOnce ==
    ASSUME TypeOK, SlotsInv, LossInv, OnceInv, OwnCancels, NEW t \in Threads, RuntimeError(t)
    PROVE  OnceInv'
<1>1. Raise(t) /\ pc[t] \in {"prefill", "decode"}
  BY DEF RuntimeError
<1>2. \A u \in Threads \ {t} : SameThread(u)
  BY RunLeavesOthers
<1> QED BY <1>1, <1>2, RaiseOnce DEF RunPcs, PopPcs

LEMMA ScoringOnce ==
    ASSUME TypeOK, SlotsInv, LossInv, OnceInv, OwnCancels, NEW t \in Threads, Scoring(t)
    PROVE  OnceInv'
<1>1. pc[t] \in PassPcs
  BY DEF Scoring, Select, OpenRange, Weigh, Rank, Goto, PassPcs, PopPcs
<1>2. \A u \in Threads \ {t} : SameThread(u)
  BY RunLeavesOthers DEF RunStep, Scoring
<1>3. CASE Raise(t)
  BY <1>1, <1>2, <1>3, RaiseOnce DEF PassPcs, RunPcs, PopPcs
<1>4. CASE ~Raise(t)
  <2>1. /\ UNCHANGED <<pending, paused, cancelled, gen, call, active, batch, ready, results,
                       returned, fate>>
        /\ \E to \in PopPcs \cup {"prefill"} : pc' = [pc EXCEPT ![t] = to]
    BY <1>4, ScoringStep DEF shared, history
  <2>2. pc'[t] \in PopPcs \cup {"prefill"}
    BY <2>1 DEF TypeOK
  <2> QED BY <1>1, <1>2, <2>1, <2>2, QuietOnce DEF PassPcs
<1> QED BY <1>3, <1>4

\* What t pops is no longer in the queue.
LEMMA TakeOnce ==
    ASSUME TypeOK, SlotsInv, LossInv, OnceInv, OwnCancels, NEW t \in Threads, Take(t)
    PROVE  OnceInv'
<1>1. \A u \in Threads \ {t} : SameThread(u)
  BY RunLeavesOthers DEF RunStep
<1>2. CASE Raise(t)
  BY <1>1, <1>2, RaiseOnce DEF Take, Goto, RunPcs, PopPcs
<1>3. CASE /\ pick[t] <= Len(pending)
           /\ Goto(t, "take", "select")
           /\ batch' = [batch EXCEPT ![t] = Append(@, pending[pick[t]])]
           /\ pending' = RemoveAt(pending, pick[t])
           /\ UNCHANGED <<paused, cancelled, stamps, metrics, gen, call, active, preempted, scan,
                          ready, results, history>>
  <2>1. /\ UNCHANGED <<paused, cancelled, gen, call, active, scan, ready, results, returned, fate>>
        /\ pc[t] = "take" /\ pc'[t] = "select" /\ pc \in [Threads -> Pcs]
        /\ batch \in [Threads -> Seq(Requests)] /\ pending \in Seq(Requests) /\ batch[t] \in Seq(Requests)
    BY <1>3 DEF Goto, history, TypeOK
  <2>2. PICK k \in DOMAIN pending : k = pick[t]
    <3>1. pick[t] \in Nat /\ pick[t] > 0
      BY <2>1 DEF TypeOK, SlotsInv, Slots
    <3> QED BY <1>3, <2>1, <3>1
  <2>3. PICK h \in Requests : h = pending[k]
    BY <2>1
  <2>4. /\ batch'[t] = Append(batch[t], h)
        /\ ToSet(pending') = ToSet(pending) \ {h} /\ h \in ToSet(pending) /\ IsInjective(pending')
    <3>1. IsInjective(pending)
      BY DEF OnceInv
    <3> QED BY <1>3, <2>1, <2>2, <2>3, <3>1, InjectiveRemoveAt, ToSetRemoveAt
  <2>5. ToSet(batch'[t]) = ToSet(batch[t]) \cup {h}
    BY <2>1, <2>4, ToSetAppend
  <2>6. Own(t)' = Own(t) \cup {h} /\ ToSet(active[t]) \cup ToSet(batch[t]) \subseteq Own(t)
    BY <2>1, <2>5 DEF Own, Unsubmitted, InSession, SubmitPcs, StampPcs
  <2>7. Resumable' = Resumable /\ Final' = Final /\ Answered(t)' = Answered(t)
    BY <1>1, <2>1, ResumableSame DEF Final, Answered
  <2>8. /\ ToSet(pending) \cap Resumable = {} /\ ToSet(pending) \cap Final = {} /\ Resumable \cap Final = {}
        /\ Own(t) \cap Answered(t) = {} /\ Mine(t) \cap Shared = {} /\ Apart
    BY DEF OnceInv, Apart
  <2>9. ToSet(pending)' \cap Resumable' = {} /\ ToSet(pending)' \cap Final' = {} /\ Resumable' \cap Final' = {}
    BY <2>4, <2>7, <2>8
  <2>10. Own(t)' \cap Answered(t)' = {} /\ Mine(t)' \cap Shared' = {}
    BY <2>4, <2>6, <2>7, <2>8 DEF Mine, Shared
  <2>11. Shared' \cup Mine(t)' \subseteq Shared \cup Mine(t)
    BY <2>4, <2>6, <2>7 DEF Mine, Shared
  <2>12. Apart'
    BY <1>1, <2>1, <2>8, <2>9, <2>10, <2>11, ApartKept
  <2>13. Tidy(t)'
    <3>1. Tidy(t) /\ h \notin Own(t)
      BY <2>4, <2>8 DEF OnceInv, Mine, Shared
    <3>2. IsInjective(batch'[t]) /\ ToSet(active'[t]) \cap ToSet(batch'[t]) = {}
      BY <2>1, <2>4, <2>5, <2>6, <3>1, InjectiveAppend DEF Tidy
    <3> QED BY <2>1, <3>1, <3>2 DEF Tidy, RunPcs, PopPcs, SubmitPcs, StampPcs
  <2>14. /\ IsInjective(pending)' /\ IsInjective(paused)' /\ IsInjective(Reqs(returned))'
         /\ Exact(results[t])' /\ Exact(returned)' /\ ReadyToDecode(t)'
         /\ \A r \in Requests : gen'[r] <= MaxNew[r] /\ gen'[r] = gen[r]
    BY <2>1, <2>4 DEF OnceInv, ResultsExact, Exact, ExactResult, Reqs, ReadyToDecode
  <2> QED BY <1>1, <2>1, <2>12, <2>13, <2>14, OnceKept
<1> QED BY <1>2, <1>3 DEF Take

LEMMA PrefillOnce ==
    ASSUME TypeOK, SlotsInv, LossInv, OnceInv, OwnCancels, NEW t \in Threads, Prefill(t)
    PROVE  OnceInv'
<1>1. /\ UNCHANGED <<pending, paused, cancelled, gen, call, scan, ready, results, returned, fate>>
      /\ pc[t] = "prefill" /\ pc'[t] \in {"round", "preempt"}
      /\ active'[t] = active[t] \o batch[t] /\ batch'[t] = <<>>
      /\ active[t] \in Seq(Requests) /\ batch[t] \in Seq(Requests)
  BY DEF Prefill, Goto, TypeOK, history, shared
<1>2. ToSet(active'[t]) = ToSet(active[t]) \cup ToSet(batch[t]) /\ ToSet(batch'[t]) = {}
  BY <1>1, ToSetConcat, ToSetEmpty
<1>3. \A u \in Threads \ {t} : SameThread(u)
  BY RunLeavesOthers DEF RunStep
<1>4. Resumable' = Resumable
  BY <1>1, <1>3, ResumableSame
<1>5. Tidy(t)' /\ ReadyToDecode(t)'
  <2>1. Tidy(t) /\ ReadyToDecode(t)
    BY DEF OnceInv
  <2>2. IsInjective(active'[t])
    BY <1>1, <2>1, InjectiveConcat DEF Tidy
  <2> QED BY <1>1, <1>2, <2>1, <2>2, InjectiveEmpty DEF Tidy, ReadyToDecode, SubmitPcs, StampPcs, RunPcs, PopPcs
<1>6. Own(t)' = Own(t)
  BY <1>1, <1>2 DEF Own, Unsubmitted, InSession, SubmitPcs, StampPcs
<1> QED BY <1>1, <1>3, <1>4, <1>5, <1>6, OnceStays DEF OnceInv

LEMMA PreemptOnce ==
    ASSUME TypeOK, SlotsInv, LossInv, OnceInv, OwnCancels, NEW t \in Threads, Preempt(t)
    PROVE  OnceInv'
<1>1. /\ UNCHANGED <<pending, paused, cancelled, gen, call, active, batch, ready, results, returned,
                     fate>>
      /\ pc[t] = "preempt" /\ pc'[t] \in {"displace", "admit"}
  BY DEF Preempt, Goto, TypeOK, history, shared
<1>2. \A u \in Threads \ {t} : SameThread(u)
  BY RunLeavesOthers DEF RunStep
<1> QED BY <1>1, <1>2, QuietOnce

\* A session that gives its slot up waits in the paused list instead.
LEMMA DisplaceOnce ==
    ASSUME TypeOK, SlotsInv, LossInv, OnceInv, OwnCancels, OneLoop \/ ~Preempts, NEW t \in Threads, Displace(t)
    PROVE  OnceInv'
<1>1. \A u \in Threads \ {t} : SameThread(u)
  BY RunLeavesOthers DEF RunStep
<1>2. CASE Raise(t)
  BY <1>1, <1>2, RaiseOnce DEF Displace, Goto, RunPcs, PopPcs
<1>3. CASE /\ Goto(t, "displace", "admit") /\ UNCHANGED <<paused, active>>
           /\ UNCHANGED <<pending, cancelled, stamps, gen, call, batch, quota, pick, choice, scan,
                          ready, results, history>>
  <2>1. /\ UNCHANGED <<pending, paused, cancelled, gen, call, active, batch, ready, results,
                       returned, fate>>
        /\ pc[t] = "displace" /\ pc'[t] = "admit"
    BY <1>3 DEF Goto, TypeOK, history
  <2>2. Resumable' = Resumable
    BY <1>1, <2>1, ResumableSame
  <2>3. Tidy(t)' /\ ReadyToDecode(t)'
    BY <2>1 DEF OnceInv, Tidy, ReadyToDecode, SubmitPcs, StampPcs, RunPcs, PopPcs
  <2>4. Own(t)' = Own(t)
    BY <2>1 DEF Own, Unsubmitted, InSession, SubmitPcs, StampPcs
  <2> QED BY <1>1, <2>1, <2>2, <2>3, <2>4, OnceStays DEF OnceInv
<1>4. ASSUME NEW k \in DOMAIN active[t], Goto(t, "displace", "admit"), Outranked(active[t][k]),
             paused' = Append(paused, active[t][k]), active' = [active EXCEPT ![t] = RemoveAt(@, k)],
             UNCHANGED <<pending, cancelled, stamps, gen, call, batch, quota, pick, choice, scan,
                         ready, results, history>>
      PROVE  OnceInv'
  <2>1. /\ UNCHANGED <<pending, cancelled, gen, call, batch, scan, ready, results, returned, fate>>
        /\ pc[t] = "displace" /\ pc'[t] = "admit" /\ active[t] \in Seq(Requests) /\ paused \in Seq(Requests)
        /\ active'[t] = RemoveAt(active[t], k)
    BY <1>4 DEF Goto, history, TypeOK
  <2>2. PICK h \in Requests : h = active[t][k]
    BY <2>1
  <2>3. Tidy(t) /\ batch[t] = <<>> /\ ready[t] = <<>>
    BY <2>1 DEF OnceInv, SlotsInv, Slots, PassPcs, PopPcs
  <2>4. ToSet(active'[t]) = ToSet(active[t]) \ {h} /\ h \in ToSet(active[t]) /\ IsInjective(active'[t])
    BY <2>1, <2>2, <2>3, InjectiveRemoveAt, ToSetRemoveAt DEF Tidy
  <2>5. paused' = Append(paused, h) /\ ToSet(paused') = ToSet(paused) \cup {h}
    BY <1>4, <2>1, <2>2, ToSetAppend
  <2>6. \A u \in Threads \ {t} : pc[u] \notin RunPcs /\ pc'[u] = pc[u]
    <3>1. Preempts
      <4>1. Preemptive /\ h \in Requests /\ \A j \in DOMAIN pending : pending[j] \in Requests
        BY <2>1, <2>2 DEF LossInv, Owed, TypeOK
      <4> QED BY <1>4, <2>2, <4>1 DEF Outranked, Preempts
    <3> QED BY <1>1, <2>1, <3>1, PausedAlone DEF RunPcs, PopPcs, SameThread, SameCall, SameLocals
  <2>7. Resumable = ToSet(paused)
    BY <2>1, <2>6, ResumableAll DEF RunPcs, PopPcs
  <2>8. Resumable' = ToSet(paused')
    <3>1. \A u \in Threads : pc'[u] # "unpause"
      BY <2>1, <2>6 DEF RunPcs, PopPcs
    <3>2. paused' \in Seq(Requests)
      BY <2>1, <2>2, <2>5
    <3> QED BY <3>1, <3>2 DEF Resumable, ToSet
  <2>9. h \in Own(t) /\ Own(t)' = Own(t) \ {h}
    BY <2>1, <2>3, <2>4, ToSetEmpty DEF Own, Unsubmitted, InSession, SubmitPcs, StampPcs
  <2>10. Final' = Final /\ Answered(t)' = Answered(t) /\ ToSet(pending)' = ToSet(pending)
    BY <2>1 DEF Final, Answered
  <2>11. /\ ToSet(pending) \cap Resumable = {} /\ ToSet(pending) \cap Final = {} /\ Resumable \cap Final = {}
         /\ Own(t) \cap Answered(t) = {} /\ Mine(t) \cap Shared = {} /\ Apart
    BY DEF OnceInv, Apart
  <2>12. ToSet(pending)' \cap Resumable' = {} /\ ToSet(pending)' \cap Final' = {} /\ Resumable' \cap Final' = {}
    BY <2>5, <2>7, <2>8, <2>9, <2>10, <2>11 DEF Mine, Shared
  <2>13. Own(t)' \cap Answered(t)' = {} /\ Mine(t)' \cap Shared' = {}
    BY <2>5, <2>7, <2>8, <2>9, <2>10, <2>11 DEF Mine, Shared
  <2>14. Shared' \cup Mine(t)' \subseteq Shared \cup Mine(t)
    BY <2>5, <2>7, <2>8, <2>9, <2>10 DEF Mine, Shared
  <2>15. Apart'
    BY <1>1, <2>1, <2>11, <2>12, <2>13, <2>14, ApartKept
  <2>16. Tidy(t)'
    BY <2>1, <2>3, <2>4, ToSetEmpty DEF Tidy, RunPcs, PopPcs, SubmitPcs, StampPcs
  <2>17. IsInjective(paused')
    <3>1. h \notin ToSet(paused) /\ IsInjective(paused)
      BY <2>7, <2>9, <2>11 DEF Mine, Shared, OnceInv
    <3> QED BY <2>1, <2>5, <3>1, InjectiveAppend
  <2>18. /\ IsInjective(pending)' /\ IsInjective(paused)' /\ IsInjective(Reqs(returned))'
         /\ Exact(results[t])' /\ Exact(returned)' /\ ReadyToDecode(t)'
         /\ \A r \in Requests : gen'[r] <= MaxNew[r] /\ gen'[r] = gen[r]
    BY <2>1, <2>17 DEF OnceInv, ResultsExact, Exact, ExactResult, Reqs, ReadyToDecode
  <2> QED BY <1>1, <2>1, <2>15, <2>16, <2>18, OnceKept
<1>5. \A k \in FirstIn(active[t], Weaker) : k \in DOMAIN active[t]
  BY DEF FirstIn
<1> QED BY <1>2, <1>3, <1>4, <1>5 DEF Displace

LEMMA RoundOnce ==
    ASSUME TypeOK, SlotsInv, LossInv, OnceInv, OwnCancels, NEW t \in Threads, Round(t)
    PROVE  OnceInv'
<1>1. /\ UNCHANGED <<pending, paused, cancelled, gen, call, active, batch, ready, results, returned,
                     fate>>
      /\ pc[t] = "round" /\ pc \in [Threads -> Pcs] /\ scan \in [Threads -> Seq(Requests)]
      /\ pc'[t] = "loop" \/ (pc'[t] = "snapshot" /\ scan'[t] = active[t])
  BY DEF Round, Goto, history, TypeOK
<1>2. \A u \in Threads \ {t} : SameThread(u)
  BY RunLeavesOthers DEF RunStep
<1>3. CASE pc'[t] = "loop"
  BY <1>1, <1>2, <1>3, QuietOnce
<1>4. CASE pc'[t] = "snapshot" /\ scan'[t] = active[t]
  <2>1. Tidy(t) /\ batch[t] = <<>> /\ ready[t] = <<>>
    BY <1>1 DEF OnceInv, SlotsInv, Slots, PassPcs, PopPcs
  <2>2. Resumable' = Resumable
    BY <1>1, <1>2, <1>4, ResumableSame
  <2>3. Tidy(t)' /\ ReadyToDecode(t)'
    BY <1>1, <1>4, <2>1, ToSetEmpty DEF Tidy, ReadyToDecode, SubmitPcs, StampPcs, RunPcs, PopPcs
  <2>4. Own(t)' = Own(t)
    BY <1>1, <1>4 DEF Own, Unsubmitted, InSession, SubmitPcs, StampPcs
  <2> QED BY <1>1, <1>2, <2>2, <2>3, <2>4, OnceStays DEF OnceInv
<1> QED BY <1>1, <1>3, <1>4

\* A session becomes ready once, and only neither marked nor done.
LEMMA SnapshotOnce ==
    ASSUME TypeOK, SlotsInv, LossInv, OnceInv, OwnCancels, NEW t \in Threads, Snapshot(t)
    PROVE  OnceInv'
<1>1. /\ UNCHANGED <<pending, paused, cancelled, gen, call, active, batch, results, returned, fate>>
      /\ pc[t] = "snapshot" /\ scan[t] \in Seq(Requests) /\ ready[t] \in Seq(Requests)
  BY DEF Snapshot, Goto, shared, history, TypeOK
<1>2. \A u \in Threads \ {t} : SameThread(u)
  BY RunLeavesOthers DEF RunStep
<1>3. Tidy(t) /\ ReadyToDecode(t) /\ batch[t] = <<>>
  BY <1>1 DEF OnceInv, SlotsInv, Slots, PassPcs, PopPcs
<1>4. CASE pc'[t] = "retire" /\ scan'[t] = active[t] /\ ready' = ready
  <2>1. Resumable' = Resumable
    BY <1>1, <1>2, <1>4, ResumableSame
  <2>2. Tidy(t)' /\ ReadyToDecode(t)'
    BY <1>1, <1>3, <1>4 DEF Tidy, ReadyToDecode, SubmitPcs, StampPcs, RunPcs, PopPcs, Marked, Done
  <2>3. Own(t)' \subseteq Own(t)
    BY <1>1, <1>4 DEF Own, Unsubmitted, InSession, SubmitPcs, StampPcs
  <2> QED BY <1>1, <1>2, <2>1, <2>2, <2>3, OnceStays DEF OnceInv
<1>5. CASE /\ scan[t] # <<>> /\ pc'[t] = "snapshot" /\ scan'[t] = Tail(scan[t])
           /\ ready'[t] = IF IsReady(Head(scan[t])) THEN Append(ready[t], Head(scan[t])) ELSE ready[t]
  <2>1. PICK h \in Requests : h = Head(scan[t])
    BY <1>1, <1>5
  <2>2. Resumable' = Resumable
    BY <1>1, <1>2, <1>5, ResumableSame
  <2>3. /\ IsInjective(scan[t]) /\ ToSet(scan[t]) \cup ToSet(ready[t]) \subseteq ToSet(active[t])
        /\ ToSet(scan[t]) \cap ToSet(ready[t]) = {} /\ IsInjective(ready[t])
    BY <1>1, <1>3 DEF Tidy
  <2>4. h \in ToSet(scan[t]) /\ ToSet(scan'[t]) = ToSet(scan[t]) \ {h} /\ IsInjective(scan'[t])
    BY <1>1, <1>5, <2>1, <2>3, InjectiveTail, ToSetTail
  <2>5. CASE IsReady(h)
    <3>1. ready'[t] = Append(ready[t], h) /\ ToSet(ready'[t]) = ToSet(ready[t]) \cup {h} /\ IsInjective(ready'[t])
      BY <1>1, <1>5, <2>1, <2>3, <2>4, <2>5, ToSetAppend, InjectiveAppend
    <3>2. Tidy(t)'
      BY <1>1, <1>3, <1>5, <2>3, <2>4, <3>1, ToSetEmpty DEF Tidy, SubmitPcs, StampPcs, RunPcs, PopPcs
    <3>3. ReadyToDecode(t)'
      BY <1>1, <1>3, <2>5, <3>1 DEF ReadyToDecode, IsReady, Marked, Done
    <3>4. Own(t)' \subseteq Own(t)
      BY <1>1, <1>5, <2>3, <2>4, <3>1 DEF Own, Unsubmitted, InSession, SubmitPcs, StampPcs
    <3> QED BY <1>1, <1>2, <2>2, <3>2, <3>3, <3>4, OnceStays DEF OnceInv
  <2>6. CASE ~IsReady(h)
    <3>1. ready'[t] = ready[t]
      BY <1>5, <2>1, <2>6
    <3>2. Tidy(t)' /\ ReadyToDecode(t)'
      BY <1>1, <1>3, <1>5, <2>3, <2>4, <3>1 DEF Tidy, ReadyToDecode, SubmitPcs, StampPcs, RunPcs, PopPcs, Marked, Done
    <3>3. Own(t)' \subseteq Own(t)
      BY <1>1, <1>5, <3>1 DEF Own, Unsubmitted, InSession, SubmitPcs, StampPcs
    <3> QED BY <1>1, <1>2, <2>2, <3>2, <3>3, OnceStays DEF OnceInv
  <2> QED BY <2>5, <2>6
<1>6. pc \in [Threads -> Pcs] /\ scan \in [Threads -> Seq(Requests)] /\ ready \in [Threads -> Seq(Requests)]
  BY DEF TypeOK
<1> QED BY <1>4, <1>5, <1>6 DEF Snapshot, Goto

\* A request that is over gets one more result of its call, an exact one;
\* nothing happens to another.
LEMMA FinishExact ==
    ASSUME TypeOK, OnceInv, NEW t \in Threads, NEW h \in Requests, FinishIfOver(t, h)
    PROVE  \/ /\ ~IsReady(h) /\ cancelled' \subseteq cancelled
              /\ \E e \in Result : results'[t] = Append(results[t], e) /\ e.req = h /\ ExactResult(e)
           \/ IsReady(h) /\ UNCHANGED <<cancelled, results>>
<1>1. gen[h] \in Nat /\ MaxNew[h] \in Nat /\ gen[h] <= MaxNew[h] /\ results \in [Threads -> Seq(Result)]
  BY SchedulerAssumption DEF TypeOK, OnceInv
<1>2. CASE Marked(h)
  <2>1. PICK e \in Result : e = [req |-> h, reason |-> "cancelled", tokens |-> gen[h]]
    BY <1>1 DEF Result
  <2>2. results'[t] = Append(results[t], e) /\ cancelled' \subseteq cancelled
    BY <1>1, <1>2, <2>1 DEF FinishIfOver, Finish
  <2>3. ExactResult(e) /\ e.req = h
    BY <1>1, <2>1 DEF ExactResult
  <2> QED BY <1>2, <2>2, <2>3 DEF IsReady
<1>3. CASE ~Marked(h) /\ Done(h)
  <2>1. PICK e \in Result : e = [req |-> h, reason |-> "length", tokens |-> gen[h]]
    BY <1>1 DEF Result
  <2>2. results'[t] = Append(results[t], e) /\ cancelled' = cancelled
    BY <1>1, <1>3, <2>1 DEF FinishIfOver, Finish
  <2>3. ExactResult(e) /\ e.req = h
    BY <1>1, <1>3, <2>1 DEF ExactResult, Done
  <2> QED BY <1>3, <2>2, <2>3 DEF IsReady
<1>4. CASE ~Marked(h) /\ ~Done(h)
  BY <1>4 DEF FinishIfOver, IsReady
<1> QED BY <1>2, <1>3, <1>4

\* A step of t that answers h.
LEMMA AnswerOnce ==
    ASSUME TypeOK, LossInv, OnceInv, OwnCancels, NEW t \in Threads, \A u \in Threads \ {t} : SameThread(u),
           UNCHANGED <<pending, paused, gen, returned, fate>>, Resumable' = Resumable, cancelled' \subseteq cancelled,
           NEW h \in Requests, h \in Own(t), Own(t)' \subseteq Own(t) \ {h},
           NEW e \in Result, e.req = h, ExactResult(e), results'[t] = Append(results[t], e),
           IsInjective(Reqs(results'[t])) => Tidy(t)', ReadyToDecode(t)'
    PROVE  OnceInv'
<1>1. results[t] \in Seq(Result) /\ Reqs(results[t]) \in Seq(Requests)
  BY ReqsType DEF TypeOK
<1>2. Reqs(results'[t]) = Append(Reqs(results[t]), h)
  BY <1>1, ReqsAppend
<1>3. Answered(t)' = Answered(t) \cup {h}
  BY <1>1, <1>2, ToSetAppend DEF Answered
<1>4. /\ ToSet(pending) \cap Resumable = {} /\ ToSet(pending) \cap Final = {} /\ Resumable \cap Final = {}
      /\ Own(t) \cap Answered(t) = {} /\ Mine(t) \cap Shared = {} /\ Apart
  BY DEF OnceInv, Apart
<1>5. Final' = Final /\ Shared' = Shared /\ Mine(t)' \subseteq Mine(t)
  BY <1>3 DEF Final, Shared, Mine
<1>6. Own(t)' \cap Answered(t)' = {} /\ Mine(t)' \cap Shared' = {}
  BY <1>3, <1>4, <1>5
<1>7. ToSet(pending)' \cap Resumable' = {} /\ ToSet(pending)' \cap Final' = {} /\ Resumable' \cap Final' = {}
  BY <1>4, <1>5
<1>8. Shared' \cup Mine(t)' \subseteq Shared \cup Mine(t)
  BY <1>5
<1>9. Apart'
  BY <1>4, <1>6, <1>7, <1>8, ApartKept
<1>10. Tidy(t)'
  <2>1. IsInjective(Reqs(results[t])) /\ h \notin ToSet(Reqs(results[t]))
    BY <1>4 DEF OnceInv, Tidy, Answered
  <2> QED BY <1>1, <1>2, <2>1, InjectiveAppend
<1>11. Exact(results[t])'
  <2>1. \A x : ExactResult(x)' <=> ExactResult(x)
    BY DEF ExactResult
  <2>2. \A k \in DOMAIN results[t] : ExactResult(results[t][k])
    BY DEF OnceInv, ResultsExact
  <2>3. ASSUME NEW k \in DOMAIN results'[t] PROVE ExactResult(results'[t][k])
    <3>1. (k \in DOMAIN results[t] /\ results'[t][k] = results[t][k]) \/ results'[t][k] = e
      BY <1>1
    <3> QED BY <2>2, <3>1
  <2> QED BY <2>1, <2>3 DEF Exact
<1>12. /\ IsInjective(pending)' /\ IsInjective(paused)' /\ IsInjective(Reqs(returned))' /\ Exact(returned)'
       /\ \A r \in Requests : gen'[r] <= MaxNew[r] /\ gen'[r] = gen[r]
  BY DEF OnceInv, ResultsExact, Exact, ExactResult, Reqs
<1> QED BY <1>9, <1>10, <1>11, <1>12, OnceKept

LEMMA RetireOnce ==
    ASSUME TypeOK, SlotsInv, LossInv, OnceInv, OwnCancels, NEW t \in Threads, Retire(t)
    PROVE  OnceInv'
<1>1. /\ UNCHANGED <<pending, paused, gen, call, active, batch, ready, returned, fate>>
      /\ pc[t] = "retire" /\ scan[t] \in Seq(Requests)
      /\ pc \in [Threads -> Pcs] /\ scan \in [Threads -> Seq(Requests)]
  BY DEF Retire, Goto, history, TypeOK
<1>2. \A u \in Threads \ {t} : SameThread(u)
  BY RunLeavesOthers DEF RunStep
<1>3. Tidy(t) /\ ReadyToDecode(t)
  BY DEF OnceInv
<1>4. CASE pc'[t] = "decode" /\ UNCHANGED <<cancelled, results, scan>>
  <2>1. Resumable' = Resumable
    BY <1>1, <1>2, <1>4, ResumableSame
  <2>2. Tidy(t)' /\ ReadyToDecode(t)'
    BY <1>1, <1>3, <1>4 DEF Tidy, ReadyToDecode, SubmitPcs, StampPcs, RunPcs, PopPcs, Marked, Done
  <2>3. Own(t)' \subseteq Own(t)
    BY <1>1, <1>4 DEF Own, Unsubmitted, SubmitPcs, StampPcs
  <2> QED BY <1>1, <1>2, <1>4, <2>1, <2>2, <2>3, OnceStays DEF OnceInv
<1>5. CASE /\ scan[t] # <<>> /\ pc'[t] = "retire" /\ FinishIfOver(t, Head(scan[t])) /\ scan'[t] = Tail(scan[t])
  <2>1. PICK h \in Requests : h = Head(scan[t])
    BY <1>1, <1>5
  <2>2. IsInjective(scan[t])
    BY <1>1, <1>3 DEF Tidy
  <2>3. h \in ToSet(scan[t]) /\ ToSet(scan'[t]) = ToSet(scan[t]) \ {h} /\ IsInjective(scan'[t])
    BY <1>1, <1>5, <2>1, <2>2, InjectiveTail, ToSetTail
  <2>4. Resumable' = Resumable
    BY <1>1, <1>2, <1>5, ResumableSame
  <2>5. Own(t) = ToSet(ready[t]) \cup ToSet(scan[t]) /\ Own(t)' = ToSet(ready[t]) \cup (ToSet(scan[t]) \ {h})
    BY <1>1, <1>5, <2>3 DEF Own, Unsubmitted, SubmitPcs, StampPcs
  <2>6. CASE IsReady(h) /\ UNCHANGED <<cancelled, results>>
    <3>1. Tidy(t)' /\ ReadyToDecode(t)'
      BY <1>1, <1>3, <1>5, <2>3, <2>6 DEF Tidy, ReadyToDecode, SubmitPcs, StampPcs, RunPcs, PopPcs, Marked, Done
    <3> QED BY <1>1, <1>2, <2>4, <2>5, <2>6, <3>1, OnceStays DEF OnceInv
  <2>7. ASSUME ~IsReady(h), cancelled' \subseteq cancelled, NEW e \in Result,
               results'[t] = Append(results[t], e), e.req = h, ExactResult(e)
        PROVE  OnceInv'
    <3>1. h \notin ToSet(ready[t])
      BY <1>1, <1>3, <2>7 DEF ReadyToDecode, IsReady
    <3>2. h \in Own(t) /\ Own(t)' \subseteq Own(t) \ {h}
      BY <2>3, <2>5, <3>1
    <3>3. IsInjective(Reqs(results'[t])) => Tidy(t)'
      BY <1>1, <1>3, <1>5, <2>3 DEF Tidy, SubmitPcs, StampPcs, RunPcs, PopPcs
    <3>4. ReadyToDecode(t)'
      BY <1>1, <1>3, <2>7 DEF ReadyToDecode, Marked, Done
    <3> QED BY <1>1, <1>2, <2>4, <2>7, <3>2, <3>3, <3>4, AnswerOnce
  <2> QED BY <1>5, <2>1, <2>6, <2>7, FinishExact
<1> QED BY <1>1, <1>4, <1>5 DEF Retire, Goto

\* Only sessions that lack a token get one, and no result is about them.
LEMMA DecodeOnce ==
    ASSUME TypeOK, SlotsInv, LossInv, OnceInv, OwnCancels, NEW t \in Threads, Decode(t)
    PROVE  OnceInv'
<1>1. /\ UNCHANGED <<pending, paused, cancelled, call, batch, scan, ready, results, returned, fate>>
      /\ pc[t] = "decode" /\ pc'[t] = "collect" /\ active'[t] = <<>> /\ ready[t] \in Seq(Requests)
      /\ gen' = [r \in Requests |-> IF r \in ToSet(ready[t]) THEN gen[r] + 1 ELSE gen[r]]
      /\ gen \in [Requests -> Nat] /\ results[t] \in Seq(Result) /\ returned \in Seq(Result)
  BY DEF Decode, Goto, history, TypeOK
<1>2. \A u \in Threads \ {t} : SameThread(u)
  BY RunLeavesOthers DEF RunStep
<1>3. Tidy(t) /\ ReadyToDecode(t) /\ batch[t] = <<>>
  BY <1>1 DEF OnceInv, SlotsInv, Slots, PassPcs, PopPcs
<1>4. Resumable' = Resumable /\ Final' = Final /\ Answered(t)' = Answered(t) /\ ToSet(pending)' = ToSet(pending)
  BY <1>1, <1>2, ResumableSame DEF Final, Answered
<1>5. Own(t) = ToSet(ready[t]) /\ Own(t)' = Own(t)
  BY <1>1, <1>3, ToSetEmpty DEF Own, Unsubmitted, InSession, SubmitPcs, StampPcs
<1>6. /\ ToSet(pending) \cap Resumable = {} /\ ToSet(pending) \cap Final = {} /\ Resumable \cap Final = {}
      /\ Own(t) \cap Answered(t) = {} /\ Mine(t) \cap Shared = {} /\ Apart
  BY DEF OnceInv, Apart
<1>7. Shared' = Shared /\ Mine(t)' = Mine(t)
  BY <1>4, <1>5 DEF Shared, Mine
<1>8. Apart'
  BY <1>1, <1>2, <1>4, <1>5, <1>6, <1>7, ApartKept
<1>9. Tidy(t)' /\ ReadyToDecode(t)'
  BY <1>1, <1>3, InjectiveEmpty, ToSetEmpty DEF Tidy, ReadyToDecode, SubmitPcs, StampPcs, RunPcs, PopPcs
<1>10. \A r \in Requests : r \notin Own(t) => gen'[r] = gen[r]
  BY <1>1, <1>5
<1>11. ASSUME NEW r \in Requests PROVE gen'[r] <= MaxNew[r]
  <2>1. gen[r] \in Nat /\ MaxNew[r] \in Nat /\ gen[r] <= MaxNew[r]
    BY <1>1, SchedulerAssumption DEF OnceInv
  <2>2. r \in ToSet(ready[t]) => ~(gen[r] >= MaxNew[r])
    BY <1>1, <1>3 DEF ReadyToDecode, Done
  <2> QED BY <1>1, <2>1, <2>2
<1>12. ASSUME NEW x \in Result, ExactResult(x), x.req \notin Own(t) PROVE ExactResult(x)'
  <2>1. x.req \in Requests
    BY DEF Result
  <2> QED BY <1>10, <1>12, <2>1 DEF ExactResult
<1>13. Exact(results[t])'
  <2>1. ASSUME NEW k \in DOMAIN results[t] PROVE ExactResult(results[t][k])'
    <3>1. results[t][k] \in Result /\ ExactResult(results[t][k]) /\ results[t][k].req \in Answered(t)
      BY <1>1 DEF OnceInv, ResultsExact, Answered, Reqs, ToSet
    <3> QED BY <1>1, <1>6, <1>12, <3>1 DEF ExactResult
  <2> QED BY <1>1, <2>1 DEF Exact
<1>14. Exact(returned)'
  <2>1. ASSUME NEW k \in DOMAIN returned PROVE ExactResult(returned[k])'
    <3>1. returned[k] \in Result /\ ExactResult(returned[k]) /\ returned[k].req \in Final
      BY <1>1 DEF OnceInv, ResultsExact, Final, Reqs, ToSet
    <3>2. returned[k].req \notin Own(t)
      BY <1>6, <3>1 DEF Mine, Shared
    <3> QED BY <1>1, <1>12, <3>1, <3>2 DEF ExactResult
  <2> QED BY <1>1, <2>1 DEF Exact
<1>15. IsInjective(pending)' /\ IsInjective(paused)' /\ IsInjective(Reqs(returned))'
  BY <1>1 DEF OnceInv, Reqs
<1> QED BY <1>1, <1>2, <1>8, <1>9, <1>10, <1>11, <1>13, <1>14, <1>15, OnceKept

LEMMA CollectOnce ==
    ASSUME TypeOK, SlotsInv, LossInv, OnceInv, OwnCancels, NEW t \in Threads, Collect(t)
    PROVE  OnceInv'
<1>1. /\ UNCHANGED <<pending, paused, gen, call, batch, scan, returned, fate>>
      /\ pc[t] = "collect" /\ ready[t] \in Seq(Requests) /\ active[t] \in Seq(Requests)
      /\ pc \in [Threads -> Pcs] /\ ready \in [Threads -> Seq(Requests)] /\ active \in [Threads -> Seq(Requests)]
  BY DEF Collect, Goto, history, TypeOK
<1>2. \A u \in Threads \ {t} : SameThread(u)
  BY RunLeavesOthers DEF RunStep
<1>3. Tidy(t) /\ batch[t] = <<>>
  BY <1>1 DEF OnceInv, SlotsInv, Slots, PassPcs, PopPcs
<1>4. CASE ready[t] = <<>> /\ pc'[t] = "loop" /\ UNCHANGED <<cancelled, results, ready, active>>
  <2>1. Resumable' = Resumable
    BY <1>1, <1>2, <1>4, ResumableSame
  <2>2. Tidy(t)' /\ ReadyToDecode(t)'
    BY <1>1, <1>3, <1>4 DEF Tidy, ReadyToDecode, SubmitPcs, StampPcs, RunPcs, PopPcs
  <2>3. Own(t)' = Own(t)
    BY <1>1, <1>4 DEF Own, Unsubmitted, InSession, SubmitPcs, StampPcs
  <2> QED BY <1>1, <1>2, <1>4, <2>1, <2>2, <2>3, OnceStays DEF OnceInv
<1>5. CASE /\ ready[t] # <<>> /\ pc'[t] = "collect" /\ FinishIfOver(t, Head(ready[t])) /\ ready'[t] = Tail(ready[t])
           /\ active'[t] = IF IsReady(Head(ready[t])) THEN Append(active[t], Head(ready[t])) ELSE active[t]
  <2>1. PICK h \in Requests : h = Head(ready[t])
    BY <1>1, <1>5
  <2>2. /\ h \in ToSet(ready[t]) /\ ToSet(ready'[t]) = ToSet(ready[t]) \ {h} /\ IsInjective(ready'[t])
        /\ h \notin ToSet(active[t])
    BY <1>1, <1>3, <1>5, <2>1, InjectiveTail, ToSetTail DEF Tidy
  <2>3. Resumable' = Resumable
    BY <1>1, <1>2, <1>5, ResumableSame
  <2>4. /\ Own(t) = ToSet(active[t]) \cup ToSet(ready[t])
        /\ Own(t)' = ToSet(active'[t]) \cup ToSet(ready'[t])
    BY <1>1, <1>3, <1>5, ToSetEmpty DEF Own, Unsubmitted, InSession, SubmitPcs, StampPcs
  <2>5. CASE IsReady(h) /\ UNCHANGED <<cancelled, results>>
    <3>1. /\ active'[t] = Append(active[t], h) /\ ToSet(active'[t]) = ToSet(active[t]) \cup {h}
          /\ IsInjective(active'[t])
      BY <1>1, <1>3, <1>5, <2>1, <2>2, <2>5, ToSetAppend, InjectiveAppend DEF Tidy
    <3>2. Tidy(t)' /\ ReadyToDecode(t)'
      BY <1>1, <1>3, <1>5, <2>2, <2>5, <3>1, ToSetEmpty DEF Tidy, ReadyToDecode, SubmitPcs, StampPcs, RunPcs, PopPcs
    <3>3. Own(t)' \subseteq Own(t)
      BY <2>2, <2>4, <3>1
    <3> QED BY <1>1, <1>2, <2>3, <2>5, <3>2, <3>3, OnceStays DEF OnceInv
  <2>6. ASSUME ~IsReady(h), cancelled' \subseteq cancelled, NEW e \in Result,
               results'[t] = Append(results[t], e), e.req = h, ExactResult(e)
        PROVE  OnceInv'
    <3>1. active'[t] = active[t]
      BY <1>5, <2>1, <2>6
    <3>2. h \in Own(t) /\ Own(t)' \subseteq Own(t) \ {h}
      BY <2>2, <2>4, <3>1
    <3>3. IsInjective(Reqs(results'[t])) => Tidy(t)'
      BY <1>1, <1>3, <1>5, <2>2, <3>1 DEF Tidy, SubmitPcs, StampPcs, RunPcs, PopPcs
    <3>4. ReadyToDecode(t)'
      BY <1>5 DEF ReadyToDecode
    <3> QED BY <1>1, <1>2, <2>3, <2>6, <3>2, <3>3, <3>4, AnswerOnce
  <2> QED BY <1>5, <2>1, <2>5, <2>6, FinishExact
<1> QED BY <1>1, <1>4, <1>5 DEF Collect, Goto

------------------------------------------------------------------------------
LEMMA InitOnce == Init => OnceInv
<1>1. SUFFICES ASSUME Init PROVE OnceInv
  OBVIOUS
<1>2. /\ pending = <<>> /\ paused = <<>> /\ returned = <<>> /\ \A r \in Requests : gen[r] = 0
      /\ \A t \in Threads : /\ pc[t] = "idle" /\ active[t] = <<>> /\ batch[t] = <<>>
                            /\ ready[t] = <<>> /\ results[t] = <<>>
  BY <1>1 DEF Init
<1>3. \A t \in Threads : Own(t) = {} /\ Answered(t) = {} /\ Mine(t) = {}
  BY <1>2, ReqsEmpty, ToSetEmpty DEF Own, Unsubmitted, InSession, SubmitPcs, StampPcs, Answered, Mine
<1>4. Shared = {} /\ ToSet(pending) = {} /\ Resumable = {} /\ Final = {}
  BY <1>2, ReqsEmpty, ToSetEmpty DEF Shared, Resumable, Final
<1>5. Apart
  BY <1>3, <1>4 DEF Apart
<1>6. \A t \in Threads : Tidy(t) /\ ReadyToDecode(t)
  BY <1>2, ReqsEmpty, ToSetEmpty, InjectiveEmpty DEF Tidy, ReadyToDecode, SubmitPcs, StampPcs, RunPcs, PopPcs
<1>7. ResultsExact
  BY <1>2 DEF ResultsExact
<1>8. \A r \in Requests : gen[r] <= MaxNew[r]
  BY <1>2, SchedulerAssumption
<1> QED BY <1>2, <1>5, <1>6, <1>7, <1>8, ReqsEmpty, InjectiveEmpty DEF OnceInv

\* One step duplicates nothing.
LEMMA OnceInductive ==
    ASSUME OwnCancels, OneLoop \/ ~Preempts
    PROVE  TypeOK /\ SlotsInv /\ LossInv /\ OnceInv /\ [Next]_vars => OnceInv'
<1>1. SUFFICES ASSUME TypeOK, SlotsInv, LossInv, OnceInv, [Next]_vars PROVE OnceInv'
  OBVIOUS
<1>2. CASE UNCHANGED vars
  <2>1. /\ Apart' /\ \A t \in Threads : Tidy(t)' /\ ReadyToDecode(t)'
    <3>1. UNCHANGED <<pending, paused, cancelled, gen, pc, call, active, batch, pick, choice, scan,
                      ready, results, fate, returned>>
      BY <1>2 DEF vars, shared, locals, history
    <3>2. \A t \in Threads : Own(t)' = Own(t) /\ Answered(t)' = Answered(t)
      BY <3>1 DEF Own, Answered, Unsubmitted, InSession
    <3>3. Shared' = Shared /\ Resumable' = Resumable /\ Final' = Final
      BY <3>1 DEF Shared, Resumable, Final
    <3>4. \A t \in Threads : Tidy(t)' /\ ReadyToDecode(t)'
      BY <1>1, <3>1 DEF OnceInv, Tidy, ReadyToDecode, Marked, Done
    <3> QED BY <1>1, <3>1, <3>2, <3>3, <3>4 DEF OnceInv, Apart, Mine
  <2>2. ResultsExact' /\ IsInjective(Reqs(returned))'
    BY <1>1, <1>2 DEF OnceInv, ResultsExact, ExactResult, Reqs, vars, shared, locals, history
  <2> QED BY <1>1, <1>2, <2>1, <2>2 DEF OnceInv, vars, shared, locals, history
<1>3. ASSUME NEW t \in Threads, NEW c \in Calls, Submit(t, c) PROVE OnceInv'
  BY <1>1, <1>3, SubmitOnce
<1>4. ASSUME NEW t \in Threads, NEW i \in Ids, Cancel(t, i) PROVE OnceInv'
  BY <1>1, <1>4, CancelOnce
<1>5. ASSUME NEW t \in Threads, ClientStep(t) PROVE OnceInv'
  BY <1>1, <1>5, WaitOnce, EnqueueOnce, StampOnce, CountSubmittedOnce, WithdrawOnce DEF ClientStep
<1>6. ASSUME NEW t \in Threads, RunStep(t) PROVE OnceInv'
  BY <1>1, <1>6, LoopOnce, ResumeOnce, UnpauseOnce, AdmitOnce, ScoringOnce, TakeOnce, PrefillOnce,
     PreemptOnce, DisplaceOnce, RoundOnce, SnapshotOnce, RetireOnce, DecodeOnce, CollectOnce
     DEF RunStep, Scoring
<1>7. ASSUME NEW t \in Threads, Run(t) \/ RuntimeError(t) PROVE OnceInv'
  BY <1>1, <1>7, RunOnce, RuntimeErrorOnce
<1> QED BY <1>1, <1>2, <1>3, <1>4, <1>5, <1>6, <1>7 DEF Next

\* What is paused is nobody's, or is being resumed.
LEMMA PausedPlaces ==
    ASSUME TypeOK, LossInv, NEW r \in ToSet(paused)
    PROVE  r \in Resumable \/ \E u \in Threads : pc[u] = "unpause" /\ r \in ToSet(active[u]) /\ r \in Own(u)
<1>1. PICK k \in 1..Len(paused) : paused[k] = r
  BY ToSetElement DEF TypeOK
<1>2. CASE \A u \in Threads : pc[u] = "unpause" => k > pick[u]
  BY <1>1, <1>2 DEF Resumable, TypeOK
<1>3. CASE \E u \in Threads : pc[u] = "unpause" /\ ~(k > pick[u])
  <2>1. PICK u \in Threads : pc[u] = "unpause" /\ ~(k > pick[u])
    BY <1>3
  <2>2. k <= pick[u]
    BY <2>1 DEF TypeOK
  <2>3. r \in ToSet(active[u])
    BY <1>1, <2>1, <2>2 DEF LossInv, Owed
  <2> QED BY <2>1, <2>3 DEF Own, InSession
<1> QED BY <1>2, <1>3

LEMMA OnceInvImplies == TypeOK /\ LossInv /\ OnceInv => AtMostOnce
<1>1. SUFFICES ASSUME TypeOK, LossInv, OnceInv PROVE AtMostOnce
  OBVIOUS
<1>2. ASSUME NEW t \in Threads PROVE Advancing(t) \subseteq Own(t)
  BY DEF Advancing, Own, InSession
<1>3. ASSUME NEW r \in Requests, HasResult(r) PROVE r \in Final \/ \E t \in Threads : r \in Answered(t)
  BY <1>3 DEF HasResult, Final, Answered, Reqs, ToSet
<1>4. ASSUME NEW r \in Requests, r \in ToSet(paused) PROVE r \in Resumable \/ \E t \in Threads : r \in Own(t)
  BY <1>1, <1>4, PausedPlaces
<1>5. ASSUME NEW r \in Requests, HasResult(r)
      PROVE  /\ r \notin ToSet(pending) \cup ToSet(paused)
             /\ \A t \in Threads : r \notin Advancing(t)
  <2>1. r \notin ToSet(pending) \cup Resumable
    BY <1>1, <1>3, <1>5 DEF OnceInv, Apart, Mine, Shared
  <2>2. \A t \in Threads : r \notin Own(t)
    <3>1. ASSUME NEW t \in Threads, r \in Own(t) PROVE FALSE
      <4>1. CASE r \in Final
        BY <1>1, <3>1, <4>1 DEF OnceInv, Apart, Mine, Shared
      <4>2. ASSUME NEW u \in Threads, r \in Answered(u) PROVE FALSE
        BY <1>1, <3>1, <4>2 DEF OnceInv, Apart, Mine
      <4> QED BY <1>3, <1>5, <4>1, <4>2
    <3> QED BY <3>1
  <2> QED BY <1>2, <1>4, <2>1, <2>2
<1>6. \A j, k \in DOMAIN returned : returned[j].req = returned[k].req => j = k
  BY <1>1 DEF OnceInv, IsInjective, Reqs
<1>7. ASSUME NEW t \in Threads, NEW k \in DOMAIN results[t]
      PROVE  /\ \A j \in DOMAIN results[t] : results[t][j].req = results[t][k].req => j = k
             /\ \A j \in DOMAIN returned : returned[j].req # results[t][k].req
  <2>1. IsInjective(Reqs(results[t])) /\ Answered(t) \cap Final = {}
    BY <1>1 DEF OnceInv, Tidy, Apart, Mine, Shared
  <2>2. \A j \in DOMAIN results[t] : results[t][j].req = results[t][k].req => j = k
    BY <2>1 DEF IsInjective, Reqs
  <2>3. results[t][k].req \in Answered(t)
    BY DEF Reqs, Answered, ToSet
  <2>4. \A j \in DOMAIN returned : returned[j].req \in Final
    BY DEF Reqs, Final, ToSet
  <2> QED BY <2>1, <2>2, <2>3, <2>4
<1> QED BY <1>5, <1>6, <1>7 DEF AtMostOnce

LEMMA OnceAlways ==
    ASSUME OwnCancels, OneLoop \/ ~Preempts
    PROVE  Spec => [](TypeOK /\ SlotsInv /\ LossInv /\ OnceInv)
<1>1. Init => TypeOK /\ SlotsInv /\ LossInv /\ OnceInv
  BY InitTypeOK, InitSlots, InitLoss, InitOnce
<1>2. TypeOK /\ SlotsInv /\ LossInv /\ OnceInv /\ [Next]_vars => TypeOK' /\ SlotsInv' /\ LossInv' /\ OnceInv'
  BY Inductive, LossInductive, OnceInductive
<1> QED BY <1>1, <1>2, PTL DEF Spec

\* A request gets one result and is nowhere after it.  The loop's thread does the
\* cancelling: a mark set by another one between the ready comprehension and the
\* retire loop finishes a session that the same round then decodes and finishes
\* again.  One thread runs a scheduler that preempts: two loops would both resume
\* one paused request.
THEOREM AtMostOnceHolds ==
    ASSUME OwnCancels, OneLoop \/ ~Preempts
    PROVE  Spec => []AtMostOnce
BY OnceAlways, OnceInvImplies, PTL

\* The tokens of a result are those of its session, now and ever after, no more
\* than max_new_tokens, and exactly as many when it says "length".  The callers
\* are as above: a session finished twice is decoded after its first result.
THEOREM ResultsExactHolds ==
    ASSUME OwnCancels, OneLoop \/ ~Preempts
    PROVE  Spec => []ResultsExact
<1>1. OnceInv => ResultsExact
  BY DEF OnceInv
<1> QED BY <1>1, OnceAlways, PTL

------------------------------------------------------------------------------
(* The admission pass *)

FreshInv == \A t \in Threads : Fresh(t)

\* Only a pop of the loop and a withdrawal shorten the queue.
LEMMA QueueGrows ==
    ASSUME TypeOK, SlotsInv, NEW t \in Threads,
           \/ \E c \in Calls : Submit(t, c)
           \/ \E i \in Ids : Cancel(t, i)
           \/ Run(t) \/ RuntimeError(t)
           \/ CheckCapacity(t) \/ StopWaiting(t) \/ Recheck(t) \/ Enqueue(t) \/ Stamp(t)
           \/ Number(t) \/ CountSubmitted(t) \/ Scoring(t)
           \/ Loop(t) \/ Resume(t) \/ Unpause(t) \/ Admit(t) \/ Prefill(t) \/ Preempt(t)
           \/ Displace(t) \/ Round(t) \/ Snapshot(t) \/ Retire(t) \/ Decode(t) \/ Collect(t)
    PROVE  /\ Len(pending) <= Len(pending')
           /\ \A k \in DOMAIN pending : k \in DOMAIN pending' /\ pending'[k] = pending[k]
<1>1. pending \in Seq(Requests) /\ call[t].batch \in Seq(Requests)
  BY DEF TypeOK
<1>2. CASE pending' = pending
  BY <1>1, <1>2
<1>3. CASE Enqueue(t)
  <2>1. pending' = pending \/ (call[t].batch # <<>> /\ pending' = Append(pending, Head(call[t].batch)))
    BY <1>3 DEF Enqueue
  <2>2. call[t].batch # <<>> => Head(call[t].batch) \in Requests
    BY <1>1
  <2>3. \A r \in Requests : pending' = Append(pending, r) =>
          /\ Len(pending) <= Len(pending')
          /\ \A k \in DOMAIN pending : k \in DOMAIN pending' /\ pending'[k] = pending[k]
    BY <1>1
  <2> QED BY <1>2, <2>1, <2>2, <2>3
<1>4. CASE \/ \E c \in Calls : Submit(t, c)
           \/ \E i \in Ids : Cancel(t, i)
           \/ CheckCapacity(t) \/ StopWaiting(t) \/ Recheck(t) \/ Stamp(t) \/ Number(t)
           \/ CountSubmitted(t) \/ Run(t) \/ Raise(t)
  BY <1>2, <1>4 DEF Submit, Cancel, CheckCapacity, StopWaiting, Recheck, Stamp, Number, CountSubmitted,
     Run, Raise, shared
<1>5. CASE Scoring(t)
  BY <1>2, <1>4, <1>5, ScoringStep DEF shared
<1>6. CASE Loop(t) \/ Resume(t) \/ Unpause(t) \/ Admit(t) \/ Prefill(t) \/ Preempt(t)
  BY <1>2, <1>6 DEF Loop, Resume, Unpause, Admit, Prefill, Preempt, shared
<1>7. CASE Displace(t) \/ Round(t) \/ Snapshot(t) \/ Retire(t) \/ Decode(t) \/ Collect(t)
  BY <1>2, <1>4, <1>7 DEF Displace, Round, Snapshot, Retire, Decode, Collect, shared
<1> QED BY <1>3, <1>4, <1>5, <1>6, <1>7 DEF RuntimeError

\* Only a selection, a pop and an exception touch the scores, and those of one
\* thread.
LEMMA ChoiceKept ==
    ASSUME TypeOK, NEW t \in Threads,
           \/ \E c \in Calls : Submit(t, c)
           \/ \E i \in Ids : Cancel(t, i)
           \/ Run(t) \/ ClientStep(t) \/ RunStep(t) \/ RuntimeError(t)
    PROVE  /\ choice' = choice \/ Scoring(t) \/ Take(t) \/ Raise(t)
           /\ \A u \in Threads \ {t} : choice'[u] = choice[u]
<1>1. choice \in [Threads -> [now : Nat, scores : Seq(Score)]]
  BY DEF TypeOK
<1>2. CASE Raise(t)
  BY <1>1, <1>2 DEF Raise
<1>3. CASE Scoring(t) \/ Take(t)
  BY <1>1, <1>2, <1>3 DEF Scoring, Select, OpenRange, Weigh, Rank, Take, locals
<1>4. CASE choice' = choice
  BY <1>4
<1>5. CASE \/ \E c \in Calls : Submit(t, c)
           \/ \E i \in Ids : Cancel(t, i)
           \/ Run(t)
  BY <1>4, <1>5 DEF Submit, Cancel, Run, locals
<1>6. CASE ClientStep(t)
  BY <1>4, <1>6 DEF ClientStep, CheckCapacity, StopWaiting, Recheck, Enqueue, Stamp, Number,
     CountSubmitted, Withdraw, locals
<1>7. CASE Loop(t) \/ Resume(t) \/ Unpause(t) \/ Admit(t) \/ Prefill(t) \/ Preempt(t)
  BY <1>4, <1>7 DEF Loop, Resume, Unpause, Admit, Prefill, Preempt
<1>8. CASE Displace(t) \/ Round(t) \/ Snapshot(t) \/ Retire(t) \/ Decode(t) \/ Collect(t)
  BY <1>2, <1>4, <1>8 DEF Displace, Round, Snapshot, Retire, Decode, Collect
<1> QED BY <1>2, <1>3, <1>5, <1>6, <1>7, <1>8 DEF RuntimeError, RunStep, Scoring

\* The pass of another thread is not disturbed.
LEMMA OthersFresh ==
    ASSUME TypeOK, LossInv, SoleConsumer, NEW t \in Threads, NEW u \in Threads \ {t},
           SameThread(u), choice'[u] = choice[u], Fresh(u), pending' \in Seq(Requests),
           Len(pending) <= Len(pending') \/ t \in Cancellers \/ t \in Runners
    PROVE  Fresh(u)'
<1>1. pc[u] \in PassPcs => u \in Runners
  BY DEF LossInv, Owed, RunPcs, PassPcs, PopPcs
<1>2. pc[u] \in PassPcs => Len(pending) <= Len(pending')
  BY <1>1 DEF SoleConsumer, OwnCancels, OneLoop
<1>3. pending \in Seq(Requests) /\ quota[u] \in Nat /\ pick[u] \in Nat
  BY DEF TypeOK
<1>4. pick[u] \in DOMAIN pending /\ Len(pending) <= Len(pending') => pick[u] \in DOMAIN pending'
  BY <1>3
<1>5. quota[u] <= Len(pending) /\ Len(pending) <= Len(pending') => quota[u] <= Len(pending')
  BY <1>3
<1> QED BY <1>2, <1>4, <1>5 DEF Fresh, SameThread, SameCall, SameLocals, PassPcs, PopPcs

\* The pass of t: what it counts, what it scores, what it selects and what it
\* pops.
LEMMA OwnFresh ==
    ASSUME TypeOK, SlotsInv, NEW t \in Threads, Fresh(t), Admit(t) \/ Scoring(t) \/ Take(t)
    PROVE  Fresh(t)'
<1>1. /\ pending \in Seq(Requests) /\ pc \in [Threads -> Pcs] /\ pick \in [Threads -> Nat]
      /\ quota \in [Threads -> Nat] /\ Len(pending) \in Nat
      /\ choice \in [Threads -> [now : Nat, scores : Seq(Score)]]
      /\ choice[t].scores \in Seq(Score) /\ Len(choice[t].scores) \in Nat
  BY DEF TypeOK
<1>2. CASE Raise(t)
  <2>1. pc'[t] = "idle" /\ choice'[t].scores = <<>>
    BY <1>1, <1>2 DEF Raise, NoChoice
  <2> QED BY <2>1 DEF Fresh, PassPcs, PopPcs
<1>3. CASE Admit(t)
  <2>1. /\ pc[t] = "admit" /\ pc'[t] = "select" /\ pending' = pending /\ choice' = choice
        /\ quota'[t] = Least(Len(pending), Capacity(t))
    BY <1>1, <1>3 DEF Admit, Goto, shared, AdmitQuota
  <2>2. Capacity(t) \in Int
    <3>1. active[t] \in Seq(Requests) /\ MaxBatch \in Nat
      BY SchedulerAssumption DEF TypeOK
    <3>2. Len(active[t]) \in Nat
      BY <3>1
    <3> QED BY <3>1, <3>2 DEF Capacity
  <2>3. quota'[t] <= Len(pending)
    BY <1>1, <2>1, <2>2 DEF Least
  <2> QED BY <2>1, <2>3 DEF Fresh
<1>4. CASE Select(t)
  <2>1. /\ pc[t] = "select" /\ pc'[t] \in {"prefill", "range"} /\ pending' = pending /\ quota' = quota
        /\ choice'[t].scores = choice[t].scores
    BY <1>1, <1>4 DEF Select, Goto, shared, locals
  <2> QED BY <2>1 DEF Fresh, PassPcs, PopPcs
<1>5. CASE OpenRange(t)
  <2>1. CASE /\ pc[t] = "range" /\ pc'[t] = "weigh" /\ pending # <<>> /\ pick'[t] = Len(pending)
             /\ pending' = pending /\ quota' = quota /\ choice' = choice
    <3>1. pick'[t] \in DOMAIN pending /\ choice[t].scores = <<>> /\ Len(choice'[t].scores) <= pick'[t]
      BY <1>1, <2>1 DEF Fresh
    <3> QED BY <2>1, <3>1 DEF Fresh, PassPcs, PopPcs
  <2> QED BY <1>1, <1>2, <1>5, <2>1 DEF OpenRange, Goto, shared
<1>6. CASE Weigh(t)
  <2>1. CASE /\ pc[t] = "weigh" /\ pc'[t] = "rank" /\ UNCHANGED <<pending, quota, pick>>
             /\ Len(choice[t].scores) + 1 <= pick[t]
             /\ \E x : choice'[t].scores = Append(choice[t].scores, x)
    <3>1. Len(choice'[t].scores) = Len(choice[t].scores) + 1
      BY <1>1, <2>1
    <3> QED BY <2>1, <3>1 DEF Fresh, PassPcs, PopPcs
  <2>2. CASE /\ pc[t] = "weigh" /\ pc'[t] = "take" /\ UNCHANGED <<pending, quota, choice>>
             /\ pick'[t] \in FirstIn(choice[t].scores, Outscores)
    <3>1. pick'[t] \in 1..Len(choice[t].scores)
      BY <1>1, <2>2 DEF FirstIn
    <3>2. pick[t] \in DOMAIN pending /\ Len(choice[t].scores) <= pick[t]
      BY <2>2 DEF Fresh
    <3>3. pick'[t] \in DOMAIN pending
      BY <1>1, <3>1, <3>2
    <3> QED BY <2>2, <3>3 DEF Fresh, PassPcs, PopPcs
  <2>3. \/ /\ pc[t] = "weigh" /\ pc'[t] = "rank" /\ UNCHANGED <<pending, quota, pick>>
           /\ Len(choice[t].scores) + 1 <= pick[t]
           /\ \E x : choice' = [choice EXCEPT ![t].scores = Append(@, x)]
        \/ /\ pc[t] = "weigh" /\ pc'[t] = "take" /\ UNCHANGED <<pending, quota, choice>>
           /\ \E k \in FirstIn(choice[t].scores, Outscores) : pick' = [pick EXCEPT ![t] = k]
        \/ Raise(t)
    BY <1>1, <1>6 DEF Weigh, Goto, shared
  <2> QED BY <1>1, <1>2, <2>1, <2>2, <2>3
<1>7. CASE Rank(t)
  <2>1. /\ pc[t] = "rank" /\ pc'[t] = "weigh" /\ UNCHANGED <<pending, quota, pick>>
        /\ \E n : choice'[t].scores = [choice[t].scores EXCEPT ![Len(choice[t].scores)].arrival = n]
    BY <1>1, <1>7 DEF Rank, Goto, shared
  <2>2. Len(choice'[t].scores) = Len(choice[t].scores)
    BY <1>1, <2>1
  <2> QED BY <2>1, <2>2 DEF Fresh, PassPcs, PopPcs
<1>8. CASE Take(t)
  <2>1. CASE ~Raise(t)
    <3>1. /\ pick[t] <= Len(pending) /\ pc[t] = "take" /\ pc'[t] = "select"
          /\ pending' = RemoveAt(pending, pick[t]) /\ quota'[t] = quota[t] - 1
          /\ choice'[t].scores = <<>>
      BY <1>1, <1>8, <2>1 DEF Take, Goto, NoChoice
    <3>2. pick[t] \in DOMAIN pending /\ quota[t] <= Len(pending) /\ quota[t] \in Nat
      BY <1>1, <3>1 DEF Fresh, PassPcs, PopPcs
    <3>3. Len(pending') = Len(pending) - 1
      BY <1>1, <3>1, <3>2, RemoveAtType
    <3>4. quota'[t] <= Len(pending')
      BY <1>1, <3>1, <3>2, <3>3
    <3> QED BY <3>1, <3>4 DEF Fresh
  <2> QED BY <1>2, <2>1
<1> QED BY <1>3, <1>4, <1>5, <1>6, <1>7, <1>8 DEF Scoring

\* No other step of t is one of a pass, or leads into one.
LEMMA NotInPass ==
    ASSUME TypeOK, NEW t \in Threads,
           \/ \E c \in Calls : Submit(t, c)
           \/ \E i \in Ids : Cancel(t, i)
           \/ Run(t) \/ RuntimeError(t) \/ ClientStep(t)
           \/ Loop(t) \/ Resume(t) \/ Unpause(t) \/ Prefill(t) \/ Preempt(t)
           \/ Displace(t) \/ Round(t) \/ Snapshot(t) \/ Retire(t) \/ Decode(t) \/ Collect(t)
    PROVE  pc'[t] \notin PassPcs /\ pc[t] \notin PopPcs
<1>1. pc \in [Threads -> Pcs]
  BY DEF TypeOK
<1>2. CASE \/ \E c \in Calls : Submit(t, c)
           \/ \E i \in Ids : Cancel(t, i)
           \/ Run(t) \/ RuntimeError(t)
  BY <1>1, <1>2 DEF Submit, Cancel, Run, RuntimeError, Raise, Goto, PassPcs, PopPcs
<1>3. CASE ClientStep(t)
  BY <1>1, <1>3 DEF ClientStep, CheckCapacity, StopWaiting, Recheck, Enqueue, Stamp, Number,
     CountSubmitted, Withdraw, Reject, Goto, PassPcs, PopPcs
<1>4. CASE Loop(t) \/ Resume(t) \/ Unpause(t) \/ Prefill(t) \/ Preempt(t)
  BY <1>1, <1>4 DEF Loop, Resume, Unpause, Prefill, Preempt, Goto, PassPcs, PopPcs
<1>5. CASE Displace(t) \/ Round(t) \/ Snapshot(t) \/ Retire(t) \/ Decode(t) \/ Collect(t)
  BY <1>1, <1>5 DEF Displace, Round, Snapshot, Retire, Decode, Collect, Raise, Goto, PassPcs, PopPcs
<1> QED BY <1>2, <1>3, <1>4, <1>5

LEMMA FreshInductive ==
    ASSUME SoleConsumer
    PROVE  TypeOK /\ SlotsInv /\ LossInv /\ FreshInv /\ [Next]_vars => FreshInv'
<1>1. SUFFICES ASSUME TypeOK, SlotsInv, LossInv, FreshInv, [Next]_vars PROVE FreshInv'
  OBVIOUS
<1>2. pending' \in Seq(Requests)
  <2>1. TypeOK'
    BY <1>1, Inductive
  <2> QED BY <2>1 DEF TypeOK
<1>3. CASE UNCHANGED vars
  BY <1>1, <1>3 DEF FreshInv, Fresh, vars, shared, locals
<1>4. ASSUME NEW t \in Threads,
             \/ \E c \in Calls : Submit(t, c)
             \/ \E i \in Ids : Cancel(t, i)
             \/ Run(t) \/ ClientStep(t) \/ RunStep(t) \/ RuntimeError(t)
      PROVE  FreshInv'
  <2>1. \A u \in Threads \ {t} : SameThread(u) /\ choice'[u] = choice[u]
    BY <1>1, <1>4, ClientLeavesOthers, RunLeavesOthers, ChoiceKept
  <2>2. Len(pending) <= Len(pending') \/ t \in Cancellers \/ t \in Runners
    <3>1. CASE Withdraw(t)
      BY <1>1, <3>1 DEF Withdraw, Goto, LossInv, Owed
    <3>2. CASE Take(t)
      BY <1>1, <3>2 DEF Take, Goto, LossInv, Owed, RunPcs, PopPcs
    <3>3. CASE ~Withdraw(t) /\ ~Take(t)
      BY <1>1, <1>4, <3>3, QueueGrows DEF ClientStep, RunStep, Scoring
    <3> QED BY <3>1, <3>2, <3>3
  <2>3. \A u \in Threads \ {t} : Fresh(u)'
    BY <1>1, <1>2, <2>1, <2>2, OthersFresh DEF FreshInv
  <2>4. Fresh(t)'
    <3>1. CASE Admit(t) \/ Scoring(t) \/ Take(t)
      BY <1>1, <3>1, OwnFresh DEF FreshInv
    <3>2. CASE ~(Admit(t) \/ Scoring(t) \/ Take(t))
      <4>1. pc'[t] \notin PassPcs /\ pc[t] \notin PopPcs
        BY <1>1, <1>4, <3>2, NotInPass DEF RunStep, Scoring
      <4>2. choice'[t].scores = <<>>
        <5>1. choice[t].scores = <<>>
          BY <1>1, <4>1 DEF FreshInv, Fresh, PopPcs
        <5>2. Raise(t) => choice'[t].scores = <<>>
          BY <1>1 DEF Raise, NoChoice, TypeOK
        <5> QED BY <1>1, <1>4, <3>2, <5>1, <5>2, ChoiceKept
      <4> QED BY <4>1, <4>2 DEF Fresh, PassPcs, PopPcs
    <3> QED BY <3>1, <3>2
  <2> QED BY <2>3, <2>4 DEF FreshInv
<1> QED BY <1>1, <1>3, <1>4 DEF Next

\* The admission pass pops as many requests as it counted, and the one it
\* selected: none of its pops raises.  Nobody else takes requests out of the
\* queue meanwhile, neither another loop nor a cancellation.
THEOREM AdmissionNeverStaleHolds ==
    ASSUME SoleConsumer
    PROVE  Spec => []AdmissionNeverStale
<1>1. Init => TypeOK /\ SlotsInv /\ LossInv /\ FreshInv
  <2>1. Init => FreshInv
    BY DEF Init, FreshInv, Fresh, NoChoice, PassPcs, PopPcs
  <2> QED BY <2>1, InitTypeOK, InitSlots, InitLoss
<1>2. TypeOK /\ SlotsInv /\ LossInv /\ FreshInv /\ [Next]_vars => TypeOK' /\ SlotsInv' /\ LossInv' /\ FreshInv'
  BY Inductive, LossInductive, FreshInductive DEF SoleConsumer
<1>3. TypeOK /\ SlotsInv /\ FreshInv => AdmissionNeverStale
  <2>1. SUFFICES ASSUME TypeOK, SlotsInv, FreshInv PROVE AdmissionNeverStale
    OBVIOUS
  <2>2. \A t \in Threads : pc[t] \notin PassPcs => quota[t] = 0
    BY <2>1 DEF SlotsInv, Slots
  <2>3. Len(pending) \in Nat
    BY <2>1 DEF TypeOK
  <2> QED BY <2>1, <2>2, <2>3 DEF FreshInv, Fresh, AdmissionNeverStale
<1> QED BY <1>1, <1>2, <1>3, PTL DEF Spec

------------------------------------------------------------------------------
(* The slots of a scheduler used by one thread *)

OneThread == \A t, u \in Threads : t = u

\* What each point of a round knows of the free slots: one that resuming leaves
\* is the last use of the paused list, one that admission leaves the last use of
\* the queue, and the slot a preemption frees is taken from the queue next.
Filled(t) ==
    /\ pc[t] = "unpause" /\ Len(paused) > pick[t] => Len(active[t]) = MaxBatch
    /\ pc[t] = "admit" /\ paused # <<>> => Len(active[t]) + Len(pending) >= MaxBatch
    /\ pc[t] \in PassPcs /\ (paused # <<>> \/ quota[t] # Len(pending)) =>
         Len(active[t]) + Len(batch[t]) + quota[t] = MaxBatch
    /\ pc[t] = "prefill" /\ (paused # <<>> \/ pending # <<>>) => Len(active[t]) + Len(batch[t]) = MaxBatch
    /\ pc[t] \in {"preempt", "displace", "round"} /\ (paused # <<>> \/ pending # <<>>) => Len(active[t]) = MaxBatch

FilledInv == \A t \in Threads : Filled(t)

LEMMA ResumeFilled ==
    ASSUME TypeOK, SlotsInv, NEW t \in Threads, Resume(t)
    PROVE  Filled(t)'
<1>1. /\ pc[t] = "resume" /\ pc \in [Threads -> Pcs] /\ active[t] \in Seq(Requests) /\ paused \in Seq(Requests)
      /\ active \in [Threads -> Seq(Requests)] /\ pick \in [Threads -> Nat]
      /\ pending' = pending /\ pending \in Seq(Requests) /\ MaxBatch \in Nat
  BY SchedulerAssumption DEF Resume, Goto, TypeOK
<1>2. Len(active[t]) \in Nat /\ Len(active[t]) <= MaxBatch /\ Len(pending) \in Nat
  <2>1. Len(active[t]) + Len(batch[t]) + quota[t] <= MaxBatch
    BY DEF SlotsInv, Slots
  <2>2. Len(batch[t]) \in Nat /\ quota[t] \in Nat
    BY DEF TypeOK
  <2> QED BY <1>1, <2>1, <2>2
<1>3. CASE pc'[t] = "admit" /\ (paused = <<>> \/ Capacity(t) <= 0) /\ UNCHANGED <<paused, active>>
  BY <1>1, <1>2, <1>3 DEF Filled, PassPcs, PopPcs, Capacity
<1>4. ASSUME NEW s \in Sorted(paused, Ahead), paused' = s, Capacity(t) > 0, pc'[t] = "unpause",
             active'[t] = active[t] \o SubSeq(s, 1, Least(Capacity(t), Len(s))), pick'[t] = Capacity(t)
      PROVE  Filled(t)'
  <2>1. s \in Seq(Requests) /\ Len(s) \in Nat
    BY <1>1, SortedType
  <2>2. SUFFICES ASSUME Len(s) > Capacity(t) PROVE Len(active'[t]) = MaxBatch
    BY <1>4 DEF Filled, PassPcs, PopPcs
  <2>3. PICK n \in Nat : n = Capacity(t)
    <3>1. Capacity(t) \in Nat
      BY <1>1, <1>2, <1>4 DEF Capacity
    <3> QED BY <3>1
  <2>4. Least(Capacity(t), Len(s)) = n /\ n <= Len(s) /\ n = MaxBatch - Len(active[t])
    BY <2>1, <2>2, <2>3 DEF Least, Capacity
  <2>5. SubSeq(s, 1, n) \in Seq(Requests) /\ Len(SubSeq(s, 1, n)) = n
    BY <2>1, <2>3, <2>4
  <2>6. active'[t] = active[t] \o SubSeq(s, 1, n)
    BY <1>4, <2>4
  <2> QED BY <1>1, <1>2, <2>3, <2>4, <2>5, <2>6
<1> QED BY <1>1, <1>3, <1>4 DEF Resume, Goto

LEMMA AdmissionFilled ==
    ASSUME TypeOK, SlotsInv, NEW t \in Threads, Filled(t), Unpause(t) \/ Admit(t) \/ Scoring(t)
    PROVE  Filled(t)'
<1>1. /\ pc \in [Threads -> Pcs] /\ active[t] \in Seq(Requests) /\ batch[t] \in Seq(Requests)
      /\ paused \in Seq(Requests) /\ pending \in Seq(Requests) /\ MaxBatch \in Nat
      /\ pick \in [Threads -> Nat] /\ pick[t] \in Nat /\ quota \in [Threads -> Nat] /\ quota[t] \in Nat
  BY SchedulerAssumption DEF TypeOK
<1>2. Len(active[t]) \in Nat /\ Len(batch[t]) \in Nat /\ Len(pending) \in Nat /\ Len(paused) \in Nat
      /\ Len(active[t]) + Len(batch[t]) + quota[t] <= MaxBatch
  <2>1. Len(active[t]) + Len(batch[t]) + quota[t] <= MaxBatch
    BY DEF SlotsInv, Slots
  <2>2. Len(active[t]) \in Nat /\ Len(batch[t]) \in Nat
    BY <1>1
  <2>3. Len(pending) \in Nat /\ Len(paused) \in Nat
    BY <1>1
  <2> QED BY <2>1, <2>2, <2>3
<1>3. pending # <<>> <=> Len(pending) # 0
  BY <1>1
<1>4. CASE Unpause(t)
  <2>1. /\ pc[t] = "unpause" /\ pc'[t] = "admit" /\ UNCHANGED <<pending, active>>
        /\ paused' = SubSeq(paused, pick[t] + 1, Len(paused))
    BY <1>1, <1>4 DEF Unpause, Goto
  <2>2. paused' # <<>> => Len(paused) > pick[t]
    BY <1>1, <1>2, <2>1
  <2> QED BY <1>2, <2>1, <2>2 DEF Filled, PassPcs, PopPcs
<1>5. CASE Admit(t)
  <2>1. /\ pc[t] = "admit" /\ pc'[t] = "select" /\ UNCHANGED <<pending, paused, active, batch>>
        /\ quota'[t] = AdmitQuota(t) /\ batch[t] = <<>>
    BY <1>1, <1>5 DEF Admit, Goto, shared, SlotsInv, Slots, PassPcs, PopPcs
  <2>2. AdmitQuota(t) = IF Len(pending) < MaxBatch - Len(active[t]) THEN Len(pending) ELSE MaxBatch - Len(active[t])
    BY DEF AdmitQuota, Least, Capacity
  <2>3. Len(batch[t]) = 0
    BY <2>1
  <2>4. quota'[t] # Len(pending') => Len(active'[t]) + Len(batch'[t]) + quota'[t] = MaxBatch
    BY <1>1, <1>2, <2>1, <2>2, <2>3
  <2>5. paused' # <<>> => Len(active'[t]) + Len(batch'[t]) + quota'[t] = MaxBatch
    BY <1>1, <1>2, <2>1, <2>2, <2>3 DEF Filled
  <2> QED BY <2>1, <2>4, <2>5 DEF Filled
<1>6. CASE Scoring(t)
  <2>1. CASE Raise(t)
    <3>1. pc'[t] = "idle"
      BY <1>1, <2>1 DEF Raise
    <3> QED BY <3>1 DEF Filled, PassPcs, PopPcs
  <2>2. CASE ~Raise(t)
    <3>1. /\ pc[t] \in PassPcs /\ UNCHANGED <<pending, paused, active, batch, quota>>
          /\ pc'[t] \in PopPcs \/ (pc'[t] = "prefill" /\ quota[t] = 0)
      BY <1>1, <1>6, <2>2, ScoringStep DEF shared, PassPcs
    <3>2. paused # <<>> \/ quota[t] # Len(pending) => Len(active[t]) + Len(batch[t]) + quota[t] = MaxBatch
      BY <3>1 DEF Filled
    <3>3. CASE pc'[t] \in PopPcs
      BY <3>1, <3>2, <3>3 DEF Filled, PassPcs, PopPcs
    <3>4. CASE pc'[t] = "prefill" /\ quota[t] = 0
      <4>1. paused # <<>> \/ pending # <<>> => Len(active[t]) + Len(batch[t]) + quota[t] = MaxBatch
        BY <1>3, <3>2, <3>4
      <4>2. Len(active[t]) + Len(batch[t]) + quota[t] = Len(active[t]) + Len(batch[t])
        BY <1>2, <3>4
      <4> QED BY <3>1, <3>4, <4>1, <4>2 DEF Filled, PassPcs, PopPcs
    <3> QED BY <3>1, <3>3, <3>4
  <2> QED BY <2>1, <2>2
<1> QED BY <1>4, <1>5, <1>6

LEMMA TakeFilled ==
    ASSUME TypeOK, SlotsInv, NEW t \in Threads, Filled(t), Take(t)
    PROVE  Filled(t)'
<1>1. /\ pc \in [Threads -> Pcs] /\ active[t] \in Seq(Requests) /\ batch[t] \in Seq(Requests)
      /\ batch \in [Threads -> Seq(Requests)] /\ pending \in Seq(Requests) /\ pick[t] \in Nat /\ MaxBatch \in Nat
      /\ quota \in [Threads -> Nat] /\ quota[t] \in Nat
  BY SchedulerAssumption DEF TypeOK
<1>2. CASE Raise(t)
  BY <1>1, <1>2 DEF Raise, Filled, PassPcs, PopPcs
<1>3. CASE ~Raise(t)
  <2>1. /\ pick[t] <= Len(pending) /\ pc[t] = "take" /\ pc'[t] = "select"
        /\ UNCHANGED <<paused, active>>
        /\ batch'[t] = Append(batch[t], pending[pick[t]]) /\ pending' = RemoveAt(pending, pick[t])
        /\ quota'[t] = quota[t] - 1
    BY <1>1, <1>3 DEF Take, Goto
  <2>2. pick[t] \in DOMAIN pending
    <3>1. pick[t] > 0
      BY <2>1 DEF SlotsInv, Slots
    <3> QED BY <1>1, <2>1, <3>1
  <2>3. Len(pending') = Len(pending) - 1 /\ Len(batch'[t]) = Len(batch[t]) + 1
    BY <1>1, <2>1, <2>2, RemoveAtType
  <2>4. Len(active[t]) \in Nat /\ Len(batch[t]) \in Nat /\ Len(pending) \in Nat
    BY <1>1
  <2>5. paused # <<>> \/ quota[t] # Len(pending) => Len(active[t]) + Len(batch[t]) + quota[t] = MaxBatch
    BY <2>1 DEF Filled, PassPcs, PopPcs
  <2>6. paused' # <<>> \/ quota'[t] # Len(pending') => Len(active'[t]) + Len(batch'[t]) + quota'[t] = MaxBatch
    <3>1. quota'[t] # Len(pending') <=> quota[t] # Len(pending)
      BY <1>1, <2>1, <2>3, <2>4
    <3>2. Len(batch'[t]) + quota'[t] = Len(batch[t]) + quota[t]
      BY <1>1, <2>1, <2>3, <2>4
    <3>3. Len(active'[t]) + Len(batch'[t]) + quota'[t] = Len(active[t]) + Len(batch[t]) + quota[t]
      <4>1. Len(active'[t]) = Len(active[t]) /\ Len(batch'[t]) = Len(batch[t]) + 1 /\ quota'[t] = quota[t] - 1
        BY <2>1, <2>3
      <4>2. Len(active[t]) + (Len(batch[t]) + 1) + (quota[t] - 1) = Len(active[t]) + Len(batch[t]) + quota[t]
        <5>1. \A a, m, q \in Nat : a + (m + 1) + (q - 1) = a + m + q
          OBVIOUS
        <5>2. quota[t] \in Nat
          BY <1>1
        <5> QED BY <2>4, <5>1, <5>2, Zenon
      <4> QED BY <4>1, <4>2, Zenon
    <3> QED BY <2>1, <2>5, <3>1, <3>3
  <2> QED BY <2>1, <2>6 DEF Filled
<1> QED BY <1>2, <1>3

LEMMA PrefillFilled ==
    ASSUME TypeOK, SlotsInv, NEW t \in Threads, Filled(t), Prefill(t) \/ Preempt(t)
    PROVE  Filled(t)'
<1>1. /\ pc \in [Threads -> Pcs] /\ active[t] \in Seq(Requests) /\ batch[t] \in Seq(Requests)
      /\ active \in [Threads -> Seq(Requests)] /\ MaxBatch \in Nat
      /\ Len(active[t]) \in Nat /\ Len(batch[t]) \in Nat /\ Len(pending) \in Nat
  BY SchedulerAssumption DEF TypeOK
<1>2. CASE Prefill(t)
  <2>1. /\ pc[t] = "prefill" /\ pc'[t] \in {"round", "preempt"} /\ UNCHANGED <<paused, pending>>
        /\ active'[t] = active[t] \o batch[t]
    BY <1>1, <1>2 DEF Prefill, Goto, shared
  <2>2. Len(active'[t]) = Len(active[t]) + Len(batch[t])
    BY <1>1, <2>1
  <2> QED BY <1>1, <2>1, <2>2 DEF Filled, PassPcs, PopPcs
<1>3. CASE Preempt(t)
  <2>1. /\ pc[t] = "preempt" /\ pc'[t] \in {"displace", "admit"}
        /\ UNCHANGED <<paused, pending, active>>
    BY <1>1, <1>3 DEF Preempt, Goto, shared
  <2> QED BY <1>1, <2>1 DEF Filled, PassPcs, PopPcs
<1> QED BY <1>2, <1>3

\* The request that displaces one is still in the queue.
LEMMA DisplaceFilled ==
    ASSUME TypeOK, SlotsInv, NEW t \in Threads, Filled(t), Displace(t)
    PROVE  Filled(t)'
<1>1. /\ pc \in [Threads -> Pcs] /\ active[t] \in Seq(Requests) /\ pending \in Seq(Requests)
      /\ active \in [Threads -> Seq(Requests)] /\ MaxBatch \in Nat /\ Len(active[t]) \in Nat
  BY SchedulerAssumption DEF TypeOK
<1>2. CASE Raise(t)
  BY <1>1, <1>2 DEF Raise, Filled, PassPcs, PopPcs
<1>3. ASSUME NEW k \in FirstIn(active[t], Weaker), Goto(t, "displace", "admit"), pending # <<>>, pending' = pending,
             active' = [active EXCEPT ![t] = RemoveAt(@, k)] \/ active' = active
      PROVE  Filled(t)'
  <2>1. k \in DOMAIN active[t] /\ Len(active[t]) = MaxBatch /\ pc'[t] = "admit"
    BY <1>1, <1>3 DEF FirstIn, Goto, Filled
  <2>2. Len(active'[t]) = Len(active[t]) - 1 \/ Len(active'[t]) = Len(active[t])
    BY <1>1, <1>3, <2>1, RemoveAtType
  <2>3. Len(pending) \in Nat \ {0}
    BY <1>1, <1>3
  <2> QED BY <1>1, <1>3, <2>1, <2>2, <2>3 DEF Filled, PassPcs, PopPcs
<1> QED BY <1>2, <1>3 DEF Displace

LEMMA FilledInductive ==
    ASSUME OneThread
    PROVE  TypeOK /\ SlotsInv /\ FilledInv /\ [Next]_vars => FilledInv'
<1>1. SUFFICES ASSUME TypeOK, SlotsInv, \A t \in Threads : Filled(t), [Next]_vars, NEW t \in Threads PROVE Filled(t)'
  BY DEF FilledInv
<1>2. CASE UNCHANGED vars
  BY <1>1, <1>2 DEF Filled, vars, shared, locals
<1>3. CASE pc'[t] \notin PassPcs \cup {"unpause", "admit", "prefill", "preempt", "displace", "round"}
  BY <1>3 DEF Filled
<1>4. pc \in [Threads -> Pcs]
  BY <1>1 DEF TypeOK
<1>5. CASE \/ \E c \in Calls : Submit(t, c)
           \/ \E i \in Ids : Cancel(t, i)
           \/ Run(t) \/ ClientStep(t) \/ RuntimeError(t)
  <2>1. CASE \/ \E c \in Calls : Submit(t, c)
             \/ \E i \in Ids : Cancel(t, i)
             \/ Run(t) \/ RuntimeError(t)
    BY <1>3, <1>4, <2>1 DEF Submit, Cancel, Run, RuntimeError, Raise, Goto, PassPcs,
       PopPcs
  <2>2. CASE ClientStep(t)
    BY <1>3, <1>4, <2>2 DEF ClientStep, CheckCapacity, StopWaiting, Recheck, Enqueue, Stamp, Number,
       CountSubmitted, Withdraw, Reject, Goto, PassPcs, PopPcs
  <2> QED BY <1>5, <2>1, <2>2
<1>6. CASE Loop(t) \/ Round(t) \/ Snapshot(t) \/ Retire(t) \/ Decode(t) \/ Collect(t)
  BY <1>3, <1>4, <1>6 DEF Loop, Round, Snapshot, Retire, Decode, Collect, Goto, PassPcs,
     PopPcs
<1>7. CASE \/ Resume(t) \/ Unpause(t) \/ Admit(t) \/ Scoring(t) \/ Take(t) \/ Prefill(t)
           \/ Preempt(t) \/ Displace(t)
  BY <1>1, <1>7, ResumeFilled, AdmissionFilled, TakeFilled, PrefillFilled, DisplaceFilled
<1>8. \A u \in Threads : u = t
  BY DEF OneThread
<1> QED BY <1>1, <1>2, <1>5, <1>6, <1>7, <1>8 DEF Next, RunStep, Scoring

\* Used by one thread, a scheduler never decodes a round with a free slot while
\* a preempted request waits.  A submitter of its own breaks this: a request it
\* adds between the first admission and the preemption takes the slot of an
\* active one although another was free.
THEOREM NoIdleSlotHolds ==
    ASSUME OneThread
    PROVE  Spec => []NoIdleSlotWhilePaused
<1>1. Init => TypeOK /\ SlotsInv /\ FilledInv
  <2>1. Init => FilledInv
    BY DEF Init, FilledInv, Filled, PassPcs, PopPcs
  <2> QED BY <2>1, InitTypeOK, InitSlots
<1>2. TypeOK /\ SlotsInv /\ FilledInv /\ [Next]_vars => TypeOK' /\ SlotsInv' /\ FilledInv'
  BY Inductive, FilledInductive
<1>3. FilledInv => NoIdleSlotWhilePaused
  BY DEF FilledInv, Filled, NoIdleSlotWhilePaused
<1> QED BY <1>1, <1>2, <1>3, PTL DEF Spec

------------------------------------------------------------------------------
(* The order of admission *)

\* The requests a submit still works on.
Claimed(t) == IF pc[t] \in SubmitPcs THEN ToSet(call[t].batch) ELSE {}

\* What has no stamps yet: a request nobody has submitted, and one a submit has
\* not come to.
StampInv ==
    /\ \A r \in Requests : fate[r] = "unsent" => submitted[Id[r]] = 0 /\ arrival[Id[r]] = 0
    /\ \A t, u \in Threads : t # u => Claimed(t) \cap Claimed(u) = {}
    /\ \A t \in Threads : \A r \in Claimed(t) :
         /\ fate[r] # "unsent"
         /\ submitted[Id[r]] = 0 \/ (pc[t] \in {"number", "count"} /\ r = Head(call[t].batch))
         /\ arrival[Id[r]] = 0 \/ (pc[t] = "count" /\ r = Head(call[t].batch))

\* No request is stamped twice.
StampsStay ==
    \A r \in Requests : /\ submitted[Id[r]] # 0 => submitted'[Id[r]] = submitted[Id[r]]
                        /\ arrival[Id[r]] # 0 => arrival'[Id[r]] = arrival[Id[r]]

\* The scores tell what the queue and the stamps say: a time from before the
\* selection is the submission time of the request, a number its arrival number.
TrueScore(x, now) ==
    /\ x.since < now => x.since = submitted[Id[x.req]] /\ x.since # 0
    /\ x.arrival # 0 => x.arrival = arrival[Id[x.req]]

ScoresTrue(t) ==
    /\ pc[t] \in {"weigh", "rank", "take"} => \A k \in DOMAIN choice[t].scores :
         /\ k \in DOMAIN pending /\ choice[t].scores[k].req = pending[k]
         /\ TrueScore(choice[t].scores[k], choice[t].now)
    /\ pc[t] = "take" => pick[t] \in FirstIn(choice[t].scores, Outscores)

OrderInv == StampInv /\ \A t \in Threads : ScoresTrue(t)

LEMMA ClaimedRequests == ASSUME TypeOK, NEW t \in Threads PROVE Claimed(t) \subseteq Requests
<1>1. call[t].batch \in Seq(Requests)
  BY DEF TypeOK
<1> QED BY <1>1, ToSetElement DEF Claimed

LEMMA SubmitStamps ==
    ASSUME TypeOK, StampInv, NEW t \in Threads, NEW c \in Calls, Submit(t, c)
    PROVE  StampInv' /\ StampsStay
<1>1. /\ pc \in [Threads -> Pcs] /\ fate \in [Requests -> Fates] /\ UNCHANGED <<submitted, arrival>>
      /\ call \in [Threads -> [batch : Seq(Requests), block : Blocking]]
      /\ c.batch \in Seq(Requests) /\ ToSet(c.batch) \subseteq Requests
  BY SchedulerAssumption, ToSetElement DEF TypeOK, Submit, stamps
<1>2. pc[t] = "idle" /\ \A r \in ToSet(c.batch) : fate[r] = "unsent"
  BY DEF Submit, Goto
<1>3. \A u \in Threads \ {t} : Claimed(u)' = Claimed(u) /\ pc'[u] = pc[u] /\ call'[u] = call[u]
  BY ClientLeavesOthers DEF SameThread, SameCall, SameLocals, Claimed
<1>4. Claimed(t)' \subseteq ToSet(c.batch)
  BY <1>1 DEF Submit, Goto, Claimed, SubmitPcs, StampPcs
<1>5. \A r \in Requests : fate'[r] = fate[r] \/ (r \in ToSet(c.batch) /\ fate'[r] # "unsent")
  BY <1>1 DEF Submit
<1>6. \A r \in ToSet(c.batch) : fate'[r] # "unsent"
  BY <1>1 DEF Submit
<1>7. \A u, v \in Threads : u # v => Claimed(u)' \cap Claimed(v)' = {}
  BY <1>2, <1>3, <1>4 DEF StampInv
<1>8. ASSUME NEW u \in Threads, NEW r \in Claimed(u)'
      PROVE  /\ fate'[r] # "unsent"
             /\ submitted[Id[r]] = 0 \/ (pc'[u] \in {"number", "count"} /\ r = Head(call'[u].batch))
             /\ arrival[Id[r]] = 0 \/ (pc'[u] = "count" /\ r = Head(call'[u].batch))
  <2>1. CASE u = t
    BY <1>1, <1>2, <1>4, <1>6, <1>8, <2>1 DEF StampInv
  <2>2. CASE u # t
    <3>1. r \in Claimed(u) /\ r \in Requests
      BY <1>3, <1>8, <2>2, ClaimedRequests
    <3> QED BY <1>3, <1>5, <2>2, <3>1 DEF StampInv
  <2> QED BY <2>1, <2>2
<1>9. \A r \in Requests : fate'[r] = "unsent" => submitted[Id[r]] = 0 /\ arrival[Id[r]] = 0
  BY <1>5 DEF StampInv
<1> QED BY <1>1, <1>7, <1>8, <1>9 DEF StampInv, StampsStay

\* The stamps, the steps that set one for the request at the head of a call.
LEMMA StampNumberStamps ==
    ASSUME TypeOK, LossInv, DistinctIds, StampInv, NEW t \in Threads, Stamp(t) \/ Number(t)
    PROVE  StampInv' /\ StampsStay
<1>1. /\ pc \in [Threads -> Pcs] /\ UNCHANGED <<call, fate>>
      /\ submitted \in [Ids -> Nat] /\ arrival \in [Ids -> Nat] /\ Id \in [Requests -> Ids]
      /\ call[t].batch \in Seq(Requests) /\ pc[t] \in {"stamp", "number"}
  BY SchedulerAssumption DEF TypeOK, Stamp, Number, Goto, locals, history
<1>2. PICK x \in Requests : x = Head(call[t].batch) /\ x \in Claimed(t)
  <2>1. call[t].batch # <<>>
    BY <1>1 DEF LossInv, Owed, StampPcs
  <2> QED BY <1>1, <2>1, ToSetTail DEF Claimed, SubmitPcs, StampPcs
<1>3. \A u \in Threads : Claimed(u)' = Claimed(u) /\ (u # t => pc'[u] = pc[u])
  BY <1>1 DEF Stamp, Number, Goto, Claimed, SubmitPcs, StampPcs
<1>4. fate[x] # "unsent" /\ \A u \in Threads \ {t} : x \notin Claimed(u)
  BY <1>2 DEF StampInv
<1>5. \A u \in Threads : Claimed(u) \subseteq Requests
  BY ClaimedRequests
<1>6. CASE Stamp(t)
  <2>1. pc[t] = "stamp" /\ pc'[t] = "number" /\ arrival' = arrival /\ submitted[Id[x]] = 0
    BY <1>1, <1>2, <1>6 DEF Stamp, Goto, StampInv
  <2>2. \A r \in Requests \ {x} : submitted'[Id[r]] = submitted[Id[r]]
    BY <1>1, <1>2, <1>6 DEF Stamp, DistinctIds
  <2>3. \A r \in Requests : fate[r] = "unsent" => submitted'[Id[r]] = 0 /\ arrival[Id[r]] = 0
    BY <1>4, <2>2 DEF StampInv
  <2>4. \A u \in Threads \ {t} : \A r \in Claimed(u) :
          submitted'[Id[r]] = 0 \/ (pc[u] \in {"number", "count"} /\ r = Head(call[u].batch))
    BY <1>4, <1>5, <2>2 DEF StampInv
  <2>5. \A r \in Claimed(t) : submitted'[Id[r]] = 0 \/ r = x
    BY <1>2, <1>5, <2>1, <2>2 DEF StampInv
  <2>6. StampInv'
    BY <1>1, <1>2, <1>3, <2>1, <2>3, <2>4, <2>5 DEF StampInv
  <2> QED BY <2>1, <2>2, <2>6 DEF StampsStay
<1>7. CASE Number(t)
  <2>1. pc[t] = "number" /\ pc'[t] = "count" /\ submitted' = submitted /\ arrival[Id[x]] = 0
    BY <1>1, <1>2, <1>7 DEF Number, Goto, StampInv
  <2>2. \A r \in Requests \ {x} : arrival'[Id[r]] = arrival[Id[r]]
    BY <1>1, <1>2, <1>7 DEF Number, DistinctIds
  <2>3. \A r \in Requests : fate[r] = "unsent" => submitted[Id[r]] = 0 /\ arrival'[Id[r]] = 0
    BY <1>4, <2>2 DEF StampInv
  <2>4. \A u \in Threads \ {t} : \A r \in Claimed(u) :
          arrival'[Id[r]] = 0 \/ (pc[u] = "count" /\ r = Head(call[u].batch))
    BY <1>4, <1>5, <2>2 DEF StampInv
  <2>5. \A r \in Claimed(t) : arrival'[Id[r]] = 0 \/ r = x
    BY <1>2, <1>5, <2>1, <2>2 DEF StampInv
  <2>6. StampInv'
    BY <1>1, <1>2, <1>3, <2>1, <2>3, <2>4, <2>5 DEF StampInv
  <2> QED BY <2>1, <2>2, <2>6 DEF StampsStay
<1> QED BY <1>6, <1>7

\* The call is done with a stamped request, which it has once.
LEMMA CountSubmittedStamps ==
    ASSUME TypeOK, LossInv, OnceInv, StampInv, NEW t \in Threads, CountSubmitted(t)
    PROVE  StampInv' /\ StampsStay
<1>1. /\ pc \in [Threads -> Pcs] /\ UNCHANGED <<submitted, arrival, fate>>
      /\ call \in [Threads -> [batch : Seq(Requests), block : Blocking]]
      /\ pc[t] = "count" /\ pc'[t] = "enqueue" /\ call[t].batch \in Seq(Requests)
      /\ call'[t].batch = RemoveAt(call[t].batch, 1)
  BY DEF TypeOK, CountSubmitted, Goto, stamps, history
<1>2. call[t].batch # <<>> /\ IsInjective(call[t].batch)
  BY <1>1 DEF LossInv, Owed, OnceInv, Tidy, SubmitPcs, StampPcs
<1>3. Claimed(t)' = Claimed(t) \ {Head(call[t].batch)}
  BY <1>1, <1>2, RemoveAtHead, InjectiveTail DEF Claimed, SubmitPcs, StampPcs
<1>4. \A u \in Threads \ {t} : Claimed(u)' = Claimed(u) /\ pc'[u] = pc[u] /\ call'[u] = call[u]
  BY ClientLeavesOthers DEF ClientStep, SameThread, SameCall, SameLocals, Claimed
<1>5. \A u, v \in Threads : u # v => Claimed(u)' \cap Claimed(v)' = {}
  BY <1>3, <1>4 DEF StampInv
<1>6. \A r \in Claimed(t)' : fate[r] # "unsent" /\ submitted[Id[r]] = 0 /\ arrival[Id[r]] = 0
  BY <1>3 DEF StampInv
<1>7. \A u \in Threads \ {t} : \A r \in Claimed(u)' :
         /\ fate'[r] # "unsent"
         /\ submitted[Id[r]] = 0 \/ (pc'[u] \in {"number", "count"} /\ r = Head(call'[u].batch))
         /\ arrival[Id[r]] = 0 \/ (pc'[u] = "count" /\ r = Head(call'[u].batch))
  BY <1>1, <1>4 DEF StampInv
<1> QED BY <1>1, <1>5, <1>6, <1>7 DEF StampInv, StampsStay

\* Every other step leaves the stamps alone.
LEMMA OtherStamps ==
    ASSUME TypeOK, SlotsInv, StampInv, NEW t \in Threads,
           \/ \E i \in Ids : Cancel(t, i)
           \/ Run(t) \/ RuntimeError(t) \/ RunStep(t)
           \/ CheckCapacity(t) \/ StopWaiting(t) \/ Recheck(t) \/ Enqueue(t) \/ Withdraw(t)
    PROVE  StampInv' /\ StampsStay
<1>1. /\ pc \in [Threads -> Pcs] /\ fate \in [Requests -> Fates]
      /\ call \in [Threads -> [batch : Seq(Requests), block : Blocking]]
  BY DEF TypeOK
<1>2. /\ UNCHANGED <<submitted, arrival>>
      /\ \A r \in Requests : fate[r] # "unsent" => fate'[r] # "unsent"
      /\ Claimed(t)' \subseteq Claimed(t) /\ pc[t] \notin {"number", "count"}
  <2>1. CASE Raise(t) /\ (RuntimeError(t) \/ RunStep(t))
    <3>1. pc[t] \in RunPcs
      BY <2>1 DEF RuntimeError, RunStep, RunPcs, PopPcs, Loop, Resume, Unpause, Admit, Select, OpenRange, Weigh,
         Rank, Take, Prefill, Preempt, Displace, Round, Snapshot, Retire, Decode, Collect, Goto
    <3> QED BY <1>1, <2>1, <3>1 DEF Raise, shared, stamps, Claimed, SubmitPcs, StampPcs, RunPcs, PopPcs
  <2>2. CASE Withdraw(t) \/ \E i \in Ids : Cancel(t, i)
    BY <1>1, <2>2 DEF Withdraw, Cancel, Goto, stamps, history, Claimed, SubmitPcs, StampPcs
  <2>3. CASE CheckCapacity(t) \/ StopWaiting(t) \/ Recheck(t) \/ Enqueue(t)
    BY <1>1, <2>3, ToSetEmpty DEF CheckCapacity, StopWaiting, Recheck, Enqueue, Reject, Goto, shared, stamps, history,
       locals, Claimed, SubmitPcs, StampPcs
  <2>4. CASE Scoring(t) /\ ~Raise(t)
    BY <1>1, <2>4, ScoringStep DEF shared, stamps, history, Claimed, SubmitPcs, StampPcs, PassPcs, PopPcs
  <2>5. CASE (Take(t) \/ Displace(t)) /\ ~Raise(t)
    BY <1>1, <2>5 DEF Take, Displace, Goto, stamps, history, Claimed, SubmitPcs, StampPcs
  <2>6. CASE Run(t) \/ Loop(t) \/ Resume(t) \/ Unpause(t) \/ Admit(t) \/ Prefill(t)
    BY <1>1, <2>6 DEF Run, Loop, Resume, Unpause, Admit, Prefill, Goto, shared, stamps, history, Claimed,
       SubmitPcs, StampPcs
  <2>7. CASE Preempt(t) \/ Round(t) \/ Snapshot(t) \/ Retire(t) \/ Decode(t) \/ Collect(t)
    BY <1>1, <2>7 DEF Preempt, Round, Snapshot, Retire, Decode, Collect, Goto, shared, stamps, history, Claimed,
       SubmitPcs, StampPcs
  <2> QED BY <2>1, <2>2, <2>3, <2>4, <2>5, <2>6, <2>7 DEF RunStep, RuntimeError, Scoring
<1>3. \A u \in Threads \ {t} : Claimed(u)' = Claimed(u) /\ pc'[u] = pc[u] /\ call'[u] = call[u]
  BY ClientLeavesOthers, RunLeavesOthers DEF ClientStep, SameThread, SameCall, SameLocals, Claimed
<1>4. \A u \in Threads : Claimed(u) \subseteq Requests
  BY ClaimedRequests
<1>5. \A r \in Claimed(t)' : fate'[r] # "unsent" /\ submitted[Id[r]] = 0 /\ arrival[Id[r]] = 0
  BY <1>2, <1>4 DEF StampInv
<1>6. \A u \in Threads \ {t} : \A r \in Claimed(u)' :
         /\ fate'[r] # "unsent"
         /\ submitted[Id[r]] = 0 \/ (pc'[u] \in {"number", "count"} /\ r = Head(call'[u].batch))
         /\ arrival[Id[r]] = 0 \/ (pc'[u] = "count" /\ r = Head(call'[u].batch))
  BY <1>2, <1>3, <1>4 DEF StampInv
<1>7. \A u, v \in Threads : u # v => Claimed(u)' \cap Claimed(v)' = {}
  BY <1>2, <1>3 DEF StampInv
<1>8. \A r \in Requests : fate'[r] = "unsent" => submitted[Id[r]] = 0 /\ arrival[Id[r]] = 0
  BY <1>2 DEF StampInv
<1> QED BY <1>2, <1>5, <1>6, <1>7, <1>8 DEF StampInv, StampsStay

\* What another thread has scored stays in the queue where it was.
LEMMA OthersScores ==
    ASSUME TypeOK, StampsStay, NEW u \in Threads, SameThread(u), choice'[u] = choice[u], ScoresTrue(u),
           pc[u] \in PassPcs => \A k \in DOMAIN pending : k \in DOMAIN pending' /\ pending'[k] = pending[k]
    PROVE  ScoresTrue(u)'
<1>1. /\ pc'[u] = pc[u] /\ pick'[u] = pick[u] /\ choice'[u] = choice[u]
      /\ pending \in Seq(Requests) /\ choice[u].scores \in Seq(Score)
  BY DEF SameThread, SameCall, SameLocals, TypeOK
<1>2. ASSUME pc[u] \in {"weigh", "rank", "take"}, NEW k \in DOMAIN choice[u].scores
      PROVE  /\ k \in DOMAIN pending' /\ choice[u].scores[k].req = pending'[k]
             /\ TrueScore(choice[u].scores[k], choice[u].now)'
  <2>1. /\ k \in DOMAIN pending /\ choice[u].scores[k].req = pending[k]
        /\ TrueScore(choice[u].scores[k], choice[u].now)
    BY <1>2 DEF ScoresTrue
  <2>2. pending[k] \in Requests /\ k \in DOMAIN pending' /\ pending'[k] = pending[k]
    BY <1>1, <1>2, <2>1 DEF PassPcs, PopPcs
  <2> QED BY <1>1, <2>1, <2>2 DEF StampsStay, TrueScore
<1> QED BY <1>1, <1>2 DEF ScoresTrue, FirstIn, Outscores

\* The selection of t: the score of one more request, with its submission time
\* and then with its number, and the first of all scores.
LEMMA OwnScores ==
    ASSUME TypeOK, SlotsInv, NEW t \in Threads, Fresh(t), ScoresTrue(t), Scoring(t), ~Raise(t)
    PROVE  ScoresTrue(t)'
<1>1. /\ pc \in [Threads -> Pcs] /\ pick \in [Threads -> Nat] /\ pending \in Seq(Requests)
      /\ choice \in [Threads -> [now : Nat, scores : Seq(Score)]]
      /\ choice[t].scores \in Seq(Score) /\ Len(choice[t].scores) \in Nat /\ choice[t].now \in Nat
  <2>1. choice[t].scores \in Seq(Score) /\ choice[t].now \in Nat
    BY ScoresType
  <2>2. /\ pc \in [Threads -> Pcs] /\ pick \in [Threads -> Nat] /\ pending \in Seq(Requests)
        /\ choice \in [Threads -> [now : Nat, scores : Seq(Score)]]
    BY DEF TypeOK
  <2> QED BY <2>1, <2>2
<1>2. UNCHANGED <<pending, submitted, arrival>>
  BY ScoringStep DEF shared, stamps
<1>3. CASE pc'[t] \notin {"weigh", "rank", "take"}
  BY <1>3 DEF ScoresTrue
<1>4. CASE Select(t)
  BY <1>1, <1>3, <1>4 DEF Select, Goto
<1>5. CASE OpenRange(t)
  <2>1. pc[t] = "range" /\ pc'[t] = "weigh" /\ choice' = choice
    BY <1>1, <1>5 DEF OpenRange, Goto
  <2>2. choice'[t].scores = <<>>
    BY <2>1 DEF Fresh
  <2> QED BY <2>1, <2>2 DEF ScoresTrue
<1>6. ASSUME pc[t] = "weigh", pc'[t] = "rank", Len(choice[t].scores) + 1 <= Len(pending),
             NEW x, x = [req |-> pending[Len(choice[t].scores) + 1],
                         since |-> IF submitted[Id[pending[Len(choice[t].scores) + 1]]] = 0 THEN choice[t].now
                                   ELSE submitted[Id[pending[Len(choice[t].scores) + 1]]],
                         arrival |-> 0],
             choice'[t].scores = Append(choice[t].scores, x), choice'[t].now = choice[t].now
      PROVE  ScoresTrue(t)'
  <2>1. ASSUME NEW k \in DOMAIN choice'[t].scores
        PROVE  /\ k \in DOMAIN pending /\ choice'[t].scores[k].req = pending[k]
               /\ TrueScore(choice'[t].scores[k], choice[t].now)
    <3>1. \/ k \in DOMAIN choice[t].scores /\ choice'[t].scores[k] = choice[t].scores[k]
          \/ k = Len(choice[t].scores) + 1 /\ choice'[t].scores[k] = x
      BY <1>1, <1>6, <2>1
    <3>2. CASE k \in DOMAIN choice[t].scores /\ choice'[t].scores[k] = choice[t].scores[k]
      BY <1>6, <3>2 DEF ScoresTrue
    <3>3. CASE k = Len(choice[t].scores) + 1 /\ choice'[t].scores[k] = x
      <4>1. x.req = pending[k] /\ x.arrival = 0 /\ k \in DOMAIN pending
        BY <1>1, <1>6, <3>3
      <4>2. x.since = IF submitted[Id[x.req]] = 0 THEN choice[t].now ELSE submitted[Id[x.req]]
        BY <1>6, <3>3, <4>1
      <4>3. x.since < choice[t].now => x.since = submitted[Id[x.req]] /\ x.since # 0
        BY <1>1, <4>2
      <4> QED BY <3>3, <4>1, <4>3 DEF TrueScore
    <3> QED BY <3>1, <3>2, <3>3
  <2>2. pc'[t] # "take"
    BY <1>6
  <2> QED BY <1>2, <1>6, <2>1, <2>2 DEF ScoresTrue, TrueScore
<1>7. ASSUME pc[t] = "weigh", pc'[t] = "take", choice' = choice,
             pick'[t] \in FirstIn(choice[t].scores, Outscores)
      PROVE  ScoresTrue(t)'
  BY <1>2, <1>7 DEF ScoresTrue, TrueScore, FirstIn, Outscores
<1>8. CASE Weigh(t)
  <2> DEFINE next == Len(choice[t].scores) + 1
             x == [req |-> pending[next],
                   since |-> IF submitted[Id[pending[next]]] = 0 THEN choice[t].now ELSE submitted[Id[pending[next]]],
                   arrival |-> 0]
  <2>1. \/ /\ pc[t] = "weigh" /\ pc'[t] = "rank" /\ next <= Len(pending)
           /\ choice' = [choice EXCEPT ![t].scores = Append(@, x)]
        \/ /\ pc[t] = "weigh" /\ pc'[t] = "take" /\ choice' = choice
           /\ \E k \in FirstIn(choice[t].scores, Outscores) : pick' = [pick EXCEPT ![t] = k]
    BY <1>1, <1>8 DEF Weigh, Goto
  <2>2. CASE /\ pc[t] = "weigh" /\ pc'[t] = "rank" /\ next <= Len(pending)
             /\ choice' = [choice EXCEPT ![t].scores = Append(@, x)]
    <3>1. choice'[t].scores = Append(choice[t].scores, x) /\ choice'[t].now = choice[t].now
      BY <1>1, <2>2
    <3> QED BY <1>6, <2>2, <3>1
  <2> QED BY <1>1, <1>7, <2>1, <2>2
<1>9. CASE Rank(t)
  <2> DEFINE last == Len(choice[t].scores)
             n == arrival[Id[choice[t].scores[last].req]]
  <2>1. /\ pc[t] = "rank" /\ pc'[t] = "weigh" /\ choice'[t].now = choice[t].now
        /\ choice'[t].scores = [choice[t].scores EXCEPT ![last].arrival = n]
    BY <1>1, <1>9 DEF Rank, Goto
  <2>2. ASSUME NEW k \in DOMAIN choice'[t].scores
        PROVE  /\ k \in DOMAIN pending /\ choice'[t].scores[k].req = pending[k]
               /\ TrueScore(choice'[t].scores[k], choice[t].now)
    <3>1. k \in DOMAIN choice[t].scores /\ choice[t].scores[k] \in Score
      BY <1>1, <2>1, <2>2
    <3>2. /\ k \in DOMAIN pending /\ choice[t].scores[k].req = pending[k]
          /\ TrueScore(choice[t].scores[k], choice[t].now)
      BY <2>1, <3>1 DEF ScoresTrue
    <3>3. choice'[t].scores[k] = IF k = last THEN [choice[t].scores[k] EXCEPT !.arrival = n] ELSE choice[t].scores[k]
      BY <1>1, <2>1, <3>1
    <3>4. CASE k = last
      <4>1. choice'[t].scores[k] = [choice[t].scores[k] EXCEPT !.arrival = n]
        BY <3>3, <3>4
      <4>2. /\ choice'[t].scores[k].req = choice[t].scores[k].req
            /\ choice'[t].scores[k].since = choice[t].scores[k].since
            /\ choice'[t].scores[k].arrival = n
        BY <3>1, <4>1 DEF Score
      <4> HIDE DEF n
      <4>3. n = arrival[Id[choice[t].scores[k].req]]
        BY <3>4 DEF n
      <4> QED BY <3>2, <4>2, <4>3 DEF TrueScore
    <3> QED BY <3>2, <3>3, <3>4
  <2> QED BY <1>2, <2>1, <2>2 DEF ScoresTrue, TrueScore
<1> QED BY <1>4, <1>5, <1>8, <1>9 DEF Scoring

LEMMA OrderInductive ==
    ASSUME SoleConsumer, DistinctIds
    PROVE  TypeOK /\ SlotsInv /\ LossInv /\ OnceInv /\ FreshInv /\ OrderInv /\ [Next]_vars => OrderInv'
<1>1. SUFFICES ASSUME TypeOK, SlotsInv, LossInv, OnceInv, FreshInv, OrderInv, [Next]_vars PROVE OrderInv'
  OBVIOUS
<1>2. CASE UNCHANGED vars
  <2>1. UNCHANGED <<pending, submitted, arrival, pc, pick, choice, call, fate>>
    BY <1>2 DEF vars, shared, stamps, locals, history
  <2>2. StampInv'
    BY <1>1, <2>1 DEF OrderInv, StampInv, Claimed
  <2>3. ASSUME NEW t \in Threads PROVE ScoresTrue(t)'
    <3>1. ScoresTrue(t)
      BY <1>1 DEF OrderInv
    <3> QED BY <2>1, <3>1 DEF ScoresTrue, TrueScore, FirstIn, Outscores
  <2> QED BY <2>2, <2>3 DEF OrderInv
<1>3. ASSUME NEW t \in Threads,
             \/ \E c \in Calls : Submit(t, c)
             \/ \E i \in Ids : Cancel(t, i)
             \/ Run(t) \/ ClientStep(t) \/ RunStep(t) \/ RuntimeError(t)
      PROVE  OrderInv'
  <2>1. \A u \in Threads \ {t} : SameThread(u) /\ choice'[u] = choice[u]
    BY <1>1, <1>3, ClientLeavesOthers, RunLeavesOthers, ChoiceKept
  <2>2. StampInv' /\ StampsStay
    BY <1>1, <1>3, SubmitStamps, StampNumberStamps, CountSubmittedStamps, OtherStamps DEF OrderInv, ClientStep
  <2>3. ASSUME NEW u \in Threads \ {t}, pc[u] \in PassPcs
        PROVE  \A k \in DOMAIN pending : k \in DOMAIN pending' /\ pending'[k] = pending[k]
    <3>1. u \in Runners /\ t \notin Runners /\ t \notin Cancellers
      BY <1>1, <2>3 DEF LossInv, Owed, RunPcs, PassPcs, PopPcs, SoleConsumer, OwnCancels, OneLoop
    <3>2. ~Take(t) /\ ~Withdraw(t)
      <4>1. Take(t) => pc[t] = "take"
        BY DEF Take, Goto
      <4>2. Withdraw(t) => pc[t] = "withdraw"
        BY DEF Withdraw, Goto
      <4> QED BY <1>1, <3>1, <4>1, <4>2 DEF LossInv, Owed, RunPcs, PopPcs
    <3> QED BY <1>1, <1>3, <3>2, QueueGrows DEF ClientStep, RunStep, Scoring
  <2>4. \A u \in Threads \ {t} : ScoresTrue(u)'
    BY <1>1, <2>1, <2>2, <2>3, OthersScores DEF OrderInv
  <2>5. ScoresTrue(t)'
    <3>1. CASE pc'[t] \notin {"weigh", "rank", "take"}
      BY <3>1 DEF ScoresTrue
    <3>2. CASE Scoring(t) /\ ~Raise(t)
      BY <1>1, <3>2, OwnScores DEF OrderInv, FreshInv
    <3>3. CASE Raise(t)
      BY <1>1, <3>1, <3>3 DEF Raise, TypeOK
    <3>4. CASE (Admit(t) \/ Take(t)) /\ ~Raise(t)
      BY <1>1, <3>1, <3>4 DEF Admit, Take, Goto, TypeOK
    <3>5. CASE ~(Scoring(t) \/ Admit(t) \/ Take(t))
      BY <1>1, <1>3, <3>1, <3>5, NotInPass DEF RunStep, Scoring, PassPcs, PopPcs
    <3> QED BY <3>2, <3>3, <3>4, <3>5
  <2> QED BY <2>2, <2>4, <2>5 DEF OrderInv
<1> QED BY <1>1, <1>2, <1>3 DEF Next

\* The request with the first score is nobody's later one.
LEMMA SelectedInOrder == TypeOK /\ OrderInv => AdmittedInOrder
<1>1. SUFFICES ASSUME TypeOK, OrderInv, NEW t \in Threads, pc[t] = "take",
                      Aging \/ choice[t].scores[pick[t]].arrival # 0,
                      NEW x \in ToSet(choice[t].scores), Seen(t, x),
                      Priority[x.req] >= Priority[pending[pick[t]]],
                      submitted[Id[x.req]] < submitted[Id[pending[pick[t]]]],
                      arrival[Id[x.req]] < arrival[Id[pending[pick[t]]]]
               PROVE  FALSE
  BY DEF AdmittedInOrder
<1> DEFINE s == choice[t].scores
           y == s[pick[t]]
<1>2. ScoresTrue(t) /\ s \in Seq(Score) /\ choice[t].now \in Nat
  BY <1>1 DEF OrderInv, TypeOK
<1>3. pick[t] \in DOMAIN s /\ \A j \in DOMAIN s \ {pick[t]} : Outscores(y, s[j]) \/ (~Outscores(s[j], y) /\ pick[t] < j)
  BY <1>1, <1>2 DEF ScoresTrue, FirstIn
<1>4. PICK j \in DOMAIN s : s[j] = x
  BY <1>2, ToSetElement
<1>5. /\ y.req = pending[pick[t]] /\ TrueScore(y, choice[t].now) /\ TrueScore(x, choice[t].now)
  BY <1>1, <1>2, <1>3, <1>4 DEF ScoresTrue
<1>6. x \in Score /\ y \in Score
  BY <1>2, <1>3, <1>4
<1>7. /\ x.since \in Nat /\ y.since \in Nat /\ x.arrival \in Nat /\ y.arrival \in Nat
      /\ Priority[x.req] \in Int /\ Priority[y.req] \in Int
  BY <1>6, SchedulerAssumption DEF Score
<1>8. submitted[Id[x.req]] \in Nat /\ submitted[Id[y.req]] \in Nat /\ arrival[Id[x.req]] \in Nat /\ arrival[Id[y.req]] \in Nat
  <2>1. Id[x.req] \in Ids /\ Id[y.req] \in Ids
    BY <1>6, SchedulerAssumption DEF Score
  <2> QED BY <1>1, <2>1 DEF TypeOK
<1>9. x.since < y.since
  <2>1. x.since = submitted[Id[x.req]] /\ x.since < choice[t].now
    BY <1>1, <1>5 DEF Seen, TrueScore
  <2>2. CASE y.since < choice[t].now
    BY <1>1, <1>5, <2>1, <2>2 DEF TrueScore
  <2>3. CASE ~(y.since < choice[t].now)
    BY <1>2, <1>7, <2>1, <2>3
  <2> QED BY <2>2, <2>3
<1>10. Outscores(y, x)
  <2>1. j # pick[t]
    BY <1>4, <1>7, <1>9
  <2>2. Outscores(y, x) \/ ~Outscores(x, y)
    BY <1>3, <1>4, <2>1
  <2>3. Outscores(x, y)
    <3>1. CASE Aging
      BY <1>9, <3>1 DEF Outscores
    <3>2. CASE ~Aging
      <4>1. x.arrival < y.arrival
        BY <1>1, <1>5, <3>2 DEF Seen, TrueScore
      <4>2. Priority[x.req] > Priority[y.req] \/ Priority[x.req] = Priority[y.req]
        BY <1>1, <1>5, <1>7
      <4> QED BY <3>2, <4>1, <4>2 DEF Outscores
    <3> QED BY <3>1, <3>2
  <2> QED BY <2>2, <2>3
<1>11. CASE Aging
  BY <1>1, <1>5, <1>7, <1>9, <1>10, <1>11 DEF Outscores
<1>12. CASE ~Aging
  <2>1. x.arrival < y.arrival
    BY <1>1, <1>5, <1>12 DEF Seen, TrueScore
  <2> QED BY <1>1, <1>5, <1>7, <1>10, <1>12, <2>1 DEF Outscores
<1> QED BY <1>11, <1>12

\* Of two requests whose stamps a selection saw, the one it admits was not
\* submitted and numbered after one with its priority or a higher one that stays
\* in the queue: with or without aging, whatever other threads queue and stamp
\* while the scores are made, and although the queue is read three times on the
\* way.  The loop's thread does the cancelling and ids are distinct: a withdrawal
\* in between moves the requests, and a second request of an id takes the stamps
\* of the first.
THEOREM FifoHolds ==
    ASSUME SoleConsumer, DistinctIds
    PROVE  Spec => FifoWithinPriority
<1>1. Init => TypeOK /\ SlotsInv /\ LossInv /\ OnceInv /\ FreshInv /\ OrderInv
  <2>1. Init => FreshInv
    BY DEF Init, FreshInv, Fresh, NoChoice, PassPcs, PopPcs
  <2>2. Init => OrderInv
    <3>1. SUFFICES ASSUME Init PROVE OrderInv
      OBVIOUS
    <3>2. \A t \in Threads : pc[t] = "idle"
      BY <3>1 DEF Init
    <3>3. \A t \in Threads : Claimed(t) = {} /\ ScoresTrue(t)
      BY <3>2 DEF Claimed, ScoresTrue, SubmitPcs, StampPcs
    <3> QED BY <3>1, <3>3, SchedulerAssumption DEF Init, OrderInv, StampInv
  <2> QED BY <2>1, <2>2, InitTypeOK, InitSlots, InitLoss, InitOnce
<1>2. TypeOK /\ SlotsInv /\ LossInv /\ OnceInv /\ FreshInv /\ OrderInv /\ [Next]_vars =>
        TypeOK' /\ SlotsInv' /\ LossInv' /\ OnceInv' /\ FreshInv' /\ OrderInv'
  BY Inductive, LossInductive, OnceInductive, FreshInductive, OrderInductive DEF SoleConsumer
<1>3. TypeOK /\ OrderInv => [AdmittedInOrder]_vars
  BY SelectedInOrder
<1> QED BY <1>1, <1>2, <1>3, PTL DEF Spec, FifoWithinPriority

=============================================================================
