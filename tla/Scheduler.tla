------------------------------ MODULE Scheduler ------------------------------
(***************************************************************************)
(* ContinuousBatchScheduler (cacheir/runtime/scheduler.py): the admission  *)
(* queue, the paused list and the set of cancellation marks, shared by     *)
(* every thread that holds the scheduler object, and the scheduling loop   *)
(* run_until_complete with its locals.  Threads call submit / submit_many, *)
(* cancel and run_until_complete; a step ends where another thread could   *)
(* observe or change the shared lists in between.                          *)
(*                                                                         *)
(* Abstracted: token values and text (a request generates a number of      *)
(* tokens), the clock (readings of it are ordered, and one of two waiting  *)
(* times exceeds the other by any amount), the millisecond, prefix and     *)
(* promotion counters of SchedulerMetrics.                                 *)
(***************************************************************************)
EXTENDS Integers, Sequences, FiniteSets, SequencesExt

CONSTANTS Threads,      \* the threads that call the scheduler
          Submitters,   \* ... those that call submit or submit_many
          Cancellers,   \* ... those that call cancel
          Runners,      \* ... those that call run_until_complete
          Requests,     \* the GenerationRequest objects
          Ids,          \* request ids
          Id,           \* Id[r]: request_id; not necessarily unique
          Priority,     \* Priority[r]
          MaxNew,       \* MaxNew[r]: max_new_tokens
          PromptLen,    \* PromptLen[r]: tokens of the encoded prompt
          Calls,        \* the calls of submit and submit_many that may happen
          MaxBatch,     \* max_batch_size
          MaxQueue,     \* max_queue_size (a large number stands for None)
          MaxTokens,    \* max_request_tokens (a large number stands for None)
          Aging,        \* fairness_aging_ms > 0
          Preemptive,   \* preempt_low_priority
          RuntimeFails  \* whether a prefill or a decode may raise

Blocking == {"no", "forever", "timeout"}  \* block and timeout_s of submit

ASSUME SchedulerAssumption ==
    /\ Submitters \subseteq Threads /\ Cancellers \subseteq Threads /\ Runners \subseteq Threads
    /\ Id \in [Requests -> Ids]
    /\ Priority \in [Requests -> Int]
    /\ MaxNew \in [Requests -> Nat] /\ PromptLen \in [Requests -> Nat]
    /\ \A c \in Calls : /\ c.batch \in Seq(Requests) /\ IsInjective(c.batch)
                        /\ c.block \in Blocking
                        /\ c = [batch |-> c.batch, block |-> c.block]
    /\ MaxBatch \in Nat \ {0} /\ MaxQueue \in Nat /\ MaxTokens \in Nat
    /\ Aging \in BOOLEAN /\ Preemptive \in BOOLEAN /\ RuntimeFails \in BOOLEAN

VARIABLES
    pending,    \* _pending: the admission queue
    paused,     \* _paused: preempted requests, their sessions kept
    cancelled,  \* _cancelled: ids marked for cancellation
    submitted,  \* _submitted_at, by request id; 0 when absent
    arrival,    \* _arrival_order, by request id; 0 when absent
    drawn,      \* how often the clock was read for _submitted_at, and the last
                \* number of _arrival_counter
    gen,        \* gen[r]: len(generated_ids) of r's session
    metrics,    \* the counters of SchedulerMetrics
    \* the locals of a thread's current call
    pc,         \* where the thread is
    call,       \* submit: the requests not yet enqueued, and how it blocks;
                \* cancel: the queued request it has found
    active,     \* run_until_complete: active (survivors while collecting)
    batch,      \* ... admitted: popped from the queue, not yet prefilled
    quota,      \* ... how many pops the comprehension still does
    pick,       \* ... len(_pending) and then best_idx of _pop_pending,
                \* capacity of _pop_paused; cancel: the idx it has found
    choice,     \* ... now and the scores so far of _pop_pending
    preempted,  \* ... whether this round is past _preempt_for_pending
    scan,       \* ... the rest of the list a for loop iterates over
    ready,      \* ... ready
    results,    \* ... results
    \* history
    fate,       \* fate[r]: what the calls about r told their callers
    returned    \* every result a run_until_complete has returned

stamps == <<submitted, arrival, drawn>>
shared == <<pending, paused, cancelled, stamps, metrics>>
locals == <<call, active, batch, quota, pick, choice, preempted, scan, ready, results>>
history == <<fate, returned>>
vars == <<shared, gen, pc, locals, history>>

StampPcs == {"stamp", "number", "count"}
SubmitPcs == {"capacity", "waiting", "recheck", "enqueue"} \cup StampPcs
PopPcs == {"range", "weigh", "rank", "take"}
RunPcs == {"loop", "resume", "unpause", "admit", "select", "prefill", "preempt", "displace",
           "round", "snapshot", "retire", "decode", "collect"} \cup PopPcs
Pcs == {"idle", "withdraw"} \cup SubmitPcs \cup RunPcs
Fates == {"unsent", "sent", "rejected", "withdrawn", "dropped", "failed"}
NoCall == [batch |-> <<>>, block |-> "no"]
Score == [req : Requests, since : Nat, arrival : Nat]
NoChoice == [now |-> 0, scores |-> <<>>]
Result == [req : Requests, reason : {"length", "cancelled"}, tokens : Nat]
Metrics == [submitted : Nat, rejected : Nat, cancelled : Nat, completed : Nat, generated : Nat,
            waits : Nat, rounds : Nat, preemptions : Nat, maxBatch : Nat]

Init ==
    /\ pending = <<>> /\ paused = <<>> /\ cancelled = {}
    /\ submitted = [i \in Ids |-> 0] /\ arrival = [i \in Ids |-> 0]
    /\ drawn = [times |-> 0, numbers |-> 0]
    /\ gen = [r \in Requests |-> 0]
    /\ metrics = [submitted |-> 0, rejected |-> 0, cancelled |-> 0, completed |-> 0, generated |-> 0,
                  waits |-> 0, rounds |-> 0, preemptions |-> 0, maxBatch |-> 0]
    /\ pc = [t \in Threads |-> "idle"]
    /\ call = [t \in Threads |-> NoCall]
    /\ active = [t \in Threads |-> <<>>] /\ batch = [t \in Threads |-> <<>>]
    /\ quota = [t \in Threads |-> 0] /\ pick = [t \in Threads |-> 0]
    /\ choice = [t \in Threads |-> NoChoice]
    /\ preempted = [t \in Threads |-> FALSE]
    /\ scan = [t \in Threads |-> <<>>] /\ ready = [t \in Threads |-> <<>>]
    /\ results = [t \in Threads |-> <<>>]
    /\ fate = [r \in Requests |-> "unsent"] /\ returned = <<>>

Goto(t, from, to) == pc[t] = from /\ pc' = [pc EXCEPT ![t] = to]

------------------------------------------------------------------------------
(***************************************************************************)
(* submit and submit_many                                                  *)
(***************************************************************************)

Fits(r) == PromptLen[r] + MaxNew[r] <= MaxTokens

\* _check_request_tokens of every request, before anything is enqueued: one
\* request too long makes the whole call raise.
Submit(t, c) ==
    /\ t \in Submitters /\ c \in Calls
    /\ \A r \in ToSet(c.batch) : fate[r] = "unsent"
    /\ \/ /\ \A r \in ToSet(c.batch) : Fits(r)
          /\ Goto(t, "idle", "capacity")
          /\ call' = [call EXCEPT ![t] = c]
          /\ fate' = [r \in Requests |-> IF r \in ToSet(c.batch) THEN "sent" ELSE fate[r]]
          /\ UNCHANGED metrics
       \/ /\ \E r \in ToSet(c.batch) : ~Fits(r)
          /\ Goto(t, "idle", "idle")
          /\ metrics' = [metrics EXCEPT !.rejected = @ + 1]
          /\ fate' = [r \in Requests |-> IF r \in ToSet(c.batch) THEN "rejected" ELSE fate[r]]
          /\ UNCHANGED call
    /\ UNCHANGED <<pending, paused, cancelled, stamps, gen, active, batch, quota, pick, choice,
                   preempted, scan, ready, results, returned>>

HasRoom(t) == Len(pending) + Len(call[t].batch) <= MaxQueue

\* The queue is full: rejected_requests += count, RuntimeError.
Reject(t) ==
    /\ pc' = [pc EXCEPT ![t] = "idle"]
    /\ call' = [call EXCEPT ![t] = NoCall]
    /\ metrics' = [metrics EXCEPT !.rejected = @ + Len(call[t].batch)]
    /\ fate' = [r \in Requests |-> IF r \in ToSet(call[t].batch) THEN "rejected" ELSE fate[r]]

\* The first test of _check_capacity: enough room, or refuse, or start to wait.
CheckCapacity(t) ==
    /\ pc[t] = "capacity"
    /\ \/ /\ HasRoom(t)
          /\ Goto(t, "capacity", "enqueue")
          /\ UNCHANGED <<metrics, call, fate>>
       \/ /\ ~HasRoom(t) /\ call[t].block = "no"
          /\ Reject(t)
       \/ /\ ~HasRoom(t) /\ call[t].block # "no"
          /\ Goto(t, "capacity", "waiting")
          /\ metrics' = [metrics EXCEPT !.waits = @ + 1]
          /\ UNCHANGED <<call, fate>>
    /\ UNCHANGED <<pending, paused, cancelled, stamps, gen, active, batch, quota, pick, choice,
                   preempted, scan, ready, results, returned>>

\* Mutant: the polling loop only looks at the deadline.
StopWaitingDeadline(t) ==
    /\ call[t].block = "timeout"
    /\ Goto(t, "waiting", "recheck")
    /\ UNCHANGED <<shared, gen, locals, history>>

\* The polling loop ends when it sees room, or when the deadline passes.
StopWaiting(t) ==
    /\ HasRoom(t) \/ call[t].block = "timeout"
    /\ Goto(t, "waiting", "recheck")
    /\ UNCHANGED <<shared, gen, locals, history>>

\* The test after the loop reads the queue again.
Recheck(t) ==
    /\ pc[t] = "recheck"
    /\ \/ /\ HasRoom(t)
          /\ Goto(t, "recheck", "enqueue")
          /\ UNCHANGED <<metrics, call, fate>>
       \/ ~HasRoom(t) /\ Reject(t)
    /\ UNCHANGED <<pending, paused, cancelled, stamps, gen, active, batch, quota, pick, choice,
                   preempted, scan, ready, results, returned>>

\* _enqueue of the next request of the call puts it in the queue, where other
\* threads see it, before it has a submission time and an arrival number; the
\* call returns after the last.
Enqueue(t) ==
    /\ \/ /\ call[t].batch = <<>>
          /\ Goto(t, "enqueue", "idle")
          /\ call' = [call EXCEPT ![t] = NoCall]
          /\ UNCHANGED pending
       \/ /\ call[t].batch # <<>>
          /\ Goto(t, "enqueue", "stamp")
          /\ pending' = Append(pending, Head(call[t].batch))
          /\ UNCHANGED call
    /\ UNCHANGED <<paused, cancelled, stamps, metrics, gen, active, batch, quota, pick, choice,
                   preempted, scan, ready, results, history>>

\* _submitted_at[id] = perf_counter(): the times of two submissions are the even
\* numbers in the order the clock is read, what _pop_pending reads lies between.
Stamp(t) ==
    /\ Goto(t, "stamp", "number")
    /\ drawn' = [drawn EXCEPT !.times = @ + 1]
    /\ submitted' = [submitted EXCEPT ![Id[Head(call[t].batch)]] = 2 * drawn'.times]
    /\ UNCHANGED <<pending, paused, cancelled, arrival, metrics, gen, locals, history>>

\* _arrival_order[id] = next(_arrival_counter): another thread may have stamped
\* its request since, and draw a smaller number for it.
Number(t) ==
    /\ Goto(t, "number", "count")
    /\ drawn' = [drawn EXCEPT !.numbers = @ + 1]
    /\ arrival' = [arrival EXCEPT ![Id[Head(call[t].batch)]] = drawn'.numbers]
    /\ UNCHANGED <<pending, paused, cancelled, submitted, metrics, gen, locals, history>>

\* submitted_requests += 1; the request is done.
CountSubmitted(t) ==
    /\ Goto(t, "count", "enqueue")
    /\ metrics' = [metrics EXCEPT !.submitted = @ + 1]
    /\ call' = [call EXCEPT ![t].batch = RemoveAt(@, 1)]
    /\ UNCHANGED <<pending, paused, cancelled, stamps, gen, active, batch, quota, pick, choice,
                   preempted, scan, ready, results, history>>

(***************************************************************************)
(* cancel                                                                  *)
(***************************************************************************)

\* The search of the queue.  An id that is not queued only leaves a mark,
\* whether or not such a request exists.
Cancel(t, i) ==
    /\ t \in Cancellers
    /\ \/ \E k \in DOMAIN pending :
            /\ Id[pending[k]] = i
            /\ \A j \in 1..(k - 1) : Id[pending[j]] # i
            /\ Goto(t, "idle", "withdraw")
            /\ pick' = [pick EXCEPT ![t] = k]
            /\ call' = [call EXCEPT ![t] = [batch |-> <<pending[k]>>, block |-> "no"]]
            /\ UNCHANGED cancelled
       \/ /\ \A k \in DOMAIN pending : Id[pending[k]] # i
          /\ Goto(t, "idle", "idle")
          /\ cancelled' = cancelled \cup {i}
          /\ UNCHANGED <<pick, call>>
    /\ UNCHANGED <<pending, paused, stamps, metrics, gen, active, batch, quota, choice, preempted,
                   scan, ready, results, history>>

\* _pending.pop(idx), on the queue as it is now: the request that goes need not
\* be the one the search found, whose cancellation the caller is told of.  On a
\* queue that has become too short the pop raises.
Withdraw(t) ==
    /\ Goto(t, "withdraw", "idle")
    /\ \/ /\ pick[t] <= Len(pending)
          /\ pending' = RemoveAt(pending, pick[t])
          /\ metrics' = [metrics EXCEPT !.cancelled = @ + 1]
          /\ fate' = [fate EXCEPT ![pending[pick[t]]] = "dropped", ![Head(call[t].batch)] = "withdrawn"]
       \/ /\ pick[t] > Len(pending)
          /\ UNCHANGED <<pending, metrics, fate>>
    /\ pick' = [pick EXCEPT ![t] = 0]
    /\ call' = [call EXCEPT ![t] = NoCall]
    /\ UNCHANGED <<paused, cancelled, stamps, gen, active, batch, quota, choice, preempted, scan,
                   ready, results, returned>>

------------------------------------------------------------------------------
(***************************************************************************)
(* run_until_complete: one round after another until nothing is left.      *)
(***************************************************************************)

Capacity(t) == MaxBatch - Len(active[t])

Least(m, n) == IF m < n THEN m ELSE n

\* Indexes of the element of s that comes before every other; the first of
\* equals, as max, min and the stable sort choose.
FirstIn(s, Before(_, _)) ==
    {k \in DOMAIN s : \A j \in DOMAIN s \ {k} :
        Before(s[k], s[j]) \/ (~Before(s[j], s[k]) /\ k < j)}

\* s sorted by Before, equals in the order they had.
Sorted(s, Before(_, _)) ==
    {[i \in DOMAIN s |-> s[p[i]]] : p \in {q \in [DOMAIN s -> DOMAIN s] :
        \A i, j \in DOMAIN s : i < j =>
            \/ Before(s[q[i]], s[q[j]])
            \/ ~Before(s[q[j]], s[q[i]]) /\ q[i] < q[j]}}

\* The call: active = [], results = [].
Run(t) ==
    /\ t \in Runners
    /\ Goto(t, "idle", "loop")
    /\ UNCHANGED <<shared, gen, locals, history>>

\* Mutant: the while test forgets the paused requests.
WorkLeftNotPaused(t) == pending # <<>> \/ active[t] # <<>>

WorkLeft(t) == pending # <<>> \/ paused # <<>> \/ active[t] # <<>>

\* The while test; when nothing is left the call returns its results.
Loop(t) ==
    /\ \/ /\ WorkLeft(t)
          /\ Goto(t, "loop", "resume")
          /\ preempted' = [preempted EXCEPT ![t] = FALSE]
          /\ UNCHANGED <<results, returned>>
       \/ /\ ~WorkLeft(t)
          /\ Goto(t, "loop", "idle")
          /\ returned' = returned \o results[t]
          /\ results' = [results EXCEPT ![t] = <<>>]
          /\ UNCHANGED preempted
    /\ UNCHANGED <<shared, gen, call, active, batch, quota, pick, choice, scan, ready, fate>>

\* The descending sort of _pop_paused, by (priority, tokens generated).
Ahead(r, s) == \/ Priority[r] > Priority[s]
               \/ Priority[r] = Priority[s] /\ gen[r] > gen[s]

\* _pop_paused sorts the paused requests and takes as many as there are free
\* slots; while it does, they are still in the list.
Resume(t) ==
    /\ \/ /\ paused # <<>> /\ Capacity(t) > 0
          /\ Goto(t, "resume", "unpause")
          /\ \E s \in Sorted(paused, Ahead) :
               /\ paused' = s
               /\ active' = [active EXCEPT ![t] = @ \o SubSeq(s, 1, Least(Capacity(t), Len(s)))]
          /\ pick' = [pick EXCEPT ![t] = Capacity(t)]
       \/ /\ paused = <<>> \/ Capacity(t) <= 0
          /\ Goto(t, "resume", "admit")
          /\ UNCHANGED <<paused, active, pick>>
    /\ UNCHANGED <<pending, cancelled, stamps, metrics, gen, call, batch, quota, choice, preempted,
                   scan, ready, results, history>>

\* self._paused = self._paused[capacity:], on the list as it is now.
Unpause(t) ==
    /\ Goto(t, "unpause", "admit")
    /\ paused' = SubSeq(paused, pick[t] + 1, Len(paused))
    /\ pick' = [pick EXCEPT ![t] = 0]
    /\ UNCHANGED <<pending, cancelled, stamps, metrics, gen, call, active, batch, quota, choice,
                   preempted, scan, ready, results, history>>

\* Mutants: the range is not cut to the queue; the capacity is not recomputed
\* after resuming; nothing is admitted into the slot a preemption freed.
AdmitQuotaUncut(t) == Capacity(t)
AdmitQuotaStale(t) == Least(Len(pending), MaxBatch)
AdmitQuotaOnce(t) == IF preempted[t] THEN 0 ELSE Least(Len(pending), Capacity(t))

\* range(min(capacity, len(pending))): how many requests this pass admits.
AdmitQuota(t) == Least(Len(pending), Capacity(t))

Admit(t) ==
    /\ Goto(t, "admit", "select")
    /\ quota' = [quota EXCEPT ![t] = AdmitQuota(t)]
    /\ UNCHANGED <<shared, gen, call, active, batch, pick, choice, preempted, scan, ready, results,
                   history>>

\* Mutant: the bonus has the wrong sign.
OutscoresYounger(x, y) ==
    \/ Priority[x.req] > Priority[y.req]
    \/ Aging /\ y.since < x.since
    \/ /\ Priority[x.req] = Priority[y.req] /\ ~(Aging /\ x.since < y.since)
       /\ x.arrival < y.arrival

\* The order of the scores: priority plus the age bonus, then arrival.  The bonus
\* of the request that has waited longer exceeds the other's by any amount.
Outscores(x, y) ==
    \/ Priority[x.req] > Priority[y.req]
    \/ Aging /\ x.since < y.since
    \/ /\ Priority[x.req] = Priority[y.req] /\ ~(Aging /\ y.since < x.since)
       /\ x.arrival < y.arrival

\* What a call that raises takes with it: its sessions and its results.
Held(t) == ToSet(active[t]) \cup ToSet(batch[t]) \cup ToSet(ready[t])
           \cup {results[t][k].req : k \in DOMAIN results[t]}

\* An exception leaves run_until_complete.
Raise(t) ==
    /\ pc' = [pc EXCEPT ![t] = "idle"]
    /\ fate' = [r \in Requests |-> IF r \in Held(t) THEN "failed" ELSE fate[r]]
    /\ active' = [active EXCEPT ![t] = <<>>] /\ batch' = [batch EXCEPT ![t] = <<>>]
    /\ quota' = [quota EXCEPT ![t] = 0] /\ pick' = [pick EXCEPT ![t] = 0]
    /\ choice' = [choice EXCEPT ![t] = NoChoice]
    /\ scan' = [scan EXCEPT ![t] = <<>>] /\ ready' = [ready EXCEPT ![t] = <<>>]
    /\ results' = [results EXCEPT ![t] = <<>>]
    /\ UNCHANGED <<shared, gen, call, preempted, returned>>

\* The next pop of the comprehension; _pop_pending reads the clock.
Select(t) ==
    \/ /\ quota[t] = 0
       /\ Goto(t, "select", "prefill")
       /\ UNCHANGED <<shared, gen, locals, history>>
    \/ /\ quota[t] > 0
       /\ Goto(t, "select", "range")
       /\ choice' = [choice EXCEPT ![t].now = 2 * drawn.times + 1]
       /\ UNCHANGED <<shared, gen, call, active, batch, quota, pick, preempted, scan, ready,
                      results, history>>

\* Mutant: a pop waits for a request when the queue has become empty.
OpenRangeWaits(t) ==
    /\ pending # <<>>
    /\ Goto(t, "range", "weigh")
    /\ pick' = [pick EXCEPT ![t] = Len(pending)]
    /\ UNCHANGED <<shared, gen, call, active, batch, quota, choice, preempted, scan, ready, results,
                   history>>

\* range(len(_pending)); max of an empty range raises.
OpenRange(t) ==
    \/ /\ pending # <<>>
       /\ Goto(t, "range", "weigh")
       /\ pick' = [pick EXCEPT ![t] = Len(pending)]
       /\ UNCHANGED <<shared, gen, call, active, batch, quota, choice, preempted, scan, ready,
                      results, history>>
    \/ pc[t] = "range" /\ pending = <<>> /\ Raise(t)

\* _pending_score of the next index looks the submission time up: a request that
\* has none was submitted now, and one stamped later than now waits a negative
\* time.  The index may be past the end by now.  After the last, max is found.
Weigh(t) ==
    LET next == Len(choice[t].scores) + 1
        Since(r) == IF submitted[Id[r]] = 0 THEN choice[t].now ELSE submitted[Id[r]]
    IN  \/ /\ next <= pick[t] /\ next <= Len(pending)
           /\ Goto(t, "weigh", "rank")
           /\ choice' = [choice EXCEPT ![t].scores =
                Append(@, [req |-> pending[next], since |-> Since(pending[next]), arrival |-> 0])]
           /\ UNCHANGED <<shared, gen, call, active, batch, quota, pick, preempted, scan, ready,
                          results, history>>
        \/ pc[t] = "weigh" /\ next <= pick[t] /\ next > Len(pending) /\ Raise(t)
        \/ /\ next > pick[t]
           /\ Goto(t, "weigh", "take")
           /\ \E k \in FirstIn(choice[t].scores, Outscores) : pick' = [pick EXCEPT ![t] = k]
           /\ UNCHANGED <<shared, gen, call, active, batch, quota, choice, preempted, scan, ready,
                          results, history>>

\* ... and then the arrival number, 0 when it has none yet.
Rank(t) ==
    LET last == Len(choice[t].scores)
        r == choice[t].scores[last].req
    IN  /\ Goto(t, "rank", "weigh")
        /\ choice' = [choice EXCEPT ![t].scores[last].arrival = arrival[Id[r]]]
        /\ UNCHANGED <<shared, gen, call, active, batch, quota, pick, preempted, scan, ready,
                       results, history>>

\* Mutant: the queue pops its first element instead of the selected one.
TakeFirstOut(t) ==
    /\ pick[t] <= Len(pending)
    /\ Goto(t, "take", "select")
    /\ batch' = [batch EXCEPT ![t] = Append(@, pending[pick[t]])]
    /\ pending' = Tail(pending)
    /\ quota' = [quota EXCEPT ![t] = @ - 1]
    /\ pick' = [pick EXCEPT ![t] = 0]
    /\ choice' = [choice EXCEPT ![t] = NoChoice]
    /\ UNCHANGED <<paused, cancelled, stamps, metrics, gen, call, active, preempted, scan, ready,
                   results, history>>

\* _pending.pop(best_idx), on the queue as it is now.
Take(t) ==
    \/ /\ pick[t] <= Len(pending)
       /\ Goto(t, "take", "select")
       /\ batch' = [batch EXCEPT ![t] = Append(@, pending[pick[t]])]
       /\ pending' = RemoveAt(pending, pick[t])
       /\ quota' = [quota EXCEPT ![t] = @ - 1]
       /\ pick' = [pick EXCEPT ![t] = 0]
       /\ choice' = [choice EXCEPT ![t] = NoChoice]
       /\ UNCHANGED <<paused, cancelled, stamps, metrics, gen, call, active, preempted, scan, ready,
                      results, history>>
    \/ pc[t] = "take" /\ pick[t] > Len(pending) /\ Raise(t)

\* _prefill_admitted, in any of its forms: every admitted request gets a
\* session of its own with no generated tokens.
Prefill(t) ==
    /\ Goto(t, "prefill", IF preempted[t] THEN "round" ELSE "preempt")
    /\ active' = [active EXCEPT ![t] = @ \o batch[t]]
    /\ batch' = [batch EXCEPT ![t] = <<>>]
    /\ UNCHANGED <<shared, gen, call, quota, pick, choice, preempted, scan, ready, results,
                   history>>

\* A session raises in prefill or in decode.
RuntimeError(t) ==
    /\ RuntimeFails
    /\ (pc[t] = "prefill" /\ batch[t] # <<>>) \/ (pc[t] = "decode" /\ ready[t] # <<>>)
    /\ Raise(t)

\* min(active, key=(priority, -len(generated_ids))).
Weaker(r, s) == \/ Priority[r] < Priority[s]
                \/ Priority[r] = Priority[s] /\ gen[r] > gen[s]

\* Some queued request has a strictly higher priority than active request r.
Outranked(r) == \E k \in DOMAIN pending : Priority[pending[k]] > Priority[r]

\* The first test of _preempt_for_pending.
Preempt(t) ==
    /\ \/ /\ Preemptive /\ pending # <<>> /\ active[t] # <<>>
          /\ Goto(t, "preempt", "displace")
          /\ UNCHANGED preempted
       \/ /\ ~Preemptive \/ pending = <<>> \/ active[t] = <<>>
          /\ Goto(t, "preempt", "admit")
          /\ preempted' = [preempted EXCEPT ![t] = TRUE]
    /\ UNCHANGED <<shared, gen, call, active, batch, quota, pick, choice, scan, ready, results,
                   history>>

\* The rest of it: at most one request per round gives its slot up.  max of a
\* queue that has become empty raises.
Displace(t) ==
    \/ /\ pending # <<>>
       /\ Goto(t, "displace", "admit")
       /\ preempted' = [preempted EXCEPT ![t] = TRUE]
       /\ \E k \in FirstIn(active[t], Weaker) :
            \/ /\ Outranked(active[t][k])
               /\ paused' = Append(paused, active[t][k])
               /\ active' = [active EXCEPT ![t] = RemoveAt(@, k)]
               /\ metrics' = [metrics EXCEPT !.preemptions = @ + 1]
            \/ ~Outranked(active[t][k]) /\ UNCHANGED <<paused, active, metrics>>
       /\ UNCHANGED <<pending, cancelled, stamps, gen, call, batch, quota, pick, choice, scan,
                      ready, results, history>>
    \/ pc[t] = "displace" /\ pending = <<>> /\ Raise(t)

\* max_observed_batch, then the ready comprehension starts unless active is empty.
Round(t) ==
    /\ pc[t] = "round"
    /\ LET seen == IF Len(active[t]) > metrics.maxBatch THEN Len(active[t]) ELSE metrics.maxBatch
       IN  IF active[t] = <<>>
           THEN /\ Goto(t, "round", "loop")
                /\ UNCHANGED <<metrics, scan>>
           ELSE /\ Goto(t, "round", "snapshot")
                /\ metrics' = [metrics EXCEPT !.maxBatch = seen, !.rounds = @ + 1]
                /\ scan' = [scan EXCEPT ![t] = active[t]]
    /\ UNCHANGED <<pending, paused, cancelled, stamps, gen, call, active, batch, quota, pick,
                   choice, preempted, ready, results, history>>

Marked(r) == Id[r] \in cancelled

\* Mutant: the length test lets one token too many through.
DonePast(r) == gen[r] > MaxNew[r]
Done(r) == gen[r] >= MaxNew[r]

\* Mutants: ready leaves out requests one token short, or forgets the marks.
IsReadyShort(r) == ~Marked(r) /\ gen[r] + 1 < MaxNew[r]
IsReadyMarked(r) == ~Done(r)

\* The condition of the ready comprehension.
IsReady(r) == ~Marked(r) /\ ~Done(r)

Snapshot(t) ==
    /\ IF scan[t] = <<>>
       THEN /\ Goto(t, "snapshot", "retire")
            /\ scan' = [scan EXCEPT ![t] = active[t]]
            /\ UNCHANGED ready
       ELSE /\ Goto(t, "snapshot", "snapshot")
            /\ scan' = [scan EXCEPT ![t] = Tail(@)]
            /\ ready' = IF IsReady(Head(scan[t]))
                        THEN [ready EXCEPT ![t] = Append(@, Head(scan[t]))] ELSE ready
    /\ UNCHANGED <<shared, gen, call, active, batch, quota, pick, choice, preempted, results,
                   history>>

\* Mutant: the text leaves out the last generated token.
FinishShort(t, r, reason) ==
    results' = [results EXCEPT ![t] = Append(@, [req |-> r, reason |-> reason, tokens |-> gen[r] - 1])]

\* _finish: completed_requests counts every result, a cancelled one too.
Finish(t, r, reason) ==
    results' = [results EXCEPT ![t] = Append(@, [req |-> r, reason |-> reason, tokens |-> gen[r]])]

\* Mutant: a cancelled request is not counted as completed.
FinishIfOverUncounted(t, r) ==
    \/ /\ Marked(r)
       /\ cancelled' = cancelled \ {Id[r]}
       /\ metrics' = [metrics EXCEPT !.cancelled = @ + 1]
       /\ Finish(t, r, "cancelled")
    \/ /\ ~Marked(r) /\ Done(r)
       /\ metrics' = [metrics EXCEPT !.completed = @ + 1]
       /\ Finish(t, r, "length")
       /\ UNCHANGED cancelled
    \/ /\ ~Marked(r) /\ ~Done(r)
       /\ UNCHANGED <<cancelled, metrics, results>>

\* The if / elif both for loops share: a marked request finishes as cancelled
\* and consumes the mark, a request with all its tokens finishes.
FinishIfOver(t, r) ==
    \/ /\ Marked(r)
       /\ cancelled' = cancelled \ {Id[r]}
       /\ metrics' = [metrics EXCEPT !.cancelled = @ + 1, !.completed = @ + 1]
       /\ Finish(t, r, "cancelled")
    \/ /\ ~Marked(r) /\ Done(r)
       /\ metrics' = [metrics EXCEPT !.completed = @ + 1]
       /\ Finish(t, r, "length")
       /\ UNCHANGED cancelled
    \/ /\ ~Marked(r) /\ ~Done(r)
       /\ UNCHANGED <<cancelled, metrics, results>>

\* The for loop over active, before decoding.
Retire(t) ==
    /\ IF scan[t] = <<>>
       THEN /\ Goto(t, "retire", "decode")
            /\ UNCHANGED <<cancelled, metrics, results, scan>>
       ELSE /\ Goto(t, "retire", "retire")
            /\ FinishIfOver(t, Head(scan[t]))
            /\ scan' = [scan EXCEPT ![t] = Tail(@)]
    /\ UNCHANGED <<pending, paused, stamps, gen, call, active, batch, quota, pick, choice,
                   preempted, ready, history>>

\* _decode_batch or _decode_one over ready: one token each; survivors = [].
Decode(t) ==
    /\ Goto(t, "decode", "collect")
    /\ gen' = [r \in Requests |-> IF r \in ToSet(ready[t]) THEN gen[r] + 1 ELSE gen[r]]
    /\ metrics' = [metrics EXCEPT !.generated = @ + Len(ready[t])]
    /\ active' = [active EXCEPT ![t] = <<>>]
    /\ UNCHANGED <<pending, paused, cancelled, stamps, call, batch, quota, pick, choice, preempted,
                   scan, ready, results, history>>

\* The for loop over ready, after decoding: the others survive the round.
Collect(t) ==
    /\ IF ready[t] = <<>>
       THEN /\ Goto(t, "collect", "loop")
            /\ UNCHANGED <<cancelled, metrics, results, ready, active>>
       ELSE LET r == Head(ready[t]) IN
            /\ Goto(t, "collect", "collect")
            /\ FinishIfOver(t, r)
            /\ ready' = [ready EXCEPT ![t] = Tail(@)]
            /\ active' = IF IsReady(r) THEN [active EXCEPT ![t] = Append(@, r)] ELSE active
    /\ UNCHANGED <<pending, paused, stamps, gen, call, batch, quota, pick, choice, preempted, scan,
                   history>>

------------------------------------------------------------------------------
ClientStep(t) == \/ CheckCapacity(t) \/ StopWaiting(t) \/ Recheck(t) \/ Enqueue(t) \/ Stamp(t)
                 \/ Number(t) \/ CountSubmitted(t) \/ Withdraw(t)

RunStep(t) ==
    \/ Loop(t) \/ Resume(t) \/ Unpause(t) \/ Admit(t)
    \/ Select(t) \/ OpenRange(t) \/ Weigh(t) \/ Rank(t) \/ Take(t) \/ Prefill(t)
    \/ Preempt(t) \/ Displace(t) \/ Round(t) \/ Snapshot(t) \/ Retire(t) \/ Decode(t) \/ Collect(t)

Next == \E t \in Threads :
    \/ \E c \in Calls : Submit(t, c)
    \/ \E i \in Ids : Cancel(t, i)
    \/ Run(t) \/ ClientStep(t) \/ RunStep(t) \/ RuntimeError(t)

Spec == Init /\ [][Next]_vars

\* A thread that is inside a call keeps running, and the run loop is called
\* again as long as requests wait (the batch endpoint runs it after every
\* submit_many).
Fairness ==
    /\ \A t \in Submitters \cup Cancellers : WF_vars(ClientStep(t))
    /\ \A t \in Runners : WF_vars(RunStep(t)) /\ WF_vars(Run(t))

FairSpec == Spec /\ Fairness

------------------------------------------------------------------------------
(***************************************************************************)
(* Properties                                                              *)
(***************************************************************************)

\* Every variable holds a value of the kind the code gives it.
TypeOK ==
    /\ pending \in Seq(Requests) /\ paused \in Seq(Requests)
    /\ cancelled \in SUBSET Ids
    /\ submitted \in [Ids -> Nat] /\ arrival \in [Ids -> Nat]
    /\ drawn \in [times : Nat, numbers : Nat]
    /\ gen \in [Requests -> Nat]
    /\ metrics \in Metrics
    /\ pc \in [Threads -> Pcs]
    /\ call \in [Threads -> [batch : Seq(Requests), block : Blocking]]
    /\ active \in [Threads -> Seq(Requests)] /\ batch \in [Threads -> Seq(Requests)]
    /\ quota \in [Threads -> Nat] /\ pick \in [Threads -> Nat]
    /\ choice \in [Threads -> [now : Nat, scores : Seq(Score)]]
    /\ preempted \in [Threads -> BOOLEAN]
    /\ scan \in [Threads -> Seq(Requests)] /\ ready \in [Threads -> Seq(Requests)]
    /\ results \in [Threads -> Seq(Result)]
    /\ fate \in [Requests -> Fates] /\ returned \in Seq(Result)

\* The sessions a running call holds, admitted ones included, never exceed
\* max_batch_size, and the counter /metrics exports never says they did.
SlotBound ==
    /\ \A t \in Threads : Len(active[t]) + Len(batch[t]) + quota[t] <= MaxBatch
    /\ metrics.maxBatch <= MaxBatch

HasResult(r) == \/ \E k \in DOMAIN returned : returned[k].req = r
                \/ \E t \in Threads : \E k \in DOMAIN results[t] : results[t][k].req = r

InSession(t) == ToSet(active[t]) \cup ToSet(batch[t]) \cup ToSet(ready[t])

\* No accepted request disappears: through admission, preemption, rounds and
\* cancellation it stays in the queue, in the paused list, in the hands of a
\* running call or among its results, unless an exception took it away or a
\* cancellation meant for another request did.
NoLoss ==
    \A r \in Requests : fate[r] = "sent" =>
        \/ r \in ToSet(pending) \cup ToSet(paused)
        \/ \E t \in Threads : r \in InSession(t) \/ (pc[t] \in SubmitPcs /\ r \in ToSet(call[t].batch))
        \/ HasResult(r)

\* The sessions a call will still advance; what its retire loop goes over has
\* either been selected for decoding or is about to finish.
Advancing(t) == IF pc[t] \in {"retire", "decode"} THEN ToSet(ready[t]) ELSE InSession(t)

\* A request is answered at most once, and once answered it is nowhere else:
\* not queued, not paused, not decoded again.
AtMostOnce ==
    /\ \A j, k \in DOMAIN returned : returned[j].req = returned[k].req => j = k
    /\ \A t \in Threads : \A k \in DOMAIN results[t] :
         /\ \A j \in DOMAIN results[t] : results[t][j].req = results[t][k].req => j = k
         /\ \A j \in DOMAIN returned : returned[j].req # results[t][k].req
    /\ \A r \in Requests : HasResult(r) =>
         /\ r \notin ToSet(pending) \cup ToSet(paused)
         /\ \A t \in Threads : r \notin Advancing(t)

ExactResult(x) ==
    /\ x.tokens = gen[x.req]
    /\ x.tokens <= MaxNew[x.req]
    /\ x.reason = "length" => x.tokens = MaxNew[x.req]

\* A result never changes after it was made (its token list is the session's
\* own, its text is a copy), no session generates past max_new_tokens, and a
\* "length" result has exactly max_new_tokens tokens.
ResultsExact ==
    /\ \A k \in DOMAIN returned : ExactResult(returned[k])
    /\ \A t \in Threads : \A k \in DOMAIN results[t] : ExactResult(results[t][k])

\* A preempted request waits only while every slot is taken: when a round
\* decodes with a free slot, nobody is paused.
NoIdleSlotWhilePaused ==
    \A t \in Threads : pc[t] = "round" /\ paused # <<>> => Len(active[t]) = MaxBatch

\* The admission comprehension never finds the queue shorter than the length it
\* read, every index of the range it scores stays one of the queue, and best_idx
\* still is when the pop uses it.
AdmissionNeverStale ==
    \A t \in Threads :
        /\ quota[t] <= Len(pending)
        /\ pc[t] \in {"weigh", "rank", "take"} => pick[t] \in DOMAIN pending

Withdrawn == {r \in Requests : fate[r] = "withdrawn"}
Open == {r \in ToSet(pending) \cup ToSet(paused) \cup UNION {InSession(t) : t \in Threads} : ~HasResult(r)}
CancelledResults(s) == {k \in DOMAIN s : s[k].reason = "cancelled"}

\* The exported counters add up: what was submitted, or is queued and about to be
\* counted, is completed, withdrawn from the queue or still open, and every
\* cancellation counted is one of a queued request or a cancelled result.
CountersBalance ==
    LET Cancellations == {<<t, k>> : t \in Threads, k \in UNION {CancelledResults(results[u]) : u \in Threads}}
    IN  /\ metrics.submitted + Cardinality({t \in Threads : pc[t] \in StampPcs})
             = metrics.completed + Cardinality(Withdrawn) + Cardinality(Open)
        /\ metrics.cancelled = Cardinality(Withdrawn) + Cardinality(CancelledResults(returned))
             + Cardinality({x \in Cancellations : x[2] \in CancelledResults(results[x[1]])})

\* A score that was made from both stamps, the time one from before the selection.
Seen(t, x) == x.since < choice[t].now /\ x.arrival # 0

AdmittedInOrder ==
    \A t \in Threads : pc[t] = "take" /\ pc'[t] = "select" =>
        LET r == pending[pick[t]]
            Earlier(s) == submitted[Id[s]] < submitted[Id[r]] /\ arrival[Id[s]] < arrival[Id[r]]
        IN  Aging \/ choice[t].scores[pick[t]].arrival # 0 =>
              \A x \in ToSet(choice[t].scores) :
                 /\ Seen(t, x) /\ x.req \in ToSet(pending') /\ Priority[x.req] >= Priority[r]
                 => ~Earlier(x.req)

\* Admission overtakes nobody: of two requests in the queue, the one admitted was
\* not both submitted and numbered after one which stays, has its priority or a
\* higher one, and whose two stamps the selection saw.  Submitters go on appending
\* and stamping while the scores are made, and another thread may draw the two
\* stamps in the opposite order.  Without aging, a request that has no number yet
\* counts as the first to arrive, and is excepted.
FifoWithinPriority == [][AdmittedInOrder]_vars

\* The stage of the abstract life cycle a request is in.  One that _pop_paused is
\* resuming is paused until it has left the list.
ReasonIn(s, r) == {s[k].reason : k \in {j \in DOMAIN s : s[j].req = r}}
ReasonsOf(r) == ReasonIn(returned, r) \cup UNION {ReasonIn(results[t], r) : t \in Threads}
StageOf(r) ==
    IF fate[r] = "rejected" THEN "refused"
    ELSE IF fate[r] = "withdrawn" THEN "withdrawn"
    ELSE IF "length" \in ReasonsOf(r) THEN "completed"
    ELSE IF "cancelled" \in ReasonsOf(r) THEN "aborted"
    ELSE IF r \in ToSet(pending) THEN "queued"
    ELSE IF r \in ToSet(paused) THEN "paused"
    ELSE IF \E t \in Threads : r \in InSession(t) THEN "running"
    ELSE "new"

Lifecycle == INSTANCE RequestLifecycle WITH stage <- [r \in Requests |-> StageOf(r)], tokens <- gen

\* The scheduler implements the life cycle: one outcome per request, tokens only
\* while a slot is held, sessions resumed with the tokens they had.
ImplementsLifecycle == Lifecycle!Spec

\* Every accepted request is eventually answered or withdrawn.
EveryRequestAnswered ==
    \A r \in Requests : fate[r] = "sent" ~>
        \/ fate[r] \in {"rejected", "withdrawn"}
        \/ \E k \in DOMAIN returned : returned[k].req = r

\* A submit blocked on a full queue eventually returns or raises.
BlockedSubmitReturns == \A t \in Submitters : pc[t] = "waiting" ~> pc[t] = "idle"

==============================================================================
