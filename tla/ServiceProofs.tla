---------------------------- MODULE ServiceProofs ----------------------------
(***************************************************************************)
(* What the scheduler is for its callers: an implementation of             *)
(* RequestLifecycle, whose counters, by the stages of that life cycle, add *)
(* up, and, behind the batch endpoint of Server, one answer to each        *)
(* request.                                                                *)
(***************************************************************************)
EXTENDS SchedulerProofs, Server

------------------------------------------------------------------------------
(***************************************************************************)
(* The refinement of RequestLifecycle.  StageOf reads the stage of a       *)
(* request off the places it is in; OnceInv says that these exclude each   *)
(* other, and LifeInv that whatever is in one of them is an accepted       *)
(* request, and that a withdrawal and a preemption find what they go for.  *)
(***************************************************************************)

\* One thread takes requests out of the queue, by running the loop or by
\* withdrawing them.
OneConsumer == \A t, u \in Runners \cup Cancellers : t = u

Alive == \A t \in Threads : \A r \in Here(t) : fate[r] = "sent"

Consuming(t) ==
    /\ pc[t] = "withdraw" => pick[t] \in DOMAIN pending /\ call[t].batch = <<pending[pick[t]]>>
    /\ pc[t] = "displace" => pending # <<>>
    /\ pc[t] = "retire" => ToSet(scan[t]) \subseteq ToSet(active[t])

LifeInv == Alive /\ \A t \in Threads : Consuming(t)

AllInv == TypeOK /\ SlotsInv /\ LossInv /\ OnceInv /\ FreshInv /\ LifeInv

SomeSession(r) == \E t \in Threads : r \in InSession(t)

\* A step keeps LifeInv's first part and is one of the abstract specification.
Lives == Alive' /\ [Lifecycle!Next]_(Lifecycle!vars)

LEMMA ConsumerAlone ==
    ASSUME LossInv, OneConsumer, NEW t \in Threads, NEW u \in Threads,
           pc[t] \in RunPcs \cup {"withdraw"}, pc[u] \in RunPcs \cup {"withdraw"}
    PROVE  t = u
<1>1. t \in Runners \cup Cancellers /\ u \in Runners \cup Cancellers
  BY DEF LossInv, Owed
<1> QED BY <1>1 DEF OneConsumer

LEMMA ConsumersBehave == OneConsumer => SoleConsumer
BY DEF OneConsumer, SoleConsumer, OwnCancels, OneLoop

------------------------------------------------------------------------------
(* Where a request is, and its stage *)

LEMMA ReasonsTyped ==
    ASSUME TypeOK, NEW r \in Requests
    PROVE  /\ ReasonsOf(r) \subseteq {"length", "cancelled"}
           /\ ReasonsOf(r) # {} <=> HasResult(r)
           /\ ReasonsOf(r) # {} <=> (r \in Final \/ \E t \in Threads : r \in Answered(t))
<1>0. \A e \in Result : e.reason \in {"length", "cancelled"}
  BY DEF Result
<1>1. \A k \in DOMAIN returned : returned[k].reason \in {"length", "cancelled"}
  BY <1>0 DEF TypeOK
<1>2. \A t \in Threads : \A k \in DOMAIN results[t] : results[t][k].reason \in {"length", "cancelled"}
  <2>1. \A t \in Threads : results[t] \in Seq(Result)
    BY DEF TypeOK
  <2> QED BY <1>0, <2>1
<1>3. ReasonsOf(r) # {} <=> HasResult(r)
  <2>1. \A s : ReasonIn(s, r) # {} <=> \E k \in DOMAIN s : s[k].req = r
    BY DEF ReasonIn
  <2>2. ReasonsOf(r) # {} <=> ReasonIn(returned, r) # {} \/ \E t \in Threads : ReasonIn(results[t], r) # {}
    BY DEF ReasonsOf
  <2> QED BY <2>1, <2>2 DEF HasResult
<1>4. HasResult(r) <=> (r \in Final \/ \E t \in Threads : r \in Answered(t))
  BY DEF HasResult, Final, Answered, Reqs, ToSet
<1>5. ReasonsOf(r) \subseteq {"length", "cancelled"}
  <2>1. ReasonIn(returned, r) \subseteq {"length", "cancelled"}
    BY <1>1 DEF ReasonIn
  <2>2. \A t \in Threads : ReasonIn(results[t], r) \subseteq {"length", "cancelled"}
    BY <1>2 DEF ReasonIn
  <2> QED BY <2>1, <2>2 DEF ReasonsOf
<1> QED BY <1>3, <1>4, <1>5

LEMMA ReasonsStay ==
    ASSUME UNCHANGED <<results, returned>>
    PROVE  \A r : ReasonsOf(r)' = ReasonsOf(r)
BY DEF ReasonsOf, ReasonIn

LEMMA NoReasons ==
    ASSUME TypeOK, OnceInv, NEW r \in Requests,
           r \in ToSet(pending) \cup Resumable \/ (\E t \in Threads : r \in Own(t)) \/ fate[r] = "unsent"
    PROVE  ReasonsOf(r) = {}
<1>1. Apart
  BY DEF OnceInv
<1>2. CASE r \in ToSet(pending) \cup Resumable
  BY <1>1, <1>2, ReasonsTyped DEF Apart, Shared, Mine
<1>3. ASSUME NEW t \in Threads, r \in Own(t) PROVE ReasonsOf(r) = {}
  BY <1>1, <1>3, ReasonsTyped DEF Apart, Shared, Mine
<1>4. CASE fate[r] = "unsent"
  BY <1>1, <1>4, ReasonsTyped DEF Apart, Shared, Mine
<1> QED BY <1>2, <1>3, <1>4

\* What is in a session and will not be worked on has its result.
LEMMA SessionPlaces ==
    ASSUME AllInv, DistinctIds, NEW u \in Threads, NEW r \in InSession(u)
    PROVE  r \in Requests /\ (r \in Own(u) \/ ReasonsOf(r) # {})
<1>1. TypeOK /\ Slots(u) /\ Owed(u) /\ Alive
  BY DEF AllInv, SlotsInv, LossInv, LifeInv
<1>2. r \in Requests /\ r \in Here(u)
  <2>1. r \in ToSet(active[u]) \cup ToSet(batch[u]) \cup ToSet(ready[u])
    BY DEF InSession
  <2> QED BY <1>1, <2>1, ListsOfRequests, ToSetElement DEF Here
<1>3. fate[r] = "sent"
  BY <1>1, <1>2 DEF Alive
<1>4. CASE pc[u] \notin {"retire", "decode"}
  <2>1. r \in Own(u)
    BY <1>4 DEF Own
  <2> QED BY <1>2, <2>1
<1>5. CASE pc[u] \in {"retire", "decode"}
  <2>1. batch[u] = <<>>
    BY <1>1, <1>5 DEF Slots, PassPcs, PopPcs
  <2>2. r \in ToSet(active[u]) \/ r \in ToSet(ready[u])
    BY <2>1, ToSetEmpty DEF InSession
  <2>3. r \in ToSet(ready[u]) \/ (pc[u] = "retire" /\ r \in ToSet(scan[u])) \/ Settled(r)
    BY <1>1, <1>5, <2>2 DEF Owed
  <2>4. Settled(r) => ReasonsOf(r) # {}
    BY <1>1, <1>2, <1>3, ReasonsTyped DEF Settled
  <2> QED BY <1>2, <1>5, <2>3, <2>4 DEF Own
<1> QED BY <1>2, <1>4, <1>5

LEMMA StageQueued ==
    ASSUME AllInv, NEW r \in ToSet(pending), NEW t \in Threads
    PROVE  r \in Requests /\ fate[r] = "sent" /\ StageOf(r) = "queued"
<1>1. TypeOK /\ OnceInv /\ Alive
  BY DEF AllInv, LifeInv
<1>2. r \in Requests
  BY <1>1, ToSetElement DEF TypeOK
<1>3. fate[r] = "sent"
  BY <1>1 DEF Alive, Here
<1>4. ReasonsOf(r) = {}
  BY <1>1, <1>2, NoReasons
<1>5. fate[r] # "rejected" /\ fate[r] # "withdrawn" /\ "length" \notin ReasonsOf(r) /\ "cancelled" \notin ReasonsOf(r)
  BY <1>3, <1>4
<1>6. StageOf(r) = "queued"
  BY <1>5 DEF StageOf
<1> QED BY <1>2, <1>3, <1>6

LEMMA StagePaused ==
    ASSUME AllInv, NEW r \in ToSet(paused), NEW t \in Threads
    PROVE  r \in Requests /\ fate[r] = "sent" /\ r \notin ToSet(pending) /\ ReasonsOf(r) = {} /\ StageOf(r) = "paused"
<1>1. TypeOK /\ OnceInv /\ Alive /\ LossInv /\ Apart
  BY DEF AllInv, LifeInv, OnceInv
<1>2. r \in Requests
  BY <1>1, ToSetElement DEF TypeOK
<1>3. fate[r] = "sent"
  BY <1>1 DEF Alive, Here
<1>4. r \in Resumable \/ \E u \in Threads : r \in Own(u)
  BY <1>1, PausedPlaces
<1>5. ReasonsOf(r) = {}
  BY <1>1, <1>2, <1>4, NoReasons
<1>6. r \notin ToSet(pending)
  BY <1>1, <1>4 DEF Apart, Mine, Shared
<1>7. fate[r] # "rejected" /\ fate[r] # "withdrawn" /\ "length" \notin ReasonsOf(r) /\ "cancelled" \notin ReasonsOf(r)
  BY <1>3, <1>5
<1>8. StageOf(r) = "paused"
  BY <1>6, <1>7 DEF StageOf
<1> QED BY <1>2, <1>3, <1>5, <1>6, <1>8

LEMMA StageRunning ==
    ASSUME AllInv, NEW t \in Threads, NEW r \in InSession(t), r \in Own(t), r \notin ToSet(paused)
    PROVE  r \in Requests /\ fate[r] = "sent" /\ r \notin ToSet(pending) /\ ReasonsOf(r) = {} /\ StageOf(r) = "running"
<1>1. TypeOK /\ OnceInv /\ Alive /\ Apart
  BY DEF AllInv, LifeInv, OnceInv
<1>2. r \in Requests
  BY <1>1, ListsOfRequests, ToSetElement DEF InSession
<1>3. fate[r] = "sent"
  BY <1>1 DEF Alive, Here
<1>4. ReasonsOf(r) = {}
  BY <1>1, <1>2, NoReasons
<1>5. r \notin ToSet(pending)
  BY <1>1 DEF Apart, Mine, Shared
<1> QED BY <1>2, <1>3, <1>4, <1>5 DEF StageOf

\* A request that has not come to the queue is in no place.
LEMMA Outside ==
    ASSUME AllInv, DistinctIds, NEW r \in Requests,
           fate[r] = "unsent" \/ \E t \in Threads : r \in Unsubmitted(t)
    PROVE  /\ r \notin ToSet(pending) /\ r \notin ToSet(paused) /\ ~SomeSession(r) /\ ReasonsOf(r) = {}
           /\ fate[r] \in {"unsent", "sent"} /\ StageOf(r) = "new"
<1>1. TypeOK /\ SlotsInv /\ LossInv /\ OnceInv /\ Alive /\ Apart
  BY DEF AllInv, LifeInv, OnceInv
<1>2. fate[r] \in {"unsent", "sent"}
  BY <1>1 DEF Alive, Here
<1>3. \A t \in Threads : r \in Unsubmitted(t) => r \in Own(t) /\ pc[t] \in SubmitPcs
  BY DEF Own, Unsubmitted, SubmitPcs, StampPcs
<1>4. ReasonsOf(r) = {}
  BY <1>1, <1>3, NoReasons
<1>5. r \notin ToSet(pending) /\ r \notin Resumable
  BY <1>1, <1>3 DEF Apart, Mine, Shared
<1>6. \A u \in Threads : r \in Own(u) => r \in Unsubmitted(u)
  <2>1. ASSUME NEW u \in Threads, r \in Own(u), r \notin Unsubmitted(u) PROVE FALSE
    <3>1. PICK t \in Threads : r \in Unsubmitted(t)
      BY <1>1, <2>1 DEF Apart, Mine
    <3>2. t # u /\ r \in Own(t)
      BY <1>3, <2>1, <3>1
    <3> QED BY <1>1, <2>1, <3>2 DEF Apart, Mine
  <2> QED BY <2>1
<1>7. \A u \in Threads : pc[u] \in SubmitPcs => InSession(u) = {}
  <2>1. \A u \in Threads : pc[u] \in SubmitPcs => active[u] = <<>> /\ batch[u] = <<>> /\ ready[u] = <<>>
    BY <1>1 DEF OnceInv, Tidy, SlotsInv, Slots, SubmitPcs, StampPcs, RunPcs, PassPcs, PopPcs
  <2> QED BY <2>1, ToSetEmpty DEF InSession
<1>8. r \notin ToSet(paused)
  <2>1. SUFFICES ASSUME r \in ToSet(paused) PROVE FALSE
    OBVIOUS
  <2>2. PICK u \in Threads : pc[u] = "unpause" /\ r \in Own(u)
    BY <1>1, <1>5, <2>1, PausedPlaces
  <2> QED BY <1>3, <1>6, <2>2 DEF SubmitPcs, StampPcs
<1>9. ~SomeSession(r)
  BY <1>3, <1>4, <1>6, <1>7, SessionPlaces DEF SomeSession
<1> QED BY <1>2, <1>4, <1>5, <1>8, <1>9 DEF StageOf, SomeSession

------------------------------------------------------------------------------
(* What the abstract specification sees of a step *)

\* A step of t leaves r where the abstract specification sees it.
StaysPut(t, r) ==
    /\ fate'[r] = fate[r] /\ ReasonsOf(r)' = ReasonsOf(r)
    /\ r \in ToSet(pending)' <=> r \in ToSet(pending)
    /\ r \in ToSet(paused)' <=> r \in ToSet(paused)
    /\ r \in ToSet(paused) \/ ReasonsOf(r) # {} \/ (r \in InSession(t)' <=> r \in InSession(t))

LEMMA StageStays ==
    ASSUME TypeOK, NEW t \in Threads, \A u \in Threads \ {t} : SameThread(u), NEW r \in Requests, StaysPut(t, r)
    PROVE  StageOf(r)' = StageOf(r)
<1>1. \A u \in Threads \ {t} : InSession(u)' = InSession(u)
  BY DEF SameThread, SameCall, SameLocals, InSession
<1>2. CASE ReasonsOf(r) # {}
  <2>1. "length" \in ReasonsOf(r) \/ "cancelled" \in ReasonsOf(r)
    BY <1>2, ReasonsTyped
  <2> QED BY <2>1 DEF StageOf, StaysPut
<1>3. CASE r \in ToSet(paused)
  BY <1>3 DEF StageOf, StaysPut
<1>4. CASE r \in InSession(t)' <=> r \in InSession(t)
  <2>1. (\E u \in Threads : r \in InSession(u)') <=> \E u \in Threads : r \in InSession(u)
    BY <1>1, <1>4
  <2>2. fate'[r] = fate[r] /\ ReasonsOf(r)' = ReasonsOf(r)
    BY DEF StaysPut
  <2>3. (r \in ToSet(pending)' <=> r \in ToSet(pending)) /\ (r \in ToSet(paused)' <=> r \in ToSet(paused))
    BY DEF StaysPut
  <2> QED BY <2>1, <2>2, <2>3 DEF StageOf
<1> QED BY <1>2, <1>3, <1>4 DEF StaysPut

LEMMA Stutters ==
    ASSUME gen' = gen, \A r \in Requests : StageOf(r)' = StageOf(r)
    PROVE  [Lifecycle!Next]_(Lifecycle!vars)
BY DEF Lifecycle!vars

LEMMA Moves ==
    ASSUME NEW S \in SUBSET Requests, S # {}, NEW from, NEW to, \A r \in S : StageOf(r) = from /\ StageOf(r)' = to,
           \A r \in Requests \ S : StageOf(r)' = StageOf(r)
    PROVE  Lifecycle!Move(S, from, to)
BY DEF Lifecycle!Move

LEMMA AliveKept ==
    ASSUME Alive, NEW t \in Threads, \A u \in Threads \ {t} : SameThread(u), fate' = fate,
           ToSet(pending)' \cup ToSet(paused)' \cup InSession(t)' \cup Unsubmitted(t)' \subseteq Here(t)
    PROVE  Alive'
<1>1. \A u \in Threads \ {t} : InSession(u)' = InSession(u) /\ Unsubmitted(u)' = Unsubmitted(u)
  BY DEF SameThread, SameCall, SameLocals, InSession, Unsubmitted
<1>2. \A u \in Threads : Here(u)' \subseteq Here(t) \cup Here(u)
  BY <1>1 DEF Here
<1> QED BY <1>2 DEF Alive

\* Steps the abstract specification does not see.
LEMMA HiddenLives ==
    ASSUME TypeOK, Alive, NEW t \in Threads, \A u \in Threads \ {t} : SameThread(u),
           UNCHANGED <<pending, paused, gen, fate>>, \A r \in Requests : ReasonsOf(r)' = ReasonsOf(r),
           InSession(t)' = InSession(t), Unsubmitted(t)' \subseteq Unsubmitted(t)
    PROVE  Lives
<1>1. Alive'
  BY AliveKept DEF Here
<1>2. \A r \in Requests : StaysPut(t, r)
  BY DEF StaysPut
<1>3. \A r \in Requests : StageOf(r)' = StageOf(r)
  BY <1>2, StageStays
<1> QED BY <1>1, <1>3, Stutters DEF Lives

LEMMA QuietLives ==
    ASSUME TypeOK, Alive, NEW t \in Threads, \A u \in Threads \ {t} : SameThread(u),
           UNCHANGED <<pending, paused, gen, results, returned, fate>>,
           InSession(t)' = InSession(t), Unsubmitted(t)' \subseteq Unsubmitted(t)
    PROVE  Lives
<1>1. \A r \in Requests : ReasonsOf(r)' = ReasonsOf(r)
  BY ReasonsStay
<1> QED BY <1>1, HiddenLives

LEMMA HereRequests ==
    ASSUME TypeOK, LossInv, NEW u \in Threads
    PROVE  Here(u) \subseteq Requests
<1>1. call[u].batch \in Seq(Requests) /\ (call[u].batch # <<>> => Tail(call[u].batch) \in Seq(Requests))
  BY ListsOfRequests
<1>2. pc[u] \in StampPcs => call[u].batch # <<>>
  BY DEF LossInv, Owed
<1>3. Unsubmitted(u) \subseteq Requests
  BY <1>1, <1>2, ToSetElement DEF Unsubmitted
<1> QED BY <1>3, ListsOfRequests, ToSetElement DEF Here, InSession

LEMMA QueuedOnly ==
    ASSUME AllInv, DistinctIds, NEW r \in ToSet(pending), NEW u \in Threads
    PROVE  r \notin ToSet(paused) \cup InSession(u) \cup Unsubmitted(u)
<1>1. TypeOK /\ Apart /\ OnceInv /\ LossInv
  BY DEF AllInv, OnceInv
<1>2. \A v \in Threads : r \notin Own(v)
  BY <1>1 DEF Apart, Mine, Shared
<1>3. r \notin ToSet(paused)
  <2>1. r \notin Resumable
    BY <1>1 DEF Apart
  <2> QED BY <1>1, <1>2, <2>1, PausedPlaces
<1>4. r \notin Unsubmitted(u)
  BY <1>2 DEF Own
<1>5. r \notin InSession(u)
  <2>1. SUFFICES ASSUME r \in InSession(u) PROVE FALSE
    OBVIOUS
  <2>2. r \in Requests /\ ReasonsOf(r) # {}
    BY <1>2, <2>1, SessionPlaces
  <2> QED BY <1>1, <2>2, NoReasons
<1> QED BY <1>3, <1>4, <1>5

------------------------------------------------------------------------------
(* The calls of submit and cancel *)

\* Requests that have not come to the queue are refused.
LEMMA RefuseLives ==
    ASSUME AllInv, DistinctIds, NEW t \in Threads, \A u \in Threads \ {t} : SameThread(u),
           UNCHANGED <<pending, paused, gen, active, batch, ready, results, returned>>, pc'[t] = "idle",
           NEW S \in SUBSET Requests,
           (\A r \in S : fate[r] = "unsent") \/ S \subseteq Unsubmitted(t),
           fate' = [r \in Requests |-> IF r \in S THEN "rejected" ELSE fate[r]]
    PROVE  Lives
<1>1. TypeOK /\ Alive /\ Apart
  BY DEF AllInv, LifeInv, OnceInv
<1>2. /\ \A u \in Threads : InSession(u)' = InSession(u)
      /\ \A u \in Threads \ {t} : Unsubmitted(u)' = Unsubmitted(u)
      /\ Unsubmitted(t)' = {}
  <2>1. Unsubmitted(t)' = {}
    BY DEF Unsubmitted, SubmitPcs, StampPcs
  <2>2. \A u \in Threads \ {t} : Unsubmitted(u)' = Unsubmitted(u)
    BY DEF SameThread, SameCall, SameLocals, Unsubmitted
  <2> QED BY <2>1, <2>2 DEF InSession
<1>3. \A r \in S : /\ r \notin ToSet(pending) /\ r \notin ToSet(paused)
                   /\ \A u \in Threads : r \notin InSession(u)
                   /\ StageOf(r) = "new"
  BY Outside DEF SomeSession
<1>4. \A u \in Threads \ {t} : \A r \in Unsubmitted(u) : r \notin S
  <2>1. \A u \in Threads : \A r \in Unsubmitted(u) : fate[r] = "sent"
    BY <1>1 DEF Alive, Here
  <2>2. \A u \in Threads : Unsubmitted(u) \subseteq Mine(u)
    BY DEF Mine, Own
  <2> QED BY <1>1, <2>1, <2>2 DEF Apart
<1>5. Alive'
  <2>1. SUFFICES ASSUME NEW u \in Threads, NEW r \in Here(u)' PROVE fate'[r] = "sent"
    BY DEF Alive
  <2>2. r \in Here(u) /\ r \notin S
    BY <1>2, <1>3, <1>4, <2>1 DEF Here
  <2>3. fate[r] = "sent"
    BY <1>1, <2>2 DEF Alive
  <2>4. r \in Requests
    BY <2>2, HereRequests DEF AllInv
  <2> QED BY <2>2, <2>3, <2>4
<1>6. \A r \in Requests \ S : StageOf(r)' = StageOf(r)
  <2>1. \A r \in Requests \ S : StaysPut(t, r)
    BY <1>2, ReasonsStay DEF StaysPut
  <2> QED BY <1>1, <2>1, StageStays
<1>7. \A r \in S : StageOf(r)' = "refused"
  BY DEF StageOf
<1>8. CASE S = {}
  BY <1>5, <1>6, <1>8, Stutters DEF Lives
<1>9. CASE S # {}
  <2>1. Lifecycle!Move(S, "new", "refused")
    BY <1>3, <1>6, <1>7, <1>9, Moves
  <2>2. S \in SUBSET Lifecycle!In("new")
    BY <1>3 DEF Lifecycle!In
  <2>3. Lifecycle!Refuse(S)
    BY <2>1 DEF Lifecycle!Refuse
  <2> QED BY <1>5, <2>2, <2>3 DEF Lives, Lifecycle!Next
<1> QED BY <1>8, <1>9

LEMMA SubmitLives ==
    ASSUME AllInv, DistinctIds, NEW t \in Threads, NEW c \in Calls, Submit(t, c)
    PROVE  Lives
<1>1. /\ TypeOK /\ Alive /\ c.batch \in Seq(Requests) /\ ToSet(c.batch) \subseteq Requests
      /\ \A u \in Threads \ {t} : SameThread(u)
  <2>1. c.batch \in Seq(Requests)
    BY SchedulerAssumption
  <2> QED BY <2>1, ToSetElement, ClientLeavesOthers DEF AllInv, LifeInv
<1>2. /\ UNCHANGED <<pending, paused, gen, active, batch, ready, results, returned>>
      /\ \A r \in ToSet(c.batch) : fate[r] = "unsent"
      /\ pc[t] = "idle" /\ pc \in [Threads -> Pcs] /\ call \in [Threads -> [batch : Seq(Requests), block : Blocking]]
  BY <1>1 DEF Submit, Goto, TypeOK
<1>3. CASE \A r \in ToSet(c.batch) : Fits(r)
  <2>1. pc'[t] = "capacity" /\ call'[t] = c /\ fate' = [r \in Requests |-> IF r \in ToSet(c.batch) THEN "sent" ELSE fate[r]]
    BY <1>2, <1>3 DEF Submit, Goto
  <2>2. \A u \in Threads : InSession(u)' = InSession(u)
    BY <1>2 DEF InSession
  <2>3. Unsubmitted(t)' = ToSet(c.batch) /\ \A u \in Threads \ {t} : Unsubmitted(u)' = Unsubmitted(u)
    <3>1. Unsubmitted(t)' = ToSet(c.batch)
      BY <2>1 DEF Unsubmitted, SubmitPcs, StampPcs
    <3> QED BY <1>1, <3>1 DEF SameThread, SameCall, SameLocals, Unsubmitted
  <2>4. Alive'
    <3>1. ASSUME NEW u \in Threads, NEW r \in Here(u)' PROVE fate'[r] = "sent"
      <4>1. r \in Here(u) \/ r \in ToSet(c.batch)
        BY <1>2, <2>2, <2>3, <3>1 DEF Here
      <4>2. r \in ToSet(c.batch) => fate'[r] = "sent"
        BY <1>1, <2>1
      <4>3. r \in Here(u) => fate[r] = "sent"
        BY <1>1 DEF Alive
      <4>4. \A x \in Requests : fate[x] = "sent" => fate'[x] = "sent"
        BY <2>1
      <4>5. r \in Here(u) => r \in Requests
        BY <1>1, HereRequests DEF AllInv
      <4> QED BY <4>1, <4>2, <4>3, <4>4, <4>5
    <3> QED BY <3>1 DEF Alive
  <2>5. \A r \in Requests \ ToSet(c.batch) : StageOf(r)' = StageOf(r)
    <3>1. \A r \in Requests \ ToSet(c.batch) : StaysPut(t, r)
      BY <1>2, <2>1, <2>2, ReasonsStay DEF StaysPut
    <3> QED BY <1>1, <3>1, StageStays
  <2>6. \A r \in ToSet(c.batch) : StageOf(r)' = StageOf(r)
    <3>1. SUFFICES ASSUME NEW r \in ToSet(c.batch) PROVE StageOf(r)' = StageOf(r)
      OBVIOUS
    <3>2. /\ r \in Requests /\ StageOf(r) = "new" /\ ReasonsOf(r) = {} /\ r \notin ToSet(pending) /\ r \notin ToSet(paused)
          /\ \A u \in Threads : r \notin InSession(u)
      BY <1>1, <1>2, Outside DEF SomeSession
    <3>3. fate'[r] = "sent" /\ ReasonsOf(r)' = {} /\ r \notin ToSet(pending)' /\ r \notin ToSet(paused)'
      BY <1>2, <2>1, <3>2, ReasonsStay
    <3>4. \A u \in Threads : r \notin InSession(u)'
      BY <2>2, <3>2
    <3> QED BY <3>2, <3>3, <3>4 DEF StageOf
  <2> QED BY <1>2, <2>4, <2>5, <2>6, Stutters DEF Lives
<1>4. CASE ~\A r \in ToSet(c.batch) : Fits(r)
  <2>1. pc'[t] = "idle" /\ fate' = [r \in Requests |-> IF r \in ToSet(c.batch) THEN "rejected" ELSE fate[r]]
    BY <1>2, <1>4 DEF Submit, Goto
  <2> QED BY <1>1, <1>2, <2>1, RefuseLives
<1> QED BY <1>3, <1>4

LEMMA CapacityLives ==
    ASSUME AllInv, DistinctIds, NEW t \in Threads, CheckCapacity(t) \/ Recheck(t)
    PROVE  Lives
<1>1. TypeOK /\ Alive /\ \A u \in Threads \ {t} : SameThread(u)
  BY ClientLeavesOthers DEF AllInv, LifeInv, ClientStep
<1>2. /\ UNCHANGED <<pending, paused, gen, active, batch, ready, results, returned>>
      /\ pc[t] \in {"capacity", "recheck"} /\ pc \in [Threads -> Pcs] /\ call[t].batch \in Seq(Requests)
  BY <1>1, ListsOfRequests DEF CheckCapacity, Recheck, TypeOK
<1>3. Unsubmitted(t) = ToSet(call[t].batch)
  BY <1>2 DEF Unsubmitted, SubmitPcs, StampPcs
<1>4. Reject(t) \/ (UNCHANGED <<call, fate>> /\ pc'[t] \in {"enqueue", "waiting"})
  BY <1>2 DEF CheckCapacity, Recheck, Goto
<1>5. CASE Reject(t)
  <2>1. pc'[t] = "idle" /\ ToSet(call[t].batch) \in SUBSET Requests
    BY <1>2, <1>5, ToSetElement DEF Reject
  <2>2. fate' = [r \in Requests |-> IF r \in ToSet(call[t].batch) THEN "rejected" ELSE fate[r]]
    BY <1>5 DEF Reject
  <2> QED BY <1>1, <1>2, <1>3, <2>1, <2>2, RefuseLives
<1>6. CASE UNCHANGED <<call, fate>> /\ pc'[t] \in {"enqueue", "waiting"}
  <2>1. InSession(t)' = InSession(t)
    BY <1>2 DEF InSession
  <2>2. Unsubmitted(t)' = ToSet(call[t].batch)
    BY <1>6 DEF Unsubmitted, SubmitPcs, StampPcs
  <2> QED BY <1>1, <1>2, <1>3, <1>6, <2>1, <2>2, QuietLives
<1> QED BY <1>4, <1>5, <1>6

LEMMA WaitLives ==
    ASSUME AllInv, NEW t \in Threads,
           \/ StopWaiting(t) \/ Stamp(t) \/ Number(t) \/ CountSubmitted(t) \/ Run(t)
           \/ \E i \in Ids : Cancel(t, i)
    PROVE  Lives
<1>1. TypeOK /\ Alive /\ pc \in [Threads -> Pcs] /\ Owed(t) /\ call[t].batch \in Seq(Requests)
  BY ListsOfRequests DEF AllInv, LifeInv, TypeOK, LossInv
<1>2. \A u \in Threads \ {t} : SameThread(u)
  BY <1>1, ClientLeavesOthers, RunLeavesOthers DEF ClientStep, AllInv
<1>3. UNCHANGED <<pending, paused, gen, active, batch, ready, results, returned, fate>>
  BY DEF StopWaiting, Stamp, Number, CountSubmitted, Run, Cancel, shared, locals, history
<1>4. InSession(t)' = InSession(t)
  BY <1>3 DEF InSession
<1>5. Unsubmitted(t)' \subseteq Unsubmitted(t)
  <2>1. CASE StopWaiting(t)
    BY <1>1, <2>1 DEF StopWaiting, Goto, Unsubmitted, SubmitPcs, StampPcs, locals
  <2>2. CASE CountSubmitted(t)
    <3>1. pc[t] = "count" /\ pc'[t] = "enqueue" /\ call[t].batch # <<>> /\ call'[t].batch = RemoveAt(call[t].batch, 1)
      <4>1. call \in [Threads -> [batch : Seq(Requests), block : Blocking]]
        BY <1>1 DEF TypeOK
      <4> QED BY <1>1, <2>2, <4>1 DEF CountSubmitted, Goto, Owed, StampPcs
    <3>2. RemoveAt(call[t].batch, 1) = Tail(call[t].batch)
      BY <1>1, <3>1, RemoveAtHead
    <3> QED BY <3>1, <3>2 DEF Unsubmitted, SubmitPcs, StampPcs
  <2>3. CASE Run(t) \/ \E i \in Ids : Cancel(t, i)
    <3>1. pc'[t] \notin SubmitPcs
      BY <1>1, <2>3 DEF Run, Cancel, Goto, SubmitPcs, StampPcs
    <3> QED BY <3>1 DEF Unsubmitted, SubmitPcs, StampPcs
  <2>4. CASE Stamp(t) \/ Number(t)
    <3>1. pc[t] \in StampPcs /\ pc'[t] \in StampPcs /\ call' = call
      BY <1>1, <2>4 DEF Stamp, Number, Goto, StampPcs, locals
    <3> QED BY <3>1 DEF Unsubmitted
  <2> QED BY <2>1, <2>2, <2>3, <2>4
<1> QED BY <1>1, <1>2, <1>3, <1>4, <1>5, QuietLives

LEMMA EnqueueLives ==
    ASSUME AllInv, DistinctIds, NEW t \in Threads, Enqueue(t)
    PROVE  Lives /\ (call[t].batch # <<>> => \E r \in Requests : Lifecycle!Accept(r))
<1>1. /\ TypeOK /\ Alive /\ pc \in [Threads -> Pcs] /\ call[t].batch \in Seq(Requests) /\ pending \in Seq(Requests)
      /\ \A u \in Threads \ {t} : SameThread(u)
  BY ListsOfRequests, ClientLeavesOthers DEF AllInv, LifeInv, TypeOK, ClientStep
<1>2. /\ UNCHANGED <<paused, gen, active, batch, ready, results, returned, fate>>
      /\ pc[t] = "enqueue" /\ InSession(t)' = InSession(t)
  BY DEF Enqueue, Goto, InSession, history
<1>3. Unsubmitted(t) = ToSet(call[t].batch)
  BY <1>2 DEF Unsubmitted, SubmitPcs, StampPcs
<1>4. CASE call[t].batch = <<>>
  <2>1. pending' = pending /\ pc'[t] = "idle"
    BY <1>1, <1>4 DEF Enqueue, Goto
  <2>2. Unsubmitted(t)' = {}
    BY <2>1 DEF Unsubmitted, SubmitPcs, StampPcs
  <2> QED BY <1>1, <1>2, <1>4, <2>1, <2>2, QuietLives
<1>5. CASE call[t].batch # <<>>
  <2>0. PICK h \in Requests : h = Head(call[t].batch)
    BY <1>1, <1>5, ToSetTail
  <2>1. h \in Requests /\ ToSet(call[t].batch) = {h} \cup ToSet(Tail(call[t].batch))
    BY <1>1, <1>5, <2>0, ToSetTail
  <2>2. pending' = Append(pending, h) /\ pc'[t] = "stamp" /\ call' = call
    BY <1>1, <1>5, <2>0 DEF Enqueue, Goto
  <2>3. ToSet(pending)' = ToSet(pending) \cup {h}
    BY <1>1, <2>1, <2>2, ToSetAppend
  <2>4. Unsubmitted(t)' = ToSet(Tail(call[t].batch))
    BY <2>2 DEF Unsubmitted, StampPcs
  <2>5. h \in Unsubmitted(t)
    BY <1>3, <2>1
  <2>6. h \notin ToSet(pending) /\ ReasonsOf(h) = {} /\ StageOf(h) = "new"
    BY <2>1, <2>5, Outside
  <2>7. fate[h] = "sent"
    BY <1>1, <2>5 DEF Alive, Here
  <2>8. StageOf(h)' = "queued"
    <3>1. fate'[h] = "sent" /\ ReasonsOf(h)' = {} /\ h \in ToSet(pending)'
      BY <1>2, <2>3, <2>6, <2>7, ReasonsStay
    <3> QED BY <3>1 DEF StageOf
  <2>9. \A r \in Requests \ {h} : StageOf(r)' = StageOf(r)
    <3>1. \A r \in Requests \ {h} : StaysPut(t, r)
      BY <1>2, <2>3, ReasonsStay DEF StaysPut
    <3> QED BY <1>1, <3>1, StageStays
  <2>10. Alive'
    <3>1. ToSet(pending)' \cup ToSet(paused)' \cup InSession(t)' \cup Unsubmitted(t)' \subseteq Here(t)
      BY <1>2, <1>3, <2>1, <2>3, <2>4 DEF Here
    <3> QED BY <1>1, <1>2, <3>1, AliveKept
  <2>11. {h} \in SUBSET Requests /\ {h} # {} /\ \A r \in {h} : StageOf(r) = "new" /\ StageOf(r)' = "queued"
    BY <2>1, <2>6, <2>8
  <2>12. Lifecycle!Move({h}, "new", "queued")
    BY <2>9, <2>11, Moves
  <2>13. Lifecycle!Accept(h)
    BY <1>2, <2>12 DEF Lifecycle!Accept
  <2> QED BY <2>1, <2>10, <2>13 DEF Lives, Lifecycle!Next
<1> QED BY <1>4, <1>5

LEMMA WithdrawLives ==
    ASSUME AllInv, DistinctIds, NEW t \in Threads, Withdraw(t)
    PROVE  Lives /\ \E r \in Requests : Lifecycle!Withdraw(r)
<1>1. /\ TypeOK /\ Alive /\ pc \in [Threads -> Pcs] /\ pending \in Seq(Requests) /\ IsInjective(pending)
      /\ fate \in [Requests -> Fates] /\ \A u \in Threads \ {t} : SameThread(u)
  BY ListsOfRequests, ClientLeavesOthers DEF AllInv, LifeInv, TypeOK, ClientStep, OnceInv
<1>2. /\ UNCHANGED <<paused, gen, active, batch, ready, results, returned>>
      /\ pc[t] = "withdraw" /\ pc'[t] = "idle" /\ InSession(t)' = InSession(t)
  BY <1>1 DEF Withdraw, Goto, InSession
<1>3. pick[t] \in DOMAIN pending /\ call[t].batch = <<pending[pick[t]]>>
  BY <1>2 DEF AllInv, LifeInv, Consuming
<1>0. PICK w \in Requests : w = pending[pick[t]]
  BY <1>1, <1>3
<1>4. w \in Requests /\ w \in ToSet(pending) /\ ToSet(RemoveAt(pending, pick[t])) = ToSet(pending) \ {w}
  BY <1>0, <1>1, <1>3, InjectiveRemoveAt, ToSetRemoveAt
<1>5. pending' = RemoveAt(pending, pick[t]) /\ fate' = [fate EXCEPT ![w] = "dropped", ![Head(call[t].batch)] = "withdrawn"]
  <2>1. pick[t] <= Len(pending) /\ ~(pick[t] > Len(pending))
    BY <1>1, <1>3
  <2> QED BY <1>0, <2>1 DEF Withdraw
<1>6. Head(call[t].batch) = w
  BY <1>0, <1>3
<1>7. ToSet(pending)' = ToSet(pending) \ {w} /\ fate'[w] = "withdrawn" /\ \A r \in Requests \ {w} : fate'[r] = fate[r]
  BY <1>1, <1>4, <1>5, <1>6
<1>8. StageOf(w) = "queued"
  BY <1>4, StageQueued
<1>9. StageOf(w)' = "withdrawn"
  BY <1>7 DEF StageOf
<1>10. \A r \in Requests \ {w} : StageOf(r)' = StageOf(r)
  <2>1. \A r \in Requests \ {w} : StaysPut(t, r)
    BY <1>2, <1>7, ReasonsStay DEF StaysPut
  <2> QED BY <1>1, <2>1, StageStays
<1>11. Alive'
  <2>1. \A u \in Threads : w \notin ToSet(paused) \cup InSession(u) \cup Unsubmitted(u)
    BY <1>4, QueuedOnly
  <2>2. Unsubmitted(t)' = {}
    BY <1>2 DEF Unsubmitted, SubmitPcs, StampPcs
  <2>3. \A u \in Threads \ {t} : Unsubmitted(u)' = Unsubmitted(u) /\ InSession(u)' = InSession(u)
    BY <1>1 DEF SameThread, SameCall, SameLocals, Unsubmitted, InSession
  <2>4. ASSUME NEW u \in Threads, NEW r \in Here(u)' PROVE r \in Here(u) /\ r # w
    BY <1>2, <1>7, <2>1, <2>2, <2>3, <2>4 DEF Here
  <2>5. \A u \in Threads : Here(u) \subseteq Requests
    BY <1>1, HereRequests DEF AllInv
  <2> QED BY <1>1, <1>7, <2>4, <2>5 DEF Alive
<1>12. {w} \in SUBSET Requests /\ {w} # {} /\ \A r \in {w} : StageOf(r) = "queued" /\ StageOf(r)' = "withdrawn"
  BY <1>4, <1>8, <1>9
<1>13. Lifecycle!Move({w}, "queued", "withdrawn")
  BY <1>10, <1>12, Moves
<1>14. Lifecycle!Withdraw(w)
  BY <1>2, <1>13 DEF Lifecycle!Withdraw
<1> QED BY <1>4, <1>11, <1>14 DEF Lives, Lifecycle!Next

------------------------------------------------------------------------------
(* The loop *)

\* One consumer's pops find what they selected.
LEMMA ScoringFinds ==
    ASSUME TypeOK, SlotsInv, NEW t \in Threads, Fresh(t), Scoring(t)
    PROVE  ~Raise(t)
<1>1. /\ pc \in [Threads -> Pcs] /\ pending \in Seq(Requests) /\ Len(pending) \in Nat
      /\ quota[t] \in Nat /\ Slots(t) /\ Len(choice[t].scores) \in Nat
  BY DEF TypeOK, SlotsInv
<1>2. SUFFICES ASSUME Raise(t) PROVE FALSE
  OBVIOUS
<1>3. pc'[t] = "idle"
  BY <1>1, <1>2 DEF Raise
<1>4. CASE Select(t) \/ Rank(t)
  BY <1>1, <1>3, <1>4 DEF Select, Rank, Goto
<1>5. CASE OpenRange(t)
  <2>1. pc[t] = "range" /\ pending = <<>>
    BY <1>1, <1>3, <1>5 DEF OpenRange, Goto
  <2>2. quota[t] > 0 /\ quota[t] <= Len(pending)
    BY <1>1, <2>1 DEF Slots, Fresh, PassPcs, PopPcs
  <2> QED BY <1>1, <2>1, <2>2
<1>6. CASE Weigh(t)
  <2>1. pc[t] = "weigh" /\ Len(choice[t].scores) + 1 <= pick[t] /\ Len(choice[t].scores) + 1 > Len(pending)
    BY <1>1, <1>3, <1>6 DEF Weigh, Goto
  <2>2. pick[t] \in 1..Len(pending)
    BY <1>1, <2>1 DEF Fresh
  <2> QED BY <1>1, <2>1, <2>2
<1> QED BY <1>4, <1>5, <1>6 DEF Scoring

LEMMA ScoringHidden ==
    ASSUME AllInv, NEW t \in Threads, Scoring(t)
    PROVE  /\ ~Raise(t)
           /\ UNCHANGED <<pending, paused, metrics, gen, active, batch, ready, results, returned, fate>>
           /\ pc[t] \in PassPcs /\ pc'[t] \in PopPcs \cup {"prefill"}
<1>1. TypeOK /\ SlotsInv /\ Fresh(t) /\ pc \in [Threads -> Pcs]
  BY DEF AllInv, FreshInv, TypeOK
<1>2. ~Raise(t)
  BY <1>1, ScoringFinds
<1>3. /\ UNCHANGED <<shared, gen, active, batch, ready, results, history>>
      /\ pc[t] \in PassPcs
      /\ \E to \in PopPcs \cup {"prefill"} : pc' = [pc EXCEPT ![t] = to]
  BY <1>1, <1>2, ScoringStep
<1>4. pc'[t] \in PopPcs \cup {"prefill"}
  BY <1>1, <1>3
<1> QED BY <1>2, <1>3, <1>4 DEF shared, history

LEMMA QuietRound ==
    ASSUME AllInv, NEW t \in Threads,
           \/ Admit(t) \/ Preempt(t) \/ Round(t) \/ Prefill(t) \/ Snapshot(t)
           \/ Loop(t) \/ Scoring(t)
    PROVE  /\ UNCHANGED <<pending, paused, gen, fate>> /\ InSession(t)' = InSession(t)
           /\ Unsubmitted(t)' = {} /\ (Scoring(t) => UNCHANGED <<results, returned>>)
<1>1. /\ TypeOK /\ pc \in [Threads -> Pcs] /\ Tidy(t) /\ active[t] \in Seq(Requests) /\ batch[t] \in Seq(Requests)
      /\ scan[t] \in Seq(Requests) /\ ready[t] \in Seq(Requests)
      /\ active \in [Threads -> Seq(Requests)] /\ batch \in [Threads -> Seq(Requests)] /\ ready \in [Threads -> Seq(Requests)]
  BY ListsOfRequests DEF AllInv, TypeOK, OnceInv
<1>0. Scoring(t) => /\ UNCHANGED <<pending, paused, gen, active, batch, ready, results, returned, fate>>
                    /\ pc'[t] \notin SubmitPcs
  BY ScoringHidden DEF PopPcs, SubmitPcs, StampPcs
<1>2. UNCHANGED <<pending, paused, gen, fate>>
  BY <1>0 DEF Admit, Preempt, Round, Prefill, Snapshot, Loop, shared, history
<1>3. Unsubmitted(t)' = {}
  <2>1. pc'[t] \notin SubmitPcs
    BY <1>0, <1>1 DEF Admit, Preempt, Round, Prefill, Snapshot, Loop, Goto, SubmitPcs, StampPcs
  <2> QED BY <2>1 DEF Unsubmitted, SubmitPcs, StampPcs
<1>4. CASE UNCHANGED <<active, batch, ready>>
  <2>1. InSession(t)' = InSession(t)
    BY <1>4 DEF InSession
  <2> QED BY <1>0, <1>2, <1>3, <2>1
<1>5. CASE Admit(t) \/ Preempt(t) \/ Round(t) \/ Loop(t) \/ Scoring(t)
  BY <1>0, <1>4, <1>5 DEF Admit, Preempt, Round, Loop, locals
<1>6. CASE Prefill(t)
  <2>1. active'[t] = active[t] \o batch[t] /\ batch'[t] = <<>> /\ ready'[t] = ready[t]
    BY <1>1, <1>6 DEF Prefill
  <2>2. ToSet(active'[t]) = ToSet(active[t]) \cup ToSet(batch[t]) /\ ToSet(batch'[t]) = {}
    BY <1>1, <2>1, ToSetConcat, ToSetEmpty
  <2> QED BY <1>0, <1>2, <1>3, <2>1, <2>2 DEF InSession
<1>7. CASE Snapshot(t)
  <2>1. active' = active /\ batch' = batch /\ pc[t] = "snapshot"
    BY <1>7 DEF Snapshot, Goto
  <2>2. ready' = ready \/ (scan[t] # <<>> /\ ready'[t] = Append(ready[t], Head(scan[t])))
    BY <1>1, <1>7 DEF Snapshot
  <2>3. scan[t] # <<>> => Head(scan[t]) \in Requests /\ Head(scan[t]) \in ToSet(active[t])
    BY <1>1, <2>1, ToSetTail DEF Tidy
  <2>4. CASE ready' = ready
    BY <1>4, <2>1, <2>4
  <2>5. CASE scan[t] # <<>> /\ ready'[t] = Append(ready[t], Head(scan[t]))
    <3>1. PICK h \in Requests : h = Head(scan[t]) /\ h \in ToSet(active[t])
      BY <2>3, <2>5
    <3>2. ToSet(Append(ready[t], h)) = ToSet(ready[t]) \cup {h}
      BY <1>1, ToSetAppend
    <3>3. ToSet(ready'[t]) = ToSet(ready[t]) \cup {h}
      BY <2>5, <3>1, <3>2
    <3>4. InSession(t)' = InSession(t)
      BY <2>1, <3>1, <3>3 DEF InSession
    <3> QED BY <1>0, <1>2, <1>3, <3>4
  <2> QED BY <2>2, <2>4, <2>5
<1> QED BY <1>5, <1>6, <1>7

LEMMA ReasonsReturned ==
    ASSUME TypeOK, NEW t \in Threads, returned' = returned \o results[t],
           results' = [results EXCEPT ![t] = <<>>], NEW r \in Requests
    PROVE  ReasonsOf(r)' = ReasonsOf(r)
<1>1. returned \in Seq(Result) /\ results \in [Threads -> Seq(Result)]
  BY DEF TypeOK
<1>2. \A s, z \in Seq(Result) : ReasonIn(s \o z, r) = ReasonIn(s, r) \cup ReasonIn(z, r)
  <2>1. ASSUME NEW s \in Seq(Result), NEW z \in Seq(Result)
        PROVE  ReasonIn(s \o z, r) = ReasonIn(s, r) \cup ReasonIn(z, r)
    <3>1. /\ s \o z \in Seq(Result) /\ Len(s \o z) = Len(s) + Len(z) /\ Len(s) \in Nat /\ Len(z) \in Nat
          /\ \A i \in 1..Len(s) : (s \o z)[i] = s[i]
          /\ \A i \in 1..Len(z) : (s \o z)[Len(s) + i] = z[i]
      BY ConcatElements
    <3> DEFINE c == s \o z
    <3>2. DOMAIN s = 1..Len(s) /\ DOMAIN z = 1..Len(z) /\ DOMAIN c = 1..(Len(s) + Len(z))
      BY <3>1
    <3>3. \A i \in 1..Len(s) : i \in DOMAIN c /\ c[i] = s[i]
      BY <3>1, <3>2
    <3>4. \A i \in 1..Len(z) : Len(s) + i \in DOMAIN c /\ c[Len(s) + i] = z[i]
      BY <3>1, <3>2
    <3>5. \A i \in DOMAIN c : (i \in 1..Len(s) /\ c[i] = s[i]) \/ \E j \in 1..Len(z) : c[i] = z[j]
      <4>1. SUFFICES ASSUME NEW i \in DOMAIN c, ~(i \in 1..Len(s)) PROVE \E j \in 1..Len(z) : c[i] = z[j]
        BY <3>3
      <4>2. i - Len(s) \in 1..Len(z) /\ i = Len(s) + (i - Len(s))
        BY <3>1, <3>2, <4>1
      <4> QED BY <3>4, <4>2
    <3> HIDE DEF c
    <3>6. ReasonIn(c, r) = ReasonIn(s, r) \cup ReasonIn(z, r)
      <4>1. \A q : \A x : x \in ReasonIn(q, r) <=> \E k \in DOMAIN q : q[k].req = r /\ q[k].reason = x
        BY DEF ReasonIn
      <4>2. \A x \in ReasonIn(c, r) : x \in ReasonIn(s, r) \/ x \in ReasonIn(z, r)
        BY <3>2, <3>5, <4>1
      <4>3. \A x \in ReasonIn(s, r) : x \in ReasonIn(c, r)
        BY <3>2, <3>3, <4>1
      <4>4. \A x \in ReasonIn(z, r) : x \in ReasonIn(c, r)
        <5>1. SUFFICES ASSUME NEW x \in ReasonIn(z, r) PROVE x \in ReasonIn(c, r)
          OBVIOUS
        <5>2. PICK k \in 1..Len(z) : z[k].req = r /\ z[k].reason = x
          BY <3>2, <4>1, <5>1
        <5>3. Len(s) + k \in DOMAIN c /\ c[Len(s) + k] = z[k]
          BY <3>4, <5>2
        <5> QED BY <4>1, <5>2, <5>3
      <4> QED BY <4>2, <4>3, <4>4
    <3> QED BY <3>6 DEF c
  <2> QED BY <2>1
<1>3. ReasonIn(<<>>, r) = {}
  BY DEF ReasonIn
<1>4. ReasonIn(returned, r)' = ReasonIn(returned, r) \cup ReasonIn(results[t], r)
  <2>1. ReasonIn(returned, r)' = ReasonIn(returned \o results[t], r)
    BY DEF ReasonIn
  <2> QED BY <1>1, <1>2, <2>1
<1>5. ReasonIn(results[t], r)' = {} /\ \A u \in Threads \ {t} : ReasonIn(results[u], r)' = ReasonIn(results[u], r)
  <2>1. results'[t] = <<>> /\ \A u \in Threads \ {t} : results'[u] = results[u]
    BY <1>1
  <2> QED BY <2>1 DEF ReasonIn
<1> QED BY <1>4, <1>5 DEF ReasonsOf

\* The steps of a round that only the model sees.
LEMMA RoundLives ==
    ASSUME AllInv, NEW t \in Threads,
           \/ Admit(t) \/ Preempt(t) \/ Round(t) \/ Prefill(t) \/ Snapshot(t)
           \/ Loop(t) \/ Scoring(t)
    PROVE  Lives
<1>1. TypeOK /\ Alive /\ SlotsInv
  BY DEF AllInv, LifeInv
<1>2. \A u \in Threads \ {t} : SameThread(u)
  BY <1>1, RunLeavesOthers DEF RunStep, Scoring
<1>4. UNCHANGED <<pending, paused, gen, fate>> /\ InSession(t)' = InSession(t) /\ Unsubmitted(t)' = {}
  BY QuietRound
<1>5. CASE UNCHANGED <<results, returned>>
  BY <1>1, <1>2, <1>4, <1>5, QuietLives
<1>6. CASE returned' = returned \o results[t] /\ results' = [results EXCEPT ![t] = <<>>]
  <2>1. \A r \in Requests : ReasonsOf(r)' = ReasonsOf(r)
    BY <1>1, <1>6, ReasonsReturned
  <2> QED BY <1>1, <1>2, <1>4, <2>1, HiddenLives
<1>7. CASE Admit(t) \/ Preempt(t) \/ Round(t) \/ Prefill(t) \/ Snapshot(t) \/ Scoring(t)
  BY <1>5, <1>7, QuietRound DEF Admit, Preempt, Round, Prefill, Snapshot, history, locals
<1> QED BY <1>5, <1>6, <1>7 DEF Loop

\* While the loop runs, every request the abstract specification calls running
\* is in its sessions.
LEMMA RunningHere ==
    ASSUME AllInv, OneConsumer, NEW t \in Threads, pc[t] \in RunPcs, NEW r \in Requests, StageOf(r) = "running"
    PROVE  r \in InSession(t)
<1>1. PICK u \in Threads : r \in InSession(u)
  BY DEF StageOf
<1>2. Slots(u) /\ Tidy(u) /\ LossInv
  BY DEF AllInv, SlotsInv, OnceInv
<1>3. pc[u] \in RunPcs
  <2>1. SUFFICES ASSUME pc[u] \notin RunPcs PROVE FALSE
    OBVIOUS
  <2>2. active[u] = <<>> /\ batch[u] = <<>> /\ ready[u] = <<>>
    BY <1>2, <2>1 DEF Slots, Tidy, RunPcs, PassPcs, PopPcs
  <2> QED BY <1>1, <2>2, ToSetEmpty DEF InSession
<1>4. t = u
  BY <1>2, <1>3, ConsumerAlone
<1> QED BY <1>1, <1>4

LEMMA ListCardinality ==
    ASSUME NEW S, NEW s \in Seq(S)
    PROVE  IsFiniteSet(ToSet(s)) /\ Cardinality(ToSet(s)) <= Len(s) /\ Cardinality(ToSet(s)) \in Nat
<1>1. Len(s) \in Nat /\ DOMAIN s = 1..Len(s) /\ IsFiniteSet(1..Len(s)) /\ Cardinality(1..Len(s)) = Len(s)
  <2>1. Len(s) \in Nat /\ DOMAIN s = 1..Len(s)
    OBVIOUS
  <2>2. IsFiniteSet(1..Len(s)) /\ Cardinality(1..Len(s)) = IF 1 > Len(s) THEN 0 ELSE Len(s) - 1 + 1
    BY <2>1, FS_Interval
  <2> QED BY <2>1, <2>2
<1>2. ToSet(s) = {s[i] : i \in 1..Len(s)}
  BY <1>1 DEF ToSet
<1>3. s \in Surjection(1..Len(s), ToSet(s))
  BY <1>1, <1>2 DEF Surjection
<1>4. IsFiniteSet(ToSet(s)) /\ Cardinality(ToSet(s)) <= Cardinality(1..Len(s))
  BY <1>1, <1>3, FS_Surjection
<1> QED BY <1>1, <1>4, FS_CardinalityType

\* The abstract specification has its own copy of the operator.
LEMMA SameCardinality ==
    ASSUME NEW S
    PROVE  Lifecycle!Cardinality(S) = Cardinality(S)
BY DEF Lifecycle!Cardinality, Cardinality

LEMMA OwnNotPaused ==
    ASSUME AllInv, NEW t \in Threads, NEW r \in Own(t), pc[t] # "unpause"
    PROVE  r \notin ToSet(paused)
<1>1. TypeOK /\ LossInv /\ Apart
  BY DEF AllInv, OnceInv
<1>2. r \notin Resumable
  BY <1>1 DEF Apart, Mine, Shared
<1>3. \A u \in Threads : pc[u] = "unpause" => r \notin Own(u)
  BY <1>1 DEF Apart, Mine
<1> QED BY <1>1, <1>2, <1>3, PausedPlaces

LEMMA ResumeLives ==
    ASSUME AllInv, NEW t \in Threads, Resume(t)
    PROVE  Lives
<1>1. /\ TypeOK /\ Alive /\ pc \in [Threads -> Pcs] /\ paused \in Seq(Requests)
      /\ active[t] \in Seq(Requests) /\ active \in [Threads -> Seq(Requests)]
  BY ListsOfRequests DEF AllInv, LifeInv, TypeOK
<1>2. \A u \in Threads \ {t} : SameThread(u)
  BY <1>1, RunLeavesOthers DEF RunStep, AllInv
<1>3. UNCHANGED <<pending, gen, batch, ready, results, returned, fate>>
  BY DEF Resume, history
<1>4. Unsubmitted(t)' = {}
  <2>1. pc'[t] \notin SubmitPcs
    BY <1>1 DEF Resume, Goto, SubmitPcs, StampPcs
  <2> QED BY <2>1 DEF Unsubmitted, SubmitPcs, StampPcs
<1>5. CASE UNCHANGED <<paused, active>>
  <2>1. InSession(t)' = InSession(t)
    BY <1>3, <1>5 DEF InSession
  <2> QED BY <1>1, <1>2, <1>3, <1>4, <1>5, <2>1, QuietLives
<1>6. ASSUME NEW s \in Sorted(paused, Ahead), paused' = s,
             active' = [active EXCEPT ![t] = @ \o SubSeq(s, 1, Least(Capacity(t), Len(s)))], Capacity(t) > 0
      PROVE  Lives
  <2>1. s \in Seq(Requests) /\ ToSet(s) = ToSet(paused)
    BY <1>1, <1>6, SortedType, SortedElements
  <2> DEFINE n == Least(Capacity(t), Len(s))
  <2>2. n \in 0..Len(s)
    <3>1. Len(active[t]) \in Nat /\ Len(s) \in Nat /\ MaxBatch \in Nat
      BY <1>1, <2>1, SchedulerAssumption
    <3> QED BY <1>6, <3>1 DEF Least, Capacity
  <2>3. active'[t] = active[t] \o SubSeq(s, 1, n)
    BY <1>1, <1>6
  <2> HIDE DEF n
  <2>4. PICK p \in Seq(Requests) : p = SubSeq(s, 1, n) /\ Len(p) = n /\ \A i \in 1..n : p[i] = s[i]
    BY <2>1, <2>2, PrefixElements
  <2>5. ToSet(p) \subseteq ToSet(s)
    <3>1. \A x \in ToSet(p) : \E i \in 1..n : s[i] = x
      <4>1. Len(p) = n /\ \A i \in 1..n : p[i] = s[i]
        BY <2>4
      <4>2. \A x \in ToSet(p) : \E i \in 1..Len(p) : p[i] = x
        BY ToSetElement
      <4> QED BY <4>1, <4>2
    <3>2. 1..n \subseteq 1..Len(s)
      BY <2>1, <2>2
    <3> QED BY <2>1, <3>1, <3>2, ToSetElement
  <2>6. ToSet(active'[t]) = ToSet(active[t]) \cup ToSet(p)
    <3>1. active'[t] = active[t] \o p
      BY <2>3, <2>4
    <3>2. ToSet(active[t] \o p) = ToSet(active[t]) \cup ToSet(p)
      BY <1>1, ToSetConcat
    <3> QED BY <3>1, <3>2
  <2>7. ToSet(paused)' = ToSet(paused)
    BY <1>6, <2>1
  <2>8. InSession(t) \subseteq InSession(t)' /\ InSession(t)' \subseteq InSession(t) \cup ToSet(paused)
    BY <1>3, <2>1, <2>5, <2>6 DEF InSession
  <2>9. Alive'
    <3>1. ToSet(pending)' \cup ToSet(paused)' \cup InSession(t)' \cup Unsubmitted(t)' \subseteq Here(t)
      BY <1>3, <1>4, <2>7, <2>8 DEF Here
    <3> QED BY <1>1, <1>2, <1>3, <3>1, AliveKept
  <2>10. \A r \in Requests : StaysPut(t, r)
    BY <1>3, <2>7, <2>8, ReasonsStay DEF StaysPut
  <2>11. \A r \in Requests : StageOf(r)' = StageOf(r)
    BY <1>1, <1>2, <2>10, StageStays
  <2> QED BY <1>3, <2>9, <2>11, Stutters DEF Lives
<1> QED BY <1>5, <1>6 DEF Resume

LEMMA UnpauseLives ==
    ASSUME AllInv, DistinctIds, OneConsumer, NEW t \in Threads, Unpause(t)
    PROVE  Lives
<1>1. /\ TypeOK /\ Alive /\ LossInv /\ Slots(t) /\ pc[t] = "unpause" /\ pc'[t] = "admit" /\ pick[t] \in Nat
      /\ paused \in Seq(Requests) /\ IsInjective(paused) /\ active[t] \in Seq(Requests) /\ MaxBatch \in Nat
  <2>1. pc \in [Threads -> Pcs] /\ pick[t] \in Nat /\ IsInjective(paused) /\ Slots(t)
    BY DEF AllInv, TypeOK, OnceInv, SlotsInv
  <2> QED BY <2>1, ListsOfRequests, SchedulerAssumption DEF AllInv, LifeInv, Unpause, Goto
<1>2. \A u \in Threads \ {t} : SameThread(u)
  BY <1>1, RunLeavesOthers DEF RunStep, AllInv
<1>3. UNCHANGED <<pending, gen, active, batch, ready, results, returned, fate>>
  BY DEF Unpause, history
<1>4. InSession(t)' = InSession(t) /\ Unsubmitted(t)' = {}
  BY <1>1, <1>3 DEF InSession, Unsubmitted, SubmitPcs, StampPcs
<1> DEFINE S == {paused[k] : k \in {j \in 1..Len(paused) : j <= pick[t]}}
<1>5. /\ S \subseteq Requests /\ S \subseteq ToSet(paused) /\ ToSet(paused)' = ToSet(paused) \ S
  <2>1. CASE pick[t] <= Len(paused)
    <3>1. ToSet(SubSeq(paused, pick[t] + 1, Len(paused))) = {paused[i] : i \in (pick[t] + 1)..Len(paused)}
      <4>1. paused \in Seq(Requests) /\ IsInjective(paused) /\ Len(paused) \in Nat
        BY <1>1
      <4>2. pick[t] + 1 \in 1..(Len(paused) + 1) /\ Len(paused) \in 0..Len(paused)
        BY <1>1, <2>1, <4>1
      <4> QED BY <4>1, <4>2, InjectiveSubSeq
    <3>2. ToSet(paused)' = {paused[i] : i \in (pick[t] + 1)..Len(paused)}
      BY <3>1 DEF Unpause
    <3>3. \A x : x \in ToSet(paused) <=> \E i \in 1..Len(paused) : paused[i] = x
      BY <1>1, ToSetElement
    <3>4. \A i, j \in 1..Len(paused) : paused[i] = paused[j] => i = j
      BY <1>1 DEF IsInjective
    <3>5. \A x : x \in ToSet(paused)' <=> x \in ToSet(paused) /\ x \notin S
      <4>1. \A x : x \in S <=> \E i \in 1..Len(paused) : i <= pick[t] /\ paused[i] = x
        OBVIOUS
      <4>2. \A x : x \in ToSet(paused)' <=> \E i \in 1..Len(paused) : i > pick[t] /\ paused[i] = x
        BY <1>1, <2>1, <3>2
      <4> HIDE DEF S
      <4> QED BY <1>1, <3>3, <3>4, <4>1, <4>2
    <3>6. S \subseteq Requests /\ S \subseteq ToSet(paused)
      BY <1>1, <3>3
    <3> HIDE DEF S
    <3> QED BY <3>5, <3>6
  <2>2. CASE ~(pick[t] <= Len(paused))
    <3>1. SubSeq(paused, pick[t] + 1, Len(paused)) = <<>>
      BY <1>1, <2>2
    <3>2. ToSet(paused)' = {}
      BY <3>1, ToSetEmpty DEF Unpause
    <3>3. S = ToSet(paused)
      BY <1>1, <2>2, ToSetElement
    <3> HIDE DEF S
    <3> QED BY <1>1, <3>2, <3>3, ToSetElement
  <2> QED BY <2>1, <2>2
<1>6. \A r \in S : r \in ToSet(active[t])
  <2>1. Owed(t)
    BY <1>1 DEF LossInv
  <2> QED BY <1>1, <2>1 DEF Owed
<1>7. PICK P \in SUBSET Requests : P = S
  BY <1>5
<1> HIDE DEF S
<1>8. \A r \in P : StageOf(r) = "paused" /\ fate[r] = "sent" /\ r \notin ToSet(pending) /\ ReasonsOf(r) = {}
  BY <1>5, <1>7, StagePaused
<1>9. \A r \in P : StageOf(r)' = "running"
  <2>1. SUFFICES ASSUME NEW r \in P PROVE StageOf(r)' = "running"
    OBVIOUS
  <2>2. fate'[r] = "sent" /\ ReasonsOf(r)' = {} /\ r \notin ToSet(pending)' /\ r \notin ToSet(paused)'
    BY <1>3, <1>5, <1>7, <1>8, ReasonsStay
  <2>3. r \in InSession(t)'
    BY <1>4, <1>6, <1>7 DEF InSession
  <2> QED BY <2>2, <2>3 DEF StageOf
<1>10. \A r \in Requests \ P : StageOf(r)' = StageOf(r)
  <2>1. \A r \in Requests \ P : StaysPut(t, r)
    BY <1>3, <1>4, <1>5, <1>7, ReasonsStay DEF StaysPut
  <2> QED BY <1>1, <1>2, <2>1, StageStays
<1>11. Alive'
  <2>1. ToSet(pending)' \cup ToSet(paused)' \cup InSession(t)' \cup Unsubmitted(t)' \subseteq Here(t)
    BY <1>3, <1>4, <1>5 DEF Here
  <2> QED BY <1>1, <1>2, <1>3, <2>1, AliveKept
<1>12. CASE P = {}
  BY <1>3, <1>10, <1>11, <1>12, Stutters DEF Lives
<1>13. CASE P # {}
  <2>1. Lifecycle!Move(P, "paused", "running")
    BY <1>8, <1>9, <1>10, <1>13, Moves
  <2>2. Lifecycle!In("running") \cup P \subseteq ToSet(active[t]) /\ Lifecycle!In("running") \cap P = {}
    <3>1. batch[t] = <<>> /\ ready[t] = <<>>
      BY <1>1 DEF Slots, PassPcs, PopPcs
    <3>2. InSession(t) = ToSet(active[t])
      BY <3>1, ToSetEmpty DEF InSession
    <3>3. Lifecycle!In("running") \subseteq InSession(t)
      BY <1>1, RunningHere DEF Lifecycle!In, RunPcs, PopPcs
    <3>4. Lifecycle!In("running") \cap P = {}
      BY <1>8 DEF Lifecycle!In
    <3> QED BY <1>6, <1>7, <3>2, <3>3, <3>4
  <2>3. Cardinality(Lifecycle!In("running")) + Cardinality(P) <= MaxBatch
    <3>1. PICK R : R = Lifecycle!In("running")
      OBVIOUS
    <3>2. IsFiniteSet(ToSet(active[t])) /\ Cardinality(ToSet(active[t])) <= Len(active[t]) /\ Cardinality(ToSet(active[t])) \in Nat
      BY <1>1, ListCardinality
    <3>3. R \cup P \subseteq ToSet(active[t]) /\ R \cap P = {}
      BY <2>2, <3>1
    <3>4. /\ IsFiniteSet(R) /\ IsFiniteSet(P) /\ IsFiniteSet(R \cup P)
          /\ Cardinality(R \cup P) <= Cardinality(ToSet(active[t]))
      BY <3>2, <3>3, FS_Subset
    <3>6. Cardinality(R) \in Nat /\ Cardinality(P) \in Nat
      BY <3>4, FS_CardinalityType
    <3>5. Cardinality(R \cup P) = Cardinality(R) + Cardinality(P)
      <4>1. Cardinality(R \cup P) = Cardinality(R) + Cardinality(P) - Cardinality(R \cap P)
        BY <3>4, FS_Union
      <4>2. Cardinality(R \cap P) = 0
        BY <3>3, FS_EmptySet
      <4> QED BY <3>6, <4>1, <4>2
    <3>7. Len(active[t]) <= MaxBatch
      BY <1>1, NotAdmitting DEF AllInv, PassPcs, PopPcs
    <3>8. Len(active[t]) \in Nat
      BY <1>1
    <3> QED BY <1>1, <3>1, <3>2, <3>4, <3>5, <3>6, <3>7, <3>8
  <2>4. P \in SUBSET Lifecycle!In("paused")
    BY <1>8 DEF Lifecycle!In
  <2>5. Lifecycle!Resume(P)
    BY <1>3, <2>1, <2>3, SameCardinality DEF Lifecycle!Resume
  <2> QED BY <1>11, <2>4, <2>5 DEF Lives, Lifecycle!Next
<1> QED BY <1>12, <1>13

LEMMA TakeLives ==
    ASSUME AllInv, DistinctIds, OneConsumer, NEW t \in Threads, Take(t)
    PROVE  Lives
<1>1. /\ TypeOK /\ Alive /\ Slots(t) /\ Fresh(t) /\ pc[t] = "take" /\ pc \in [Threads -> Pcs] /\ quota[t] \in Nat
      /\ pending \in Seq(Requests) /\ IsInjective(pending) /\ batch[t] \in Seq(Requests) /\ active[t] \in Seq(Requests)
      /\ MaxBatch \in Nat /\ batch \in [Threads -> Seq(Requests)]
  <2>1. pc \in [Threads -> Pcs] /\ IsInjective(pending) /\ Slots(t) /\ Fresh(t) /\ quota[t] \in Nat
    BY DEF AllInv, TypeOK, OnceInv, SlotsInv, FreshInv
  <2>2. pc[t] = "take" /\ batch \in [Threads -> Seq(Requests)]
    BY DEF Take, Goto, AllInv, TypeOK
  <2> QED BY <2>1, <2>2, ListsOfRequests, SchedulerAssumption DEF AllInv, LifeInv
<1>2. \A u \in Threads \ {t} : SameThread(u)
  BY <1>1, RunLeavesOthers DEF RunStep, AllInv
<1>3. pick[t] \in DOMAIN pending /\ ~(pick[t] > Len(pending))
  <2>1. pick[t] \in DOMAIN pending
    BY <1>1 DEF Fresh
  <2> QED BY <1>1, <2>1
<1>4. /\ UNCHANGED <<paused, gen, active, ready, results, returned, fate>> /\ pc'[t] = "select"
      /\ pending' = RemoveAt(pending, pick[t]) /\ batch'[t] = Append(batch[t], pending[pick[t]])
  BY <1>1, <1>3 DEF Take, Goto, history
<1>5. PICK w \in Requests : w = pending[pick[t]]
  BY <1>1, <1>3
<1>6. w \in ToSet(pending) /\ ToSet(pending)' = ToSet(pending) \ {w}
  <2>1. w \in ToSet(pending) /\ ToSet(RemoveAt(pending, pick[t])) = ToSet(pending) \ {w}
    BY <1>1, <1>3, <1>5, InjectiveRemoveAt, ToSetRemoveAt
  <2> QED BY <1>4, <2>1
<1>7. Unsubmitted(t)' = {} /\ InSession(t)' = InSession(t) \cup {w}
  <2>1. Unsubmitted(t)' = {}
    BY <1>4 DEF Unsubmitted, SubmitPcs, StampPcs
  <2>2. batch'[t] = Append(batch[t], w)
    BY <1>4, <1>5
  <2>3. ToSet(Append(batch[t], w)) = ToSet(batch[t]) \cup {w}
    BY <1>1, ToSetAppend
  <2> QED BY <1>4, <2>1, <2>2, <2>3 DEF InSession
<1>8. fate[w] = "sent" /\ StageOf(w) = "queued" /\ ReasonsOf(w) = {} /\ w \notin ToSet(paused)
  <2>1. ReasonsOf(w) = {}
    BY <1>1, <1>6, NoReasons DEF AllInv
  <2> QED BY <1>6, <2>1, StageQueued, QueuedOnly
<1>9. StageOf(w)' = "running"
  <2>1. fate'[w] = "sent" /\ ReasonsOf(w)' = {} /\ w \notin ToSet(pending)' /\ w \notin ToSet(paused)'
    BY <1>4, <1>6, <1>8, ReasonsStay
  <2>2. w \in InSession(t)'
    BY <1>7
  <2> QED BY <2>1, <2>2 DEF StageOf
<1>10. \A r \in Requests \ {w} : StageOf(r)' = StageOf(r)
  <2>1. \A r \in Requests \ {w} : StaysPut(t, r)
    BY <1>4, <1>6, <1>7, ReasonsStay DEF StaysPut
  <2> QED BY <1>1, <1>2, <2>1, StageStays
<1>11. Alive'
  <2>1. ToSet(pending)' \cup ToSet(paused)' \cup InSession(t)' \cup Unsubmitted(t)' \subseteq Here(t)
    BY <1>4, <1>6, <1>7 DEF Here
  <2> QED BY <1>1, <1>2, <1>4, <2>1, AliveKept
<1>12. Lifecycle!Move({w}, "queued", "running")
  <2>1. {w} \in SUBSET Requests /\ {w} # {} /\ \A r \in {w} : StageOf(r) = "queued" /\ StageOf(r)' = "running"
    BY <1>8, <1>9
  <2> QED BY <1>10, <2>1, Moves
<1>13. Lifecycle!SlotFree
  <2>1. PICK R : R = Lifecycle!In("running")
    OBVIOUS
  <2>2. R \subseteq ToSet(active[t]) \cup ToSet(batch[t])
    <3>1. ready[t] = <<>>
      BY <1>1 DEF Slots
    <3>2. InSession(t) = ToSet(active[t]) \cup ToSet(batch[t])
      BY <3>1, ToSetEmpty DEF InSession
    <3> QED BY <1>1, <2>1, <3>2, RunningHere DEF Lifecycle!In, RunPcs, PopPcs
  <2>3. PICK A, B : A = ToSet(active[t]) /\ B = ToSet(batch[t])
    OBVIOUS
  <2>4. IsFiniteSet(A) /\ Cardinality(A) <= Len(active[t]) /\ Cardinality(A) \in Nat
    BY <1>1, <2>3, ListCardinality
  <2>5. IsFiniteSet(B) /\ Cardinality(B) <= Len(batch[t]) /\ Cardinality(B) \in Nat
    BY <1>1, <2>3, ListCardinality
  <2>6. IsFiniteSet(A \cup B) /\ Cardinality(A \cup B) = Cardinality(A) + Cardinality(B) - Cardinality(A \cap B)
    BY <2>4, <2>5, FS_Union
  <2>7. Cardinality(A \cap B) \in Nat
    <3>1. IsFiniteSet(A \cap B)
      BY <2>4, FS_Subset
    <3> QED BY <3>1, FS_CardinalityType
  <2>8. Cardinality(R) <= Cardinality(A \cup B) /\ Cardinality(R) \in Nat
    <3>1. R \subseteq A \cup B
      BY <2>2, <2>3
    <3> QED BY <2>6, <3>1, FS_Subset, FS_CardinalityType
  <2>9. Len(active[t]) + Len(batch[t]) < MaxBatch /\ Len(active[t]) \in Nat /\ Len(batch[t]) \in Nat
    <3>1. Len(active[t]) + Len(batch[t]) + quota[t] <= MaxBatch /\ quota[t] > 0
      BY <1>1 DEF Slots, PopPcs
    <3>2. Len(active[t]) \in Nat /\ Len(batch[t]) \in Nat
      BY <1>1
    <3> QED BY <1>1, <3>1, <3>2
  <2>10. Cardinality(R) < MaxBatch
    BY <1>1, <2>4, <2>5, <2>6, <2>7, <2>8, <2>9
  <2> QED BY <2>1, <2>10, SameCardinality DEF Lifecycle!SlotFree
<1>14. Lifecycle!Start(w)
  BY <1>4, <1>12, <1>13 DEF Lifecycle!Start
<1> QED BY <1>11, <1>14 DEF Lives, Lifecycle!Next

LEMMA DisplaceLives ==
    ASSUME AllInv, DistinctIds, NEW t \in Threads, Displace(t)
    PROVE  Lives
<1>1. /\ TypeOK /\ Alive /\ Consuming(t) /\ pc[t] = "displace" /\ pc \in [Threads -> Pcs]
      /\ active[t] \in Seq(Requests) /\ IsInjective(active[t]) /\ paused \in Seq(Requests)
      /\ active \in [Threads -> Seq(Requests)]
  <2>1. pc \in [Threads -> Pcs] /\ Tidy(t) /\ Consuming(t) /\ active \in [Threads -> Seq(Requests)]
    BY DEF AllInv, TypeOK, OnceInv, LifeInv
  <2>2. pc[t] = "displace"
    BY DEF Displace, Goto
  <2> QED BY <2>1, <2>2, ListsOfRequests DEF AllInv, LifeInv, Tidy
<1>2. \A u \in Threads \ {t} : SameThread(u)
  BY <1>1, RunLeavesOthers DEF RunStep, AllInv
<1>3. pending # <<>>
  BY <1>1 DEF Consuming
<1>4. UNCHANGED <<pending, gen, batch, ready, results, returned, fate>> /\ pc'[t] = "admit"
  BY <1>1, <1>3 DEF Displace, Goto, history
<1>5. Unsubmitted(t)' = {}
  BY <1>4 DEF Unsubmitted, SubmitPcs, StampPcs
<1>6. CASE UNCHANGED <<paused, active>>
  <2>1. InSession(t)' = InSession(t)
    BY <1>4, <1>6 DEF InSession
  <2> QED BY <1>1, <1>2, <1>4, <1>5, <1>6, <2>1, QuietLives
<1>7. ASSUME NEW k \in DOMAIN active[t], paused' = Append(paused, active[t][k]),
             active' = [active EXCEPT ![t] = RemoveAt(@, k)]
      PROVE  Lives
  <2>1. PICK w \in Requests : w = active[t][k]
    BY <1>1
  <2>2. w \in ToSet(active[t]) /\ ToSet(RemoveAt(active[t], k)) = ToSet(active[t]) \ {w}
    BY <1>1, <2>1, InjectiveRemoveAt, ToSetRemoveAt
  <2>3. ToSet(paused)' = ToSet(paused) \cup {w}
    <3>1. ToSet(Append(paused, w)) = ToSet(paused) \cup {w}
      BY <1>1, ToSetAppend
    <3> QED BY <1>7, <2>1, <3>1
  <2>4. InSession(t) \subseteq InSession(t)' \cup {w} /\ InSession(t)' \subseteq InSession(t)
    <3>1. active'[t] = RemoveAt(active[t], k)
      BY <1>1, <1>7
    <3> QED BY <1>4, <2>2, <3>1 DEF InSession
  <2>5. w \in InSession(t) /\ w \in Own(t)
    BY <1>1, <2>2 DEF InSession, Own
  <2>6. w \notin ToSet(paused)
    BY <1>1, <2>5, OwnNotPaused
  <2>7. fate[w] = "sent" /\ w \notin ToSet(pending) /\ ReasonsOf(w) = {} /\ StageOf(w) = "running"
    BY <2>5, <2>6, StageRunning
  <2>8. StageOf(w)' = "paused"
    <3>1. fate'[w] = "sent" /\ ReasonsOf(w)' = {} /\ w \notin ToSet(pending)' /\ w \in ToSet(paused)'
      BY <1>4, <2>3, <2>7, ReasonsStay
    <3> QED BY <3>1 DEF StageOf
  <2>9. \A r \in Requests \ {w} : StageOf(r)' = StageOf(r)
    <3>1. \A r \in Requests \ {w} : StaysPut(t, r)
      BY <1>4, <2>3, <2>4, ReasonsStay DEF StaysPut
    <3> QED BY <1>1, <1>2, <3>1, StageStays
  <2>10. Alive'
    <3>1. ToSet(pending)' \cup ToSet(paused)' \cup InSession(t)' \cup Unsubmitted(t)' \subseteq Here(t)
      BY <1>4, <1>5, <2>3, <2>4, <2>5 DEF Here
    <3> QED BY <1>1, <1>2, <1>4, <3>1, AliveKept
  <2>11. Lifecycle!Move({w}, "running", "paused")
    <3>1. {w} \in SUBSET Requests /\ {w} # {} /\ \A r \in {w} : StageOf(r) = "running" /\ StageOf(r)' = "paused"
      BY <2>7, <2>8
    <3> QED BY <2>9, <3>1, Moves
  <2>12. Lifecycle!Pause(w)
    BY <1>4, <2>11 DEF Lifecycle!Pause
  <2> QED BY <2>10, <2>12 DEF Lives, Lifecycle!Next
<1>8. \A k \in FirstIn(active[t], Weaker) : k \in DOMAIN active[t]
  BY DEF FirstIn
<1> QED BY <1>3, <1>6, <1>7, <1>8 DEF Displace

LEMMA ReasonsAppend ==
    ASSUME TypeOK, NEW t \in Threads, NEW e \in Result, results' = [results EXCEPT ![t] = Append(@, e)],
           returned' = returned, NEW r \in Requests
    PROVE  ReasonsOf(r)' = ReasonsOf(r) \cup (IF r = e.req THEN {e.reason} ELSE {})
<1>1. results \in [Threads -> Seq(Result)] /\ results[t] \in Seq(Result)
  BY DEF TypeOK
<1>2. \A q : \A x : x \in ReasonIn(q, r) <=> \E k \in DOMAIN q : q[k].req = r /\ q[k].reason = x
  BY DEF ReasonIn
<1>3. results'[t] = Append(results[t], e) /\ \A u \in Threads \ {t} : results'[u] = results[u]
  BY <1>1
<1>4. ReasonIn(results'[t], r) = ReasonIn(results[t], r) \cup (IF r = e.req THEN {e.reason} ELSE {})
  <2>1. PICK s \in Seq(Result) : s = results[t]
    BY <1>1
  <2>2. PICK z : z = Append(s, e)
    OBVIOUS
  <2>3. DOMAIN z = DOMAIN s \cup {Len(s) + 1} /\ z[Len(s) + 1] = e /\ \A k \in DOMAIN s : z[k] = s[k]
    BY <2>2
  <2>4. \A x : x \in ReasonIn(z, r) <=> x \in ReasonIn(s, r) \/ (e.req = r /\ e.reason = x)
    BY <1>2, <2>3
  <2>5. ReasonIn(z, r) = ReasonIn(s, r) \cup (IF r = e.req THEN {e.reason} ELSE {})
    BY <2>4
  <2> QED BY <1>3, <2>1, <2>2, <2>5
<1>5. ReasonIn(results[t], r)' = ReasonIn(results'[t], r) /\ ReasonIn(returned, r)' = ReasonIn(returned, r)
  BY DEF ReasonIn
<1>6. \A u \in Threads \ {t} : ReasonIn(results[u], r)' = ReasonIn(results[u], r)
  BY <1>3 DEF ReasonIn
<1>7. UNION {ReasonIn(results[u], r)' : u \in Threads} =
        (UNION {ReasonIn(results[u], r) : u \in Threads}) \cup (IF r = e.req THEN {e.reason} ELSE {})
  BY <1>4, <1>5, <1>6
<1> QED BY <1>5, <1>7 DEF ReasonsOf

\* A request of the call of t gets its result.
LEMMA FinishLives ==
    ASSUME AllInv, DistinctIds, NEW t \in Threads, \A u \in Threads \ {t} : SameThread(u),
           UNCHANGED <<pending, paused, gen, returned, fate>>, pc[t] # "unpause", Unsubmitted(t)' = {},
           NEW h \in Requests, h \in InSession(t) \cap Own(t), ~IsReady(h), FinishIfOver(t, h),
           \A r \in Requests \ {h} : r \in InSession(t)' <=> r \in InSession(t),
           InSession(t)' \subseteq InSession(t)
    PROVE  Lives /\ IF Marked(h) THEN Lifecycle!Abort(h) ELSE Lifecycle!Complete(h)
<1>1. TypeOK /\ Alive /\ gen \in [Requests -> Nat] /\ MaxNew \in [Requests -> Nat] /\ gen[h] <= MaxNew[h]
  BY SchedulerAssumption DEF AllInv, LifeInv, TypeOK, OnceInv
<1>2. fate[h] = "sent" /\ h \notin ToSet(pending) /\ ReasonsOf(h) = {} /\ StageOf(h) = "running"
  BY OwnNotPaused, StageRunning
<1>3. PICK e \in Result : /\ results' = [results EXCEPT ![t] = Append(@, e)] /\ e.req = h
                          /\ IF Marked(h) THEN e.reason = "cancelled" ELSE e.reason = "length" /\ Done(h)
  <2>1. CASE Marked(h)
    <3>1. PICK e : e = [req |-> h, reason |-> "cancelled", tokens |-> gen[h]]
      OBVIOUS
    <3>2. e \in Result
      BY <1>1, <3>1 DEF Result
    <3> QED BY <2>1, <3>1, <3>2 DEF FinishIfOver, Finish
  <2>2. CASE ~Marked(h)
    <3>1. PICK e : e = [req |-> h, reason |-> "length", tokens |-> gen[h]]
      OBVIOUS
    <3>2. e \in Result /\ Done(h)
      BY <1>1, <2>2, <3>1 DEF Result, IsReady
    <3> QED BY <2>2, <3>1, <3>2 DEF FinishIfOver, Finish
  <2> QED BY <2>1, <2>2
<1>4. \A r \in Requests : ReasonsOf(r)' = ReasonsOf(r) \cup (IF r = e.req THEN {e.reason} ELSE {})
  BY <1>1, <1>3, ReasonsAppend
<1>5. \A r \in Requests \ {h} : StageOf(r)' = StageOf(r)
  <2>1. \A r \in Requests \ {h} : StaysPut(t, r)
    <3>1. SUFFICES ASSUME NEW r \in Requests \ {h} PROVE StaysPut(t, r)
      OBVIOUS
    <3>2. ReasonsOf(r)' = ReasonsOf(r)
      BY <1>3, <1>4
    <3>3. r \in InSession(t)' <=> r \in InSession(t)
      OBVIOUS
    <3> QED BY <3>2, <3>3 DEF StaysPut
  <2> QED BY <1>1, <2>1, StageStays
<1>6. ReasonsOf(h)' = {e.reason} /\ fate'[h] = "sent"
  BY <1>2, <1>3, <1>4
<1>7. Alive'
  <2>1. ToSet(pending)' \cup ToSet(paused)' \cup InSession(t)' \cup Unsubmitted(t)' \subseteq Here(t)
    BY DEF Here
  <2> QED BY <1>1, <2>1, AliveKept
<1>8. CASE Marked(h)
  <2>1. StageOf(h)' = "aborted"
    BY <1>3, <1>6, <1>8 DEF StageOf
  <2>2. {h} \in SUBSET Requests /\ {h} # {} /\ \A r \in {h} : StageOf(r) = "running" /\ StageOf(r)' = "aborted"
    BY <1>2, <2>1
  <2>3. Lifecycle!Move({h}, "running", "aborted")
    BY <1>5, <2>2, Moves
  <2>4. Lifecycle!Abort(h)
    BY <2>3 DEF Lifecycle!Abort
  <2> QED BY <1>7, <1>8, <2>4 DEF Lives, Lifecycle!Next
<1>9. CASE ~Marked(h)
  <2>1. StageOf(h)' = "completed"
    BY <1>3, <1>6, <1>9 DEF StageOf
  <2>2. {h} \in SUBSET Requests /\ {h} # {} /\ \A r \in {h} : StageOf(r) = "running" /\ StageOf(r)' = "completed"
    BY <1>2, <2>1
  <2>3. Lifecycle!Move({h}, "running", "completed")
    BY <1>5, <2>2, Moves
  <2>4. gen[h] = MaxNew[h]
    BY <1>1, <1>3, <1>9 DEF Done
  <2>5. Lifecycle!Complete(h)
    BY <2>3, <2>4 DEF Lifecycle!Complete
  <2> QED BY <1>7, <1>9, <2>5 DEF Lives, Lifecycle!Next
<1> QED BY <1>8, <1>9

\* A step of t answers a request.
Answers(t) ==
    \E h \in Requests : /\ FinishIfOver(t, h) /\ ~IsReady(h)
                        /\ IF Marked(h) THEN Lifecycle!Abort(h) ELSE Lifecycle!Complete(h)

LEMMA RetireLives ==
    ASSUME AllInv, DistinctIds, NEW t \in Threads, Retire(t)
    PROVE  Lives /\ (UNCHANGED <<metrics, results>> \/ Answers(t))
<1>1. /\ TypeOK /\ Alive /\ Consuming(t) /\ pc[t] = "retire" /\ pc \in [Threads -> Pcs] /\ scan[t] \in Seq(Requests)
  <2>1. pc \in [Threads -> Pcs] /\ Consuming(t)
    BY DEF AllInv, TypeOK, LifeInv
  <2>2. pc[t] = "retire"
    BY DEF Retire, Goto
  <2> QED BY <2>1, <2>2, ListsOfRequests DEF AllInv, LifeInv
<1>2. \A u \in Threads \ {t} : SameThread(u)
  BY <1>1, RunLeavesOthers DEF RunStep, AllInv
<1>3. UNCHANGED <<pending, paused, gen, active, batch, ready, returned, fate>>
  BY DEF Retire, history
<1>4. InSession(t)' = InSession(t) /\ Unsubmitted(t)' = {}
  <2>1. pc'[t] \notin SubmitPcs
    BY <1>1 DEF Retire, Goto, SubmitPcs, StampPcs
  <2> QED BY <1>3, <2>1 DEF InSession, Unsubmitted, SubmitPcs, StampPcs
<1>5. CASE UNCHANGED <<metrics, results>>
  BY <1>1, <1>2, <1>3, <1>4, <1>5, QuietLives
<1>6. CASE scan[t] # <<>>
  <2>1. PICK h \in Requests : h = Head(scan[t]) /\ h \in ToSet(scan[t])
    BY <1>1, <1>6, ToSetTail
  <2>2. FinishIfOver(t, h)
    BY <1>6, <2>1 DEF Retire
  <2>3. h \in InSession(t) \cap Own(t)
    BY <1>1, <2>1 DEF Consuming, InSession, Own
  <2>4. CASE IsReady(h)
    BY <1>5, <2>2, <2>4 DEF FinishIfOver, IsReady
  <2>5. CASE ~IsReady(h)
    BY <1>1, <1>2, <1>3, <1>4, <2>2, <2>3, <2>5, FinishLives DEF Answers
  <2> QED BY <2>4, <2>5
<1> QED BY <1>5, <1>6 DEF Retire

LEMMA CollectLives ==
    ASSUME AllInv, DistinctIds, NEW t \in Threads, Collect(t)
    PROVE  Lives /\ (UNCHANGED <<metrics, results>> \/ Answers(t))
<1>1. /\ TypeOK /\ Alive /\ pc[t] = "collect" /\ pc \in [Threads -> Pcs] /\ ready[t] \in Seq(Requests)
      /\ active[t] \in Seq(Requests) /\ ready \in [Threads -> Seq(Requests)] /\ active \in [Threads -> Seq(Requests)]
  <2>1. pc \in [Threads -> Pcs] /\ ready \in [Threads -> Seq(Requests)] /\ active \in [Threads -> Seq(Requests)]
    BY DEF AllInv, TypeOK
  <2>2. pc[t] = "collect"
    BY DEF Collect, Goto
  <2> QED BY <2>1, <2>2, ListsOfRequests DEF AllInv, LifeInv
<1>2. \A u \in Threads \ {t} : SameThread(u)
  BY <1>1, RunLeavesOthers DEF RunStep, AllInv
<1>3. UNCHANGED <<pending, paused, gen, batch, returned, fate>>
  BY DEF Collect, history
<1>4. Unsubmitted(t)' = {}
  <2>1. pc'[t] \notin SubmitPcs
    BY <1>1 DEF Collect, Goto, SubmitPcs, StampPcs
  <2> QED BY <2>1 DEF Unsubmitted, SubmitPcs, StampPcs
<1>5. CASE ready[t] = <<>>
  <2>1. UNCHANGED <<active, ready, metrics, results>>
    BY <1>5 DEF Collect
  <2>2. InSession(t)' = InSession(t)
    BY <1>3, <2>1 DEF InSession
  <2> QED BY <1>1, <1>2, <1>3, <1>4, <2>1, <2>2, QuietLives
<1>6. CASE ready[t] # <<>>
  <2>1. PICK h \in Requests : h = Head(ready[t]) /\ ToSet(ready[t]) = {h} \cup ToSet(Tail(ready[t]))
    BY <1>1, <1>6, ToSetTail
  <2>2. /\ FinishIfOver(t, h) /\ ready'[t] = Tail(ready[t])
        /\ active' = IF IsReady(h) THEN [active EXCEPT ![t] = Append(@, h)] ELSE active
    BY <1>1, <1>6, <2>1 DEF Collect
  <2>3. h \in InSession(t) \cap Own(t)
    BY <1>1, <2>1 DEF InSession, Own
  <2>4. CASE IsReady(h)
    <3>1. UNCHANGED <<metrics, results>> /\ active'[t] = Append(active[t], h)
      BY <1>1, <2>2, <2>4 DEF FinishIfOver, IsReady
    <3>2. ToSet(Append(active[t], h)) = ToSet(active[t]) \cup {h}
      BY <1>1, ToSetAppend
    <3>3. InSession(t)' = InSession(t)
      BY <1>3, <2>1, <2>2, <3>1, <3>2 DEF InSession
    <3> QED BY <1>1, <1>2, <1>3, <1>4, <3>1, <3>3, QuietLives
  <2>5. CASE ~IsReady(h)
    <3>1. InSession(t)' \subseteq InSession(t) /\ InSession(t) \subseteq InSession(t)' \cup {h}
      BY <1>3, <2>1, <2>2, <2>5 DEF InSession
    <3> QED BY <1>1, <1>2, <1>3, <1>4, <2>2, <2>3, <2>5, <3>1, FinishLives DEF Answers
  <2> QED BY <2>4, <2>5
<1> QED BY <1>5, <1>6

LEMMA DecodeLives ==
    ASSUME AllInv, DistinctIds, NEW t \in Threads, Decode(t)
    PROVE  Lives
<1>1. /\ TypeOK /\ Alive /\ Slots(t) /\ Owed(t) /\ ReadyToDecode(t) /\ pc[t] = "decode" /\ pc \in [Threads -> Pcs]
      /\ gen \in [Requests -> Nat] /\ MaxNew \in [Requests -> Nat] /\ ToSet(ready[t]) \subseteq Requests
  <2>1. pc \in [Threads -> Pcs] /\ gen \in [Requests -> Nat] /\ Slots(t) /\ Owed(t) /\ ReadyToDecode(t)
    BY DEF AllInv, TypeOK, SlotsInv, LossInv, OnceInv
  <2>2. pc[t] = "decode"
    BY DEF Decode, Goto
  <2>3. ToSet(ready[t]) \subseteq Requests
    BY ListsOfRequests, ToSetElement DEF AllInv
  <2> QED BY <2>1, <2>2, <2>3, SchedulerAssumption DEF AllInv, LifeInv
<1>2. \A u \in Threads \ {t} : SameThread(u)
  BY <1>1, RunLeavesOthers DEF RunStep, AllInv
<1>3. UNCHANGED <<pending, paused, batch, ready, results, returned, fate>> /\ pc'[t] = "collect"
  BY <1>1 DEF Decode, Goto, history
<1>4. Unsubmitted(t)' = {}
  BY <1>3 DEF Unsubmitted, SubmitPcs, StampPcs
<1>5. InSession(t)' = ToSet(ready[t]) /\ InSession(t) = ToSet(active[t]) \cup ToSet(ready[t])
  <2>1. batch[t] = <<>>
    BY <1>1 DEF Slots, PassPcs, PopPcs
  <2>2. active'[t] = <<>>
    BY DEF Decode, AllInv, TypeOK
  <2> QED BY <1>3, <2>1, <2>2, ToSetEmpty DEF InSession
<1>6. \A r \in Requests : StageOf(r)' = StageOf(r)
  <2>1. ASSUME NEW r \in Requests PROVE StaysPut(t, r)
    <3>1. ReasonsOf(r)' = ReasonsOf(r)
      BY <1>3, ReasonsStay
    <3>2. r \in ToSet(active[t]) => r \in ToSet(ready[t]) \/ ReasonsOf(r) # {}
      <4>1. SUFFICES ASSUME r \in ToSet(active[t]), r \notin ToSet(ready[t]) PROVE ReasonsOf(r) # {}
        OBVIOUS
      <4>2. Settled(r)
        BY <1>1, <4>1 DEF Owed
      <4>3. fate[r] = "sent"
        BY <1>1, <1>5, <4>1 DEF Alive, Here
      <4> QED BY <1>1, <4>2, <4>3, ReasonsTyped DEF Settled
    <3> QED BY <1>3, <1>5, <3>1, <3>2 DEF StaysPut
  <2> QED BY <1>1, <1>2, <2>1, StageStays
<1>7. Alive'
  <2>1. ToSet(pending)' \cup ToSet(paused)' \cup InSession(t)' \cup Unsubmitted(t)' \subseteq Here(t)
    BY <1>3, <1>4, <1>5 DEF Here
  <2> QED BY <1>1, <1>2, <1>3, <2>1, AliveKept
<1>8. gen' = [r \in Requests |-> IF r \in ToSet(ready[t]) THEN gen[r] + 1 ELSE gen[r]]
  BY DEF Decode
<1>9. CASE ToSet(ready[t]) = {}
  <2>1. gen' = gen
    BY <1>1, <1>8, <1>9
  <2> QED BY <1>6, <1>7, <2>1, Stutters DEF Lives
<1>10. CASE ToSet(ready[t]) # {}
  <2>1. \A r \in ToSet(ready[t]) : StageOf(r) = "running"
    <3>1. \A r \in ToSet(ready[t]) : r \in InSession(t) /\ r \in Own(t)
      BY <1>1, <1>5 DEF Own
    <3> QED BY <1>1, <3>1, OwnNotPaused, StageRunning
  <2>2. \A r \in ToSet(ready[t]) : gen[r] < MaxNew[r]
    BY <1>1 DEF ReadyToDecode, Done
  <2>3. ToSet(ready[t]) \in SUBSET Lifecycle!In("running")
    BY <1>1, <2>1 DEF Lifecycle!In
  <2>4. Lifecycle!Generate(ToSet(ready[t]))
    BY <1>1, <1>6, <1>8, <1>10, <2>1, <2>2 DEF Lifecycle!Generate
  <2> QED BY <1>7, <2>3, <2>4 DEF Lives, Lifecycle!Next
<1> QED BY <1>9, <1>10

------------------------------------------------------------------------------
(* What a withdrawal and a preemption go for is still there. *)

LEMMA OthersConsuming ==
    ASSUME TypeOK, LossInv, OneConsumer, NEW t \in Threads, NEW u \in Threads \ {t}, SameThread(u), Consuming(u),
           \/ \A k \in DOMAIN pending : k \in DOMAIN pending' /\ pending'[k] = pending[k]
           \/ pc[t] \in RunPcs \cup {"withdraw"}
    PROVE  Consuming(u)'
<1>1. ASSUME pc[u] \in {"withdraw", "displace"}
      PROVE  \A k \in DOMAIN pending : k \in DOMAIN pending' /\ pending'[k] = pending[k]
  <2>1. pc[u] \in RunPcs \cup {"withdraw"}
    BY <1>1 DEF RunPcs, PopPcs
  <2>2. pc[t] \notin RunPcs \cup {"withdraw"}
    BY <2>1, ConsumerAlone
  <2> QED BY <2>2
<1>2. pending \in Seq(Requests) /\ (pending # <<>> => 1 \in DOMAIN pending)
  <2>1. pending \in Seq(Requests)
    BY DEF TypeOK
  <2> QED BY <2>1
<1>3. pc[u] = "displace" /\ pending # <<>> => pending' # <<>>
  BY <1>1, <1>2
<1>4. /\ pc'[u] = pc[u] /\ pick'[u] = pick[u] /\ call'[u] = call[u]
      /\ scan'[u] = scan[u] /\ active'[u] = active[u]
  BY DEF SameThread, SameCall, SameLocals
<1>5. pc'[u] = "withdraw" => pick'[u] \in DOMAIN pending' /\ call'[u].batch = <<pending'[pick'[u]]>>
  BY <1>1, <1>4 DEF Consuming
<1>6. pc'[u] = "displace" => pending' # <<>>
  BY <1>3, <1>4 DEF Consuming
<1>7. pc'[u] = "retire" => ToSet(scan'[u]) \subseteq ToSet(active'[u])
  BY <1>4 DEF Consuming
<1> QED BY <1>5, <1>6, <1>7 DEF Consuming

LEMMA OwnConsuming ==
    ASSUME TypeOK, OnceInv, NEW t \in Threads, Consuming(t),
           \/ \E c \in Calls : Submit(t, c)
           \/ \E i \in Ids : Cancel(t, i)
           \/ Run(t) \/ ClientStep(t) \/ RunStep(t) \/ RuntimeError(t)
    PROVE  Consuming(t)'
<1>1. /\ pc \in [Threads -> Pcs] /\ pick \in [Threads -> Nat] /\ call \in [Threads -> [batch : Seq(Requests), block : Blocking]]
      /\ scan \in [Threads -> Seq(Requests)] /\ scan[t] \in Seq(Requests) /\ active[t] \in Seq(Requests)
  BY ListsOfRequests DEF TypeOK
<1>2. CASE pc'[t] \notin {"withdraw", "displace", "retire"}
  BY <1>2 DEF Consuming
<1>3. ASSUME NEW i \in Ids, Cancel(t, i) PROVE Consuming(t)'
  <2>1. \/ pc'[t] = "idle"
        \/ \E k \in DOMAIN pending : /\ pc'[t] = "withdraw" /\ pending' = pending /\ pick'[t] = k
                                     /\ call'[t].batch = <<pending[k]>>
    BY <1>1, <1>3 DEF Cancel, Goto
  <2> QED BY <2>1 DEF Consuming
<1>4. CASE Preempt(t)
  <2>1. pc'[t] = "admit" \/ (pc'[t] = "displace" /\ pending # <<>> /\ pending' = pending)
    BY <1>1, <1>4 DEF Preempt, Goto, shared
  <2> QED BY <2>1 DEF Consuming
<1>5. CASE Snapshot(t)
  <2>1. active' = active /\ (pc'[t] = "snapshot" \/ (pc'[t] = "retire" /\ scan'[t] = active[t]))
    BY <1>1, <1>5 DEF Snapshot, Goto
  <2> QED BY <2>1 DEF Consuming
<1>6. CASE Retire(t)
  <2>1. /\ active' = active /\ pc[t] = "retire"
        /\ pc'[t] = "decode" \/ (pc'[t] = "retire" /\ scan[t] # <<>> /\ scan'[t] = Tail(scan[t]))
    BY <1>1, <1>6 DEF Retire, Goto
  <2>2. scan[t] # <<>> => ToSet(Tail(scan[t])) \subseteq ToSet(scan[t])
    BY <1>1, ToSetTail
  <2> QED BY <2>1, <2>2 DEF Consuming
<1>7. CASE (\E c \in Calls : Submit(t, c)) \/ Run(t) \/ CheckCapacity(t) \/ StopWaiting(t) \/ Recheck(t)
           \/ Enqueue(t) \/ Stamp(t) \/ Number(t) \/ CountSubmitted(t) \/ Withdraw(t) \/ RuntimeError(t)
  BY <1>1, <1>2, <1>7 DEF Submit, Run, CheckCapacity, StopWaiting, Recheck, Reject, Enqueue, Stamp, Number,
       CountSubmitted, Withdraw, RuntimeError, Raise, Goto
<1>8. CASE Loop(t) \/ Resume(t) \/ Unpause(t) \/ Admit(t) \/ Scoring(t) \/ Take(t)
  BY <1>1, <1>2, <1>8 DEF Loop, Resume, Unpause, Admit, Scoring, Select, OpenRange, Weigh, Rank, Take, Raise, Goto
<1>9. CASE Prefill(t)
  BY <1>1, <1>2, <1>9 DEF Prefill, Goto
<1>10. CASE Displace(t) \/ Round(t) \/ Decode(t) \/ Collect(t)
  BY <1>1, <1>2, <1>10 DEF Displace, Round, Decode, Collect, Raise, Goto
<1> QED BY <1>3, <1>4, <1>5, <1>6, <1>7, <1>8, <1>9, <1>10 DEF ClientStep, RunStep, Scoring

LEMMA StepConsuming ==
    ASSUME AllInv, OneConsumer, NEW t \in Threads,
           \/ \E c \in Calls : Submit(t, c)
           \/ \E i \in Ids : Cancel(t, i)
           \/ Run(t) \/ ClientStep(t) \/ RunStep(t) \/ RuntimeError(t)
    PROVE  \A u \in Threads : Consuming(u)'
<1>1. TypeOK /\ SlotsInv /\ LossInv /\ OnceInv /\ \A u \in Threads : Consuming(u)
  BY DEF AllInv, LifeInv
<1>2. \A u \in Threads \ {t} : SameThread(u)
  BY <1>1, ClientLeavesOthers, RunLeavesOthers
<1>3. \/ \A k \in DOMAIN pending : k \in DOMAIN pending' /\ pending'[k] = pending[k]
      \/ pc[t] \in RunPcs \cup {"withdraw"}
  <2>1. CASE Withdraw(t) \/ Take(t)
    <3>1. pc[t] \in {"withdraw", "take"}
      BY <2>1 DEF Withdraw, Take, Goto
    <3> QED BY <3>1 DEF RunPcs, PopPcs
  <2>2. CASE ~(Withdraw(t) \/ Take(t))
    BY <1>1, <2>2, QueueGrows DEF ClientStep, RunStep, Scoring
  <2> QED BY <2>1, <2>2
<1>4. \A u \in Threads \ {t} : Consuming(u)'
  BY <1>1, <1>2, <1>3, OthersConsuming
<1>5. Consuming(t)'
  BY <1>1, OwnConsuming
<1> QED BY <1>4, <1>5

------------------------------------------------------------------------------
(* The refinement *)

LEMMA StepLives ==
    ASSUME AllInv, DistinctIds, OneConsumer, ~RuntimeFails, Next
    PROVE  Lives /\ \A u \in Threads : Consuming(u)'
<1>1. PICK t \in Threads : \/ \E c \in Calls : Submit(t, c)
                           \/ \E i \in Ids : Cancel(t, i)
                           \/ Run(t) \/ ClientStep(t) \/ RunStep(t) \/ RuntimeError(t)
  BY DEF Next
<1>2. \A u \in Threads : Consuming(u)'
  BY <1>1, StepConsuming
<1>3. CASE (\E c \in Calls : Submit(t, c)) \/ Run(t) \/ (\E i \in Ids : Cancel(t, i))
  BY <1>2, <1>3, SubmitLives, WaitLives
<1>4. CASE ClientStep(t)
  BY <1>2, <1>4, CapacityLives, WaitLives, EnqueueLives, WithdrawLives DEF ClientStep
<1>5. CASE RunStep(t)
  BY <1>2, <1>5, RoundLives, ResumeLives, UnpauseLives, TakeLives, DisplaceLives, RetireLives, DecodeLives,
     CollectLives DEF RunStep, Scoring
<1>6. ~RuntimeError(t)
  BY DEF RuntimeError
<1> QED BY <1>1, <1>2, <1>3, <1>4, <1>5, <1>6

LEMMA InitLife == Init => LifeInv /\ Lifecycle!Init
<1>1. SUFFICES ASSUME Init PROVE LifeInv /\ Lifecycle!Init
  OBVIOUS
<1>2. /\ pending = <<>> /\ paused = <<>> /\ returned = <<>> /\ fate = [r \in Requests |-> "unsent"]
      /\ gen = [r \in Requests |-> 0]
      /\ \A t \in Threads : /\ pc[t] = "idle" /\ active[t] = <<>> /\ batch[t] = <<>> /\ ready[t] = <<>>
                            /\ results[t] = <<>>
  <2>1. /\ pending = <<>> /\ paused = <<>> /\ returned = <<>> /\ fate = [r \in Requests |-> "unsent"]
        /\ gen = [r \in Requests |-> 0] /\ pc = [t \in Threads |-> "idle"]
    BY <1>1 DEF Init
  <2>2. /\ active = [t \in Threads |-> <<>>] /\ batch = [t \in Threads |-> <<>>]
        /\ ready = [t \in Threads |-> <<>>] /\ results = [t \in Threads |-> <<>>]
    BY <1>1 DEF Init
  <2> QED BY <2>1, <2>2
<1>3. \A t \in Threads : InSession(t) = {} /\ Unsubmitted(t) = {} /\ Here(t) = {}
  BY <1>2, ToSetEmpty DEF InSession, Unsubmitted, SubmitPcs, StampPcs, Here
<1>4. LifeInv
  BY <1>2, <1>3 DEF LifeInv, Alive, Consuming
<1>5. \A r \in Requests : StageOf(r) = "new"
  <2>1. \A r : ReasonIn(<<>>, r) = {}
    BY DEF ReasonIn
  <2>2. \A r \in Requests : ReasonsOf(r) = {}
    BY <1>2, <2>1 DEF ReasonsOf
  <2> QED BY <1>2, <1>3, <2>2, ToSetEmpty DEF StageOf
<1> QED BY <1>2, <1>4, <1>5 DEF Lifecycle!Init

LEMMA LifeStep ==
    ASSUME DistinctIds, OneConsumer, ~RuntimeFails
    PROVE  AllInv /\ [Next]_vars => LifeInv' /\ [Lifecycle!Next]_(Lifecycle!vars)
<1>1. SUFFICES ASSUME AllInv, [Next]_vars PROVE LifeInv' /\ [Lifecycle!Next]_(Lifecycle!vars)
  OBVIOUS
<1>2. CASE Next
  BY <1>1, <1>2, StepLives DEF Lives, LifeInv
<1>3. CASE UNCHANGED vars
  <2>1. \A r \in Requests : StageOf(r)' = StageOf(r)
    BY <1>3 DEF vars, shared, locals, history, StageOf, ReasonsOf, ReasonIn, InSession
  <2>2. \A u \in Threads : Here(u)' = Here(u)
    BY <1>3 DEF vars, shared, locals, history, Here, InSession, Unsubmitted
  <2>3. Alive' /\ gen' = gen
    BY <1>1, <1>3, <2>2 DEF AllInv, LifeInv, Alive, vars, history
  <2>4. \A u \in Threads : Consuming(u)'
    BY <1>1, <1>3 DEF AllInv, LifeInv, Consuming, vars, shared, locals
  <2> QED BY <2>1, <2>3, <2>4, Stutters DEF LifeInv
<1> QED BY <1>1, <1>2, <1>3

\* The scheduler implements the life cycle of RequestLifecycle: every step of a
\* call of submit, cancel or run_until_complete moves one request, or the requests
\* of one batch, along it, or is not seen.  One thread takes requests out of the
\* queue: otherwise a withdrawal drops a request it did not find, and two loops
\* resume one request.  Ids are distinct, as a mark ends every request of its id,
\* and no session raises, as an exception takes requests out of the life cycle.
THEOREM ImplementsLifecycleHolds ==
    ASSUME OneConsumer, DistinctIds, ~RuntimeFails
    PROVE  Spec => ImplementsLifecycle
<1>1. SoleConsumer
  BY ConsumersBehave
<1>2. OwnCancels /\ (OneLoop \/ ~Preempts)
  BY <1>1 DEF SoleConsumer
<1>3. Spec => [](TypeOK /\ SlotsInv /\ LossInv /\ OnceInv)
  BY <1>2, OnceAlways
<1>4. Init => FreshInv
  BY DEF Init, FreshInv, Fresh, NoChoice, PassPcs, PopPcs
<1>5. TypeOK /\ SlotsInv /\ LossInv /\ FreshInv /\ [Next]_vars => FreshInv'
  BY <1>1, FreshInductive
<1>6. Init => LifeInv /\ Lifecycle!Init
  BY InitLife
<1>7. TypeOK /\ SlotsInv /\ LossInv /\ OnceInv /\ FreshInv /\ LifeInv /\ [Next]_vars =>
        LifeInv' /\ [Lifecycle!Next]_(Lifecycle!vars)
  BY LifeStep DEF AllInv
<1> QED BY <1>3, <1>4, <1>5, <1>6, <1>7, PTL DEF Spec, ImplementsLifecycle, Lifecycle!Spec

------------------------------------------------------------------------------
(***************************************************************************)
(* The exported counters, counted by the stages the requests are in.       *)
(***************************************************************************)

Accepted == {r \in Requests : StageOf(r) \notin {"new", "refused"}}
Ended == {r \in Requests : StageOf(r) \in {"completed", "aborted"}}
Aborted == {r \in Requests : StageOf(r) = "aborted"}
Stamping == {t \in Threads : pc[t] \in StampPcs}

\* What a step does to what the counters count.
StagesStay == Accepted' = Accepted /\ Ended' = Ended /\ Aborted' = Aborted /\ Withdrawn' = Withdrawn

\* Whoever has a result has ended.
ResultsEnd == \A r \in Requests : ReasonsOf(r) # {} => r \in Ended

CountInv ==
    /\ ResultsEnd
    /\ IsFiniteSet(Accepted) /\ IsFiniteSet(Stamping)
    /\ metrics.submitted + Cardinality(Stamping) = Cardinality(Accepted)
    /\ metrics.completed = Cardinality(Ended)
    /\ metrics.cancelled = Cardinality(Withdrawn) + Cardinality(Aborted)

LEMMA Moved ==
    ASSUME NEW S \in SUBSET Requests, NEW from, NEW to, Lifecycle!Move(S, from, to)
    PROVE  /\ \A r \in S : StageOf(r) = from /\ StageOf(r)' = to
           /\ \A r \in Requests \ S : StageOf(r)' = StageOf(r)
<1>1. \A r \in S : StageOf(r) = from
  BY DEF Lifecycle!Move
<1>2. \A r \in Requests : StageOf(r)' = IF r \in S THEN to ELSE StageOf(r)
  <2>1. [r \in Requests |-> StageOf(r)'] = [r \in Requests |-> IF r \in S THEN to ELSE StageOf(r)]
    BY DEF Lifecycle!Move
  <2> QED BY <2>1
<1> QED BY <1>1, <1>2

LEMMA WithdrawnStage ==
    ASSUME NEW r \in Requests
    PROVE  (r \in Withdrawn <=> StageOf(r) = "withdrawn") /\ (r \in Withdrawn' <=> StageOf(r)' = "withdrawn")
BY DEF Withdrawn, StageOf

\* Requests that move between stages a counter does not tell apart.
LEMMA MovedWithin ==
    ASSUME NEW S \in SUBSET Requests, NEW from, NEW to, Lifecycle!Move(S, from, to),
           \/ from = "new" /\ to = "refused"
           \/ {from, to} \subseteq {"queued", "running", "paused"}
    PROVE  StagesStay
<1>1. \A r \in S : StageOf(r) = from /\ StageOf(r)' = to
  BY Moved
<1>2. \A r \in Requests \ S : StageOf(r)' = StageOf(r)
  BY Moved
<1>3. \A r \in Requests : r \in Withdrawn' <=> r \in Withdrawn
  BY <1>1, <1>2, WithdrawnStage
<1>4. Withdrawn' = Withdrawn
  BY <1>3 DEF Withdrawn
<1> QED BY <1>1, <1>2, <1>4 DEF StagesStay, Accepted, Ended, Aborted

LEMMA AcceptCounts ==
    ASSUME NEW r \in Requests, Lifecycle!Accept(r)
    PROVE  /\ r \notin Accepted /\ Accepted' = Accepted \cup {r}
           /\ Ended' = Ended /\ Aborted' = Aborted /\ Withdrawn' = Withdrawn
<1>1. {r} \in SUBSET Requests /\ Lifecycle!Move({r}, "new", "queued")
  BY DEF Lifecycle!Accept
<1>2. StageOf(r) = "new" /\ StageOf(r)' = "queued" /\ \A x \in Requests \ {r} : StageOf(x)' = StageOf(x)
  BY <1>1, Moved
<1>3. \A x \in Requests : x \in Withdrawn' <=> x \in Withdrawn
  BY <1>2, WithdrawnStage
<1>4. Withdrawn' = Withdrawn
  BY <1>3 DEF Withdrawn
<1> QED BY <1>2, <1>4 DEF Accepted, Ended, Aborted

LEMMA WithdrawCounts ==
    ASSUME NEW r \in Requests, Lifecycle!Withdraw(r)
    PROVE  /\ r \notin Withdrawn /\ Withdrawn' = Withdrawn \cup {r}
           /\ Accepted' = Accepted /\ Ended' = Ended /\ Aborted' = Aborted
<1>1. {r} \in SUBSET Requests /\ Lifecycle!Move({r}, "queued", "withdrawn")
  BY DEF Lifecycle!Withdraw
<1>2. StageOf(r) = "queued" /\ StageOf(r)' = "withdrawn" /\ \A x \in Requests \ {r} : StageOf(x)' = StageOf(x)
  BY <1>1, Moved
<1>3. r \notin Withdrawn /\ \A x \in Requests : x \in Withdrawn' <=> x \in Withdrawn \/ x = r
  BY <1>2, WithdrawnStage
<1>4. Withdrawn' = Withdrawn \cup {r}
  BY <1>3 DEF Withdrawn
<1> QED BY <1>2, <1>3, <1>4 DEF Accepted, Ended, Aborted

LEMMA OutcomeCounts ==
    ASSUME NEW r \in Requests, NEW to \in {"completed", "aborted"}, Lifecycle!Move({r}, "running", to)
    PROVE  /\ r \notin Ended /\ Ended' = Ended \cup {r}
           /\ r \notin Aborted /\ Aborted' = IF to = "aborted" THEN Aborted \cup {r} ELSE Aborted
           /\ Accepted' = Accepted /\ Withdrawn' = Withdrawn
<1>1. {r} \in SUBSET Requests
  OBVIOUS
<1>2. StageOf(r) = "running" /\ StageOf(r)' = to /\ \A x \in Requests \ {r} : StageOf(x)' = StageOf(x)
  BY <1>1, Moved
<1>3. \A x \in Requests : x \in Withdrawn' <=> x \in Withdrawn
  BY <1>2, WithdrawnStage
<1>4. Withdrawn' = Withdrawn
  BY <1>3 DEF Withdrawn
<1>5. CASE to = "completed"
  BY <1>2, <1>4, <1>5 DEF Accepted, Ended, Aborted
<1>6. CASE to = "aborted"
  BY <1>2, <1>4, <1>6 DEF Accepted, Ended, Aborted
<1> QED BY <1>5, <1>6

\* A step that puts nobody in the queue, withdraws nobody and makes no result.
LEMMA OtherCounts ==
    ASSUME AllInv, [Lifecycle!Next]_(Lifecycle!vars), NEW t \in Threads,
           ToSet(pending)' \subseteq ToSet(pending),
           \A r \in Requests : fate'[r] = "withdrawn" => fate[r] = "withdrawn",
           \A r \in Requests : ReasonsOf(r)' = ReasonsOf(r)
    PROVE  StagesStay
<1>1. CASE UNCHANGED Lifecycle!vars
  <2>1. [r \in Requests |-> StageOf(r)'] = [r \in Requests |-> StageOf(r)]
    BY <1>1 DEF Lifecycle!vars
  <2>2. \A r \in Requests : StageOf(r)' = StageOf(r)
    BY <2>1
  <2>3. \A r \in Requests : r \in Withdrawn' <=> r \in Withdrawn
    BY <2>2, WithdrawnStage
  <2>4. Withdrawn' = Withdrawn
    BY <2>3 DEF Withdrawn
  <2> QED BY <2>2, <2>4 DEF StagesStay, Accepted, Ended, Aborted
<1>2. ASSUME NEW r \in Requests, Lifecycle!Accept(r) PROVE FALSE
  <2>1. StageOf(r) = "new" /\ StageOf(r)' = "queued"
    BY <1>2, Moved DEF Lifecycle!Accept
  <2>2. r \in ToSet(pending)'
    BY <2>1 DEF StageOf
  <2> QED BY <2>1, <2>2, StageQueued
<1>3. ASSUME NEW r \in Requests, Lifecycle!Withdraw(r) PROVE FALSE
  <2>1. StageOf(r) = "queued" /\ StageOf(r)' = "withdrawn"
    BY <1>3, Moved DEF Lifecycle!Withdraw
  <2> QED BY <2>1 DEF StageOf
<1>4. ASSUME NEW r \in Requests, NEW to \in {"completed", "aborted"}, Lifecycle!Move({r}, "running", to) PROVE FALSE
  <2>1. StageOf(r) = "running" /\ StageOf(r)' = to
    BY <1>4, Moved
  <2>2. to = "completed" => "length" \in ReasonsOf(r)'
    BY <2>1 DEF StageOf
  <2>3. to = "aborted" => "cancelled" \in ReasonsOf(r)'
    BY <2>1 DEF StageOf
  <2>4. "length" \notin ReasonsOf(r) /\ "cancelled" \notin ReasonsOf(r)
    BY <2>1 DEF StageOf
  <2> QED BY <2>2, <2>3, <2>4
<1>5. ASSUME NEW r \in Requests, Lifecycle!Start(r) \/ Lifecycle!Pause(r) PROVE StagesStay
  <2>1. {r} \in SUBSET Requests /\ (Lifecycle!Move({r}, "queued", "running") \/ Lifecycle!Move({r}, "running", "paused"))
    BY <1>5 DEF Lifecycle!Start, Lifecycle!Pause
  <2> QED BY <2>1, MovedWithin
<1>6. ASSUME NEW S \in SUBSET Lifecycle!In("new"), Lifecycle!Refuse(S) PROVE StagesStay
  <2>1. S \in SUBSET Requests /\ Lifecycle!Move(S, "new", "refused")
    BY <1>6 DEF Lifecycle!Refuse, Lifecycle!In
  <2> QED BY <2>1, MovedWithin
<1>7. ASSUME NEW S \in SUBSET Lifecycle!In("paused"), Lifecycle!Resume(S) PROVE StagesStay
  <2>1. S \in SUBSET Requests /\ Lifecycle!Move(S, "paused", "running")
    BY <1>7 DEF Lifecycle!Resume, Lifecycle!In
  <2> QED BY <2>1, MovedWithin
<1>8. ASSUME NEW S \in SUBSET Lifecycle!In("running"), Lifecycle!Generate(S) PROVE StagesStay
  <2>1. [r \in Requests |-> StageOf(r)'] = [r \in Requests |-> StageOf(r)]
    BY <1>8 DEF Lifecycle!Generate
  <2>2. \A r \in Requests : StageOf(r)' = StageOf(r)
    BY <2>1
  <2>3. \A r \in Requests : r \in Withdrawn' <=> r \in Withdrawn
    BY <2>2, WithdrawnStage
  <2>4. Withdrawn' = Withdrawn
    BY <2>3 DEF Withdrawn
  <2> QED BY <2>2, <2>4 DEF StagesStay, Accepted, Ended, Aborted
<1>9. ASSUME NEW r \in Requests, Lifecycle!Complete(r) \/ Lifecycle!Abort(r) PROVE FALSE
  BY <1>4, <1>9 DEF Lifecycle!Complete, Lifecycle!Abort
<1> QED BY <1>1, <1>2, <1>3, <1>5, <1>6, <1>7, <1>8, <1>9 DEF Lifecycle!Next

------------------------------------------------------------------------------
(* The steps *)

SameCounters(m, n) == n.submitted = m.submitted /\ n.completed = m.completed /\ n.cancelled = m.cancelled

LEMMA CountersKept ==
    ASSUME NEW m \in Metrics, NEW n \in Nat
    PROVE  /\ SameCounters(m, [m EXCEPT !.rejected = @ + n])
           /\ SameCounters(m, [m EXCEPT !.rejected = @ + 1])
           /\ SameCounters(m, [m EXCEPT !.generated = @ + n])
           /\ SameCounters(m, [m EXCEPT !.waits = @ + 1])
           /\ SameCounters(m, [m EXCEPT !.preemptions = @ + 1])
           /\ SameCounters(m, [m EXCEPT !.maxBatch = n, !.rounds = @ + 1])
BY DEF SameCounters, Metrics

LEMMA StampingStays ==
    ASSUME NEW t \in Threads, \A u \in Threads \ {t} : SameThread(u), pc[t] \in StampPcs <=> pc'[t] \in StampPcs
    PROVE  Stamping' = Stamping
BY DEF Stamping, SameThread, SameCall, SameLocals

LEMMA HiddenCounts ==
    ASSUME CountInv, StagesStay, SameCounters(metrics, metrics'), \A r \in Requests : ReasonsOf(r)' = ReasonsOf(r),
           NEW t \in Threads, \A u \in Threads \ {t} : SameThread(u), pc[t] \in StampPcs <=> pc'[t] \in StampPcs
    PROVE  CountInv'
<1>1. Stamping' = Stamping
  BY StampingStays
<1>2. ResultsEnd'
  BY DEF CountInv, StagesStay, ResultsEnd
<1> QED BY <1>1, <1>2 DEF CountInv, StagesStay, SameCounters

\* The steps that count nothing.
LEMMA SubmitCounts ==
    ASSUME AllInv, [Lifecycle!Next]_(Lifecycle!vars), CountInv, NEW t \in Threads,
           (\E c \in Calls : Submit(t, c)) \/ CheckCapacity(t) \/ Recheck(t)
    PROVE  CountInv'
<1>1. /\ TypeOK /\ metrics \in Metrics /\ pc \in [Threads -> Pcs] /\ call[t].batch \in Seq(Requests)
      /\ Len(call[t].batch) \in Nat
  <2>1. TypeOK /\ metrics \in Metrics /\ pc \in [Threads -> Pcs]
    BY DEF AllInv, TypeOK
  <2>2. call[t].batch \in Seq(Requests)
    BY <2>1, ListsOfRequests
  <2> QED BY <2>1, <2>2
<1>2. \A u \in Threads \ {t} : SameThread(u)
  BY <1>1, ClientLeavesOthers DEF ClientStep
<1>3. UNCHANGED <<pending, results, returned>>
  BY DEF Submit, CheckCapacity, Recheck
<1>4. \A r \in Requests : fate'[r] = "withdrawn" => fate[r] = "withdrawn"
  BY DEF Submit, CheckCapacity, Recheck, Reject
<1>5. StagesStay
  BY <1>3, <1>4, ReasonsStay, OtherCounts
<1>6. SameCounters(metrics, metrics')
  <2>1. \/ metrics' = metrics \/ metrics' = [metrics EXCEPT !.rejected = @ + 1]
        \/ metrics' = [metrics EXCEPT !.rejected = @ + Len(call[t].batch)]
        \/ metrics' = [metrics EXCEPT !.waits = @ + 1]
    BY DEF Submit, CheckCapacity, Recheck, Reject
  <2>2. metrics' = metrics => SameCounters(metrics, metrics')
    BY DEF SameCounters
  <2> QED BY <1>1, <2>1, <2>2, CountersKept
<1>7. pc[t] \notin StampPcs /\ pc'[t] \notin StampPcs
  BY <1>1 DEF Submit, CheckCapacity, Recheck, Reject, Goto, StampPcs
<1>8. \A r \in Requests : ReasonsOf(r)' = ReasonsOf(r)
  BY <1>3, ReasonsStay
<1> QED BY <1>2, <1>5, <1>6, <1>7, <1>8, HiddenCounts

LEMMA CallCounts ==
    ASSUME AllInv, [Lifecycle!Next]_(Lifecycle!vars), CountInv, NEW t \in Threads,
           \/ StopWaiting(t) \/ (\E i \in Ids : Cancel(t, i)) \/ Run(t) \/ Stamp(t) \/ Number(t)
           \/ Enqueue(t) /\ call[t].batch = <<>>
    PROVE  CountInv'
<1>1. TypeOK /\ pc \in [Threads -> Pcs]
  BY DEF AllInv, TypeOK
<1>2. \A u \in Threads \ {t} : SameThread(u)
  BY <1>1, ClientLeavesOthers, RunLeavesOthers DEF ClientStep, AllInv
<1>3. UNCHANGED <<pending, metrics, results, returned, fate>>
  BY DEF StopWaiting, Cancel, Run, Stamp, Number, Enqueue, shared, locals, history
<1>4. StagesStay
  BY <1>3, ReasonsStay, OtherCounts
<1>5. SameCounters(metrics, metrics')
  BY <1>3 DEF SameCounters
<1>6. pc[t] \in StampPcs <=> pc'[t] \in StampPcs
  BY <1>1 DEF StopWaiting, Cancel, Run, Stamp, Number, Enqueue, Goto, StampPcs
<1>7. \A r \in Requests : ReasonsOf(r)' = ReasonsOf(r)
  BY <1>3, ReasonsStay
<1> QED BY <1>2, <1>4, <1>5, <1>6, <1>7, HiddenCounts

LEMMA RoundCounts ==
    ASSUME AllInv, [Lifecycle!Next]_(Lifecycle!vars), CountInv, NEW t \in Threads,
           \/ Loop(t) \/ Resume(t) \/ Unpause(t) \/ Admit(t) \/ Scoring(t) \/ Take(t) \/ Prefill(t)
           \/ Preempt(t) \/ Displace(t) \/ Round(t) \/ Snapshot(t) \/ Decode(t)
    PROVE  CountInv'
<1>1. /\ TypeOK /\ metrics \in Metrics /\ pc \in [Threads -> Pcs] /\ pending \in Seq(Requests) /\ IsInjective(pending)
      /\ ready[t] \in Seq(Requests) /\ active[t] \in Seq(Requests) /\ Fresh(t) /\ Consuming(t) /\ quota[t] \in Nat
  <2>1. metrics \in Metrics /\ pc \in [Threads -> Pcs] /\ IsInjective(pending) /\ Fresh(t) /\ Consuming(t) /\ quota[t] \in Nat
    BY DEF AllInv, TypeOK, OnceInv, FreshInv, LifeInv
  <2> QED BY <2>1, ListsOfRequests DEF AllInv
<1>2. \A u \in Threads \ {t} : SameThread(u)
  BY <1>1, RunLeavesOthers DEF RunStep, Scoring, AllInv
<1>3. Raise(t) => Loop(t)
  <2>1. SUFFICES ASSUME Raise(t), ~Loop(t) PROVE FALSE
    OBVIOUS
  <2>2. pc'[t] = "idle"
    BY <1>1, <2>1 DEF Raise
  <2>3. ~(Resume(t) \/ Unpause(t) \/ Admit(t) \/ Prefill(t) \/ Preempt(t) \/ Round(t) \/ Snapshot(t) \/ Decode(t))
    BY <1>1, <2>2 DEF Resume, Unpause, Admit, Prefill, Preempt, Round, Snapshot, Decode, Goto
  <2>4. ~Scoring(t)
    BY <2>1, ScoringHidden
  <2>5. ~Take(t)
    BY <1>1, <2>2 DEF Take, Goto, Fresh
  <2>6. ~Displace(t)
    BY <1>1, <2>2 DEF Displace, Goto, Consuming
  <2> QED BY <2>1, <2>3, <2>4, <2>5, <2>6
<1>4. ToSet(pending)' \subseteq ToSet(pending)
  <2>1. CASE pending' = pending
    BY <2>1
  <2>2. CASE Take(t)
    <3>1. pick[t] \in DOMAIN pending /\ pending' = RemoveAt(pending, pick[t])
      BY <1>1, <1>3, <2>2 DEF Take, Goto, Fresh
    <3> QED BY <1>1, <3>1, InjectiveRemoveAt
  <2> QED BY <1>3, <2>1, <2>2, ScoringHidden DEF Loop, Resume, Unpause, Admit, Prefill, Preempt, Displace, Round,
        Snapshot, Decode, shared
<1>5. fate' = fate
  BY <1>3, ScoringHidden DEF Loop, Resume, Unpause, Admit, Take, Prefill, Preempt, Displace, Round, Snapshot, Decode,
     history
<1>6. \A r \in Requests : ReasonsOf(r)' = ReasonsOf(r)
  <2>1. CASE returned' = returned \o results[t] /\ results' = [results EXCEPT ![t] = <<>>]
    BY <1>1, <2>1, ReasonsReturned
  <2>2. CASE UNCHANGED <<results, returned>>
    BY <2>2, ReasonsStay
  <2> QED BY <1>3, <2>1, <2>2, ScoringHidden DEF Loop, Resume, Unpause, Admit, Take, Prefill, Preempt, Displace,
        Round, Snapshot, Decode, history, locals
<1>7. StagesStay
  BY <1>4, <1>5, <1>6, OtherCounts
<1>8. SameCounters(metrics, metrics')
  <2>1. metrics' = metrics => SameCounters(metrics, metrics')
    BY DEF SameCounters
  <2>2. CASE Displace(t)
    <3>1. metrics' = metrics \/ metrics' = [metrics EXCEPT !.preemptions = @ + 1]
      BY <2>2 DEF Displace, Raise, shared
    <3> QED BY <1>1, <2>1, <3>1, CountersKept
  <2>3. CASE Round(t)
    <3>1. metrics' = metrics \/ \E n \in Nat : metrics' = [metrics EXCEPT !.maxBatch = n, !.rounds = @ + 1]
      <4>1. Len(active[t]) \in Nat /\ metrics.maxBatch \in Nat
        BY <1>1 DEF Metrics
      <4> QED BY <2>3, <4>1 DEF Round
    <3> QED BY <1>1, <2>1, <3>1, CountersKept
  <2>4. CASE Decode(t)
    <3>1. metrics' = [metrics EXCEPT !.generated = @ + Len(ready[t])] /\ Len(ready[t]) \in Nat
      BY <1>1, <2>4 DEF Decode
    <3> QED BY <1>1, <3>1, CountersKept
  <2> QED BY <1>3, <2>1, <2>2, <2>3, <2>4, ScoringHidden DEF Loop, Resume, Unpause, Admit, Take, Prefill, Preempt,
        Snapshot, shared
<1>9. pc[t] \notin StampPcs /\ pc'[t] \notin StampPcs
  BY <1>1, <1>3, ScoringHidden DEF Loop, Resume, Unpause, Admit, Take, Prefill, Preempt, Displace, Round, Snapshot,
     Decode, Goto, StampPcs, PassPcs, PopPcs
<1> QED BY <1>2, <1>6, <1>7, <1>8, <1>9, HiddenCounts

\* The steps that count: a submission, a new request in the queue, a withdrawal, a result.
LEMMA CountSubmittedCounts ==
    ASSUME AllInv, [Lifecycle!Next]_(Lifecycle!vars), CountInv, NEW t \in Threads, CountSubmitted(t)
    PROVE  CountInv'
<1>1. TypeOK /\ pc \in [Threads -> Pcs] /\ metrics \in Metrics
  BY DEF AllInv, TypeOK
<1>2. \A u \in Threads \ {t} : SameThread(u)
  BY <1>1, ClientLeavesOthers DEF ClientStep
<1>3. UNCHANGED <<pending, results, returned, fate>> /\ pc[t] = "count" /\ pc'[t] = "enqueue"
  BY <1>1 DEF CountSubmitted, Goto, history
<1>4. StagesStay
  BY <1>3, ReasonsStay, OtherCounts
<1>5. Stamping' = Stamping \ {t} /\ t \in Stamping
  BY <1>2, <1>3 DEF Stamping, StampPcs, SameThread, SameCall, SameLocals
<1>6. IsFiniteSet(Stamping') /\ Cardinality(Stamping') = Cardinality(Stamping) - 1
  BY <1>5, FS_RemoveElement DEF CountInv
<1>7. /\ metrics'.submitted = metrics.submitted + 1 /\ metrics'.completed = metrics.completed
      /\ metrics'.cancelled = metrics.cancelled /\ metrics.submitted \in Nat
  <2>1. metrics' = [metrics EXCEPT !.submitted = @ + 1]
    BY DEF CountSubmitted
  <2> QED BY <1>1, <2>1 DEF Metrics
<1>8. Cardinality(Stamping) \in Nat
  BY FS_CardinalityType DEF CountInv
<1>9. ResultsEnd'
  BY <1>3, <1>4, ReasonsStay DEF CountInv, StagesStay, ResultsEnd
<1> QED BY <1>4, <1>6, <1>7, <1>8, <1>9 DEF CountInv, StagesStay

LEMMA EnqueueCounts ==
    ASSUME AllInv, CountInv, NEW t \in Threads, Enqueue(t), call[t].batch # <<>>,
           NEW r \in Requests, Lifecycle!Accept(r)
    PROVE  CountInv'
<1>1. TypeOK /\ pc \in [Threads -> Pcs]
  BY DEF AllInv, TypeOK
<1>2. \A u \in Threads \ {t} : SameThread(u)
  BY <1>1, ClientLeavesOthers DEF ClientStep
<1>3. metrics' = metrics /\ pc[t] = "enqueue" /\ pc'[t] = "stamp"
  BY <1>1 DEF Enqueue, Goto
<1>4. Stamping' = Stamping \cup {t} /\ t \notin Stamping
  BY <1>2, <1>3 DEF Stamping, StampPcs, SameThread, SameCall, SameLocals
<1>5. IsFiniteSet(Stamping') /\ Cardinality(Stamping') = Cardinality(Stamping) + 1
  BY <1>4, FS_AddElement DEF CountInv
<1>6. /\ r \notin Accepted /\ Accepted' = Accepted \cup {r}
      /\ Ended' = Ended /\ Aborted' = Aborted /\ Withdrawn' = Withdrawn
  BY AcceptCounts
<1>7. IsFiniteSet(Accepted') /\ Cardinality(Accepted') = Cardinality(Accepted) + 1
  BY <1>6, FS_AddElement DEF CountInv
<1>8. Cardinality(Stamping) \in Nat /\ metrics.submitted \in Nat
  BY FS_CardinalityType DEF CountInv, AllInv, TypeOK, Metrics
<1>9. metrics.submitted + Cardinality(Stamping') = Cardinality(Accepted')
  BY <1>5, <1>7, <1>8 DEF CountInv
<1>10. ResultsEnd'
  <2>1. UNCHANGED <<results, returned>>
    BY DEF Enqueue, history
  <2> QED BY <1>6, <2>1, ReasonsStay DEF CountInv, ResultsEnd
<1> QED BY <1>3, <1>5, <1>6, <1>7, <1>9, <1>10 DEF CountInv

\* What is finite: the stages the counters count.
LEMMA CountedFinite ==
    ASSUME CountInv
    PROVE  /\ IsFiniteSet(Ended) /\ IsFiniteSet(Aborted) /\ IsFiniteSet(Withdrawn)
           /\ Cardinality(Ended) \in Nat /\ Cardinality(Aborted) \in Nat /\ Cardinality(Withdrawn) \in Nat
           /\ Withdrawn \subseteq Accepted /\ Ended \subseteq Accepted /\ Withdrawn \cap Ended = {}
<1>1. \A r \in Requests : r \in Withdrawn <=> StageOf(r) = "withdrawn"
  BY WithdrawnStage
<1>2. Ended \subseteq Accepted /\ Aborted \subseteq Accepted
  BY DEF Ended, Aborted, Accepted
<1>3. Withdrawn \subseteq Accepted /\ Withdrawn \cap Ended = {}
  <2>1. Withdrawn \subseteq Requests
    BY DEF Withdrawn
  <2> QED BY <1>1, <2>1 DEF Accepted, Ended
<1>4. IsFiniteSet(Ended) /\ IsFiniteSet(Aborted) /\ IsFiniteSet(Withdrawn)
  BY <1>2, <1>3, FS_Subset DEF CountInv
<1> QED BY <1>2, <1>3, <1>4, FS_CardinalityType

LEMMA WithdrawalCounts ==
    ASSUME AllInv, CountInv, NEW t \in Threads, Withdraw(t), NEW r \in Requests, Lifecycle!Withdraw(r)
    PROVE  CountInv'
<1>1. TypeOK /\ pc \in [Threads -> Pcs] /\ metrics \in Metrics
  BY DEF AllInv, TypeOK
<1>2. \A u \in Threads \ {t} : SameThread(u)
  BY <1>1, ClientLeavesOthers DEF ClientStep
<1>3. pc[t] = "withdraw" /\ pc'[t] = "idle"
  BY <1>1 DEF Withdraw, Goto
<1>4. Stamping' = Stamping
  BY <1>2, <1>3, StampingStays DEF StampPcs
<1>5. /\ r \notin Withdrawn /\ Withdrawn' = Withdrawn \cup {r}
      /\ Accepted' = Accepted /\ Ended' = Ended /\ Aborted' = Aborted
  BY WithdrawCounts
<1>6. Cardinality(Withdrawn') = Cardinality(Withdrawn) + 1 /\ Cardinality(Withdrawn) \in Nat /\ Cardinality(Aborted) \in Nat
  BY <1>5, CountedFinite, FS_AddElement
<1>7. pick[t] \in DOMAIN pending /\ pending \in Seq(Requests)
  BY <1>1, <1>3, ListsOfRequests DEF AllInv, LifeInv, Consuming
<1>8. metrics' = [metrics EXCEPT !.cancelled = @ + 1]
  <2>1. pick[t] <= Len(pending) /\ ~(pick[t] > Len(pending))
    BY <1>7
  <2> QED BY <2>1 DEF Withdraw
<1>9. /\ metrics'.submitted = metrics.submitted /\ metrics'.completed = metrics.completed
      /\ metrics'.cancelled = metrics.cancelled + 1
  BY <1>1, <1>8 DEF Metrics
<1>10. ResultsEnd'
  <2>1. UNCHANGED <<results, returned>>
    BY DEF Withdraw
  <2> QED BY <1>5, <2>1, ReasonsStay DEF CountInv, ResultsEnd
<1> QED BY <1>4, <1>5, <1>6, <1>9, <1>10 DEF CountInv

LEMMA AnswerCounts ==
    ASSUME AllInv, CountInv, NEW t \in Threads, Retire(t) \/ Collect(t), Answers(t)
    PROVE  CountInv'
<1>1. TypeOK /\ pc \in [Threads -> Pcs] /\ metrics \in Metrics
  BY DEF AllInv, TypeOK
<1>2. \A u \in Threads \ {t} : SameThread(u)
  BY <1>1, RunLeavesOthers DEF RunStep, AllInv
<1>3. pc[t] \notin StampPcs /\ pc'[t] \notin StampPcs
  BY <1>1 DEF Retire, Collect, Goto, StampPcs
<1>4. Stamping' = Stamping
  BY <1>2, <1>3, StampingStays
<1>5. PICK h \in Requests : /\ FinishIfOver(t, h) /\ ~IsReady(h)
                            /\ IF Marked(h) THEN Lifecycle!Abort(h) ELSE Lifecycle!Complete(h)
  BY DEF Answers
<1>6. /\ h \notin Ended /\ Ended' = Ended \cup {h}
      /\ h \notin Aborted /\ Aborted' = IF Marked(h) THEN Aborted \cup {h} ELSE Aborted
      /\ Accepted' = Accepted /\ Withdrawn' = Withdrawn
  <2>1. CASE Marked(h)
    BY <1>5, <2>1, OutcomeCounts DEF Lifecycle!Abort
  <2>2. CASE ~Marked(h)
    BY <1>5, <2>2, OutcomeCounts DEF Lifecycle!Complete
  <2> QED BY <2>1, <2>2
<1>7. Cardinality(Ended') = Cardinality(Ended) + 1
  BY <1>6, CountedFinite, FS_AddElement
<1>8. Cardinality(Aborted \cup {h}) = Cardinality(Aborted) + 1
  BY <1>6, CountedFinite, FS_AddElement
<1>9. metrics'.submitted = metrics.submitted /\ metrics'.completed = metrics.completed + 1
  <2>1. \/ metrics' = [metrics EXCEPT !.completed = @ + 1]
        \/ metrics' = [metrics EXCEPT !.cancelled = @ + 1, !.completed = @ + 1]
    BY <1>5 DEF FinishIfOver, IsReady
  <2> QED BY <1>1, <2>1 DEF Metrics
<1>10. metrics'.cancelled = IF Marked(h) THEN metrics.cancelled + 1 ELSE metrics.cancelled
  <2>1. CASE Marked(h)
    <3>1. metrics' = [metrics EXCEPT !.cancelled = @ + 1, !.completed = @ + 1]
      BY <1>5, <2>1 DEF FinishIfOver
    <3> QED BY <1>1, <2>1, <3>1 DEF Metrics
  <2>2. CASE ~Marked(h)
    <3>1. metrics' = [metrics EXCEPT !.completed = @ + 1]
      BY <1>5, <2>2 DEF FinishIfOver, IsReady
    <3> QED BY <1>1, <2>2, <3>1 DEF Metrics
  <2> QED BY <2>1, <2>2
<1>11. metrics'.cancelled = Cardinality(Withdrawn') + Cardinality(Aborted')
  <2>1. Cardinality(Withdrawn) \in Nat /\ Cardinality(Aborted) \in Nat
    BY CountedFinite
  <2>2. CASE Marked(h)
    BY <1>6, <1>8, <1>10, <2>1, <2>2 DEF CountInv
  <2>3. CASE ~Marked(h)
    BY <1>6, <1>10, <2>3 DEF CountInv
  <2> QED BY <2>2, <2>3
<1>12. ResultsEnd'
  <2>1. PICK e \in Result : results' = [results EXCEPT ![t] = Append(@, e)] /\ e.req = h
    <3>1. PICK why \in {"length", "cancelled"} : Finish(t, h, why)
      BY <1>5 DEF FinishIfOver, IsReady
    <3>2. PICK e : e = [req |-> h, reason |-> why, tokens |-> gen[h]]
      OBVIOUS
    <3>3. gen[h] \in Nat
      BY <1>1 DEF TypeOK
    <3>4. e \in Result
      BY <3>2, <3>3 DEF Result
    <3> QED BY <3>1, <3>2, <3>4 DEF Finish
  <2>2. returned' = returned
    BY DEF Retire, Collect, history
  <2>3. \A r \in Requests : ReasonsOf(r)' = ReasonsOf(r) \cup (IF r = e.req THEN {e.reason} ELSE {})
    BY <1>1, <2>1, <2>2, ReasonsAppend
  <2>4. ASSUME NEW r \in Requests, ReasonsOf(r)' # {} PROVE r \in Ended'
    <3>1. CASE r = h
      BY <1>6, <3>1
    <3>2. CASE r # h
      BY <1>6, <2>1, <2>3, <2>4, <3>2 DEF CountInv, ResultsEnd
    <3> QED BY <3>1, <3>2
  <2> QED BY <2>4 DEF ResultsEnd
<1> QED BY <1>4, <1>6, <1>7, <1>9, <1>11, <1>12 DEF CountInv

LEMMA CountStep ==
    ASSUME DistinctIds, OneConsumer, ~RuntimeFails
    PROVE  AllInv /\ CountInv /\ [Next]_vars => CountInv'
<1>1. SUFFICES ASSUME AllInv, CountInv, [Next]_vars PROVE CountInv'
  OBVIOUS
<1>2. CASE UNCHANGED vars
  <2>1. \A r \in Requests : StageOf(r)' = StageOf(r)
    BY <1>2 DEF vars, shared, locals, history, StageOf, ReasonsOf, ReasonIn, InSession
  <2>2. Stamping' = Stamping /\ Withdrawn' = Withdrawn /\ metrics' = metrics
    BY <1>2 DEF vars, shared, history, Stamping, Withdrawn
  <2>4. ResultsEnd'
    BY <1>1, <1>2, <2>1, ReasonsStay DEF vars, history, locals, CountInv, ResultsEnd, Ended
  <2>3. Accepted' = Accepted /\ Ended' = Ended /\ Aborted' = Aborted
    BY <2>1 DEF Accepted, Ended, Aborted
  <2> QED BY <1>1, <2>2, <2>3, <2>4 DEF CountInv
<1>3. ASSUME Next PROVE CountInv'
  <2>1. [Lifecycle!Next]_(Lifecycle!vars)
    BY <1>1, LifeStep
  <2>2. PICK t \in Threads : \/ \E c \in Calls : Submit(t, c)
                             \/ \E i \in Ids : Cancel(t, i)
                             \/ Run(t) \/ ClientStep(t) \/ RunStep(t) \/ RuntimeError(t)
    BY <1>3 DEF Next
  <2>3. ~RuntimeError(t)
    BY DEF RuntimeError
  <2>4. CASE Enqueue(t)
    <3>1. CASE call[t].batch = <<>>
      BY <1>1, <2>1, <2>4, <3>1, CallCounts
    <3>2. CASE call[t].batch # <<>>
      BY <1>1, <2>4, <3>2, EnqueueLives, EnqueueCounts
    <3> QED BY <3>1, <3>2
  <2>5. CASE Withdraw(t)
    BY <1>1, <2>5, WithdrawLives, WithdrawalCounts
  <2>6. CASE Retire(t) \/ Collect(t)
    <3>1. Answers(t) \/ UNCHANGED <<metrics, results>>
      BY <1>1, <2>6, RetireLives, CollectLives
    <3>2. CASE Answers(t)
      BY <1>1, <2>6, <3>2, AnswerCounts
    <3>3. CASE UNCHANGED <<metrics, results>>
      <4>1. UNCHANGED <<pending, fate, returned>>
        BY <2>6 DEF Retire, Collect, history
      <4>2. StagesStay
        BY <1>1, <2>1, <3>3, <4>1, ReasonsStay, OtherCounts
      <4>3. \A u \in Threads \ {t} : SameThread(u)
        BY <1>1, <2>6, RunLeavesOthers DEF RunStep, AllInv
      <4>4. pc \in [Threads -> Pcs]
        BY <1>1 DEF AllInv, TypeOK
      <4>5. pc[t] \notin StampPcs /\ pc'[t] \notin StampPcs
        BY <2>6, <4>4 DEF Retire, Collect, Goto, StampPcs
      <4>6. SameCounters(metrics, metrics')
        BY <3>3 DEF SameCounters
      <4>7. \A r \in Requests : ReasonsOf(r)' = ReasonsOf(r)
        BY <3>3, <4>1, ReasonsStay
      <4> QED BY <1>1, <4>2, <4>3, <4>5, <4>6, <4>7, HiddenCounts
    <3> QED BY <3>1, <3>2, <3>3
  <2>7. CASE (\E c \in Calls : Submit(t, c)) \/ CheckCapacity(t) \/ Recheck(t)
    BY <1>1, <2>1, <2>7, SubmitCounts
  <2>8. CASE StopWaiting(t) \/ (\E i \in Ids : Cancel(t, i)) \/ Run(t) \/ Stamp(t) \/ Number(t)
    BY <1>1, <2>1, <2>8, CallCounts
  <2>9. CASE CountSubmitted(t)
    BY <1>1, <2>1, <2>9, CountSubmittedCounts
  <2>10. CASE \/ Loop(t) \/ Resume(t) \/ Unpause(t) \/ Admit(t) \/ Scoring(t) \/ Take(t) \/ Prefill(t)
              \/ Preempt(t) \/ Displace(t) \/ Round(t) \/ Snapshot(t) \/ Decode(t)
    BY <1>1, <2>1, <2>10, RoundCounts
  <2> QED BY <2>2, <2>3, <2>4, <2>5, <2>6, <2>7, <2>8, <2>9, <2>10 DEF ClientStep, RunStep, Scoring
<1> QED BY <1>1, <1>2, <1>3

LEMMA InitCount == Init => CountInv
<1>1. SUFFICES ASSUME Init PROVE CountInv
  OBVIOUS
<1>2. \A r \in Requests : StageOf(r) = "new"
  <2>1. Lifecycle!Init
    BY <1>1, InitLife
  <2> QED BY <2>1 DEF Lifecycle!Init
<1>3. Accepted = {} /\ Ended = {} /\ Aborted = {}
  BY <1>2 DEF Accepted, Ended, Aborted
<1>4. Stamping = {} /\ Withdrawn = {}
  BY <1>1 DEF Init, Stamping, StampPcs, Withdrawn
<1>5. metrics.submitted = 0 /\ metrics.completed = 0 /\ metrics.cancelled = 0
  BY <1>1 DEF Init
<1>6. ResultsEnd
  <2>1. \A r : ReasonIn(<<>>, r) = {}
    BY DEF ReasonIn
  <2>2. returned = <<>> /\ \A t \in Threads : results[t] = <<>>
    BY <1>1 DEF Init
  <2> QED BY <2>1, <2>2 DEF ReasonsOf, ResultsEnd
<1> QED BY <1>3, <1>4, <1>5, <1>6, FS_EmptySet DEF CountInv

------------------------------------------------------------------------------
(* The counters add up. *)

\* What is neither new nor refused is open, withdrawn or ended.
LEMMA OpenStages ==
    ASSUME AllInv, NEW t \in Threads
    PROVE  Open = {r \in Requests : StageOf(r) \in {"queued", "running", "paused"}}
<1>1. TypeOK /\ Alive /\ pending \in Seq(Requests) /\ paused \in Seq(Requests)
  BY DEF AllInv, LifeInv, TypeOK
<1>2. ASSUME NEW r \in Open PROVE r \in Requests /\ StageOf(r) \in {"queued", "running", "paused"}
  <2>1. PICK u \in Threads : r \in Here(u)
    BY <1>2 DEF Open, Here
  <2>2. r \in Requests /\ fate[r] = "sent"
    BY <1>1, <2>1, HereRequests DEF AllInv, Alive
  <2>3. ReasonsOf(r) = {}
    BY <1>1, <1>2, <2>2, ReasonsTyped DEF Open
  <2>4. r \in ToSet(pending) \/ r \in ToSet(paused) \/ \E v \in Threads : r \in InSession(v)
    BY <1>2 DEF Open
  <2> QED BY <2>2, <2>3, <2>4 DEF StageOf
<1>3. ASSUME NEW r \in Requests, StageOf(r) \in {"queued", "running", "paused"} PROVE r \in Open
  <2>1. "length" \notin ReasonsOf(r) /\ "cancelled" \notin ReasonsOf(r)
    BY <1>3 DEF StageOf
  <2>2. ~HasResult(r)
    BY <1>1, <2>1, ReasonsTyped
  <2>3. r \in ToSet(pending) \/ r \in ToSet(paused) \/ \E v \in Threads : r \in InSession(v)
    BY <1>3 DEF StageOf
  <2> QED BY <2>2, <2>3 DEF Open
<1> QED BY <1>2, <1>3

LEMMA AcceptedSplit ==
    ASSUME AllInv, CountInv, NEW t \in Threads
    PROVE  /\ IsFiniteSet(Open)
           /\ Cardinality(Accepted) = Cardinality(Ended) + Cardinality(Withdrawn) + Cardinality(Open)
<1>1. Open = {r \in Requests : StageOf(r) \in {"queued", "running", "paused"}}
  BY OpenStages
<1>2. \A r \in Requests : StageOf(r) \in {"new", "refused", "queued", "running", "paused", "withdrawn", "completed", "aborted"}
  BY DEF StageOf
<1>3. \A r \in Requests : r \in Withdrawn <=> StageOf(r) = "withdrawn"
  BY WithdrawnStage
<1>4. Withdrawn \subseteq Requests
  BY DEF Withdrawn
<1>5. Accepted = (Ended \cup Withdrawn) \cup Open
  BY <1>1, <1>2, <1>3, <1>4 DEF Accepted, Ended
<1>6. Ended \cap Withdrawn = {} /\ (Ended \cup Withdrawn) \cap Open = {}
  BY <1>1, <1>3, <1>4 DEF Ended
<1>7. IsFiniteSet(Open)
  BY <1>5, FS_Subset DEF CountInv
<1>8. IsFiniteSet(Ended) /\ IsFiniteSet(Withdrawn) /\ Cardinality(Ended) \in Nat /\ Cardinality(Withdrawn) \in Nat
  BY CountedFinite
<1>9. IsFiniteSet(Ended \cup Withdrawn) /\ Cardinality(Ended \cup Withdrawn) = Cardinality(Ended) + Cardinality(Withdrawn)
  BY <1>6, <1>8, FS_Union, FS_EmptySet
<1>10. Cardinality(Accepted) = Cardinality(Ended \cup Withdrawn) + Cardinality(Open)
  <2>1. Cardinality(Open) \in Nat /\ Cardinality(Ended \cup Withdrawn) \in Nat
    BY <1>7, <1>9, FS_CardinalityType
  <2>2. PICK B : B = Ended \cup Withdrawn
    OBVIOUS
  <2>3. Cardinality(B \cup Open) = Cardinality(B) + Cardinality(Open) - Cardinality(B \cap Open)
    BY <1>7, <1>9, <2>2, FS_Union
  <2>4. Cardinality(B \cap Open) = 0
    BY <1>6, <2>2, FS_EmptySet
  <2> QED BY <1>5, <2>1, <2>2, <2>3, <2>4
<1> QED BY <1>7, <1>9, <1>10

\* A map that takes each element of T once.
LEMMA SameSize ==
    ASSUME NEW S, NEW T, IsFiniteSet(T), NEW f \in [S -> T], IsInjective(f), \A y \in T : \E x \in S : f[x] = y
    PROVE  IsFiniteSet(S) /\ Cardinality(S) = Cardinality(T)
<1>1. f \in Injection(S, T) /\ f \in Surjection(S, T)
  BY DEF Injection, Surjection
<1> QED BY <1>1, FS_Injection

\* A request is answered for one reason.
LEMMA OneReason ==
    ASSUME TypeOK, OnceInv, NEW r \in Requests, NEW x \in ReasonsOf(r), NEW y \in ReasonsOf(r)
    PROVE  x = y
<1>1. Apart /\ IsInjective(Reqs(returned)) /\ \A t \in Threads : IsInjective(Reqs(results[t]))
  BY DEF OnceInv, Tidy
<1>2. \A q : \A z : z \in ReasonIn(q, r) <=> \E k \in DOMAIN q : q[k].req = r /\ q[k].reason = z
  BY DEF ReasonIn
<1>3. \A q : IsInjective(Reqs(q)) => \A j, k \in DOMAIN q : q[j].req = q[k].req => j = k
  BY DEF IsInjective, Reqs
<1>4. ReasonIn(returned, r) # {} => r \in Final
  BY <1>2 DEF Final, Reqs, ToSet
<1>5. \A t \in Threads : ReasonIn(results[t], r) # {} => r \in Mine(t)
  BY <1>2 DEF Mine, Answered, Reqs, ToSet
<1>6. \A t \in Threads : Mine(t) \cap Final = {}
  BY <1>1 DEF Apart, Shared
<1>7. CASE x \in ReasonIn(returned, r)
  <2>1. y \in ReasonIn(returned, r)
    BY <1>4, <1>5, <1>6, <1>7 DEF ReasonsOf
  <2> QED BY <1>1, <1>2, <1>3, <1>7, <2>1
<1>8. ASSUME NEW t \in Threads, x \in ReasonIn(results[t], r) PROVE x = y
  <2>1. y \in ReasonIn(results[t], r)
    <3>1. r \in Mine(t) /\ \A u \in Threads : r \in Mine(u) => u = t
      BY <1>1, <1>5, <1>8 DEF Apart
    <3> QED BY <1>4, <1>5, <1>6, <3>1 DEF ReasonsOf
  <2> QED BY <1>1, <1>2, <1>3, <1>8, <2>1
<1> QED BY <1>7, <1>8 DEF ReasonsOf

\* The requests with a cancelled result are those that were aborted.
LEMMA AbortedResults ==
    ASSUME AllInv, CountInv, NEW r \in Requests
    PROVE  r \in Aborted <=> "cancelled" \in ReasonsOf(r)
<1>1. ASSUME "cancelled" \in ReasonsOf(r) PROVE r \in Aborted
  <2>1. StageOf(r) \in {"completed", "aborted"}
    BY <1>1 DEF CountInv, ResultsEnd, Ended
  <2>2. "length" \notin ReasonsOf(r)
    BY <1>1, OneReason DEF AllInv
  <2> QED BY <2>1, <2>2 DEF StageOf, Aborted
<1>2. ASSUME r \in Aborted PROVE "cancelled" \in ReasonsOf(r)
  BY <1>2 DEF StageOf, Aborted
<1> QED BY <1>1, <1>2

CancelledPairs ==
    LET Cancellations == {<<t, k>> : t \in Threads, k \in UNION {CancelledResults(results[u]) : u \in Threads}}
    IN  {x \in Cancellations : x[2] \in CancelledResults(results[x[1]])}

LEMMA PairsAre ==
    /\ \A x \in CancelledPairs : \E t \in Threads : \E k \in CancelledResults(results[t]) : x = <<t, k>>
    /\ \A t \in Threads : \A k \in CancelledResults(results[t]) : <<t, k>> \in CancelledPairs
BY DEF CancelledPairs

\* Every cancelled result is that of one aborted request.
LEMMA AbortedSplit ==
    ASSUME AllInv, CountInv
    PROVE  /\ Cardinality(Aborted) = Cardinality(CancelledResults(returned)) + Cardinality(CancelledPairs)
           /\ Cardinality(CancelledResults(returned)) \in Nat /\ Cardinality(CancelledPairs) \in Nat
<1>1. /\ TypeOK /\ Apart /\ IsInjective(Reqs(returned)) /\ \A t \in Threads : IsInjective(Reqs(results[t]))
      /\ returned \in Seq(Result) /\ \A t \in Threads : results[t] \in Seq(Result)
  <2>1. TypeOK /\ OnceInv
    BY DEF AllInv
  <2>2. returned \in Seq(Result) /\ \A t \in Threads : results[t] \in Seq(Result)
    BY <2>1 DEF TypeOK
  <2> QED BY <2>1, <2>2 DEF OnceInv, Tidy
<1>2. \A q : IsInjective(Reqs(q)) => \A j, k \in DOMAIN q : q[j].req = q[k].req => j = k
  BY DEF IsInjective, Reqs
<1>3. \A e \in Result : e.req \in Requests
  BY DEF Result
<1>4. \A k \in CancelledResults(returned) : k \in DOMAIN returned /\ returned[k].req \in Requests
  BY <1>1, <1>3 DEF CancelledResults
<1>5. \A t \in Threads : \A k \in CancelledResults(results[t]) : k \in DOMAIN results[t] /\ results[t][k].req \in Requests
  BY <1>1, <1>3 DEF CancelledResults
<1>6. PICK T : T = {returned[k].req : k \in CancelledResults(returned)}
  OBVIOUS
<1>7. PICK U : U = {results[x[1]][x[2]].req : x \in CancelledPairs}
  OBVIOUS
<1>8. \A r \in U : \E t \in Threads : \E k \in CancelledResults(results[t]) : r = results[t][k].req
  BY <1>7, PairsAre
<1>9. \A t \in Threads : \A k \in CancelledResults(results[t]) : results[t][k].req \in U
  <2>1. \A x \in CancelledPairs : results[x[1]][x[2]].req \in U
    BY <1>7
  <2>2. ASSUME NEW t \in Threads, NEW k \in CancelledResults(results[t]) PROVE results[t][k].req \in U
    <3>1. PICK x \in CancelledPairs : x = <<t, k>>
      BY PairsAre
    <3> QED BY <2>1, <3>1
  <2> QED BY <2>2
<1>10. \A q : \A r : "cancelled" \in ReasonIn(q, r) <=> \E k \in CancelledResults(q) : q[k].req = r
  BY DEF ReasonIn, CancelledResults
<1>11. Aborted = T \cup U
  <2>1. \A r : "cancelled" \in ReasonsOf(r) <=> r \in T \/ r \in U
    BY <1>6, <1>8, <1>9, <1>10 DEF ReasonsOf
  <2>2. T \subseteq Requests /\ U \subseteq Requests
    BY <1>4, <1>5, <1>6, <1>8
  <2>3. Aborted \subseteq Requests
    BY DEF Aborted
  <2> QED BY <2>1, <2>2, <2>3, AbortedResults
<1>12. T \cap U = {}
  <2>1. T \subseteq Final
    BY <1>4, <1>6 DEF Final, Reqs, ToSet
  <2>2. \A t \in Threads : \A k \in CancelledResults(results[t]) : results[t][k].req \in Mine(t)
    BY <1>5 DEF Mine, Answered, Reqs, ToSet
  <2>3. \A t \in Threads : Mine(t) \cap Final = {}
    BY <1>1 DEF Apart, Shared
  <2> QED BY <1>8, <2>1, <2>2, <2>3
<1>13. IsFiniteSet(T) /\ IsFiniteSet(U)
  BY <1>11, CountedFinite, FS_Subset
<1>14. Cardinality(CancelledResults(returned)) = Cardinality(T)
  <2>1. PICK f : f = [k \in CancelledResults(returned) |-> returned[k].req]
    OBVIOUS
  <2>2. f \in [CancelledResults(returned) -> T] /\ \A y \in T : \E x \in CancelledResults(returned) : f[x] = y
    BY <1>6, <2>1
  <2>3. IsInjective(f)
    BY <1>1, <1>2, <1>4, <2>1 DEF IsInjective
  <2> QED BY <1>13, <2>2, <2>3, SameSize
<1>15. Cardinality(CancelledPairs) = Cardinality(U)
  <2>1. PICK f : f = [x \in CancelledPairs |-> results[x[1]][x[2]].req]
    OBVIOUS
  <2>2. f \in [CancelledPairs -> U] /\ \A y \in U : \E x \in CancelledPairs : f[x] = y
    BY <1>7, <2>1
  <2>3. ASSUME NEW x \in CancelledPairs, NEW y \in CancelledPairs, f[x] = f[y] PROVE x = y
    <3>1. PICK t \in Threads : \E k \in CancelledResults(results[t]) : x = <<t, k>>
      BY PairsAre
    <3>2. PICK k \in CancelledResults(results[t]) : x = <<t, k>>
      BY <3>1
    <3>3. PICK u \in Threads : \E j \in CancelledResults(results[u]) : y = <<u, j>>
      BY PairsAre
    <3>4. PICK j \in CancelledResults(results[u]) : y = <<u, j>>
      BY <3>3
    <3>5. results[t][k].req = results[u][j].req
      BY <2>1, <2>3, <3>2, <3>4
    <3>6. results[t][k].req \in Mine(t) /\ results[u][j].req \in Mine(u)
      BY <1>5 DEF Mine, Answered, Reqs, ToSet
    <3>7. t = u
      BY <1>1, <3>5, <3>6 DEF Apart
    <3>8. k = j
      BY <1>1, <1>2, <1>5, <3>5, <3>7
    <3> QED BY <3>2, <3>4, <3>7, <3>8
  <2>4. IsInjective(f)
    BY <2>1, <2>3 DEF IsInjective
  <2> QED BY <1>13, <2>2, <2>4, SameSize
<1>16. Cardinality(T) \in Nat /\ Cardinality(U) \in Nat
  BY <1>13, FS_CardinalityType
<1>17. Cardinality(T \cup U) = Cardinality(T) + Cardinality(U) - Cardinality(T \cap U)
  BY <1>13, FS_Union
<1>18. Cardinality(T \cap U) = 0
  BY <1>12, FS_EmptySet
<1> QED BY <1>11, <1>14, <1>15, <1>16, <1>17, <1>18

LEMMA Balanced ==
    ASSUME AllInv, CountInv, NEW t \in Threads
    PROVE  CountersBalance
<1>1. /\ metrics.submitted + Cardinality(Stamping) = Cardinality(Accepted)
      /\ metrics.completed = Cardinality(Ended)
      /\ metrics.cancelled = Cardinality(Withdrawn) + Cardinality(Aborted)
  BY DEF CountInv
<1>2. Cardinality(Accepted) = Cardinality(Ended) + Cardinality(Withdrawn) + Cardinality(Open)
  BY AcceptedSplit
<1>3. Cardinality(Aborted) = Cardinality(CancelledResults(returned)) + Cardinality(CancelledPairs)
  BY AbortedSplit
<1>4. metrics.submitted + Cardinality(Stamping) = metrics.completed + Cardinality(Withdrawn) + Cardinality(Open)
  BY <1>1, <1>2
<1>5. /\ Cardinality(Withdrawn) \in Nat
      /\ Cardinality(CancelledResults(returned)) \in Nat /\ Cardinality(CancelledPairs) \in Nat
  BY CountedFinite, AbortedSplit
<1>6. metrics.cancelled = Cardinality(Withdrawn) + Cardinality(CancelledResults(returned)) + Cardinality(CancelledPairs)
  BY <1>1, <1>3, <1>5
<1> QED BY <1>4, <1>6 DEF CountersBalance, Stamping, CancelledPairs

\* Without threads nothing happens.
LEMMA NothingHappens ==
    ASSUME Threads = {}
    PROVE  (Init => CountersBalance) /\ (Init /\ [Next]_vars => Init')
<1>1. ASSUME Init PROVE CountersBalance
  <2>1. /\ Withdrawn = {} /\ Open = {} /\ CancelledResults(returned) = {} /\ CancelledPairs = {}
        /\ {t \in Threads : pc[t] \in StampPcs} = {}
    BY <1>1, ToSetEmpty DEF Init, Withdrawn, Open, CancelledResults, CancelledPairs
  <2>2. metrics.submitted = 0 /\ metrics.completed = 0 /\ metrics.cancelled = 0
    BY <1>1 DEF Init
  <2> QED BY <2>1, <2>2, FS_EmptySet DEF CountersBalance, CancelledPairs
<1>2. ASSUME Init, [Next]_vars PROVE Init'
  <2>1. ~Next
    BY DEF Next
  <2>2. vars' = vars
    BY <1>2, <2>1
  <2>3. UNCHANGED shared /\ UNCHANGED gen /\ UNCHANGED pc /\ UNCHANGED locals /\ UNCHANGED history
    BY <2>2 DEF vars
  <2>4. UNCHANGED <<pending, paused, cancelled, submitted, arrival, drawn, metrics, fate, returned>>
    BY <2>3 DEF shared, stamps, history
  <2>5. UNCHANGED <<call, active, batch, quota, pick, choice, preempted, scan, ready, results>>
    BY <2>3 DEF locals
  <2> QED BY <1>2, <2>3, <2>4, <2>5 DEF Init
<1> QED BY <1>1, <1>2

\* The exported counters add up: submitted requests, and what is queued and about
\* to be counted, are completed, withdrawn or still open, and each cancellation
\* counted is a withdrawal or one cancelled result.  A cancel that did not hit the
\* request it found, two loops on one request and an exception each lose one that
\* was counted, hence the assumptions.
THEOREM CountersBalanceHolds ==
    ASSUME OneConsumer, DistinctIds, ~RuntimeFails
    PROVE  Spec => []CountersBalance
<1>1. CASE Threads = {}
  <2>1. (Init => CountersBalance) /\ (Init /\ [Next]_vars => Init')
    BY <1>1, NothingHappens
  <2> QED BY <2>1, PTL DEF Spec
<1>2. CASE Threads # {}
  <2>1. OwnCancels /\ (OneLoop \/ ~Preempts) /\ SoleConsumer
    BY ConsumersBehave DEF SoleConsumer
  <2>2. Spec => [](TypeOK /\ SlotsInv /\ LossInv /\ OnceInv)
    BY <2>1, OnceAlways
  <2>3. (Init => FreshInv) /\ (Init => LifeInv)
    BY InitLife DEF Init, FreshInv, Fresh, NoChoice, PassPcs, PopPcs
  <2>4. TypeOK /\ SlotsInv /\ LossInv /\ FreshInv /\ [Next]_vars => FreshInv'
    BY <2>1, FreshInductive
  <2>5. TypeOK /\ SlotsInv /\ LossInv /\ OnceInv /\ FreshInv /\ LifeInv /\ [Next]_vars => LifeInv'
    BY LifeStep DEF AllInv
  <2>6. Init => CountInv
    BY InitCount
  <2>7. TypeOK /\ SlotsInv /\ LossInv /\ OnceInv /\ FreshInv /\ LifeInv /\ CountInv /\ [Next]_vars => CountInv'
    BY CountStep DEF AllInv
  <2>8. TypeOK /\ SlotsInv /\ LossInv /\ OnceInv /\ FreshInv /\ LifeInv /\ CountInv => CountersBalance
    BY <1>2, Balanced DEF AllInv
  <2> QED BY <2>2, <2>3, <2>4, <2>5, <2>6, <2>7, <2>8, PTL DEF Spec
<1> QED BY <1>1, <1>2


------------------------------------------------------------------------------
(***************************************************************************)
(* The batch endpoint: what the phase of a handler says of its call of the *)
(* scheduler, and where the results that the calls have returned are.      *)
(***************************************************************************)

Phases == {"free", "submitting", "running", "count", "store", "storetokens"}
Answering == {"count", "store", "storetokens"}
Response == [status : {200, 429, 500}, data : Seq(Result)]

ServerTypeOK ==
    /\ phase \in [Threads -> Phases]
    /\ answer \in [Threads -> Seq(Result)]
    /\ responses \in Seq(Response)

\* Where the thread of a handler is in the scheduler, and that it has results
\* only from the loop on and an answer only after it.
Placed(t) ==
    /\ phase[t] = "submitting" => pc[t] \in SubmitPcs \cup {"idle"}
    /\ phase[t] = "running" => pc[t] \in RunPcs
    /\ phase[t] \notin {"submitting", "running"} => pc[t] = "idle"
    /\ phase[t] \notin Answering => answer[t] = <<>>
    /\ pc[t] \notin RunPcs => results[t] = <<>>

\* The requests in the answer a handler is about to send, and in a response.
Sending(t) == ToSet(Reqs(answer[t]))
SentIn(i) == ToSet(Reqs(responses[i].data))

\* Every result a loop has returned is in one answer or in one response.
Delivered ==
    /\ \A t, u \in Threads : t # u => Sending(t) \cap Sending(u) = {}
    /\ \A t \in Threads : \A i \in DOMAIN responses : Sending(t) \cap SentIn(i) = {}
    /\ \A i, j \in DOMAIN responses : i # j => SentIn(i) \cap SentIn(j) = {}
    /\ \A r : r \in Final <=> (\E t \in Threads : r \in Sending(t)) \/ \E i \in DOMAIN responses : r \in SentIn(i)

\* A handler that runs the loop, or will once it has put its prompts in the queue.
EnqueuePcs == {"enqueue"} \cup StampPcs
Draining(t) == phase[t] = "running" \/ (phase[t] = "submitting" /\ pc[t] \in {"idle"} \cup EnqueuePcs)

Waiting == pending # <<>> \/ paused # <<>>
Broke == \E i \in DOMAIN responses : responses[i].status = 500

\* Nothing waits without a handler to drain it, unless a loop raised.
Attended == Waiting => Broke \/ \E t \in Threads : Draining(t)

ServerInv == ServerTypeOK /\ (\A t \in Threads : Placed(t)) /\ Delivered /\ Attended

OthersWait(t) == \A u \in Threads \ {t} : phase'[u] = phase[u] /\ answer'[u] = answer[u] /\ SameThread(u)

------------------------------------------------------------------------------
LEMMA PlacedKept ==
    ASSUME NEW t \in Threads, OthersWait(t), \A u \in Threads : Placed(u), Placed(t)'
    PROVE  \A u \in Threads : Placed(u)'
<1>1. ASSUME NEW u \in Threads \ {t} PROVE Placed(u)'
  BY DEF OthersWait, SameThread, SameCall, SameLocals, Placed
<1> QED BY <1>1

LEMMA ResponseAppended ==
    ASSUME responses \in Seq(Response), NEW e \in Response, responses' = Append(responses, e)
    PROVE  /\ responses' \in Seq(Response)
           /\ DOMAIN responses' = DOMAIN responses \cup {Len(responses) + 1}
           /\ Len(responses) + 1 \notin DOMAIN responses
           /\ \A i \in DOMAIN responses : responses'[i] = responses[i]
           /\ responses'[Len(responses) + 1] = e
<1>1. Len(responses) \in Nat /\ DOMAIN responses = 1..Len(responses) /\ Len(responses') = Len(responses) + 1
  OBVIOUS
<1>2. responses' \in Seq(Response) /\ DOMAIN responses' = 1..(Len(responses) + 1)
  BY <1>1
<1>3. \A i \in 1..Len(responses) : responses'[i] = responses[i]
  OBVIOUS
<1>4. responses'[Len(responses) + 1] = e
  OBVIOUS
<1> QED BY <1>1, <1>2, <1>3, <1>4

\* A response that carries nothing.
LEMMA EmptyResponse ==
    ASSUME responses \in Seq(Response), Delivered, UNCHANGED <<answer, returned>>,
           NEW e \in Response, e.data = <<>>, responses' = Append(responses, e)
    PROVE  Delivered'
<1>0. PICK n : n = Len(responses) + 1
  OBVIOUS
<1>1. /\ DOMAIN responses' = DOMAIN responses \cup {n} /\ n \notin DOMAIN responses
      /\ \A i \in DOMAIN responses : responses'[i] = responses[i]
      /\ responses'[n] = e
  BY <1>0, ResponseAppended
<1>2. SentIn(n)' = {}
  BY <1>1, ReqsEmpty, ToSetEmpty DEF SentIn
<1>3. \A i \in DOMAIN responses : SentIn(i)' = SentIn(i)
  BY <1>1 DEF SentIn
<1>4. \A t \in Threads : Sending(t)' = Sending(t)
  BY DEF Sending
<1>5. Final' = Final
  BY DEF Final
<1> QED BY <1>1, <1>2, <1>3, <1>4, <1>5 DEF Delivered

\* The response of a handler whose loop has returned.
LEMMA AnswerSent ==
    ASSUME ServerTypeOK, Delivered, NEW t \in Threads, returned' = returned, answer' = [answer EXCEPT ![t] = <<>>],
           NEW e \in Response, e.data = answer[t], responses' = Append(responses, e)
    PROVE  Delivered'
<1>0. PICK n : n = Len(responses) + 1
  OBVIOUS
<1>1. /\ DOMAIN responses' = DOMAIN responses \cup {n} /\ n \notin DOMAIN responses
      /\ \A i \in DOMAIN responses : responses'[i] = responses[i]
      /\ responses'[n] = e
  BY <1>0, ResponseAppended DEF ServerTypeOK
<1>2. SentIn(n)' = Sending(t)
  BY <1>1 DEF SentIn, Sending
<1>3. \A i \in DOMAIN responses : SentIn(i)' = SentIn(i)
  BY <1>1 DEF SentIn
<1>4. Sending(t)' = {} /\ \A u \in Threads \ {t} : Sending(u)' = Sending(u)
  BY ReqsEmpty, ToSetEmpty DEF Sending, ServerTypeOK
<1>5. Final' = Final
  BY DEF Final
<1>6. \A u, w \in Threads : u # w => Sending(u)' \cap Sending(w)' = {}
  BY <1>4 DEF Delivered
<1>7. \A u \in Threads : \A i \in DOMAIN responses' : Sending(u)' \cap SentIn(i)' = {}
  BY <1>1, <1>2, <1>3, <1>4 DEF Delivered
<1>8. \A i, j \in DOMAIN responses' : i # j => SentIn(i)' \cap SentIn(j)' = {}
  BY <1>1, <1>2, <1>3 DEF Delivered
<1>9. ASSUME NEW r
      PROVE  r \in Final' <=> (\E u \in Threads : r \in Sending(u)') \/ \E i \in DOMAIN responses' : r \in SentIn(i)'
  <2>1. r \in Final <=> (\E u \in Threads : r \in Sending(u)) \/ \E i \in DOMAIN responses : r \in SentIn(i)
    BY DEF Delivered
  <2>2. (\E u \in Threads : r \in Sending(u)) <=> r \in Sending(t) \/ \E u \in Threads \ {t} : r \in Sending(u)'
    BY <1>4
  <2>3. (\E u \in Threads : r \in Sending(u)') <=> \E u \in Threads \ {t} : r \in Sending(u)'
    BY <1>4
  <2>4. (\E i \in DOMAIN responses' : r \in SentIn(i)') <=> r \in Sending(t) \/ \E i \in DOMAIN responses : r \in SentIn(i)
    BY <1>1, <1>2, <1>3
  <2> QED BY <1>5, <2>1, <2>2, <2>3, <2>4
<1> QED BY <1>6, <1>7, <1>8, <1>9 DEF Delivered

\* The loop returns, and its results are the handler's answer.
LEMMA AnswerTaken ==
    ASSUME TypeOK, ServerTypeOK, Apart, Delivered, NEW t \in Threads, answer[t] = <<>>,
           returned' = returned \o results[t], answer' = [answer EXCEPT ![t] = results[t]], responses' = responses
    PROVE  Delivered'
<1>1. Sending(t) = {} /\ Sending(t)' = Answered(t) /\ \A u \in Threads \ {t} : Sending(u)' = Sending(u)
  BY ReqsEmpty, ToSetEmpty DEF Sending, Answered, ServerTypeOK
<1>2. Final' = Final \cup Answered(t)
  <2>1. returned \in Seq(Result) /\ results[t] \in Seq(Result)
    BY DEF TypeOK
  <2>2. Reqs(returned \o results[t]) = Reqs(returned) \o Reqs(results[t])
    BY <2>1, ReqsConcat
  <2>3. Reqs(returned) \in Seq(Requests) /\ Reqs(results[t]) \in Seq(Requests)
    BY <2>1, ReqsType
  <2>4. ToSet(Reqs(returned) \o Reqs(results[t])) = ToSet(Reqs(returned)) \cup ToSet(Reqs(results[t]))
    BY <2>3, ToSetConcat
  <2> QED BY <2>2, <2>4 DEF Final, Answered
<1>3. Answered(t) \cap Final = {}
  BY DEF Apart, Mine, Shared
<1>4. (\A u \in Threads : Sending(u) \subseteq Final) /\ \A i \in DOMAIN responses : SentIn(i) \subseteq Final
  BY DEF Delivered
<1>5. \A i \in DOMAIN responses : SentIn(i)' = SentIn(i)
  BY DEF SentIn
<1>6. \A u, w \in Threads : u # w => Sending(u)' \cap Sending(w)' = {}
  BY <1>1, <1>3, <1>4 DEF Delivered
<1>7. \A u \in Threads : \A i \in DOMAIN responses' : Sending(u)' \cap SentIn(i)' = {}
  BY <1>1, <1>3, <1>4, <1>5 DEF Delivered
<1>8. \A i, j \in DOMAIN responses' : i # j => SentIn(i)' \cap SentIn(j)' = {}
  BY <1>5 DEF Delivered
<1>9. ASSUME NEW r
      PROVE  r \in Final' <=> (\E u \in Threads : r \in Sending(u)') \/ \E i \in DOMAIN responses' : r \in SentIn(i)'
  <2>1. r \in Final <=> (\E u \in Threads : r \in Sending(u)) \/ \E i \in DOMAIN responses : r \in SentIn(i)
    BY DEF Delivered
  <2>2. (\E u \in Threads : r \in Sending(u)') <=> r \in Answered(t) \/ \E u \in Threads : r \in Sending(u)
    BY <1>1
  <2> QED BY <1>2, <1>5, <2>1, <2>2
<1> QED BY <1>6, <1>7, <1>8, <1>9 DEF Delivered

LEMMA DeliveredSame ==
    ASSUME Delivered, UNCHANGED <<answer, responses, returned>>
    PROVE  Delivered'
BY DEF Delivered, Sending, SentIn, Final

\* A step of t that leaves nothing behind.
LEMMA AttendedKept ==
    ASSUME NEW t \in Threads, OthersWait(t), Attended, Broke => Broke',
           Waiting' => Waiting \/ Draining(t), Draining(t) => Draining(t)' \/ Broke' \/ ~Waiting'
    PROVE  Attended'
<1>1. \A u \in Threads \ {t} : Draining(u)' = Draining(u)
  BY DEF OthersWait, SameThread, SameCall, SameLocals, Draining
<1> QED BY <1>1 DEF Attended

------------------------------------------------------------------------------
(* The steps *)

LEMMA SubmitOutcome ==
    ASSUME TypeOK, NEW t \in Threads, NEW c \in Calls, Submit(t, c)
    PROVE  /\ UNCHANGED <<pending, paused, results, returned>>
           /\ pc[t] = "idle" /\ pc'[t] \in {"idle", "capacity"}
BY DEF TypeOK, Submit, Goto

LEMMA ClientOutcome ==
    ASSUME TypeOK, NEW t \in Threads, pc[t] \in SubmitPcs, ClientStep(t)
    PROVE  /\ UNCHANGED <<paused, results, returned>>
           /\ pending' = pending \/ pc[t] = "enqueue"
           /\ pc'[t] \in SubmitPcs \cup {"idle"}
           /\ pc[t] \in EnqueuePcs => pc'[t] \in {"idle"} \cup EnqueuePcs
           /\ pc'[t] = "idle" => pc[t] \in {"capacity", "recheck", "enqueue"}
<1>1. pc \in [Threads -> Pcs]
  BY DEF TypeOK
<1>2. CASE CheckCapacity(t)
  BY <1>1, <1>2 DEF CheckCapacity, Reject, Goto, SubmitPcs, StampPcs, EnqueuePcs
<1>3. CASE StopWaiting(t)
  BY <1>1, <1>3 DEF StopWaiting, Goto, SubmitPcs, StampPcs, EnqueuePcs, shared, locals, history
<1>4. CASE Recheck(t)
  BY <1>1, <1>4 DEF Recheck, Reject, Goto, SubmitPcs, StampPcs, EnqueuePcs
<1>5. CASE Enqueue(t)
  BY <1>1, <1>5 DEF Enqueue, Goto, SubmitPcs, StampPcs, EnqueuePcs, history
<1>6. CASE Stamp(t) \/ Number(t) \/ CountSubmitted(t)
  BY <1>1, <1>6 DEF Stamp, Number, CountSubmitted, Goto, SubmitPcs, StampPcs, EnqueuePcs, locals, history
<1>7. ~Withdraw(t)
  BY DEF Withdraw, Goto, SubmitPcs, StampPcs, EnqueuePcs
<1> QED BY <1>2, <1>3, <1>4, <1>5, <1>6, <1>7 DEF ClientStep

\* A step of the loop stays in it, returns because nothing waits, or raises.
LEMMA RunOutcome ==
    ASSUME TypeOK, NEW t \in Threads, RunStep(t) \/ RuntimeError(t)
    PROVE  \/ pc'[t] \in RunPcs /\ returned' = returned
           \/ /\ pc'[t] = "idle" /\ pc[t] = "loop" /\ ~WorkLeft(t)
              /\ pending' = pending /\ paused' = paused
              /\ returned' = returned \o results[t] /\ results'[t] = <<>>
           \/ pc'[t] = "idle" /\ pc[t] # "loop" /\ returned' = returned /\ results'[t] = <<>>
<1>1. pc \in [Threads -> Pcs] /\ results \in [Threads -> Seq(Result)]
  BY DEF TypeOK
<1>2. Raise(t) => pc'[t] = "idle" /\ returned' = returned /\ results'[t] = <<>>
  BY <1>1 DEF Raise
<1>3. CASE Loop(t)
  BY <1>1, <1>3 DEF Loop, Goto, RunPcs, PopPcs, shared
<1>4. CASE Resume(t) \/ Unpause(t) \/ Admit(t)
  BY <1>1, <1>4 DEF Resume, Unpause, Admit, Goto, RunPcs, PopPcs, history
<1>5. CASE Select(t) \/ OpenRange(t) \/ Weigh(t) \/ Rank(t)
  BY <1>1, <1>2, <1>5 DEF Select, OpenRange, Weigh, Rank, Goto, RunPcs, PopPcs, history
<1>6. CASE Take(t)
  BY <1>1, <1>2, <1>6 DEF Take, Goto, RunPcs, PopPcs, history
<1>7. CASE Prefill(t) \/ Preempt(t)
  BY <1>1, <1>7 DEF Prefill, Preempt, Goto, RunPcs, PopPcs, history
<1>8. CASE Displace(t)
  BY <1>1, <1>2, <1>8 DEF Displace, Goto, RunPcs, PopPcs, history
<1>9. CASE Round(t)
  BY <1>1, <1>9 DEF Round, Goto, RunPcs, PopPcs, history
<1>10. CASE Snapshot(t)
  BY <1>1, <1>10 DEF Snapshot, Goto, RunPcs, PopPcs, history
<1>11. CASE Retire(t)
  BY <1>1, <1>11 DEF Retire, Goto, RunPcs, PopPcs, history
<1>12. CASE Decode(t) \/ Collect(t)
  BY <1>1, <1>12 DEF Decode, Collect, Goto, RunPcs, PopPcs, history
<1>13. CASE RuntimeError(t)
  BY <1>2, <1>13 DEF RuntimeError
<1> QED BY <1>3, <1>4, <1>5, <1>6, <1>7, <1>8, <1>9, <1>10, <1>11, <1>12, <1>13 DEF RunStep

\* What Respond does to the phases and the responses.
LEMMA RespondOutcome ==
    ASSUME ServerTypeOK, NEW t \in Threads, NEW s \in {200, 429, 500}, NEW d \in Seq(Result), Respond(t, s, d)
    PROVE  /\ phase' \in [Threads -> Phases] /\ phase'[t] = "free"
           /\ \A u \in Threads \ {t} : phase'[u] = phase[u]
           /\ \E e \in Response : e.data = d /\ responses' = Append(responses, e)
           /\ responses' \in Seq(Response)
           /\ Broke => Broke'
           /\ s = 500 => Broke'
<1> DEFINE e == [status |-> s, data |-> d]
<1>1. e \in Response /\ e.data = d /\ responses' = Append(responses, e) /\ responses \in Seq(Response)
  BY DEF Respond, Response, ServerTypeOK
<1>2. /\ responses' \in Seq(Response)
      /\ DOMAIN responses' = DOMAIN responses \cup {Len(responses) + 1}
      /\ \A i \in DOMAIN responses : responses'[i] = responses[i]
      /\ responses'[Len(responses) + 1] = e
  <2> HIDE DEF e
  <2> QED BY <1>1, ResponseAppended
<1>3. Broke => Broke'
  BY <1>2 DEF Broke
<1>4. s = 500 => Broke'
  BY <1>2 DEF Broke
<1>5. phase' = [phase EXCEPT ![t] = "free"] /\ phase \in [Threads -> Phases]
  BY DEF Respond, ServerTypeOK
<1> QED BY <1>1, <1>2, <1>3, <1>4, <1>5 DEF Phases

LEMMA ErrorOutcome ==
    ASSUME ServerTypeOK, NEW t \in Threads, NEW s \in {429, 500}, Respond(t, s, <<>>)
    PROVE  /\ phase' \in [Threads -> Phases] /\ phase'[t] = "free"
           /\ \A u \in Threads \ {t} : phase'[u] = phase[u]
           /\ \E e \in Response : e.data = <<>> /\ responses' = Append(responses, e)
           /\ responses' \in Seq(Response)
           /\ Broke => Broke'
           /\ s = 500 => Broke'
<1>1. <<>> \in Seq(Result)
  OBVIOUS
<1>2. \E d \in Seq(Result) : d = <<>>
  BY <1>1, Zenon
<1>3. PICK d \in Seq(Result) : d = <<>>
  BY <1>2
<1>4. Respond(t, s, d) /\ s \in {200, 429, 500}
  BY <1>3
<1>5. /\ phase' \in [Threads -> Phases] /\ phase'[t] = "free"
      /\ \A u \in Threads \ {t} : phase'[u] = phase[u]
      /\ \E e \in Response : e.data = d /\ responses' = Append(responses, e)
      /\ responses' \in Seq(Response)
      /\ Broke => Broke'
      /\ s = 500 => Broke'
  BY <1>4, RespondOutcome
<1> QED BY <1>3, <1>5

\* A phase reached without a response.
LEMMA PhaseOutcome ==
    ASSUME ServerTypeOK, NEW t \in Threads, NEW p \in Phases, phase' = [phase EXCEPT ![t] = p], responses' = responses
    PROVE  /\ phase' \in [Threads -> Phases] /\ phase'[t] = p
           /\ \A u \in Threads \ {t} : phase'[u] = phase[u]
           /\ Broke => Broke'
BY DEF ServerTypeOK, Broke

LEMMA PostInv ==
    ASSUME TypeOK, ServerInv, NEW t \in Threads, NEW c \in Calls, Post(t, c)
    PROVE  ServerInv'
<1>1. /\ UNCHANGED <<pending, paused, results, returned, answer>>
      /\ pc[t] = "idle" /\ pc'[t] \in {"idle", "capacity"} /\ phase[t] = "free"
      /\ \A u \in Threads \ {t} : SameThread(u)
  BY SubmitOutcome, ClientLeavesOthers DEF Post
<1>2. answer[t] = <<>> /\ results[t] = <<>> /\ ServerTypeOK /\ Delivered
  BY <1>1 DEF ServerInv, Placed, Answering, RunPcs, PopPcs
<1>3. 429 \in {429, 500}
  OBVIOUS
<1>4. /\ phase' \in [Threads -> Phases] /\ responses' \in Seq(Response)
      /\ \A u \in Threads \ {t} : phase'[u] = phase[u]
      /\ (Broke => Broke') /\ Delivered'
      /\ Placed(t)' /\ ~Draining(t)
  <2>1. CASE pc'[t] = "idle"
    <3>1. Respond(t, 429, <<>>)
      BY <2>1 DEF Post
    <3>2. /\ phase' \in [Threads -> Phases] /\ phase'[t] = "free"
          /\ \A u \in Threads \ {t} : phase'[u] = phase[u]
          /\ \E e \in Response : e.data = <<>> /\ responses' = Append(responses, e)
          /\ responses' \in Seq(Response) /\ (Broke => Broke')
      BY <1>2, <1>3, <3>1, ErrorOutcome
    <3>3. PICK e \in Response : e.data = <<>> /\ responses' = Append(responses, e)
      BY <3>2
    <3>4. Delivered'
      BY <1>1, <1>2, <3>2, <3>3, EmptyResponse DEF ServerTypeOK
    <3> QED BY <1>1, <1>2, <2>1, <3>2, <3>4 DEF Placed, Draining
  <2>2. CASE pc'[t] # "idle"
    <3>1. phase' = [phase EXCEPT ![t] = "submitting"] /\ responses' = responses
      BY <2>2 DEF Post
    <3>2. phase' \in [Threads -> Phases] /\ phase'[t] = "submitting" /\ (Broke => Broke')
      BY <1>2, <3>1, PhaseOutcome DEF Phases
    <3>3. Delivered'
      BY <1>1, <1>2, <3>1, DeliveredSame
    <3>4. Placed(t)' /\ ~Draining(t)
      BY <1>1, <1>2, <3>2 DEF Placed, Draining, EnqueuePcs, SubmitPcs, StampPcs
    <3> QED BY <1>2, <3>1, <3>2, <3>3, <3>4 DEF ServerTypeOK
  <2> QED BY <2>1, <2>2
<1>5. OthersWait(t)
  BY <1>1, <1>4 DEF OthersWait
<1>6. Attended'
  BY <1>1, <1>4, <1>5, AttendedKept DEF ServerInv, Waiting
<1>7. ServerTypeOK'
  BY <1>1, <1>2, <1>4 DEF ServerTypeOK
<1> QED BY <1>4, <1>5, <1>6, <1>7, PlacedKept DEF ServerInv

LEMMA SubmittingInv ==
    ASSUME TypeOK, SlotsInv, ServerInv, NEW t \in Threads, Submitting(t)
    PROVE  ServerInv'
<1>1. phase[t] = "submitting" /\ ServerTypeOK /\ Delivered /\ answer' = answer /\ answer[t] = <<>>
      /\ pc[t] \in SubmitPcs \cup {"idle"} /\ results[t] = <<>>
  BY DEF Submitting, ServerInv, Placed, Answering, RunPcs, PopPcs, SubmitPcs, StampPcs
<1>2. CASE pc[t] = "idle"
  <2>1. Run(t) /\ phase' = [phase EXCEPT ![t] = "running"] /\ responses' = responses
    BY <1>2 DEF Submitting
  <2>2. /\ UNCHANGED <<pending, paused, results, returned>> /\ pc'[t] = "loop"
        /\ \A u \in Threads \ {t} : SameThread(u)
    BY <2>1, RunLeavesOthers DEF Run, Goto, shared, locals, history, TypeOK
  <2>3. /\ phase' \in [Threads -> Phases] /\ phase'[t] = "running"
        /\ \A u \in Threads \ {t} : phase'[u] = phase[u]
        /\ (Broke => Broke')
    BY <1>1, <2>1, PhaseOutcome DEF Phases
  <2>4. OthersWait(t) /\ Placed(t)' /\ Draining(t)'
    BY <1>1, <2>2, <2>3 DEF OthersWait, Placed, RunPcs, PopPcs, Draining
  <2>5. Delivered'
    BY <1>1, <2>1, <2>2, DeliveredSame
  <2>6. Attended'
    BY <2>2, <2>3, <2>4, AttendedKept DEF ServerInv, Waiting
  <2>7. ServerTypeOK'
    BY <1>1, <2>1, <2>3 DEF ServerTypeOK
  <2> QED BY <2>4, <2>5, <2>6, <2>7, PlacedKept DEF ServerInv
<1>3. CASE pc[t] # "idle"
  <2>1. ClientStep(t) /\ pc[t] \in SubmitPcs
    BY <1>1, <1>3 DEF Submitting
  <2>2. /\ UNCHANGED <<paused, results, returned>>
        /\ pending' = pending \/ pc[t] = "enqueue"
        /\ pc'[t] \in SubmitPcs \cup {"idle"}
        /\ pc[t] \in EnqueuePcs => pc'[t] \in {"idle"} \cup EnqueuePcs
        /\ pc'[t] = "idle" => pc[t] \in {"capacity", "recheck", "enqueue"}
        /\ \A u \in Threads \ {t} : SameThread(u)
    BY <2>1, ClientOutcome, ClientLeavesOthers
  <2>3. /\ phase' \in [Threads -> Phases] /\ responses' \in Seq(Response)
        /\ \A u \in Threads \ {t} : phase'[u] = phase[u]
        /\ (Broke => Broke') /\ Delivered' /\ Placed(t)'
        /\ (Draining(t) => Draining(t)')
    <3>1. CASE pc[t] \in {"capacity", "recheck"} /\ pc'[t] = "idle"
      <4>1. Respond(t, 429, <<>>)
        BY <1>3, <3>1 DEF Submitting
      <4>2. 429 \in {429, 500}
        OBVIOUS
      <4>3. /\ phase' \in [Threads -> Phases] /\ phase'[t] = "free"
            /\ \A u \in Threads \ {t} : phase'[u] = phase[u]
            /\ \E e \in Response : e.data = <<>> /\ responses' = Append(responses, e)
            /\ responses' \in Seq(Response) /\ (Broke => Broke')
        BY <1>1, <4>1, <4>2, ErrorOutcome
      <4>4. PICK e \in Response : e.data = <<>> /\ responses' = Append(responses, e)
        BY <4>3
      <4>5. Delivered'
        BY <1>1, <2>2, <4>4, EmptyResponse DEF ServerTypeOK
      <4>6. Placed(t)' /\ ~Draining(t)
        BY <1>1, <2>2, <3>1, <4>3 DEF Placed, Draining, EnqueuePcs, StampPcs
      <4> QED BY <4>3, <4>5, <4>6
    <3>2. CASE ~(pc[t] \in {"capacity", "recheck"} /\ pc'[t] = "idle")
      <4>1. phase' = phase /\ responses' = responses
        BY <1>3, <3>2 DEF Submitting
      <4>2. Delivered' /\ (Broke => Broke')
        BY <1>1, <2>2, <4>1, DeliveredSame DEF Broke
      <4>3. Placed(t)'
        BY <1>1, <2>2, <4>1 DEF Placed
      <4>4. Draining(t) => Draining(t)'
        BY <1>1, <2>2, <4>1, <1>3 DEF Draining
      <4> QED BY <1>1, <4>1, <4>2, <4>3, <4>4 DEF ServerTypeOK
    <3> QED BY <3>1, <3>2
  <2>4. OthersWait(t)
    BY <1>1, <2>2, <2>3 DEF OthersWait
  <2>5. Attended'
    <3>1. pending' # pending => Draining(t)
      BY <1>1, <2>2 DEF Draining, EnqueuePcs
    <3> QED BY <2>2, <2>3, <2>4, <3>1, AttendedKept DEF ServerInv, Waiting
  <2>6. ServerTypeOK'
    BY <1>1, <2>3 DEF ServerTypeOK
  <2> QED BY <2>3, <2>4, <2>5, <2>6, PlacedKept DEF ServerInv
<1> QED BY <1>2, <1>3

LEMMA RunningInv ==
    ASSUME TypeOK, SlotsInv, OnceInv, ServerInv, NEW t \in Threads, Running(t)
    PROVE  ServerInv'
<1>1. /\ phase[t] = "running" /\ ServerTypeOK /\ Delivered /\ answer[t] = <<>> /\ pc[t] \in RunPcs
      /\ Draining(t) /\ Apart /\ results[t] \in Seq(Result)
      /\ RunStep(t) \/ RuntimeError(t)
  BY DEF Running, ServerInv, Placed, Answering, OnceInv, Draining, TypeOK
<1>2. \A u \in Threads \ {t} : SameThread(u)
  BY <1>1, RunLeavesOthers
<1>3. CASE pc'[t] # "idle"
  <2>1. UNCHANGED <<phase, answer, responses>> /\ pc'[t] \in RunPcs /\ returned' = returned
    BY <1>1, <1>3, RunOutcome DEF Running
  <2>2. Delivered' /\ Placed(t)' /\ Draining(t)' /\ OthersWait(t) /\ (Broke => Broke')
    BY <1>1, <1>2, <2>1, DeliveredSame DEF Placed, Draining, OthersWait, Broke
  <2>3. Attended'
    BY <1>1, <2>2, AttendedKept DEF ServerInv
  <2> QED BY <1>1, <2>1, <2>2, <2>3, PlacedKept DEF ServerInv, ServerTypeOK
<1>4. CASE pc'[t] = "idle" /\ pc[t] = "loop"
  <2>1. /\ answer' = [answer EXCEPT ![t] = results[t]]
        /\ phase' = [phase EXCEPT ![t] = "count"]
        /\ responses' = responses
    BY <1>4 DEF Running
  <2>2. /\ ~WorkLeft(t) /\ pending' = pending /\ paused' = paused
        /\ returned' = returned \o results[t] /\ results'[t] = <<>>
    BY <1>1, <1>4, RunOutcome DEF RunPcs, PopPcs
  <2>3. /\ phase' \in [Threads -> Phases] /\ phase'[t] = "count"
        /\ \A u \in Threads \ {t} : phase'[u] = phase[u]
        /\ (Broke => Broke')
    BY <1>1, <2>1, PhaseOutcome DEF Phases
  <2>4. Delivered'
    BY <1>1, <2>1, <2>2, AnswerTaken
  <2>5. OthersWait(t) /\ Placed(t)' /\ ~Waiting'
    BY <1>1, <1>2, <1>4, <2>1, <2>2, <2>3 DEF OthersWait, Placed, Answering, Waiting, WorkLeft, ServerTypeOK
  <2>6. Attended'
    BY <2>5 DEF Attended
  <2>7. ServerTypeOK'
    BY <1>1, <2>1, <2>3 DEF ServerTypeOK
  <2> QED BY <2>4, <2>5, <2>6, <2>7, PlacedKept DEF ServerInv
<1>5. CASE pc'[t] = "idle" /\ pc[t] # "loop"
  <2>1. Respond(t, 500, <<>>) /\ answer' = answer
    BY <1>5 DEF Running
  <2>2. returned' = returned /\ results'[t] = <<>>
    BY <1>1, <1>5, RunOutcome DEF RunPcs, PopPcs
  <2>3. 500 \in {429, 500}
    OBVIOUS
  <2>4. /\ phase' \in [Threads -> Phases] /\ phase'[t] = "free"
        /\ \A u \in Threads \ {t} : phase'[u] = phase[u]
        /\ \E e \in Response : e.data = <<>> /\ responses' = Append(responses, e)
        /\ responses' \in Seq(Response) /\ Broke'
    BY <1>1, <2>1, <2>3, ErrorOutcome
  <2>5. PICK e \in Response : e.data = <<>> /\ responses' = Append(responses, e)
    BY <2>4
  <2>6. Delivered'
    BY <1>1, <2>1, <2>2, <2>5, EmptyResponse DEF ServerTypeOK
  <2>7. OthersWait(t) /\ Placed(t)'
    BY <1>1, <1>2, <1>5, <2>1, <2>2, <2>4 DEF OthersWait, Placed
  <2>8. Attended'
    BY <2>4 DEF Attended
  <2>9. ServerTypeOK'
    BY <1>1, <2>1, <2>4 DEF ServerTypeOK
  <2> QED BY <2>6, <2>7, <2>8, <2>9, PlacedKept DEF ServerInv
<1> QED BY <1>3, <1>4, <1>5

LEMMA CountingInv ==
    ASSUME TypeOK, ServerInv, NEW t \in Threads, Count(t)
    PROVE  ServerInv'
<1>1. /\ ServerTypeOK /\ Delivered /\ phase[t] \in Answering /\ pc[t] = "idle" /\ results[t] = <<>>
      /\ UNCHANGED <<pending, paused, pc, results, returned>>
      /\ \A u \in Threads : SameThread(u)
  BY DEF Count, ServerInv, Placed, Answering, RunPcs, PopPcs, SameThread, SameCall, SameLocals,
         vars, shared, locals, history
<1>2. CASE phase[t] \in {"count", "store"}
  <2>1. PICK p \in {"store", "storetokens"} : phase' = [phase EXCEPT ![t] = p]
    BY <1>2 DEF Count
  <2>2. answer' = answer /\ responses' = responses
    BY <1>2 DEF Count
  <2>3. /\ phase' \in [Threads -> Phases] /\ phase'[t] = p
        /\ \A u \in Threads \ {t} : phase'[u] = phase[u]
        /\ (Broke => Broke')
    BY <1>1, <2>1, <2>2, PhaseOutcome DEF Phases
  <2>4. Delivered' /\ OthersWait(t)
    BY <1>1, <2>2, <2>3, DeliveredSame DEF OthersWait
  <2>5. Placed(t)' /\ ~Draining(t)
    BY <1>1, <2>2, <2>3 DEF Placed, Answering, Draining
  <2>6. Attended'
    BY <1>1, <2>3, <2>4, <2>5, AttendedKept DEF ServerInv, Waiting
  <2> QED BY <1>1, <2>2, <2>3, <2>4, <2>5, <2>6, PlacedKept DEF ServerInv, ServerTypeOK
<1>3. CASE phase[t] = "storetokens"
  <2>1. Respond(t, 200, answer[t]) /\ answer' = [answer EXCEPT ![t] = <<>>]
    BY <1>3 DEF Count
  <2>2. answer[t] \in Seq(Result) /\ 200 \in {200, 429, 500}
    BY <1>1 DEF ServerTypeOK
  <2>3. /\ phase' \in [Threads -> Phases] /\ phase'[t] = "free"
        /\ \A u \in Threads \ {t} : phase'[u] = phase[u]
        /\ \E e \in Response : e.data = answer[t] /\ responses' = Append(responses, e)
        /\ responses' \in Seq(Response) /\ (Broke => Broke')
    BY <1>1, <2>1, <2>2, RespondOutcome
  <2>4. PICK e \in Response : e.data = answer[t] /\ responses' = Append(responses, e)
    BY <2>3
  <2>5. Delivered'
    BY <1>1, <2>1, <2>4, AnswerSent
  <2>6. answer' \in [Threads -> Seq(Result)] /\ answer'[t] = <<>> /\ \A u \in Threads \ {t} : answer'[u] = answer[u]
    BY <1>1, <2>1 DEF ServerTypeOK
  <2>7. OthersWait(t) /\ Placed(t)' /\ ~Draining(t)
    BY <1>1, <1>3, <2>3, <2>6 DEF OthersWait, Placed, Draining
  <2>8. Attended'
    BY <1>1, <2>3, <2>7, AttendedKept DEF ServerInv, Waiting
  <2>9. ServerTypeOK'
    BY <2>3, <2>6 DEF ServerTypeOK
  <2> QED BY <2>5, <2>7, <2>8, <2>9, PlacedKept DEF ServerInv
<1> QED BY <1>1, <1>2, <1>3 DEF Answering

------------------------------------------------------------------------------
\* Every step of the server is one of the scheduler, or leaves it alone.
LEMMA ServerSteps == [ServerNext]_allVars => [Next]_vars
<1>1. ASSUME NEW t \in Threads, NEW c \in Calls, Post(t, c) PROVE Next
  BY <1>1 DEF Post, Next
<1>2. ASSUME NEW t \in Threads, Submitting(t) PROVE Next
  BY <1>2 DEF Submitting, Next
<1>3. ASSUME NEW t \in Threads, Running(t) PROVE Next
  BY <1>3 DEF Running, Next
<1>4. ASSUME NEW t \in Threads, Count(t) PROVE UNCHANGED vars
  BY <1>4 DEF Count
<1> QED BY <1>1, <1>2, <1>3, <1>4 DEF ServerNext, Handle, allVars

LEMMA InitServer == ServerInit => ServerInv
<1>1. SUFFICES ASSUME ServerInit PROVE ServerInv
  OBVIOUS
<1>2. /\ phase = [t \in Threads |-> "free"] /\ answer = [t \in Threads |-> <<>>] /\ responses = <<>>
      /\ pending = <<>> /\ paused = <<>> /\ returned = <<>>
      /\ \A t \in Threads : pc[t] = "idle" /\ results[t] = <<>>
  BY <1>1 DEF ServerInit, Init
<1>3. ServerTypeOK
  BY <1>2 DEF ServerTypeOK, Phases
<1>4. \A t \in Threads : Placed(t)
  BY <1>2 DEF Placed, Answering
<1>5. Final = {} /\ DOMAIN responses = {} /\ \A t \in Threads : Sending(t) = {}
  BY <1>2, ReqsEmpty, ToSetEmpty DEF Final, Sending
<1>6. Delivered
  BY <1>5 DEF Delivered
<1> QED BY <1>2, <1>3, <1>4, <1>6 DEF ServerInv, Attended, Waiting

LEMMA ServerInductive == TypeOK /\ SlotsInv /\ OnceInv /\ ServerInv /\ [ServerNext]_allVars => ServerInv'
<1>1. SUFFICES ASSUME TypeOK, SlotsInv, OnceInv, ServerInv, [ServerNext]_allVars PROVE ServerInv'
  OBVIOUS
<1>2. CASE UNCHANGED allVars
  <2>1. UNCHANGED <<phase, answer, responses, pending, paused, pc, results, returned>>
    BY <1>2 DEF allVars, serverVars, vars, shared, locals, history
  <2>2. ServerTypeOK' /\ \A t \in Threads : Placed(t)'
    BY <1>1, <2>1 DEF ServerInv, ServerTypeOK, Placed
  <2>3. Delivered'
    BY <1>1, <2>1, DeliveredSame DEF ServerInv
  <2>4. Attended'
    BY <1>1, <2>1 DEF ServerInv, Attended, Waiting, Broke, Draining
  <2> QED BY <2>2, <2>3, <2>4 DEF ServerInv
<1>3. ASSUME NEW t \in Threads, NEW c \in Calls, Post(t, c) PROVE ServerInv'
  BY <1>1, <1>3, PostInv
<1>4. ASSUME NEW t \in Threads, Handle(t) PROVE ServerInv'
  BY <1>1, <1>4, SubmittingInv, RunningInv, CountingInv DEF Handle
<1> QED BY <1>1, <1>2, <1>3, <1>4 DEF ServerNext

\* An accepted request that no response carries still waits: no handler has it,
\* once they are all free.
LEMMA NothingHeld ==
    ASSUME TypeOK, SlotsInv, LossInv, OnceInv, ServerInv, DistinctIds, AllFree,
           NEW r \in Requests, fate[r] = "sent"
    PROVE  r \in ToSet(pending) \cup ToSet(paused) \/ r \in Final
<1>1. ASSUME NEW t \in Threads
      PROVE  InSession(t) = {} /\ Unsubmitted(t) = {} /\ results[t] = <<>>
  <2>1. pc[t] = "idle" /\ results[t] = <<>>
    BY DEF AllFree, ServerInv, Placed, RunPcs, PopPcs
  <2>2. active[t] = <<>> /\ batch[t] = <<>> /\ ready[t] = <<>>
    BY <2>1 DEF OnceInv, Tidy, RunPcs, PassPcs, PopPcs, SlotsInv, Slots
  <2> QED BY <2>1, <2>2, ToSetEmpty DEF InSession, Unsubmitted, SubmitPcs, StampPcs
<1>2. Kept(r)
  BY DEF LossInv
<1>3. CASE Settled(r)
  <2>1. HasResult(r)
    BY <1>3 DEF Settled
  <2>2. \E k \in DOMAIN returned : returned[k].req = r
    BY <1>1, <2>1 DEF HasResult
  <2> QED BY <2>2 DEF Final, Reqs, ToSet
<1> QED BY <1>1, <1>2, <1>3 DEF Kept

LEMMA InResponse ==
    ASSUME NEW r, NEW i \in DOMAIN responses
    PROVE  i \in ResponsesWith(r) <=> r \in SentIn(i)
BY DEF ResponsesWith, SentIn, Reqs, ToSet

LEMMA ServerInvImplies ==
    ASSUME DistinctIds
    PROVE  TypeOK /\ SlotsInv /\ LossInv /\ OnceInv /\ ServerInv => EachAnsweredOnce
<1>1. SUFFICES ASSUME TypeOK, SlotsInv, LossInv, OnceInv, ServerInv, NEW r \in Requests
      PROVE  /\ Cardinality(ResponsesWith(r)) <= 1
             /\ fate[r] = "rejected" => ResponsesWith(r) = {}
             /\ AllFree /\ fate[r] = "sent" =>
                  IF r \in ToSet(pending) \cup ToSet(paused)
                  THEN \E i \in DOMAIN responses : responses[i].status = 500
                  ELSE Cardinality(ResponsesWith(r)) = 1
  BY DEF EachAnsweredOnce
<1>2. ResponsesWith(r) \subseteq DOMAIN responses
  BY DEF ResponsesWith
<1>3. \A i, j \in ResponsesWith(r) : i = j
  BY <1>1, <1>2, InResponse DEF ServerInv, Delivered
<1>4. ASSUME NEW i \in ResponsesWith(r) PROVE ResponsesWith(r) = {i} /\ Cardinality(ResponsesWith(r)) = 1
  <2>1. ResponsesWith(r) = {i}
    BY <1>3
  <2> QED BY <2>1, FS_Singleton
<1>5. Cardinality(ResponsesWith(r)) <= 1
  <2>1. Cardinality({}) = 0
    BY FS_EmptySet
  <2> QED BY <1>4, <2>1
<1>6. (\E i \in ResponsesWith(r) : TRUE) => r \in Final
  BY <1>1, <1>2, InResponse DEF ServerInv, Delivered
<1>7. fate[r] = "rejected" => ResponsesWith(r) = {}
  BY <1>1, <1>6 DEF OnceInv, Apart, Shared
<1>8. ASSUME AllFree, fate[r] = "sent", r \in ToSet(pending) \cup ToSet(paused)
      PROVE  \E i \in DOMAIN responses : responses[i].status = 500
  <2>1. Waiting
    BY <1>8, ToSetEmpty DEF Waiting
  <2>2. \A t \in Threads : ~Draining(t)
    BY <1>8 DEF AllFree, Draining
  <2> QED BY <1>1, <2>1, <2>2 DEF ServerInv, Attended, Broke
<1>9. ASSUME AllFree, fate[r] = "sent", r \notin ToSet(pending) \cup ToSet(paused)
      PROVE  Cardinality(ResponsesWith(r)) = 1
  <2>1. r \in Final
    BY <1>1, <1>9, NothingHeld
  <2>2. \A t \in Threads : Sending(t) = {}
    BY <1>1, <1>9, ReqsEmpty, ToSetEmpty DEF AllFree, ServerInv, Placed, Answering, Sending
  <2>3. PICK i \in DOMAIN responses : r \in SentIn(i)
    BY <1>1, <2>1, <2>2 DEF ServerInv, Delivered
  <2>4. i \in ResponsesWith(r)
    BY <2>3, InResponse
  <2> QED BY <1>4, <2>4
<1> QED BY <1>5, <1>7, <1>8, <1>9

ServerAlways == TypeOK /\ SlotsInv /\ LossInv /\ OnceInv /\ ServerInv

\* However the loops of the handlers divide the requests, and whichever raises,
\* no result is sent twice, nothing refused is answered, and when all handlers
\* are free each accepted request is in one response or was left behind by a
\* loop that answered 500.  Besides what AtMostOnceHolds assumes, the ids are
\* distinct, as for NoLossHolds.
THEOREM EachAnsweredOnceHolds ==
    ASSUME DistinctIds, OwnCancels, OneLoop \/ ~Preempts
    PROVE  ServerSpec => []EachAnsweredOnce
<1>1. ServerInit => ServerAlways
  BY InitTypeOK, InitSlots, InitLoss, InitOnce, InitServer DEF ServerInit, ServerAlways
<1>2. ServerAlways /\ [ServerNext]_allVars => ServerAlways'
  BY ServerSteps, Inductive, LossInductive, OnceInductive, ServerInductive DEF ServerAlways
<1>3. ServerAlways => EachAnsweredOnce
  BY ServerInvImplies DEF ServerAlways
<1> QED BY <1>1, <1>2, <1>3, PTL DEF ServerSpec

==============================================================================
