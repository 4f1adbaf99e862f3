---------------------------- MODULE MCScheduler ----------------------------
(***************************************************************************)
(* Values for the constants of Scheduler: three or four requests of two or *)
(* three priorities, submitted alone or together, by one or two threads.   *)
(***************************************************************************)
EXTENDS Scheduler

CONSTANTS r1, r2, r3, r4   \* requests
CONSTANTS a, b, c, d       \* request ids

\* Three requests: a low one of two tokens, two high ones, the last of which
\* max_request_tokens refuses.
ThreeIds == r1 :> a @@ r2 :> b @@ r3 :> c
ThreePriorities == r1 :> 0 @@ r2 :> 1 @@ r3 :> 1
LongLengths == r1 :> 2 @@ r2 :> 1 @@ r3 :> 2
LongPrompts == r1 :> 1 @@ r2 :> 1 @@ r3 :> 2

\* Two low ones, one of two tokens, and a high one.
RacePriorities == r1 :> 0 @@ r2 :> 1 @@ r3 :> 0
RaceLengths == r1 :> 2 @@ r2 :> 0 @@ r3 :> 0
ThreePrompts == r1 :> 1 @@ r2 :> 1 @@ r3 :> 1

\* A fourth request that max_request_tokens refuses, and one of no tokens.
FourIds == r1 :> a @@ r2 :> b @@ r3 :> c @@ r4 :> d
FourPriorities == r1 :> 0 @@ r2 :> 1 @@ r3 :> 2 @@ r4 :> 1
FourLengths == r1 :> 2 @@ r2 :> 0 @@ r3 :> 1 @@ r4 :> 2
FourPrompts == r1 :> 1 @@ r2 :> 1 @@ r3 :> 1 @@ r4 :> 2

One(r, block) == [batch |-> <<r>>, block |-> block]
Many(s) == [batch |-> s, block |-> "no"]

\* A request alone, one that waits for room, or is refused because of the other in
\* its batch; one that waits until a deadline; requests submitted alone or in batches.
WaitingCalls == {One(r1, "no"), One(r2, "forever"), Many(<<r2, r3>>)}
RaceCalls == {One(r2, "timeout"), Many(<<r1, r3>>)}
PlainCalls == {One(r1, "no"), One(r2, "no"), One(r3, "no"), Many(<<r1, r2>>), Many(<<r3, r4>>)}

=============================================================================
