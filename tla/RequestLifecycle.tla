-------------------------- MODULE RequestLifecycle --------------------------
(***************************************************************************)
(* What the scheduler promises to the callers of submit, cancel and        *)
(* run_until_complete, with no queues, no rounds and no threads: each      *)
(* request goes through a life cycle with exactly one outcome, at most     *)
(* MaxBatch requests occupy a session slot at a time, tokens are only      *)
(* generated while a request holds a slot, and a request that completes    *)
(* has generated exactly the tokens it asked for.                          *)
(***************************************************************************)
EXTENDS Integers, FiniteSets

CONSTANTS Requests,   \* the generation requests of the callers
          MaxNew,     \* MaxNew[r]: the number of tokens r asks for
          MaxBatch    \* the number of session slots

VARIABLES stage,      \* stage[r]: where r is in its life cycle
          tokens      \* tokens[r]: how many tokens r has generated

vars == <<stage, tokens>>

Stages == {"new", "refused", "queued", "running", "paused", "withdrawn", "aborted", "completed"}

\* The stages a request never leaves.
Outcomes == {"refused", "withdrawn", "aborted", "completed"}

In(s) == {r \in Requests : stage[r] = s}

Move(S, from, to) ==
    /\ S # {} /\ \A r \in S : stage[r] = from
    /\ stage' = [r \in Requests |-> IF r \in S THEN to ELSE stage[r]]

Init == /\ stage = [r \in Requests |-> "new"]
        /\ tokens = [r \in Requests |-> 0]

Accept(r) == Move({r}, "new", "queued") /\ UNCHANGED tokens
Refuse(S) == Move(S, "new", "refused") /\ UNCHANGED tokens
Withdraw(r) == Move({r}, "queued", "withdrawn") /\ UNCHANGED tokens

SlotFree == Cardinality(In("running")) < MaxBatch

Start(r) == Move({r}, "queued", "running") /\ SlotFree /\ UNCHANGED tokens
Pause(r) == Move({r}, "running", "paused") /\ UNCHANGED tokens
Resume(S) ==
    /\ Cardinality(In("running")) + Cardinality(S) <= MaxBatch
    /\ Move(S, "paused", "running") /\ UNCHANGED tokens

\* One round of decoding: every request of S gets one more token, and none
\* of them more than it asked for.
Generate(S) ==
    /\ S # {} /\ \A r \in S : stage[r] = "running"
    /\ \A r \in S : tokens[r] < MaxNew[r]
    /\ tokens' = [r \in Requests |-> IF r \in S THEN tokens[r] + 1 ELSE tokens[r]]
    /\ UNCHANGED stage

Complete(r) == tokens[r] = MaxNew[r] /\ Move({r}, "running", "completed") /\ UNCHANGED tokens
Abort(r) == Move({r}, "running", "aborted") /\ UNCHANGED tokens

\* Most steps of a scheduler are none of a request's life.
Next ==
    \/ UNCHANGED vars
    \/ \E r \in Requests : \/ Accept(r) \/ Withdraw(r)
                           \/ Start(r) \/ Pause(r)
                           \/ Complete(r) \/ Abort(r)
    \/ \E S \in SUBSET In("new") : Refuse(S)
    \/ \E S \in SUBSET In("paused") : Resume(S)
    \/ \E S \in SUBSET In("running") : Generate(S)

Spec == Init /\ [][Next]_vars

=============================================================================
