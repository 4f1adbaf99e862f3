------------------------------- MODULE Server -------------------------------
(***************************************************************************)
(* The batch endpoint of the HTTP server (cacheir/runtime/server.py) over  *)
(* its one scheduler.  FastAPI runs every request in a thread of its own:  *)
(* the handler submits its prompts, runs the scheduling loop itself until  *)
(* nothing is left, its own requests or others, answers with whatever that *)
(* loop returned, and adds to the counters /metrics exports.               *)
(*                                                                         *)
(* Abstracted: JSON, the texts, and the statistics an answer quotes.       *)
(***************************************************************************)
EXTENDS Scheduler

VARIABLES
    phase,      \* phase[t]: what the handler on thread t is doing
    answer,     \* answer[t]: results, of its run_until_complete
    read,       \* read[t]: the counter a += has read and not yet stored
    counters,   \* counters of the app
    responses   \* history: the responses sent

serverVars == <<phase, answer, read, counters, responses>>
allVars == <<vars, serverVars>>

ServerInit ==
    /\ Init
    /\ phase = [t \in Threads |-> "free"]
    /\ answer = [t \in Threads |-> <<>>] /\ read = [t \in Threads |-> 0]
    /\ counters = [requests |-> 0, tokens |-> 0]
    /\ responses = <<>>

\* The response is sent and the thread is done with the request.
Respond(t, status, data) ==
    /\ responses' = Append(responses, [status |-> status, data |-> data])
    /\ phase' = [phase EXCEPT ![t] = "free"]

\* A POST: the requests are made, and submit_many is called, which refuses at
\* once when one of them is too long.
Post(t, c) ==
    /\ phase[t] = "free"
    /\ Submit(t, c)
    /\ UNCHANGED <<answer, read, counters>>
    /\ IF pc'[t] = "idle" THEN Respond(t, 429, <<>>)
       ELSE phase' = [phase EXCEPT ![t] = "submitting"] /\ UNCHANGED responses

\* submit_many has returned; when it raised, at one of its tests of the capacity,
\* the answer is 429.
Submitting(t) ==
    /\ phase[t] = "submitting"
    /\ IF pc[t] = "idle"
       THEN /\ Run(t)
            /\ phase' = [phase EXCEPT ![t] = "running"]
            /\ UNCHANGED <<answer, read, counters, responses>>
       ELSE /\ ClientStep(t)
            /\ UNCHANGED <<answer, read, counters>>
            /\ IF pc[t] \in {"capacity", "recheck"} /\ pc'[t] = "idle" THEN Respond(t, 429, <<>>)
               ELSE UNCHANGED <<phase, responses>>

\* A step of run_until_complete.  What it returns is kept; an exception that
\* leaves it is a 500.
Running(t) ==
    /\ phase[t] = "running"
    /\ RunStep(t) \/ RuntimeError(t)
    /\ UNCHANGED <<read, counters>>
    /\ \/ /\ pc'[t] # "idle"
          /\ UNCHANGED <<phase, answer, responses>>
       \/ /\ pc'[t] = "idle" /\ pc[t] = "loop"
          /\ answer' = [answer EXCEPT ![t] = results[t]]
          /\ phase' = [phase EXCEPT ![t] = "count"]
          /\ UNCHANGED responses
       \/ /\ pc'[t] = "idle" /\ pc[t] # "loop"
          /\ Respond(t, 500, <<>>)
          /\ UNCHANGED answer

\* counters["requests_total"] += len(results), and the tokens likewise: the
\* counter is read, the sum is made, and the counter is stored.
TokensOf(data) == FoldLeft(LAMBDA n, x : n + x.tokens, 0, data)
Count(t) ==
    /\ UNCHANGED vars
    /\ \/ /\ phase[t] = "count"
          /\ read' = [read EXCEPT ![t] = counters.requests]
          /\ phase' = [phase EXCEPT ![t] = "store"]
          /\ UNCHANGED <<answer, counters, responses>>
       \/ /\ phase[t] = "store"
          /\ counters' = [counters EXCEPT !.requests = read[t] + Len(answer[t])]
          /\ read' = [read EXCEPT ![t] = counters.tokens]
          /\ phase' = [phase EXCEPT ![t] = "storetokens"]
          /\ UNCHANGED <<answer, responses>>
       \/ /\ phase[t] = "storetokens"
          /\ counters' = [counters EXCEPT !.tokens = read[t] + TokensOf(answer[t])]
          /\ read' = [read EXCEPT ![t] = 0]
          /\ Respond(t, 200, answer[t])
          /\ answer' = [answer EXCEPT ![t] = <<>>]

Handle(t) == Submitting(t) \/ Running(t) \/ Count(t)
ServerNext == \E t \in Threads : (\E c \in Calls : Post(t, c)) \/ Handle(t)

\* Every handler runs on: it is a thread of the pool.
ServerSpec == ServerInit /\ [][ServerNext]_allVars /\ \A t \in Threads : WF_allVars(Handle(t))

------------------------------------------------------------------------------
(* Properties *)

ResponsesWith(r) == {i \in DOMAIN responses : \E k \in DOMAIN responses[i].data : responses[i].data[k].req = r}
AllFree == \A t \in Threads : phase[t] = "free"

\* However the loops of two handlers divide the requests between them, nobody's
\* result is sent twice, a request whose handler answered 429 is in no response,
\* and once every handler has answered, each request that was accepted is in one
\* response, though not always in that of its own handler, or was lost to a 500,
\* or waits in the queue, or paused, where a loop which raised has left it.
EachAnsweredOnce ==
    \A r \in Requests :
        /\ Cardinality(ResponsesWith(r)) <= 1
        /\ fate[r] = "rejected" => ResponsesWith(r) = {}
        /\ AllFree /\ fate[r] = "sent" =>
             IF r \in ToSet(pending) \cup ToSet(paused) THEN \E i \in DOMAIN responses : responses[i].status = 500
             ELSE Cardinality(ResponsesWith(r)) = 1

\* Every request of a client is answered, however the loops meet: no handler
\* runs or waits for ever.
EveryPostAnswered == \A t \in Threads : phase[t] # "free" ~> phase[t] = "free"
==============================================================================
