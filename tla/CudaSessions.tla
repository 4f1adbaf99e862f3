---------------------------- MODULE CudaSessions ----------------------------
(***************************************************************************)
(* CUDA sessions at work (cacheir/runtime/cuda.py, CudaRuntime): graph     *)
(* walks over one session or a batch of them, as the scheduler makes them, *)
(* prefix reuse, the two ways to attend, and recovery from running out of  *)
(* memory.  Of a graph there are the nodes that touch the cache, for each  *)
(* layer the one that rotates (it reads the position) and the attention.   *)
(*                                                                         *)
(* Abstracted: tensors (a row of the cache is the token it was computed    *)
(* from and the position it was rotated by: if every attention reads the   *)
(* right rows, the outcome is the right one), the prefix cache (at most    *)
(* one prefix is remembered; RuntimeSessions has the real one) and the     *)
(* checks of the arguments.  Not modelled: an error between the            *)
(* concatenations of keys and values, which leaves them of two lengths.    *)
(***************************************************************************)
EXTENDS CudaPages

CONSTANTS Prompts,    \* the prompts, sequences of tokens
          Generated,  \* the tokens a decode may be given
          Kernels,    \* what use_triton_attention may be, if Triton is there
          MaxWalks, MaxFaults  \* bounds: graph walks, and memory faults

ASSUME CudaSessionsAssumption ==
    /\ Prompts \subseteq Seq(Nat) /\ Generated \subseteq Nat
    /\ Kernels \subseteq BOOLEAN /\ MaxWalks \in Nat /\ MaxFaults \in Nat

VARIABLES
    triton,     \* use_triton_attention
    walk,       \* the graph walk under way: its locals
    snapshot,   \* the remembered prefix: its tokens and the rows of each layer, and
                \* whether a session in doubt left it
    context,    \* what each session has been given, for the properties
    suspect,    \* the sessions of a walk that failed, or that appended twice
    walks, faults

sessionVars == <<triton, walk, snapshot, context, suspect, walks, faults>>
vars == <<pageVars, sessionVars>>

Pad == 0
Row(token, position) == [token |-> token, position |-> position]
RowsAt(tokens, offset) == [i \in DOMAIN tokens |-> Row(tokens[i], offset + i - 1)]

NoWalk == [pc |-> "none"]
NoSnapshot == [tokens |-> <<>>, rows |-> <<>>, doubt |-> FALSE]

\* A walk: its sessions, the first of which runs it, and their tokens.
Walk(pc, mode, batch, sessions, tokens, remember) ==
    [pc |-> pc, mode |-> mode, batch |-> batch, sessions |-> sessions, tokens |-> tokens,
     layer |-> 1, turn |-> 1, offsets |-> <<>>, views |-> <<>>, paged |-> FALSE, remember |-> remember]

Runner == walk.sessions[1]
Session == walk.sessions[walk.turn]
InWalk == ToSet(walk.sessions)

Init ==
    /\ PagesInit
    /\ triton \in Kernels
    /\ walk = NoWalk /\ snapshot = NoSnapshot
    /\ context = [s \in Sessions |-> <<>>]
    /\ suspect = {} /\ walks = 0 /\ faults = 0

------------------------------------------------------------------------------
(* Beginning a walk *)

Starts(w) ==
    /\ walk = NoWalk /\ job = NoJob
    /\ walks < MaxWalks
    /\ walks' = walks + 1
    /\ walk' = w
    /\ UNCHANGED <<triton, snapshot, faults>>

Given(sessions, tokens, s) == tokens[CHOOSE i \in DOMAIN sessions : sessions[i] = s]

\* run(mode = "prefill"), and prefill_tokens that finds no prefix.
Prefill(s, prompt, remember) ==
    /\ Starts(Walk("rotate", "prefill", FALSE, <<s>>, <<prompt>>, remember))
    /\ Clear(s)
    /\ context' = [context EXCEPT ![s] = prompt]
    /\ suspect' = suspect \ {s}
    /\ UNCHANGED <<nextPage, spilled, pools, job>>

\* prefill_tokens with a prefix: load_prefix clears, then sets layer after layer.
PrefillFrom(s, prompt, remember) ==
    LET reused == Len(snapshot.tokens)
    IN /\ snapshot # NoSnapshot /\ reused < Len(prompt) /\ IsPrefix(snapshot.tokens, prompt)
       /\ Starts(Walk("load", "prefill", FALSE, <<s>>, <<SubSeq(prompt, reused + 1, Len(prompt))>>,
                       remember))
       /\ Clear(s)
       /\ context' = [context EXCEPT ![s] = prompt]
       /\ suspect' = IF snapshot.doubt THEN suspect \cup {s} ELSE suspect \ {s}
       /\ UNCHANGED <<nextPage, spilled, pools, job>>

\* run(mode = "decode") of one token.
Decode(s, token) ==
    /\ context[s] # <<>>
    /\ Starts(Walk("rotate", "decode", FALSE, <<s>>, <<<<token>>>>, FALSE))
    /\ context' = [context EXCEPT ![s] = Append(@, token)]
    /\ UNCHANGED <<pageVars, suspect>>

\* run_prefill_batch clears every session.
PrefillBatch(sessions, prompts) ==
    /\ Starts(Walk("rotate", "prefill", TRUE, sessions, prompts, FALSE))
    /\ caches' = [s \in Sessions |-> IF s \in ToSet(sessions) THEN [l \in Layers |-> NoKV] ELSE caches[s]]
    /\ resident' = {marker \in resident : marker.session \notin ToSet(sessions)}
    /\ context' = [s \in Sessions |-> IF s \in ToSet(sessions) THEN Given(sessions, prompts, s) ELSE context[s]]
    /\ suspect' = suspect \ ToSet(sessions)
    /\ UNCHANGED <<nextPage, spilled, pools, job>>

DecodeBatch(sessions, tokens) ==
    /\ \A i \in DOMAIN sessions : context[sessions[i]] # <<>>
    /\ Starts(Walk("rotate", "decode", TRUE, sessions, [i \in DOMAIN tokens |-> <<tokens[i]>>], FALSE))
    /\ context' = [s \in Sessions |-> IF s \in ToSet(sessions)
                                      THEN Append(context[s], Given(sessions, tokens, s)) ELSE context[s]]
    /\ UNCHANGED <<pageVars, suspect>>

------------------------------------------------------------------------------
(* The nodes *)

At(pc) == walk.pc = pc /\ job = NoJob
WalkOnly == UNCHANGED <<triton, snapshot, context, suspect, walks, faults>>

\* A layer of load_prefix; the run of the other tokens follows the last one.
LoadLayer ==
    /\ At("load") /\ walk.layer \in Layers
    /\ BeginAppend(Runner, walk.layer, snapshot.rows[walk.layer])
    /\ walk' = [walk EXCEPT !.layer = @ + 1]
    /\ WalkOnly

Loaded ==
    /\ At("load") /\ walk.layer \notin Layers
    /\ walk' = [walk EXCEPT !.pc = "rotate", !.layer = 1]
    /\ UNCHANGED pageVars /\ WalkOnly

\* _position_offset
PositionOffset(s) == Len(caches[s][walk.layer].rows)

\* Mutant: a batch is rotated by the position of its first session
OffsetOfRunner == [i \in DOMAIN walk.sessions |-> PositionOffset(Runner)]

Offsets == [i \in DOMAIN walk.sessions |-> PositionOffset(walk.sessions[i])]

\* A batched decode tries the fused kernel first.
Rotate ==
    /\ At("rotate")
    /\ walk' = [walk EXCEPT !.pc = "attend", !.offsets = Offsets, !.turn = 1, !.views = <<>>,
                            !.paged = triton /\ walk.batch /\ walk.mode = "decode"]
    /\ UNCHANGED pageVars /\ WalkOnly

\* The rows a node computes for a session: a batch is padded to its longest prompt.
Longest == CHOOSE n \in {Len(walk.tokens[i]) : i \in DOMAIN walk.tokens} : \A i \in DOMAIN walk.tokens : Len(walk.tokens[i]) <= n
Padded(i) == [j \in 1..Longest |-> IF j <= Len(walk.tokens[i]) THEN walk.tokens[i][j] ELSE Pad]
Computed(i) == RowsAt(Padded(i), walk.offsets[i])

\* Mutant: the padding is not cut off
NewRowsPadded(i) == Computed(i)

\* The slice of them that _attention gets.
NewRows(i) == SubSeq(Computed(i), 1, Len(walk.tokens[i]))

\* _attention appends the rows, in either of the paths.
AppendRows ==
    /\ At("attend")
    /\ BeginAppend(Session, walk.layer, NewRows(walk.turn))
    /\ walk' = [walk EXCEPT !.pc = IF walk.paged THEN "view" ELSE "read"]
    /\ WalkOnly

\* The turn is over: the next session, the next layer or the end of the walk.
Remembered == [tokens |-> context[Runner], rows |-> SnapshotPrefix(Runner, Len(context[Runner])),
               doubt |-> Runner \in suspect]
NextNode ==
    /\ walk' = CASE ~walk.paged /\ walk.turn < Len(walk.sessions) -> [walk EXCEPT !.pc = "attend", !.turn = @ + 1]
                 [] (walk.paged \/ walk.turn = Len(walk.sessions)) /\ walk.layer < NumLayers ->
                        [walk EXCEPT !.pc = "rotate", !.layer = @ + 1]
                 [] OTHER -> NoWalk
    /\ snapshot' = IF walk'.pc = "none" /\ walk.remember THEN Remembered ELSE snapshot
    /\ UNCHANGED <<pageVars, triton, context, suspect, walks, faults>>

\* What the session attends to: a single decode may use the kernel as well,
\* and falls back on the array, which the append has already extended.
OnePaged == triton /\ walk.mode = "decode" /\ HasView(Session, walk.layer)
Attended ==
    IF OnePaged THEN Gathered(pools[walk.layer], PagedView(Session, walk.layer))
    ELSE caches[Session][walk.layer].rows

\* Query j of n is masked from the rows after its own; one decoded token needs no mask.
Visible(rows, j, n) == IF walk.mode = "prefill" THEN SubSeq(rows, 1, Len(rows) - n + j) ELSE rows

Read == At("read") /\ NextNode

\* The fused path keeps the view it gets after each append.  Without a view,
\* or if the last append replaced the tensors, the batch is attended one by
\* one: every session appends, and those that already had append again.
Fallback ==
    /\ walk' = [walk EXCEPT !.pc = "attend", !.turn = 1, !.paged = FALSE]
    /\ suspect' = suspect \cup {walk.sessions[i] : i \in 1..walk.turn}
    /\ UNCHANGED <<pageVars, triton, snapshot, context, walks, faults>>

TakeView ==
    /\ At("view")
    /\ \/ ~HasView(Session, walk.layer) /\ Fallback
       \/ /\ HasView(Session, walk.layer)
          /\ walk' = [walk EXCEPT !.views = Append(@, PagedView(Session, walk.layer)),
                                  !.pc = IF walk.turn = Len(walk.sessions) THEN "kernel" ELSE "attend",
                                  !.turn = IF walk.turn = Len(walk.sessions) THEN @ ELSE @ + 1]
          /\ UNCHANGED pageVars /\ WalkOnly

SameTensors == \A i \in DOMAIN walk.views : walk.views[i].tensors = walk.views[1].tensors

Kernel ==
    /\ At("kernel")
    /\ \/ SameTensors /\ NextNode
       \/ ~SameTensors /\ Fallback

------------------------------------------------------------------------------
(* Running out of memory *)

Fault ==
    /\ walk # NoWalk
    /\ faults < MaxFaults
    /\ faults' = faults + 1
    /\ suspect' = suspect \cup InWalk
    /\ UNCHANGED <<triton, snapshot, context, walks>>

\* _enforce_memory_limit before a node: the runner's cache is given up, and
\* the walk goes on or, if that was not enough, ends.
MemoryLimit ==
    /\ \/ At("rotate")
       \/ At("attend") /\ walk.turn = 1 /\ walk.views = <<>>
    /\ Fault
    /\ Clear(Runner)
    /\ walk' \in {walk, NoWalk}
    /\ UNCHANGED <<nextPage, spilled, pools, job>>

\* An OutOfMemoryError in a node: before the array grew, while a page was
\* copied, also after it got its slot and before the pool grew, or later.
OutOfMemory ==
    /\ job.pc \in {"none", "write"} /\ walk # NoWalk /\ walk.pc # "load"
    /\ Fault
    /\ Clear(Runner)
    /\ walk' = NoWalk /\ job' = NoJob
    /\ \/ UNCHANGED pools
       \/ /\ job.pc = "write" /\ Pending # {}
          /\ pools' = [pools EXCEPT ![job.layer] = WithSlot(Grown(Pool, 1), Cache.pages[Min(Pending)].id)]
    /\ UNCHANGED <<nextPage, spilled>>

\* load_prefix is not guarded: what is loaded stays.
LoadFails ==
    /\ walk.pc = "load" /\ job.pc \in {"none", "write"}
    /\ Fault
    /\ walk' = NoWalk /\ job' = NoJob
    /\ UNCHANGED <<allocator, caches>>

\* A page with a slot that the pool never got: copying it raises an IndexError.
WriteRaises ==
    /\ job.pc = "write" /\ Pending # {}
    /\ LET id == Cache.pages[Min(Pending)].id
       IN id \in DOMAIN Pool.slots /\ Pool.slots[id] >= Pool.capacity
    /\ walk' = NoWalk /\ job' = NoJob
    /\ suspect' = suspect \cup InWalk
    /\ UNCHANGED <<allocator, caches, triton, snapshot, context, walks, faults>>

------------------------------------------------------------------------------
Append1 == (ExtendPages \/ WritePage \/ EndAppend) /\ UNCHANGED sessionVars

Batches == {<<s, t>> : s, t \in Sessions} \ {<<s, s>> : s \in Sessions}

Next ==
    \/ \E s \in Sessions, prompt \in Prompts, remember \in BOOLEAN :
            Prefill(s, prompt, remember) \/ PrefillFrom(s, prompt, remember)
    \/ \E s \in Sessions, token \in Generated : Decode(s, token)
    \/ \E sessions \in Batches : \/ \E p, q \in Prompts : PrefillBatch(sessions, <<p, q>>)
                                 \/ \E t, u \in Generated : DecodeBatch(sessions, <<t, u>>)
    \/ LoadLayer \/ Loaded \/ Rotate \/ AppendRows \/ Append1 \/ Read \/ TakeView \/ Kernel
    \/ MemoryLimit \/ OutOfMemory \/ LoadFails \/ WriteRaises

Spec == Init /\ [][Next]_vars

------------------------------------------------------------------------------
Busy(s, l) == job # NoJob /\ job.session = s /\ job.layer = l

\* Between appends the pages of a session hold the rows of its array, in
\* order, in slots that the pool has: the kernel reads what the reference
\* attention reads, whatever the other sessions did to the pool.
PoolHoldsContext ==
    \A s \in Sessions \ suspect, l \in Layers : caches[s][l].rows # <<>> /\ ~Busy(s, l) =>
        /\ HasView(s, l)
        /\ \A i \in DOMAIN caches[s][l].pages : pools[l].slots[caches[s][l].pages[i].id] < pools[l].capacity
        /\ Gathered(pools[l], PagedView(s, l)) = caches[s][l].rows

\* Whenever a session attends, alone or in a batch, every query sees exactly
\* the tokens the session was given before it, each at its position: no
\* padding, no other session's tokens, none twice and none missing.
Sees(i, rows) ==
    LET s == walk.sessions[i]
        n == Len(walk.tokens[i])
        before == Len(context[s]) - n
    IN s \notin suspect =>
           \A j \in 1..n : Visible(rows, j, n) = RowsAt(SubSeq(context[s], 1, before + j), 0)

AttendsContext ==
    /\ At("read") => Sees(walk.turn, Attended)
    /\ At("kernel") /\ SameTensors =>
           \A i \in DOMAIN walk.views : Sees(i, Gathered(pools[walk.layer], walk.views[i]))

\* run_decode_batch: "Advance one decode token for multiple CUDA sessions in
\* one graph walk" (cuda.py:542).  Without a fault, a session has between
\* walks one row of each layer for every token it was given.
OneRowPerToken ==
    walk = NoWalk /\ job = NoJob /\ faults = 0 =>
        \A s \in Sessions, l \in Layers : Len(caches[s][l].rows) = Len(context[s])
=============================================================================
