--------------------------- MODULE RuntimeSessions ---------------------------
(***************************************************************************)
(* Runtime sessions (cacheir/runtime/cpu.py): calls of generate, each on   *)
(* the KV cache of a session, all on one PrefixCache (kv_cache.py), as     *)
(* Runtime.fork shares it.  Calls run in threads of their own; a step ends *)
(* where another call could touch the prefix cache or the session.         *)
(*                                                                         *)
(* Abstracted: an entry of a layer's K/V is the token it was computed from *)
(* and the position it was rotated to; the next token is any token; pages  *)
(* and spillover are PagedKVCache's.                                       *)
(***************************************************************************)
EXTENDS Integers, Sequences, FiniteSets, SequencesExt

CONSTANTS Calls,      \* the calls of generate
          Sessions,   \* the Runtime objects
          Session,    \* Session[c]: the one c runs on
          Tokens,     \* token ids
          Prompts,    \* the encoded prompts calls may be given
          UseCache,   \* UseCache[c]: use_prefix_cache
          MaxNew,     \* max_new_tokens
          NumLayers,  \* the attention layers, in graph order 1..NumLayers
          Capacity,   \* capacity of the prefix cache
          Serial      \* whether a call only begins when no other is running

ASSUME SessionsAssumption ==
    /\ Session \in [Calls -> Sessions]
    /\ UseCache \in [Calls -> BOOLEAN]
    /\ Prompts \subseteq Seq(Tokens) /\ <<>> \notin Prompts
    /\ MaxNew \in Nat /\ NumLayers \in Nat \ {0} /\ Capacity \in Nat \ {0}
    /\ Serial \in BOOLEAN

VARIABLES
    entries,    \* PrefixCache._entries, least recently used first
    hits,       \* its counters
    misses,
    evictions,
    kv,         \* kv[s][l]: keys and values of layer l in session s
    \* the locals of a call
    pc,         \* where it is
    prompt,     \* token_ids
    said,       \* the tokens yielded so far
    todo,       \* longest_prefix: the entries the for loop has yet to see
    disturbed,  \* ... whether the dictionary changed under the loop
    best,       \* ... best_key and best_value; put: the key and its snapshot
    input,      \* run: the ids
    layer,      \* ... the layer it has reached
    offset,     \* ... _position_offset of that layer
    recent      \* history: the pairs <<k, m>> of used keys, k not used after m

counters == <<hits, misses, evictions>>
cacheVars == <<entries, counters, recent>>
lookup == <<todo, best>>
running == <<input, layer, offset>>
vars == <<cacheVars, kv, pc, prompt, said, todo, disturbed, best, input, layer, offset, recent>>

Layers == 1..NumLayers
LookupPcs == {"search", "touch"}
RunPcs == {"rope", "attend"}
PutPcs == {"remember", "pop", "insert", "full", "evict"}
Pcs == {"idle", "load", "clear", "next", "done", "failed"} \cup LookupPcs \cup RunPcs \cup PutPcs

Entry == [tok : Tokens, pos : Nat]
NoKV == [l \in Layers |-> <<>>]
NoBest == [key |-> <<>>, value |-> NoKV]

\* K/V of tokens run at the positions first, first + 1, ...
Placed(tokens, first) == [i \in DOMAIN tokens |-> [tok |-> tokens[i], pos |-> first + i - 1]]

Init ==
    /\ entries = <<>> /\ hits = 0 /\ misses = 0 /\ evictions = 0 /\ recent = {}
    /\ kv = [s \in Sessions |-> NoKV]
    /\ pc = [c \in Calls |-> "idle"]
    /\ prompt = [c \in Calls |-> <<>>] /\ said = [c \in Calls |-> <<>>]
    /\ todo = [c \in Calls |-> <<>>] /\ disturbed = [c \in Calls |-> FALSE]
    /\ best = [c \in Calls |-> NoBest]
    /\ input = [c \in Calls |-> <<>>]
    /\ layer = [c \in Calls |-> 0] /\ offset = [c \in Calls |-> 0]

Goto(c, from, to) == pc[c] = from /\ pc' = [pc EXCEPT ![c] = to]

\* An exception leaves the generator.
Fail(c, from) == Goto(c, from, "failed") /\ UNCHANGED <<cacheVars, kv, prompt, said, disturbed, lookup, running>>

\* A change of the dictionary's keys or of their order, which the other calls'
\* loops over it notice at their next step.
Disturb == disturbed' = [c \in Calls |-> disturbed[c] \/ pc[c] = "search"]

\* A use of key, by a hit or a put.
Use(key) == recent' = {p \in recent : p[1] # key} \cup {<<p[1], key>> : p \in recent} \cup {<<key, key>>}

Index(key) == {i \in DOMAIN entries : entries[i].key = key}

------------------------------------------------------------------------------
\* generate: the prompt is encoded and prefill_tokens begins.
Begin(c, p) ==
    /\ Serial => \A o \in Calls : pc[o] \in {"idle", "done", "failed"}
    /\ Goto(c, "idle", IF UseCache[c] THEN "search" ELSE "clear")
    /\ prompt' = [prompt EXCEPT ![c] = p]
    /\ todo' = [todo EXCEPT ![c] = IF UseCache[c] THEN entries ELSE <<>>]
    /\ UNCHANGED <<cacheVars, kv, said, disturbed, best, running>>

(***************************************************************************)
(* longest_prefix                                                          *)
(***************************************************************************)

\* Mutant: any prefix that comes later in the dictionary wins.
BetterLast(c, e) == IsPrefix(e.key, prompt[c])

\* The test of the for loop over the entries.
Better(c, e) == Len(e.key) > Len(best[c].key) /\ IsPrefix(e.key, prompt[c])

\* One step of the loop; a dictionary that changed meanwhile raises, unless the
\* loop had already seen its last entry.
Search(c) ==
    \/ /\ todo[c] # <<>> /\ ~disturbed[c]
       /\ Goto(c, "search", "search")
       /\ best' = IF Better(c, Head(todo[c])) THEN [best EXCEPT ![c] = Head(todo[c])] ELSE best
       /\ todo' = [todo EXCEPT ![c] = Tail(@)]
       /\ UNCHANGED <<cacheVars, kv, prompt, said, disturbed, running>>
    \/ todo[c] # <<>> /\ disturbed[c] /\ Fail(c, "search")
    \/ /\ todo[c] = <<>>
       /\ Goto(c, "search", IF best[c].key = <<>> THEN "clear" ELSE "touch")
       /\ misses' = IF best[c].key = <<>> THEN misses + 1 ELSE misses
       /\ disturbed' = [disturbed EXCEPT ![c] = FALSE]
       /\ UNCHANGED <<entries, hits, evictions, recent, kv, prompt, said, lookup, running>>

\* Mutant: a hit leaves the entry where it is.
MovedToEndNot(i) == entries

\* The entries with the i-th moved to the end.
MovedToEnd(i) == Append(RemoveAt(entries, i), entries[i])

\* move_to_end, which raises when the entry has been evicted meanwhile, the copy
\* and the counter.  prefill_tokens uses the snapshot only when some of the
\* prompt is left to run.
Touch(c) ==
    \/ /\ Goto(c, "touch", IF Len(best[c].key) < Len(prompt[c]) THEN "load" ELSE "clear")
       /\ \E i \in Index(best[c].key) : entries' = MovedToEnd(i)
       /\ IF entries' = entries THEN UNCHANGED disturbed ELSE Disturb
       /\ hits' = hits + 1
       /\ Use(best[c].key)
       /\ UNCHANGED <<misses, evictions, kv, prompt, said, lookup, running>>
    \/ Index(best[c].key) = {} /\ Fail(c, "touch")

------------------------------------------------------------------------------
(***************************************************************************)
(* prefill_tokens and run                                                  *)
(***************************************************************************)

\* Run ids, from the first layer on.
StartRun(c, ids) ==
    /\ input' = [input EXCEPT ![c] = ids]
    /\ layer' = [layer EXCEPT ![c] = 1]

\* Mutant: the prompt is run again after its cached prefix.
RestWhole(c) == prompt[c]

\* The ids the restored prefix does not cover.
Rest(c) == SubSeq(prompt[c], Len(best[c].key) + 1, Len(prompt[c]))

\* load_prefix: the session holds the snapshot, and the rest of the prompt runs.
Load(c) ==
    /\ Goto(c, "load", "rope")
    /\ kv' = [kv EXCEPT ![Session[c]] = best[c].value]
    /\ StartRun(c, Rest(c))
    /\ best' = [best EXCEPT ![c] = NoBest]
    /\ UNCHANGED <<cacheVars, prompt, said, todo, disturbed, offset>>

\* Mutant: the session is not cleared first.
ClearedNot(s) == kv[s]

Cleared(s) == NoKV

\* run with reset_kv: the session is cleared, and the whole prompt runs.
Clear(c) ==
    /\ Goto(c, "clear", "rope")
    /\ kv' = [kv EXCEPT ![Session[c]] = Cleared(Session[c])]
    /\ StartRun(c, prompt[c])
    /\ best' = [best EXCEPT ![c] = NoBest]
    /\ UNCHANGED <<cacheVars, prompt, said, todo, disturbed, offset>>

\* Mutant: a prefill always starts at position 0.
PositionOffsetZero(c) == IF said[c] = <<>> THEN 0 ELSE Len(kv[Session[c]][layer[c]])

\* Mutant: the position of the last entry instead of the next.
PositionOffsetLast(c) == Len(kv[Session[c]][layer[c]]) - 1

PositionOffset(c) == Len(kv[Session[c]][layer[c]])

\* The projection of a layer rotates its keys from the layer's own length on.
Rope(c) ==
    /\ Goto(c, "rope", "attend")
    /\ offset' = [offset EXCEPT ![c] = PositionOffset(c)]
    /\ UNCHANGED <<cacheVars, kv, prompt, said, disturbed, lookup, input, layer>>

\* Where a run leads when its last layer is done: a prefill is remembered.
AfterRun(c) == IF said[c] = <<>> /\ UseCache[c] THEN "remember" ELSE "next"

\* The attention of a layer appends to the session's cache; then the next layer.
Attend(c) ==
    /\ Goto(c, "attend", IF layer[c] < NumLayers THEN "rope" ELSE AfterRun(c))
    /\ kv' = [kv EXCEPT ![Session[c]][layer[c]] = @ \o Placed(input[c], offset[c])]
    /\ layer' = [layer EXCEPT ![c] = IF @ < NumLayers THEN @ + 1 ELSE 0]
    /\ input' = IF layer[c] < NumLayers THEN input ELSE [input EXCEPT ![c] = <<>>]
    /\ offset' = [offset EXCEPT ![c] = 0]
    /\ UNCHANGED <<cacheVars, prompt, said, disturbed, lookup>>

\* One pass of generate's loop: a token is yielded and run; after the last the
\* generator ends.
Say(c, token) ==
    /\ Len(said[c]) < MaxNew
    /\ Goto(c, "next", "rope")
    /\ said' = [said EXCEPT ![c] = Append(@, token)]
    /\ StartRun(c, <<token>>)
    /\ UNCHANGED <<cacheVars, kv, prompt, disturbed, lookup, offset>>

End(c) ==
    /\ Len(said[c]) = MaxNew
    /\ Goto(c, "next", "done")
    /\ UNCHANGED <<cacheVars, kv, prompt, said, disturbed, lookup, running>>

------------------------------------------------------------------------------
(***************************************************************************)
(* remember_prefix: snapshot_prefix of the prompt's length, then put       *)
(***************************************************************************)

Least(m, n) == IF m < n THEN m ELSE n

\* The first Len(prompt) entries of every layer.
Snapshot(c) == [l \in Layers |-> SubSeq(kv[Session[c]][l], 1, Least(Len(prompt[c]), Len(kv[Session[c]][l])))]

\* Mutant: the key is popped whether it is there or not.
CachedAlways(c) == TRUE

Cached(c) == Index(prompt[c]) # {}

\* The snapshot, and put's test whether the key is there.
Remember(c) ==
    /\ Goto(c, "remember", IF Cached(c) THEN "pop" ELSE "insert")
    /\ best' = [best EXCEPT ![c] = [key |-> prompt[c], value |-> Snapshot(c)]]
    /\ UNCHANGED <<cacheVars, kv, prompt, said, todo, disturbed, running>>

\* _entries.pop(key), which raises when another call has removed it.
Pop(c) ==
    \/ /\ Goto(c, "pop", "insert")
       /\ \E i \in Index(prompt[c]) : entries' = RemoveAt(entries, i)
       /\ Disturb
       /\ UNCHANGED <<counters, recent, kv, prompt, said, lookup, running>>
    \/ Index(prompt[c]) = {} /\ Fail(c, "pop")

\* _entries[key] = ...: at the end, unless another call has put the key back.
Insert(c) ==
    /\ Goto(c, "insert", "full")
    /\ \/ /\ Index(prompt[c]) = {}
          /\ entries' = Append(entries, best[c])
          /\ Disturb
       \/ /\ Index(prompt[c]) # {}
          /\ entries' = [i \in DOMAIN entries |-> IF i \in Index(prompt[c]) THEN best[c] ELSE entries[i]]
          /\ UNCHANGED disturbed
    /\ Use(prompt[c])
    /\ best' = [best EXCEPT ![c] = NoBest]
    /\ UNCHANGED <<counters, kv, prompt, said, todo, running>>

Overfull == Len(entries) > Capacity

\* The while test of the eviction loop.
Full(c) ==
    /\ Goto(c, "full", IF Overfull THEN "evict" ELSE "next")
    /\ UNCHANGED <<cacheVars, kv, prompt, said, disturbed, lookup, running>>

\* popitem(last=False), which raises on an empty dictionary.
Evict(c) ==
    \/ /\ entries # <<>>
       /\ Goto(c, "evict", "full")
       /\ entries' = Tail(entries)
       /\ evictions' = evictions + 1
       /\ Disturb
       /\ UNCHANGED <<hits, misses, recent, kv, prompt, said, lookup, running>>
    \/ entries = <<>> /\ Fail(c, "evict")

------------------------------------------------------------------------------
Step(c) == \/ Search(c) \/ Touch(c) \/ Load(c) \/ Clear(c) \/ Rope(c) \/ Attend(c) \/ End(c)
           \/ Remember(c) \/ Pop(c) \/ Insert(c) \/ Full(c) \/ Evict(c)

Next == \E c \in Calls : \/ \E p \in Prompts : Begin(c, p)
                         \/ \E token \in Tokens : Say(c, token)
                         \/ Step(c)

Spec == Init /\ [][Next]_vars

------------------------------------------------------------------------------
(***************************************************************************)
(* Properties                                                              *)
(***************************************************************************)

\* Every variable holds a value of the kind the code gives it.
TypeOK ==
    /\ entries \in Seq([key : Seq(Tokens), value : [Layers -> Seq(Entry)]])
    /\ recent \subseteq Seq(Tokens) \X Seq(Tokens)
    /\ hits \in Nat /\ misses \in Nat /\ evictions \in Nat
    /\ kv \in [Sessions -> [Layers -> Seq(Entry)]]
    /\ pc \in [Calls -> Pcs]
    /\ prompt \in [Calls -> Seq(Tokens)] /\ said \in [Calls -> Seq(Tokens)]
    /\ todo \in [Calls -> Seq([key : Seq(Tokens), value : [Layers -> Seq(Entry)]])]
    /\ disturbed \in [Calls -> BOOLEAN]
    /\ best \in [Calls -> [key : Seq(Tokens), value : [Layers -> Seq(Entry)]]]
    /\ input \in [Calls -> Seq(Tokens)]
    /\ layer \in [Calls -> 0..NumLayers] /\ offset \in [Calls -> Nat]

\* A call nobody disturbs: its session is its own, as every fork's is, or calls
\* are made one at a time.
Alone(c) == Serial \/ \A o \in Calls \ {c} : Session[o] # Session[c]

\* The lookup finds the longest cached prefix: when a call turns to its entry,
\* no entry whose key begins its prompt is longer.
LongestPrefixFound ==
    \A c \in Calls : pc[c] = "touch" =>
        \A i \in DOMAIN entries : IsPrefix(entries[i].key, prompt[c]) => Len(entries[i].key) <= Len(best[c].key)

\* A snapshot is what a full prefill of its key would have computed, in every
\* layer and at the same positions, whichever calls wrote it and whatever was
\* restored before.
SnapshotsExact ==
    \A i \in DOMAIN entries : \A l \in Layers : entries[i].value[l] = Placed(entries[i].key, 0)

\* Between two runs the session of a call holds exactly the prompt and the tokens
\* said, in every layer, whether or not a prefix was restored and whatever the
\* session held before.
OwnedContextExact ==
    \A c \in Calls : pc[c] = "next" /\ Alone(c) =>
        \A l \in Layers : kv[Session[c]][l] = Placed(prompt[c] \o said[c], 0)

\* The entries stand in the order they were last used, by a hit or by a put, so
\* that an eviction takes the one that was not used for the longest time.
LeastRecentFirst ==
    \A i, j \in DOMAIN entries : i <= j <=> <<entries[i].key, entries[j].key>> \in recent

\* No lookup and no put of the prefix cache raises.
NeverRaises == \A c \in Calls : pc[c] # "failed"

\* What the model has seen in a call with a session of its own, by its last layer:
\* nothing until the prefill is over; a call whose put raised has had its prefill.
ContextOf(c) ==
    IF pc[c] \in PutPcs \cup {"next", "done", "failed"} \/ said[c] # <<>> THEN kv[Session[c]][NumLayers] ELSE <<>>

Unshared == INSTANCE Generation WITH context <- [c \in Calls |-> ContextOf(c)]

\* Sessions on a shared prefix cache implement generation without one.
ImplementsGeneration == Unshared!Spec

==============================================================================
