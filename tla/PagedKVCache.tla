---------------------------- MODULE PagedKVCache ----------------------------
(***************************************************************************)
(* The paged KV cache of one session (cacheir/runtime/kv_cache.py): the    *)
(* page table that append and load_prefix keep of each layer's tokens, and *)
(* the SpilloverPolicy that append applies.  One thread uses a session; a  *)
(* step is an operation, a pass of _extend_pages' loop or an application   *)
(* of the policy.                                                          *)
(*                                                                         *)
(* Abstracted: the K/V arrays (a layer has a number of tokens), transfer   *)
(* costs (the eviction score orders pages by start, then by layer, with or *)
(* without a cost model) and bytes (a page has PageBytes of them).         *)
(***************************************************************************)
EXTENDS Integers, Sequences, FiniteSets

CONSTANTS Layers,     \* the attention layers
          PageSize,   \* page_size
          PageBytes,  \* _observe_page_bytes: the bytes of a page
          Policies,   \* the policies enable_spillover may install
          MaxRun,     \* bound: the tokens one run may append
          MaxTokens   \* bound: the tokens of a session

NoLimit == -1         \* None, of max_resident_pages and of gpu_free_memory_mb
NoPolicy == [limit |-> NoLimit, model |-> FALSE, usable |-> NoLimit, bytes |-> 0]

\* A policy: max_resident_pages, whether it has a cost model, and the model's
\* free memory less the safety margin and its page_bytes (0 until observed).
ASSUME PagedKVAssumption ==
    /\ Layers \subseteq Nat /\ IsFiniteSet(Layers)
    /\ PageSize \in Nat \ {0} /\ PageBytes \in Nat \ {0}
    /\ MaxRun \in Nat /\ MaxTokens \in Nat
    /\ Policies \subseteq [limit : Int, model : BOOLEAN, usable : Int, bytes : Nat]

VARIABLES
    tokens,      \* tokens[l]: keys.shape[1] of layer l, 0 before its first append
    pages,       \* pages[l]: its page table
    nextPageId,  \* _next_page_id
    spilled,     \* spilled_pages: the markers
    enabled,     \* whether the cache has a spillover_policy
    policy,      \* spillover_policy
    \* the locals of append, load_prefix and _extend_pages
    pc,          \* "idle", "extend" (append), "fill" (load_prefix) or "spill"
    todo,        \* load_prefix: the layers of the snapshot still to be set
    cur,         \* the layer whose pages are extended
    cursor,      \* _extend_pages: cursor
    remaining    \* ... remaining

table == <<tokens, pages, nextPageId>>
loop == <<cur, cursor, remaining>>
vars == <<tokens, pages, nextPageId, spilled, enabled, policy, pc, todo, cur, cursor, remaining>>

Page == [id : Nat, start : Nat, length : Nat]
Marker == [layer : Layers, id : Nat, start : Nat, length : Nat]

Init ==
    /\ tokens = [l \in Layers |-> 0] /\ pages = [l \in Layers |-> <<>>]
    /\ nextPageId = 0 /\ spilled = <<>>
    /\ enabled = FALSE /\ policy = NoPolicy
    /\ pc = "idle" /\ todo = {}
    /\ cur \in Layers /\ cursor = 0 /\ remaining = 0

Goto(from, to) == pc = from /\ pc' = to

------------------------------------------------------------------------------
(***************************************************************************)
(* append and load_prefix                                                  *)
(***************************************************************************)

\* append: the arrays grow, then _extend_pages goes over the new tokens.
AppendKV(l, n) ==
    /\ Goto("idle", "extend")
    /\ tokens[l] + n <= MaxTokens
    /\ tokens' = [tokens EXCEPT ![l] = @ + n]
    /\ cur' = l /\ cursor' = tokens[l] /\ remaining' = n
    /\ UNCHANGED <<pages, nextPageId, spilled, enabled, policy, todo>>

\* clear, and what it leaves to do for load_prefix.
Reset(S) ==
    /\ tokens' = [l \in Layers |-> 0] /\ pages' = [l \in Layers |-> <<>>]
    /\ nextPageId' = 0 /\ spilled' = <<>>
    /\ todo' = S
    /\ cursor' = 0 /\ remaining' = 0
    /\ UNCHANGED <<enabled, policy, cur>>

Clear == Goto("idle", "idle") /\ Reset({})

\* load_prefix of a snapshot that has the layers S.
LoadPrefix(S) == Goto("idle", "fill") /\ Reset(S)

\* The next layer of the snapshot; each has the snapshot's n tokens, the ones
\* that are set already have them.
LoadLayer(l, n) ==
    /\ Goto("fill", "fill")
    /\ remaining = 0 /\ l \in todo
    /\ \A k \in Layers : tokens[k] \in {0, n}
    /\ tokens' = [tokens EXCEPT ![l] = n]
    /\ todo' = todo \ {l}
    /\ cur' = l /\ cursor' = 0 /\ remaining' = n
    /\ UNCHANGED <<pages, nextPageId, spilled, enabled, policy>>

Least(m, n) == IF m < n THEN m ELSE n

\* Mutant: a pass always takes a whole page, if there are as many tokens.
TakeWhole == Least(remaining, PageSize)

\* Mutant: a pass fills the page even with fewer tokens left.
TakeRest == PageSize - (cursor % PageSize)

\* take: what fits into the page the cursor is in.
Take == Least(remaining, PageSize - (cursor % PageSize))

\* Mutant: the page id is counted per layer.
NewPageOfLayer == [id |-> Len(pages[cur]), start |-> cursor, length |-> Take]

NewPage == [id |-> nextPageId, start |-> cursor, length |-> Take]

\* A pass of the loop of _extend_pages: a page begins at a multiple of the page
\* size, the last page grows otherwise.
Extend ==
    /\ pc \in {"extend", "fill"} /\ remaining > 0
    /\ \/ /\ cursor % PageSize = 0
          /\ pages' = [pages EXCEPT ![cur] = Append(@, NewPage)]
          /\ nextPageId' = nextPageId + 1
       \/ /\ cursor % PageSize # 0
          /\ pages' = [pages EXCEPT ![cur][Len(pages[cur])].length = @ + Take]
          /\ UNCHANGED nextPageId
    /\ cursor' = cursor + Take
    /\ remaining' = remaining - Take
    /\ UNCHANGED <<tokens, spilled, enabled, policy, pc, todo, cur>>

\* The end of append's loop; the policy is applied if there is one.
Appended ==
    /\ remaining = 0
    /\ Goto("extend", IF enabled THEN "spill" ELSE "idle")
    /\ UNCHANGED <<table, spilled, enabled, policy, todo, loop>>

\* The end of load_prefix, which applies no policy.
Loaded ==
    /\ remaining = 0 /\ todo = {}
    /\ Goto("fill", "idle")
    /\ UNCHANGED <<table, spilled, enabled, policy, todo, loop>>

------------------------------------------------------------------------------
(***************************************************************************)
(* The spillover policy                                                    *)
(***************************************************************************)

\* enable_spillover replaces the policy; a cost model without page_bytes gets
\* the cache's, if it has seen any.
EnableSpillover(p) ==
    /\ Goto("idle", "idle")
    /\ enabled' = TRUE
    /\ policy' = p
    /\ UNCHANGED <<table, spilled, todo, loop>>

AtLeastOne(n) == IF n < 1 THEN 1 ELSE n

\* Mutant: the limit is forgotten when there is a cost model.
ResidentBudgetModel(p) == AtLeastOne(IF p.model /\ p.usable # NoLimit THEN p.usable \div p.bytes ELSE p.limit)

\* resident_page_budget, with max_resident_pages for its fallback.
ResidentBudget(p) ==
    IF ~p.model \/ p.usable = NoLimit \/ p.bytes = 0 THEN AtLeastOne(p.limit)
    ELSE IF p.limit = NoLimit THEN AtLeastOne(p.usable \div p.bytes)
    ELSE AtLeastOne(Least(p.limit, p.usable \div p.bytes))

\* page_bytes of a cost model that has none yet is the cache's.
Observed(p) == IF p.model /\ p.bytes = 0 THEN [p EXCEPT !.bytes = PageBytes] ELSE p

\* total_pages: the entries of the page tables.
Positions == UNION {{l} \X DOMAIN pages[l] : l \in Layers}
Pages == Cardinality(Positions)

IsSpilled(l, id) == \E k \in DOMAIN spilled : spilled[k].layer = l /\ spilled[k].id = id

\* Mutant: the markers already there are not looked up.
CandidatesAll == UNION {{[layer |-> l, id |-> pages[l][k].id, start |-> pages[l][k].start, length |-> pages[l][k].length] :
                           k \in DOMAIN pages[l]} : l \in Layers}

\* Markers of the pages that are not spilled yet.
Candidates == UNION {{[layer |-> l, id |-> pages[l][k].id, start |-> pages[l][k].start, length |-> pages[l][k].length] :
                        k \in {j \in DOMAIN pages[l] : ~IsSpilled(l, pages[l][j].id)}} : l \in Layers}

\* Mutant: the newest pages go first.
NewestFirst(m, n) == m.start > n.start \/ (m.start = n.start /\ m.layer < n.layer)

\* The order of the scores: by start, then by layer.
ByScore(m, n) == m.start < n.start \/ (m.start = n.start /\ m.layer < n.layer)

\* The markers of S, lowest score first (TLC's SortSeq has no definition to reason from).
InOrder(S) == [i \in 1..Cardinality(S) |-> CHOOSE m \in S : Cardinality({n \in S : ByScore(n, m)}) = i - 1]

\* overflow counts every page of the table, the spilled ones too.
Overflow(p) == Pages - ResidentBudget(p)

\* apply: the overflow is spilled, lowest score first, as far as there are pages.
Spill ==
    /\ Goto("spill", "idle")
    /\ policy' = Observed(policy)
    /\ LET overflow == Overflow(Observed(policy))
           markers == InOrder(Candidates)
       IN  spilled' = IF overflow <= 0 THEN spilled
                      ELSE spilled \o SubSeq(markers, 1, Least(overflow, Len(markers)))
    /\ UNCHANGED <<table, enabled, todo, loop>>

------------------------------------------------------------------------------
Next ==
    \/ \E l \in Layers : \E n \in 1..MaxRun : AppendKV(l, n)
    \/ \E l \in Layers : \E n \in 1..MaxTokens : LoadLayer(l, n)
    \/ \E S \in SUBSET Layers : LoadPrefix(S)
    \/ \E p \in Policies : EnableSpillover(p)
    \/ Clear \/ Extend \/ Appended \/ Loaded \/ Spill

Spec == Init /\ [][Next]_vars

------------------------------------------------------------------------------
(***************************************************************************)
(* Properties                                                              *)
(***************************************************************************)

\* Every variable holds a value of the kind the code gives it.
TypeOK ==
    /\ tokens \in [Layers -> Nat] /\ pages \in [Layers -> Seq(Page)]
    /\ nextPageId \in Nat /\ spilled \in Seq(Marker)
    /\ enabled \in BOOLEAN
    /\ policy \in [limit : Int, model : BOOLEAN, usable : Int, bytes : Nat]
    /\ pc \in {"idle", "extend", "fill", "spill"} /\ todo \in SUBSET Layers
    /\ cur \in Layers /\ cursor \in Nat /\ remaining \in Nat

\* The tokens of layer l its pages should cover by now.
Reached(l) == IF l = cur /\ pc \in {"extend", "fill"} THEN cursor ELSE tokens[l]

EndOf(p) == p.start + p.length

\* The pages of a layer tile its tokens, whatever lengths they were appended in:
\* the first begins at 0, each of the others where the one before it ends, all
\* but the last are full, and the last ends at the last token.
Tiled(l) ==
    /\ (pages[l] = <<>>) <=> (Reached(l) = 0)
    /\ \A k \in DOMAIN pages[l] :
         /\ pages[l][k].length \in 1..PageSize
         /\ k = 1 => pages[l][k].start = 0
         /\ k < Len(pages[l]) => /\ pages[l][k].length = PageSize
                                 /\ pages[l][k + 1].start = EndOf(pages[l][k])
         /\ k = Len(pages[l]) => EndOf(pages[l][k]) = Reached(l)

PagesTile == \A l \in Layers : Tiled(l)

\* No two pages of a session have the same id, whatever layers they are of.
PageIdsUnique ==
    \A l, m \in Layers : \A j \in DOMAIN pages[l], k \in DOMAIN pages[m] :
        /\ pages[l][j].id < nextPageId
        /\ pages[l][j].id = pages[m][k].id => l = m /\ j = k

\* A marker names a page of the table, which may only have grown since, and no
\* page has two.
MarkersNamePages ==
    \A j \in DOMAIN spilled :
        /\ \E k \in DOMAIN pages[spilled[j].layer] :
             LET p == pages[spilled[j].layer][k]
             IN  p.id = spilled[j].id /\ p.start = spilled[j].start /\ p.length >= spilled[j].length
        /\ \A k \in DOMAIN spilled : k # j => spilled[k].id # spilled[j].id

\* A layer's older pages are spilled before its newer ones.
OldestSpilledFirst ==
    \A l \in Layers : \A j, k \in DOMAIN pages[l] :
        j < k /\ IsSpilled(l, pages[l][k].id) => IsSpilled(l, pages[l][j].id)

Resident == Pages - Len(spilled)

\* An append leaves no more resident pages than the policy's budget, whichever
\* of its limits is the tighter, also when a prefix was restored or the policy
\* replaced before it.
BudgetKept ==
    [][pc = "spill" => /\ Resident' <= AtLeastOne(policy'.limit) \/ policy'.limit = NoLimit
                       /\ policy'.model /\ policy'.usable # NoLimit =>
                            Resident' <= AtLeastOne(policy'.usable \div policy'.bytes)]_vars

=============================================================================
