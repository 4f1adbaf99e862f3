----------------------------- MODULE CudaPages -----------------------------
(***************************************************************************)
(* The KV caches of CUDA sessions that share one TorchKVPageAllocator      *)
(* (cacheir/runtime/cuda.py): a session keeps the keys and values of each  *)
(* layer in one array, and a table of pages that are copied into the pool  *)
(* of the layer, which every session writes and the fused decode kernel    *)
(* reads.  An append is a sequence of steps: the array grows, the loop of  *)
(* _extend_pages goes over the new tokens, the loop of                     *)
(* _write_touched_pages copies the pages they lie in.  One thread runs     *)
(* the sessions (the loop of the scheduler).                               *)
(*                                                                         *)
(* Abstracted: keys and values are one row per token; a layer has one pool *)
(* (all its tensors have one device, type and shape); the identity of the  *)
(* pool's tensors is a number that a new allocation changes; statistics.   *)
(***************************************************************************)
EXTENDS Integers, Sequences, FiniteSets, SequencesExt, FiniteSetsExt

CONSTANTS Sessions,   \* the sessions forked from one template
          NumLayers,  \* the attention layers
          PageSize,   \* page_size
          Budget      \* max_resident_pages, or NoLimit for None

NoLimit == 0   \* a limit below one counts as one
Least(m, n) == IF m < n THEN m ELSE n
Most(m, n) == IF m < n THEN n ELSE m
Layers == 1..NumLayers

ASSUME CudaPagesAssumption ==
    /\ NumLayers \in Nat \ {0} /\ PageSize \in Nat \ {0} /\ Budget \in Nat

VARIABLES
    nextPage,   \* _next_page_id
    resident,   \* _resident: the markers (a page that is older has a lower id)
    spilled,    \* spilled_pages: the pages whose markers the budget took
    pools,      \* _pools: capacity, tensors, page_slots, next_slot and what a slot holds
    caches,     \* layers of each session: the rows of the array and the page table
    job         \* the append that is under way

allocator == <<nextPage, resident, spilled, pools>>
pageVars == <<nextPage, resident, spilled, pools, caches, job>>

NoPool == [capacity |-> 0, tensors |-> 0, slots |-> <<>>, next |-> 0, rows |-> <<>>]
NoKV == [rows |-> <<>>, pages |-> <<>>]
NoJob == [pc |-> "none"]

PagesInit ==
    /\ nextPage = 0 /\ resident = {} /\ spilled = {}
    /\ pools = [l \in Layers |-> NoPool]
    /\ caches = [s \in Sessions |-> [l \in Layers |-> NoKV]]
    /\ job = NoJob

------------------------------------------------------------------------------
(* append *)

\* append, and a layer of load_prefix: the array has the new rows.
BeginAppend(s, l, rows) ==
    LET start == Len(caches[s][l].rows)
    IN /\ job' = [pc |-> IF rows = <<>> THEN "write" ELSE "extend", session |-> s, layer |-> l, start |-> start, cursor |-> start,
                  remaining |-> Len(rows), page |-> 0]
       /\ caches' = [caches EXCEPT ![s][l].rows = @ \o rows]
       /\ UNCHANGED allocator

Cache == caches[job.session][job.layer]
Pool == pools[job.layer]

\* allocate: the budget takes the marker of the oldest page, not its slot.
Allocate(length) ==
    LET marker == [page |-> nextPage, session |-> job.session, layer |-> job.layer,
                   start |-> job.cursor, length |-> length]
        marked == resident \cup {marker}
        over == Budget # NoLimit /\ Cardinality(marked) > Budget
        oldest == CHOOSE m \in marked : \A n \in marked : m.page <= n.page
    IN /\ nextPage' = nextPage + 1
       /\ resident' = IF over THEN marked \ {oldest} ELSE marked
       /\ spilled' = IF over THEN spilled \cup {oldest.page} ELSE spilled

NewPage(length) == [id |-> nextPage, start |-> job.cursor, length |-> length]

\* A pass of the loop of _extend_pages.
ExtendPages ==
    LET take == Least(job.remaining, PageSize - (job.cursor % PageSize))
        last == Len(Cache.pages)
    IN /\ job.pc = "extend"
       /\ \/ /\ job.cursor % PageSize = 0
             /\ Allocate(take)
             /\ caches' = [caches EXCEPT ![job.session][job.layer].pages = Append(@, NewPage(take))]
          \/ /\ job.cursor % PageSize # 0
             /\ caches' = [caches EXCEPT ![job.session][job.layer].pages[last].length = @ + take]
             /\ UNCHANGED <<nextPage, resident, spilled>>
       /\ job' = [job EXCEPT !.cursor = @ + take, !.remaining = @ - take,
                             !.pc = IF job.remaining = take THEN "write" ELSE "extend"]
       /\ UNCHANGED pools

\* Mutant: only the pages that begin with the new tokens are copied
TouchedAnew == {i \in DOMAIN Cache.pages : Cache.pages[i].start >= job.start}

\* The pages that hold one of the new tokens.
Touched == {i \in DOMAIN Cache.pages : Cache.pages[i].start + Cache.pages[i].length > job.start}

Pending == {i \in Touched : i > job.page}

\* Mutant: a page that has no slot yet gets one that another page may have
SlotByCount(pool, id) == Cardinality({p \in DOMAIN pool.slots : p < id})

Slot(pool, id) == IF id \in DOMAIN pool.slots THEN pool.slots[id] ELSE pool.next

WithSlot(pool, id) ==
    IF id \in DOMAIN pool.slots THEN pool
    ELSE [pool EXCEPT !.slots = [p \in DOMAIN @ \cup {id} |-> IF p = id THEN Slot(pool, id) ELSE @[p]], !.next = @ + 1]

\* _ensure_pool: a pool too small is replaced by one of twice its size, which
\* is another pair of tensors.
Grown(pool, capacity) ==
    IF pool.capacity >= capacity THEN pool
    ELSE LET size == Most(capacity, 2 * pool.capacity)
         IN [pool EXCEPT !.capacity = size, !.tensors = @ + 1,
                         !.rows = [slot \in 0..(size - 1) |-> IF slot \in DOMAIN @ THEN @[slot] ELSE <<>>]]

RowsOf(cache, page) == SubSeq(cache.rows, page.start + 1, page.start + page.length)

\* A pass of _write_touched_pages: write_page of the next page.
WritePage ==
    LET i == Min(Pending)
        page == Cache.pages[i]
        slot == Slot(Pool, page.id)
        placed == Grown(WithSlot(Grown(Pool, 1), page.id), IF page.id \in DOMAIN Pool.slots THEN 1 ELSE slot + 1)
    IN /\ job.pc = "write" /\ Pending # {}
       /\ slot < placed.capacity
       /\ pools' = [pools EXCEPT ![job.layer] = [placed EXCEPT !.rows[slot] = RowsOf(Cache, page)]]
       /\ job' = [job EXCEPT !.page = i]
       /\ UNCHANGED <<nextPage, resident, spilled, caches>>

EndAppend ==
    /\ job.pc = "write" /\ Pending = {}
    /\ job' = NoJob
    /\ UNCHANGED <<allocator, caches>>

------------------------------------------------------------------------------
(* The other operations *)

\* Mutant: the session forgets its pages without giving them up
DropOnly(s) ==
    /\ caches' = [caches EXCEPT ![s] = [l \in Layers |-> NoKV]]
    /\ UNCHANGED resident

\* clear, with release_owner.  The slots of the pages are not given back.
Clear(s) ==
    /\ caches' = [caches EXCEPT ![s] = [l \in Layers |-> NoKV]]
    /\ resident' = {marker \in resident : marker.session # s}

\* snapshot_prefix
SnapshotPrefix(s, length) == [l \in Layers |-> SubSeq(caches[s][l].rows, 1, Least(length, Len(caches[s][l].rows)))]

\* paged_view: there is none unless every page has been copied once.
HasView(s, l) ==
    /\ caches[s][l].pages # <<>>
    /\ \A i \in DOMAIN caches[s][l].pages : caches[s][l].pages[i].id \in DOMAIN pools[l].slots
PagedView(s, l) ==
    [tensors |-> pools[l].tensors, length |-> Len(caches[s][l].rows),
     table |-> [i \in DOMAIN caches[s][l].pages |-> pools[l].slots[caches[s][l].pages[i].id]]]

Zeros == [token |-> 0, position |-> 0]   \* what a slot holds past its page

\* What the decode kernel reads of a pool through a page table.
Gathered(pool, view) ==
    [n \in 1..Least(view.length, PageSize * Len(view.table)) |->
        LET stored == pool.rows[view.table[((n - 1) \div PageSize) + 1]]
            k == ((n - 1) % PageSize) + 1
        IN IF k \in DOMAIN stored THEN stored[k] ELSE Zeros]

------------------------------------------------------------------------------
PagesOf(s, l) == {caches[s][l].pages[i].id : i \in DOMAIN caches[s][l].pages}

\* No page belongs to two layers or two sessions, or twice to one, and in a
\* layer no two pages have one slot: what the pages of a session hold is
\* written by that session alone.
SlotsExclusive ==
    /\ \A s, t \in Sessions, l, m \in Layers : <<s, l>> # <<t, m>> => PagesOf(s, l) \cap PagesOf(t, m) = {}
    /\ \A s \in Sessions, l \in Layers : \A i, j \in DOMAIN caches[s][l].pages :
           i # j => caches[s][l].pages[i].id # caches[s][l].pages[j].id
    /\ \A l \in Layers : \A p, q \in DOMAIN pools[l].slots : p # q => pools[l].slots[p] # pools[l].slots[q]

\* The markers name pages that their session still has, and no more than the
\* budget; a page of a session has its marker or was taken by the budget.
MarkersExact ==
    /\ \A m \in resident : m.page \in PagesOf(m.session, m.layer)
    /\ \A s \in Sessions, l \in Layers : PagesOf(s, l) \subseteq spilled \cup {m.page : m \in resident}
    /\ Budget # NoLimit => Cardinality(resident) <= Budget
=============================================================================
