--------------------------- MODULE CudaPagesProofs ---------------------------
(***************************************************************************)
(* The pages of CUDA sessions, for any sessions, layers, page size and     *)
(* budget, any prompts, batches and walks, and whatever memory errors      *)
(* interrupt them: no two pages share a slot (SlotsExclusive) and the      *)
(* markers are those of the pages (MarkersExact).  CudaSessionsProofs goes *)
(* on with what the pages hold.                                            *)
(*                                                                         *)
(* None of this is inductive.  The invariant is built in layers, each      *)
(* proved on top of the last:                                              *)
(*   IInv        slots and pages are apart, as are those still to come;    *)
(*   TypeInv     the types, and where a walk and its append can stand;     *)
(*   MarkersInv  the markers, ordered by page and counted;                 *)
(*   PagesInv    page tables cover the rows without a gap, page by page.   *)
(* The first needs no types of rows, tokens or walks, and so it holds      *)
(* whatever the walks do; from the second on, a step is one of a few       *)
(* effects on the caches (Effects).                                        *)
(***************************************************************************)
EXTENDS CudaSessions, SequenceLemmas, FiniteSetTheorems, WellFoundedInduction, TLAPS

\* A page table: a sequence of pages, each with an id that was handed out.
Table(pages) ==
    /\ \E S : pages \in Seq(S)
    /\ \A i \in DOMAIN pages : "id" \in DOMAIN pages[i] /\ pages[i].id \in Nat /\ pages[i].id < nextPage

Tables ==
    /\ DOMAIN caches = Sessions
    /\ \A s \in Sessions : DOMAIN caches[s] = Layers
    /\ \A s \in Sessions, l \in Layers : {"rows", "pages"} \subseteq DOMAIN caches[s][l] /\ Table(caches[s][l].pages)

\* A page is in one place of one table.
IdsApart ==
    \A s, t \in Sessions, l, m \in Layers :
        \A i \in DOMAIN caches[s][l].pages, j \in DOMAIN caches[t][m].pages :
            caches[s][l].pages[i].id = caches[t][m].pages[j].id => s = t /\ l = m /\ i = j

\* A slot was handed out to one page.
SlotsApart(pool) ==
    /\ {"slots", "next"} \subseteq DOMAIN pool
    /\ pool.next \in Nat
    /\ \A p \in DOMAIN pool.slots : pool.slots[p] \in Nat /\ pool.slots[p] < pool.next
    /\ \A p, q \in DOMAIN pool.slots : p # q => pool.slots[p] # pool.slots[q]

PoolsApart == DOMAIN pools = Layers /\ \A l \in Layers : SlotsApart(pools[l])

IInv == nextPage \in Nat /\ Tables /\ IdsApart /\ PoolsApart

------------------------------------------------------------------------------
\* The invariant is what the property needs.
LEMMA Exclusive == IInv => SlotsExclusive
<1> SUFFICES ASSUME IInv PROVE SlotsExclusive
  OBVIOUS
<1>1. ASSUME NEW s \in Sessions, NEW t \in Sessions, NEW l \in Layers, NEW m \in Layers, <<s, l>> # <<t, m>>
      PROVE  PagesOf(s, l) \cap PagesOf(t, m) = {}
  BY <1>1 DEF IInv, IdsApart, PagesOf
<1>2. ASSUME NEW s \in Sessions, NEW l \in Layers, NEW i \in DOMAIN caches[s][l].pages,
             NEW j \in DOMAIN caches[s][l].pages, i # j
      PROVE  caches[s][l].pages[i].id # caches[s][l].pages[j].id
  BY <1>2 DEF IInv, IdsApart
<1>3. ASSUME NEW l \in Layers PROVE \A p, q \in DOMAIN pools[l].slots : p # q => pools[l].slots[p] # pools[l].slots[q]
  BY DEF IInv, PoolsApart, SlotsApart
<1> QED BY <1>1, <1>2, <1>3 DEF SlotsExclusive

LEMMA InitIInv == Init => IInv
<1> SUFFICES ASSUME Init PROVE IInv
  OBVIOUS
<1>1. nextPage = 0 /\ pools = [l \in Layers |-> NoPool] /\ caches = [s \in Sessions |-> [l \in Layers |-> NoKV]]
  BY DEF Init, PagesInit
<1>2. ASSUME NEW s \in Sessions, NEW l \in Layers
      PROVE  caches[s][l].pages = <<>> /\ {"rows", "pages"} \subseteq DOMAIN caches[s][l] /\ Table(caches[s][l].pages)
  <2>1. caches[s][l].pages = <<>> /\ {"rows", "pages"} \subseteq DOMAIN caches[s][l]
    BY <1>1 DEF NoKV
  <2>2. <<>> \in Seq({}) /\ DOMAIN <<>> = {}
    OBVIOUS
  <2> QED BY <2>1, <2>2 DEF Table
<1>3. Tables
  BY <1>1, <1>2 DEF Tables
<1>4. IdsApart
  BY <1>2 DEF IdsApart
<1>5. PoolsApart
  BY <1>1 DEF PoolsApart, SlotsApart, NoPool
<1> QED BY <1>1, <1>3, <1>4, <1>5 DEF IInv

------------------------------------------------------------------------------
(* Pools *)

LEMMA GrownApart ==
    ASSUME NEW pool, NEW capacity, SlotsApart(pool)
    PROVE  SlotsApart(Grown(pool, capacity))
BY DEF SlotsApart, Grown

LEMMA WithSlotApart ==
    ASSUME NEW pool, NEW id, SlotsApart(pool)
    PROVE  SlotsApart(WithSlot(pool, id))
BY DEF SlotsApart, WithSlot, Slot

\* A step that changes one pool, by growing it or giving a page its slot.
LEMMA OnePool ==
    ASSUME PoolsApart, NEW l, NEW pool, l \in Layers => SlotsApart(pool), pools' = [pools EXCEPT ![l] = pool]
    PROVE  PoolsApart'
BY DEF PoolsApart, SlotsApart

------------------------------------------------------------------------------
(* Page tables *)

\* Steps that make no page: every table stays or is given up.
LEMMA NoNewPage ==
    ASSUME IInv, PoolsApart', nextPage' = nextPage,
           DOMAIN caches' = Sessions,
           \A s \in Sessions : DOMAIN caches'[s] = Layers,
           \A s \in Sessions, l \in Layers :
               /\ {"rows", "pages"} \subseteq DOMAIN caches'[s][l]
               /\ caches'[s][l].pages \in {caches[s][l].pages, <<>>}
    PROVE  IInv'
<1>1. ASSUME NEW s \in Sessions, NEW l \in Layers PROVE Table(caches[s][l].pages)'
  <2>1. CASE caches'[s][l].pages = caches[s][l].pages
    BY <2>1 DEF IInv, Tables, Table
  <2>2. CASE caches'[s][l].pages = <<>>
    <3>1. <<>> \in Seq({}) /\ DOMAIN <<>> = {}
      OBVIOUS
    <3> QED BY <2>2, <3>1 DEF Table
  <2> QED BY <2>1, <2>2
<1>2. Tables'
  BY <1>1 DEF Tables
<1>3. IdsApart'
  <2> SUFFICES ASSUME NEW s \in Sessions, NEW t \in Sessions, NEW l \in Layers, NEW m \in Layers,
                      NEW i \in DOMAIN caches'[s][l].pages, NEW j \in DOMAIN caches'[t][m].pages,
                      caches'[s][l].pages[i].id = caches'[t][m].pages[j].id
               PROVE  s = t /\ l = m /\ i = j
    BY DEF IdsApart
  <2>1. DOMAIN <<>> = {}
    OBVIOUS
  <2>2. caches'[s][l].pages = caches[s][l].pages /\ caches'[t][m].pages = caches[t][m].pages
    BY <2>1
  <2> QED BY <2>2 DEF IInv, IdsApart
<1> QED BY <1>2, <1>3 DEF IInv

\* A page at the end of a sequence.
LEMMA Appended ==
    ASSUME NEW S, NEW pages \in Seq(S), NEW page
    PROVE  /\ \E R : Append(pages, page) \in Seq(R)
           /\ DOMAIN Append(pages, page) = DOMAIN pages \cup {Len(pages) + 1}
           /\ Len(pages) + 1 \notin DOMAIN pages
           /\ Append(pages, page)[Len(pages) + 1] = page
           /\ \A i \in DOMAIN pages : Append(pages, page)[i] = pages[i]
<1> DEFINE R == S \cup {page}
<1>1. pages \in Seq(R) /\ page \in R
  BY SeqDef
<1> HIDE DEF R
<1>2. Append(pages, page) \in Seq(R) /\ DOMAIN pages = 1..Len(pages) /\ Len(pages) \in Nat
      /\ Len(Append(pages, page)) = Len(pages) + 1 /\ DOMAIN Append(pages, page) = 1..(Len(pages) + 1)
      /\ Append(pages, page)[Len(pages) + 1] = page
      /\ \A i \in 1..Len(pages) : Append(pages, page)[i] = pages[i]
  BY <1>1, AppendProperties
<1> QED BY <1>2

\* ExtendPages with a new page: its id is the counter, which no page has yet.
LEMMA NewPageApart ==
    ASSUME IInv, NEW take, NEW s0, NEW l0,
           caches' = [caches EXCEPT ![s0][l0].pages = Append(@, NewPage(take))],
           nextPage' = nextPage + 1, pools' = pools
    PROVE  IInv'
<1> DEFINE page == NewPage(take)
<1>1. "id" \in DOMAIN page /\ page.id = nextPage /\ nextPage \in Nat
  BY DEF NewPage, IInv
<1> HIDE DEF page
<1>2. ASSUME NEW s \in Sessions, NEW l \in Layers
      PROVE  /\ {"rows", "pages"} \subseteq DOMAIN caches'[s][l]
             /\ caches'[s][l].pages = IF s = s0 /\ l = l0 THEN Append(caches[s][l].pages, page) ELSE caches[s][l].pages
  BY DEF IInv, Tables, page
<1>3. ASSUME NEW s \in Sessions, NEW l \in Layers
      PROVE  /\ Table(caches[s][l].pages)'
             /\ \A i \in DOMAIN caches'[s][l].pages :
                  \/ i \in DOMAIN caches[s][l].pages /\ caches'[s][l].pages[i] = caches[s][l].pages[i]
                  \/ s = s0 /\ l = l0 /\ i = Len(caches[s][l].pages) + 1 /\ caches'[s][l].pages[i].id = nextPage
  <2>1. Table(caches[s][l].pages)
    BY DEF IInv, Tables
  <2>2. CASE s = s0 /\ l = l0
    <3>1. PICK S : caches[s][l].pages \in Seq(S)
      BY <2>1 DEF Table
    <3>2. /\ \E R : Append(caches[s][l].pages, page) \in Seq(R)
          /\ DOMAIN Append(caches[s][l].pages, page) = DOMAIN caches[s][l].pages \cup {Len(caches[s][l].pages) + 1}
          /\ Append(caches[s][l].pages, page)[Len(caches[s][l].pages) + 1] = page
          /\ \A i \in DOMAIN caches[s][l].pages : Append(caches[s][l].pages, page)[i] = caches[s][l].pages[i]
      BY <3>1, Appended
    <3>3. caches'[s][l].pages = Append(caches[s][l].pages, page)
      BY <1>2, <2>2
    <3> QED BY <1>1, <2>1, <2>2, <3>2, <3>3 DEF Table
  <2>3. CASE ~(s = s0 /\ l = l0)
    <3>1. caches'[s][l].pages = caches[s][l].pages
      BY <1>2, <2>3
    <3>2. \A i \in DOMAIN caches[s][l].pages : "id" \in DOMAIN caches[s][l].pages[i]
                /\ caches[s][l].pages[i].id \in Nat /\ caches[s][l].pages[i].id < nextPage'
      BY <1>1, <2>1 DEF Table
    <3>3. Table(caches[s][l].pages)'
      BY <2>1, <3>1, <3>2 DEF Table
    <3> QED BY <3>1, <3>3
  <2> QED BY <2>2, <2>3
<1>4. Tables'
  BY <1>2, <1>3 DEF IInv, Tables
<1>5. IdsApart'
  <2> SUFFICES ASSUME NEW s \in Sessions, NEW t \in Sessions, NEW l \in Layers, NEW m \in Layers,
                      NEW i \in DOMAIN caches'[s][l].pages, NEW j \in DOMAIN caches'[t][m].pages,
                      caches'[s][l].pages[i].id = caches'[t][m].pages[j].id
               PROVE  s = t /\ l = m /\ i = j
    BY DEF IdsApart
  <2>1. \A u \in Sessions, n \in Layers : \A k \in DOMAIN caches[u][n].pages : caches[u][n].pages[k].id # nextPage
    BY <1>1 DEF IInv, Tables, Table
  <2>2. CASE i \in DOMAIN caches[s][l].pages /\ caches'[s][l].pages[i] = caches[s][l].pages[i]
    <3>1. caches'[t][m].pages[j].id # nextPage
      BY <2>1, <2>2
    <3>2. j \in DOMAIN caches[t][m].pages /\ caches'[t][m].pages[j] = caches[t][m].pages[j]
      BY <1>3, <3>1
    <3> QED BY <2>2, <3>2 DEF IInv, IdsApart
  <2>3. CASE s = s0 /\ l = l0 /\ i = Len(caches[s][l].pages) + 1 /\ caches'[s][l].pages[i].id = nextPage
    <3>1. ~(j \in DOMAIN caches[t][m].pages /\ caches'[t][m].pages[j] = caches[t][m].pages[j])
      BY <2>1, <2>3
    <3>2. t = s0 /\ m = l0 /\ j = Len(caches[t][m].pages) + 1
      BY <1>3, <3>1
    <3> QED BY <2>3, <3>2
  <2> QED BY <1>3, <2>2, <2>3
<1>6. PoolsApart'
  BY DEF IInv, PoolsApart, SlotsApart
<1> QED BY <1>1, <1>4, <1>5, <1>6 DEF IInv

\* ExtendPages with the last page, which gets longer.
LEMMA LastPageApart ==
    ASSUME IInv, NEW take, NEW last, NEW s0, NEW l0,
           caches' = [caches EXCEPT ![s0][l0].pages[last].length = @ + take],
           nextPage' = nextPage, pools' = pools
    PROVE  IInv'
<1>1. ASSUME NEW s \in Sessions, NEW l \in Layers
      PROVE  /\ {"rows", "pages"} \subseteq DOMAIN caches'[s][l]
             /\ Table(caches[s][l].pages)'
             /\ DOMAIN caches'[s][l].pages = DOMAIN caches[s][l].pages
             /\ \A i \in DOMAIN caches[s][l].pages : caches'[s][l].pages[i].id = caches[s][l].pages[i].id
  <2> DEFINE old == caches[s][l].pages
             new == [old EXCEPT ![last].length = @ + take]
  <2>1. Table(old) /\ {"rows", "pages"} \subseteq DOMAIN caches'[s][l] /\ caches'[s][l].pages \in {old, new}
    BY DEF IInv, Tables
  <2>2. PICK S : old \in Seq(S)
    BY <2>1 DEF Table
  <2>3. DOMAIN new = DOMAIN old
    OBVIOUS
  <2>4. \A i \in DOMAIN old : "id" \in DOMAIN new[i] /\ new[i].id = old[i].id
    BY <2>1 DEF Table
  <2>5. new \in Seq(S \cup {new[last]})
    <3>1. old \in [1..Len(old) -> S] /\ Len(old) \in Nat
      BY <2>2
    <3>2. new \in [1..Len(old) -> S \cup {new[last]}]
      BY <3>1
    <3> QED BY <3>1, <3>2, SeqDef
  <2> HIDE DEF new
  <2>6. CASE caches'[s][l].pages = new
    BY <2>1, <2>3, <2>4, <2>5, <2>6 DEF Table
  <2>7. CASE caches'[s][l].pages = old
    BY <2>1, <2>7 DEF Table
  <2> QED BY <2>1, <2>6, <2>7
<1>2. Tables'
  BY <1>1 DEF IInv, Tables
<1>3. IdsApart'
  <2>1. \A s \in Sessions, l \in Layers : \A i \in DOMAIN caches'[s][l].pages :
            i \in DOMAIN caches[s][l].pages /\ caches'[s][l].pages[i].id = caches[s][l].pages[i].id
    <3> SUFFICES ASSUME NEW s \in Sessions, NEW l \in Layers
                 PROVE  \A i \in DOMAIN caches'[s][l].pages :
                            i \in DOMAIN caches[s][l].pages /\ caches'[s][l].pages[i].id = caches[s][l].pages[i].id
      OBVIOUS
    <3> QED BY <1>1
  <2> SUFFICES ASSUME NEW s \in Sessions, NEW t \in Sessions, NEW l \in Layers, NEW m \in Layers,
                      NEW i \in DOMAIN caches'[s][l].pages, NEW j \in DOMAIN caches'[t][m].pages,
                      caches'[s][l].pages[i].id = caches'[t][m].pages[j].id
               PROVE  s = t /\ l = m /\ i = j
    BY DEF IdsApart
  <2>2. i \in DOMAIN caches[s][l].pages /\ caches'[s][l].pages[i].id = caches[s][l].pages[i].id
    BY <2>1
  <2>3. j \in DOMAIN caches[t][m].pages /\ caches'[t][m].pages[j].id = caches[t][m].pages[j].id
    BY <2>1
  <2> QED BY <2>2, <2>3 DEF IInv, IdsApart
<1>4. PoolsApart'
  BY DEF IInv, PoolsApart, SlotsApart
<1> QED BY <1>2, <1>3, <1>4 DEF IInv

------------------------------------------------------------------------------
(* The operations *)

LEMMA Untouched ==
    ASSUME IInv, UNCHANGED <<nextPage, pools, caches>>
    PROVE  IInv'
BY DEF IInv, Tables, Table, IdsApart, PoolsApart, SlotsApart

LEMMA ClearApart ==
    ASSUME IInv, NEW s0, Clear(s0), nextPage' = nextPage, PoolsApart'
    PROVE  IInv'
<1>1. ASSUME NEW s \in Sessions
      PROVE  /\ DOMAIN caches'[s] = Layers
             /\ \A l \in Layers : /\ {"rows", "pages"} \subseteq DOMAIN caches'[s][l]
                                  /\ caches'[s][l].pages \in {caches[s][l].pages, <<>>}
  BY DEF Clear, NoKV, IInv, Tables
<1>2. DOMAIN caches' = Sessions
  BY DEF Clear, IInv, Tables
<1> QED BY <1>1, <1>2, NoNewPage

LEMMA BeginAppendApart ==
    ASSUME IInv, NEW s0, NEW l0, NEW rows, BeginAppend(s0, l0, rows)
    PROVE  IInv'
<1>1. caches' = [caches EXCEPT ![s0][l0].rows = @ \o rows] /\ nextPage' = nextPage /\ pools' = pools
  BY DEF BeginAppend, allocator
<1>2. ASSUME NEW s \in Sessions
      PROVE  /\ DOMAIN caches'[s] = Layers
             /\ \A l \in Layers : /\ {"rows", "pages"} \subseteq DOMAIN caches'[s][l]
                                  /\ caches'[s][l].pages \in {caches[s][l].pages, <<>>}
  BY <1>1 DEF IInv, Tables
<1>3. DOMAIN caches' = Sessions
  BY <1>1 DEF IInv, Tables
<1>4. PoolsApart'
  BY <1>1 DEF IInv, PoolsApart, SlotsApart
<1> QED BY <1>1, <1>2, <1>3, <1>4, NoNewPage

LEMMA ExtendPagesApart == ASSUME IInv, ExtendPages PROVE IInv'
<1> DEFINE take == Least(job.remaining, PageSize - (job.cursor % PageSize))
           last == Len(Cache.pages)
<1>1. CASE /\ Allocate(take)
           /\ caches' = [caches EXCEPT ![job.session][job.layer].pages = Append(@, NewPage(take))]
  <2>1. nextPage' = nextPage + 1 /\ pools' = pools
    BY <1>1 DEF Allocate, ExtendPages
  <2> HIDE DEF take
  <2> QED BY <1>1, <2>1, NewPageApart
<1>2. CASE /\ caches' = [caches EXCEPT ![job.session][job.layer].pages[last].length = @ + take]
           /\ UNCHANGED <<nextPage, resident, spilled>>
  <2>1. nextPage' = nextPage /\ pools' = pools
    BY <1>2 DEF ExtendPages
  <2> HIDE DEF take, last
  <2> QED BY <1>2, <2>1, LastPageApart
<1> QED BY <1>1, <1>2 DEF ExtendPages

LEMMA WritePageApart == ASSUME IInv, WritePage PROVE IInv'
<1> DEFINE page == Cache.pages[Min(Pending)]
           slot == Slot(Pool, page.id)
           placed == Grown(WithSlot(Grown(Pool, 1), page.id), IF page.id \in DOMAIN Pool.slots THEN 1 ELSE slot + 1)
           written == [placed EXCEPT !.rows[slot] = RowsOf(Cache, page)]
<1>1. pools' = [pools EXCEPT ![job.layer] = written] /\ nextPage' = nextPage /\ caches' = caches
  BY DEF WritePage
<1>2. ASSUME job.layer \in Layers PROVE SlotsApart(written)
  <2>1. SlotsApart(Pool)
    BY <1>2 DEF IInv, PoolsApart, Pool
  <2>2. SlotsApart(placed)
    BY <2>1, GrownApart, WithSlotApart
  <2> HIDE DEF placed, slot, page
  <2> QED BY <2>2 DEF SlotsApart
<1> HIDE DEF written
<1>3. PoolsApart'
  BY <1>1, <1>2, OnePool DEF IInv
<1> QED BY <1>1, <1>3 DEF IInv, Tables, Table, IdsApart

LEMMA OutOfMemoryApart == ASSUME IInv, OutOfMemory PROVE IInv'
<1> DEFINE placed == WithSlot(Grown(Pool, 1), Cache.pages[Min(Pending)].id)
<1>1. Clear(Runner) /\ nextPage' = nextPage /\ pools' \in {pools, [pools EXCEPT ![job.layer] = placed]}
  BY DEF OutOfMemory
<1>2. ASSUME job.layer \in Layers PROVE SlotsApart(placed)
  <2>1. SlotsApart(Pool)
    BY <1>2 DEF IInv, PoolsApart, Pool
  <2> QED BY <2>1, GrownApart, WithSlotApart
<1> HIDE DEF placed
<1>3. PoolsApart'
  <2>1. CASE pools' = pools
    BY <2>1 DEF IInv, PoolsApart, SlotsApart
  <2>2. CASE pools' = [pools EXCEPT ![job.layer] = placed]
    BY <1>2, <2>2, OnePool DEF IInv
  <2> QED BY <1>1, <2>1, <2>2
<1> QED BY <1>1, <1>3, ClearApart

LEMMA PrefillBatchApart == ASSUME IInv, NEW sessions, NEW prompts, PrefillBatch(sessions, prompts) PROVE IInv'
<1>1. /\ caches' = [s \in Sessions |-> IF s \in ToSet(sessions) THEN [l \in Layers |-> NoKV] ELSE caches[s]]
      /\ nextPage' = nextPage /\ pools' = pools
  BY DEF PrefillBatch
<1>2. ASSUME NEW s \in Sessions
      PROVE  /\ DOMAIN caches'[s] = Layers
             /\ \A l \in Layers : /\ {"rows", "pages"} \subseteq DOMAIN caches'[s][l]
                                  /\ caches'[s][l].pages \in {caches[s][l].pages, <<>>}
  BY <1>1 DEF NoKV, IInv, Tables
<1>3. PoolsApart'
  BY <1>1 DEF IInv, PoolsApart, SlotsApart
<1> QED BY <1>1, <1>2, <1>3, NoNewPage

LEMMA Inductive == IInv /\ [Next]_vars => IInv'
<1> SUFFICES ASSUME IInv, [Next]_vars PROVE IInv'
  OBVIOUS
<1>1. ASSUME NEW s \in Sessions, NEW prompt \in Prompts, NEW remember \in BOOLEAN, Prefill(s, prompt, remember) PROVE IInv'
  <2>1. PoolsApart' /\ Clear(s) /\ nextPage' = nextPage
    BY <1>1 DEF Prefill, IInv, PoolsApart, SlotsApart
  <2> QED BY <2>1, ClearApart
<1>2. ASSUME NEW s \in Sessions, NEW prompt \in Prompts, NEW remember \in BOOLEAN, PrefillFrom(s, prompt, remember) PROVE IInv'
  <2>1. PoolsApart' /\ Clear(s) /\ nextPage' = nextPage
    BY <1>2 DEF PrefillFrom, IInv, PoolsApart, SlotsApart
  <2> QED BY <2>1, ClearApart
<1>3. ASSUME NEW s \in Sessions, NEW token \in Generated, Decode(s, token) PROVE IInv'
  BY <1>3, Untouched DEF Decode, pageVars
<1>4. ASSUME NEW sessions \in Batches, NEW p \in Prompts, NEW q \in Prompts, PrefillBatch(sessions, <<p, q>>) PROVE IInv'
  BY <1>4, PrefillBatchApart
<1>5. ASSUME NEW sessions \in Batches, NEW t \in Generated, NEW u \in Generated, DecodeBatch(sessions, <<t, u>>) PROVE IInv'
  BY <1>5, Untouched DEF DecodeBatch, pageVars
<1>6. CASE LoadLayer
  BY <1>6, BeginAppendApart DEF LoadLayer
<1>7. CASE Rotate \/ Loaded
  BY <1>7, Untouched DEF Rotate, Loaded, pageVars
<1>8. CASE AppendRows
  BY <1>8, BeginAppendApart DEF AppendRows
<1>9. CASE Append1
  <2>1. CASE EndAppend
    BY <2>1, Untouched DEF EndAppend, allocator
  <2> QED BY <1>9, <2>1, ExtendPagesApart, WritePageApart DEF Append1
<1>10. CASE Read
  BY <1>10, Untouched DEF Read, NextNode, pageVars
<1>11. CASE TakeView
  BY <1>11, Untouched DEF TakeView, Fallback, pageVars
<1>12. CASE Kernel
  BY <1>12, Untouched DEF Kernel, NextNode, Fallback, pageVars
<1>13. CASE MemoryLimit
  <2>1. PoolsApart' /\ Clear(Runner) /\ nextPage' = nextPage
    BY <1>13 DEF MemoryLimit, IInv, PoolsApart, SlotsApart
  <2> QED BY <2>1, ClearApart
<1>14. CASE OutOfMemory
  BY <1>14, OutOfMemoryApart
<1>15. CASE LoadFails
  BY <1>15, Untouched DEF LoadFails, allocator
<1>16. CASE WriteRaises
  BY <1>16, Untouched DEF WriteRaises, allocator
<1>17. CASE UNCHANGED vars
  BY <1>17, Untouched DEF vars, pageVars
<1> QED BY <1>1, <1>2, <1>3, <1>4, <1>5, <1>6, <1>7, <1>8, <1>9, <1>10, <1>11, <1>12, <1>13, <1>14, <1>15, <1>16, <1>17
        DEF Next

\* However many sessions share the allocator, whatever they prefill, restore
\* and decode, alone and in batches, and wherever memory runs out: no page has
\* two owners, and no slot two pages (TorchKVPageAllocator.allocate and
\* write_page).
THEOREM SlotsExclusiveHolds == Spec => []SlotsExclusive
<1>1. Init => IInv
  BY InitIInv
<1>2. IInv /\ [Next]_vars => IInv'
  BY Inductive
<1>3. IInv => SlotsExclusive
  BY Exclusive
<1> QED BY <1>1, <1>2, <1>3, PTL DEF Spec

------------------------------------------------------------------------------
(***************************************************************************)
(* What the walks do to the caches.  The types of the variables and where  *)
(* a walk can stand are one invariant, for each needs the other; with it a *)
(* step is one of six (Effects), and what the page tables, the markers and *)
(* the pools hold is proved of these six.                                  *)
(***************************************************************************)

RowType == [token : Nat, position : Nat]
PageType == [id : Nat, start : Nat, length : Nat]
CacheType == [rows : Seq(RowType), pages : Seq(PageType)]
JobType == [pc : {"extend", "write"}, session : Sessions, layer : Layers, start : Nat, cursor : Nat,
            remaining : Nat, page : Nat]
ViewType == [tensors : Nat, length : Nat, table : Seq(Nat)]
WalkType == [pc : {"load", "rotate", "attend", "view", "read", "kernel"}, mode : {"prefill", "decode"},
             batch : BOOLEAN, sessions : Seq(Sessions), tokens : Seq(Seq(Nat)), layer : Nat, turn : Nat,
             offsets : Seq(Nat), views : Seq(ViewType), paged : BOOLEAN, remember : BOOLEAN]
SnapshotType == [tokens : Seq(Nat), rows : [Layers -> Seq(RowType)], doubt : BOOLEAN]

CachesType == caches \in [Sessions -> [Layers -> CacheType]]
Shaped(pool) ==
    /\ DOMAIN pool = {"capacity", "tensors", "slots", "next", "rows"}
    /\ pool.capacity \in Nat /\ pool.tensors \in Nat
    /\ DOMAIN pool.rows = 0..(pool.capacity - 1)
PoolsShaped == \A l \in Layers : Shaped(pools[l])
JobsType == job = NoJob \/ job \in JobType
WalksType == walk = NoWalk \/ walk \in WalkType
GivenType ==
    /\ context \in [Sessions -> Seq(Nat)] /\ suspect \in SUBSET Sessions
    /\ snapshot = NoSnapshot \/ snapshot \in SnapshotType

\* Where a walk of sessions stands: the layer, the turn, and what it has got so far.
Stands(w) ==
    /\ Len(w.sessions) \in {1, 2} /\ Len(w.tokens) = Len(w.sessions)
    /\ Len(w.sessions) = 2 => w.sessions[1] # w.sessions[2]
    /\ w.layer \in 1..(NumLayers + 1)
    /\ w.layer = NumLayers + 1 => w.pc = "load"
    /\ w.turn \in 1..Len(w.sessions)
    /\ w.mode = "decode" => \A i \in 1..Len(w.sessions) : Len(w.tokens[i]) = 1
    /\ w.pc = "load" => Len(w.sessions) = 1 /\ w.mode = "prefill" /\ snapshot # NoSnapshot
    /\ w.pc = "read" => ~w.paged
    /\ w.pc \in {"view", "kernel"} => w.paged
    /\ w.paged => w.mode = "decode"
    /\ w.pc = "kernel" => w.turn = Len(w.sessions)
    /\ w.pc \in {"attend", "view", "read", "kernel"} => Len(w.offsets) = Len(w.sessions)

\* A walk stands somewhere; an append is one of a session of the walk.
Control ==
    /\ walk # NoWalk => Stands(walk)
    /\ job # NoJob => walk # NoWalk /\ walk.pc \in {"load", "view", "read"} /\ job.session \in InWalk

TypeInv == CachesType /\ PoolsShaped /\ JobsType /\ WalksType /\ GivenType /\ Control

\* What a step that ends appends and gives sessions up does: T are the
\* sessions whose caches are cleared.
GivenUp(T) ==
    /\ job.pc # "extend" /\ job' = NoJob
    /\ caches' = [s \in Sessions |-> IF s \in T THEN [l \in Layers |-> NoKV] ELSE caches[s]]
    /\ resident' = {marker \in resident : marker.session \notin T}
    /\ nextPage' = nextPage /\ spilled' = spilled
    /\ suspect \ T \subseteq suspect' /\ (job # NoJob => job.session \in suspect')
    /\ \/ pools' = pools
       \/ \E l \in Layers : \E id : pools' = [pools EXCEPT ![l] = WithSlot(Grown(pools[l], 1), id)]

Begins(s, l, rows) == job = NoJob /\ BeginAppend(s, l, rows) /\ suspect' = suspect

Effects ==
    \/ UNCHANGED pageVars /\ suspect \subseteq suspect'
    \/ \E T \in SUBSET Sessions : GivenUp(T)
    \/ \E s \in Sessions, l \in Layers, rows \in Seq(RowType) : Begins(s, l, rows)
    \/ (ExtendPages \/ WritePage \/ EndAppend) /\ suspect' = suspect

------------------------------------------------------------------------------
LEMMA InitTypes == Init => TypeInv
<1> SUFFICES ASSUME Init PROVE TypeInv
  OBVIOUS
<1>1. NumLayers \in Nat \ {0}
  BY CudaPagesAssumption
<1>2. CachesType
  <2>1. NoKV \in CacheType
    BY DEF NoKV, CacheType
  <2> QED BY <2>1 DEF CachesType, Init, PagesInit
<1>3. PoolsShaped
  BY DEF PoolsShaped, Shaped, Init, PagesInit, NoPool
<1>4. JobsType /\ WalksType /\ Control
  BY DEF JobsType, WalksType, Control, Init, PagesInit
<1>5. GivenType
  BY DEF GivenType, Init
<1> QED BY <1>2, <1>3, <1>4, <1>5 DEF TypeInv

\* Sessions of a walk.
LEMMA WalkSessions ==
    ASSUME WalksType, Control, walk # NoWalk
    PROVE  /\ walk \in WalkType /\ Stands(walk)
           /\ Runner \in Sessions /\ Session \in Sessions /\ Runner \in InWalk /\ Session \in InWalk
           /\ InWalk = {walk.sessions[i] : i \in 1..Len(walk.sessions)} /\ InWalk \subseteq Sessions
           /\ Len(walk.sessions) \in {1, 2} /\ walk.turn \in 1..Len(walk.sessions)
<1>1. walk \in WalkType /\ Stands(walk)
  BY DEF WalksType, Control
<1>2. walk.sessions \in Seq(Sessions)
  BY <1>1 DEF WalkType
<1>3. Len(walk.sessions) \in {1, 2} /\ walk.turn \in 1..Len(walk.sessions)
  BY <1>1 DEF Stands
<1>4. InWalk = {walk.sessions[i] : i \in 1..Len(walk.sessions)}
  BY <1>2 DEF InWalk, ToSet
<1>5. \A i \in 1..Len(walk.sessions) : walk.sessions[i] \in Sessions
  BY <1>2
<1>6. 1 \in 1..Len(walk.sessions)
  BY <1>3
<1> QED BY <1>1, <1>3, <1>4, <1>5, <1>6 DEF Runner, Session

\* The rows a node computes for a session have their types.
LEMMA NewRowsType ==
    ASSUME WalksType, Control, walk # NoWalk, walk.pc \in {"attend", "view", "read", "kernel"}, NEW i \in 1..Len(walk.sessions)
    PROVE  /\ NewRows(i) = RowsAt(walk.tokens[i], walk.offsets[i])
           /\ NewRows(i) \in Seq(RowType) /\ Len(NewRows(i)) = Len(walk.tokens[i])
           /\ walk.tokens[i] \in Seq(Nat) /\ walk.offsets[i] \in Nat
<1>1. walk \in WalkType /\ Stands(walk)
  BY DEF WalksType, Control
<1>2. /\ Len(walk.sessions) \in {1, 2} /\ Len(walk.tokens) = Len(walk.sessions)
      /\ Len(walk.offsets) = Len(walk.sessions)
  BY <1>1 DEF Stands
<1>3. walk.tokens \in Seq(Seq(Nat)) /\ walk.offsets \in Seq(Nat)
  BY <1>1 DEF WalkType
<1>4. walk.tokens[i] \in Seq(Nat) /\ walk.offsets[i] \in Nat
  BY <1>2, <1>3
<1>5. DOMAIN walk.tokens = 1..Len(walk.sessions)
  BY <1>2, <1>3
<1>6. \A k \in DOMAIN walk.tokens : Len(walk.tokens[k]) \in Nat
  BY <1>3, <1>5
<1>7. \E n \in {Len(walk.tokens[k]) : k \in DOMAIN walk.tokens} : \A k \in DOMAIN walk.tokens : Len(walk.tokens[k]) <= n
  <2>1. CASE Len(walk.sessions) = 1
    BY <1>5, <1>6, <2>1
  <2>2. CASE Len(walk.sessions) = 2
    <3>1. DOMAIN walk.tokens = {1, 2}
      BY <1>5, <2>2
    <3>2. CASE Len(walk.tokens[1]) <= Len(walk.tokens[2])
      BY <1>6, <3>1, <3>2
    <3>3. CASE Len(walk.tokens[2]) <= Len(walk.tokens[1])
      BY <1>6, <3>1, <3>3
    <3> QED BY <1>6, <3>1, <3>2, <3>3
  <2> QED BY <1>2, <2>1, <2>2
<1>8. Longest \in {Len(walk.tokens[k]) : k \in DOMAIN walk.tokens} /\ Len(walk.tokens[i]) <= Longest
  BY <1>5, <1>7 DEF Longest
<1>9. Longest \in Nat
  BY <1>6, <1>8
<1> DEFINE n == Len(walk.tokens[i])
           off == walk.offsets[i]
<1>10. Computed(i) = [j \in 1..Longest |-> Row(Padded(i)[j], off + j - 1)]
  BY <1>9 DEF Computed, RowsAt, Padded
<1>11. \A j \in 1..Longest : Padded(i)[j] = (IF j <= n THEN walk.tokens[i][j] ELSE Pad)
  BY <1>9 DEF Padded
<1>12. \A j \in 1..n : Computed(i)[j] = Row(walk.tokens[i][j], off + j - 1)
  BY <1>4, <1>8, <1>9, <1>10, <1>11
<1>13. \A j \in 1..Longest : Padded(i)[j] \in Nat
  BY <1>4, <1>9, <1>11 DEF Pad
<1>14. Computed(i) \in Seq(RowType) /\ Len(Computed(i)) = Longest
  <2>1. \A j \in 1..Longest : Row(Padded(i)[j], off + j - 1) \in RowType
    BY <1>4, <1>9, <1>13 DEF Row, RowType
  <2>2. Computed(i) \in [1..Longest -> RowType]
    BY <1>10, <2>1
  <2> QED BY <1>9, <2>2, SeqDef
<1>15. NewRows(i) \in Seq(RowType) /\ Len(NewRows(i)) = n /\ \A j \in 1..n : NewRows(i)[j] = Computed(i)[j]
  BY <1>4, <1>8, <1>9, <1>14 DEF NewRows
<1>16. RowsAt(walk.tokens[i], off) = [j \in 1..n |-> Row(walk.tokens[i][j], off + j - 1)]
  BY <1>4 DEF RowsAt
<1>17. NewRows(i) = [j \in 1..n |-> NewRows(i)[j]]
  BY <1>15
<1> QED BY <1>4, <1>12, <1>15, <1>16, <1>17

LEMMA ClearGives ==
    ASSUME CachesType, NEW s \in Sessions, Clear(s)
    PROVE  /\ caches' = [t \in Sessions |-> IF t \in {s} THEN [l \in Layers |-> NoKV] ELSE caches[t]]
           /\ resident' = {marker \in resident : marker.session \notin {s}}
<1>1. caches' = [caches EXCEPT ![s] = [l \in Layers |-> NoKV]] /\ resident' = {marker \in resident : marker.session # s}
  BY DEF Clear
<1>2. caches' = [t \in Sessions |-> IF t \in {s} THEN [l \in Layers |-> NoKV] ELSE caches[t]]
  BY <1>1 DEF CachesType
<1> QED BY <1>1, <1>2

LEMMA NothingCleared ==
    ASSUME CachesType, caches' = caches, resident' = resident
    PROVE  /\ caches' = [t \in Sessions |-> IF t \in {} THEN [l \in Layers |-> NoKV] ELSE caches[t]]
           /\ resident' = {marker \in resident : marker.session \notin {}}
BY DEF CachesType

\* The next node: the walk goes to the next session, the next layer or ends.
LEMMA NextNodeCases ==
    ASSUME NextNode
    PROVE  /\ UNCHANGED pageVars /\ context' = context /\ suspect' = suspect
           /\ \/ /\ ~walk.paged /\ walk.turn < Len(walk.sessions)
                 /\ walk' = [walk EXCEPT !.pc = "attend", !.turn = @ + 1]
              \/ /\ walk.paged \/ walk.turn = Len(walk.sessions)
                 /\ walk.layer < NumLayers
                 /\ walk' = [walk EXCEPT !.pc = "rotate", !.layer = @ + 1]
              \/ /\ walk.paged \/ ~(walk.turn < Len(walk.sessions))
                 /\ ~((walk.paged \/ walk.turn = Len(walk.sessions)) /\ walk.layer < NumLayers)
                 /\ walk' = NoWalk
           /\ snapshot' = IF walk'.pc = "none" /\ walk.remember THEN Remembered ELSE snapshot
<1>1. CASE ~walk.paged /\ walk.turn < Len(walk.sessions) /\ walk' = [walk EXCEPT !.pc = "attend", !.turn = @ + 1]
  BY <1>1 DEF NextNode
<1>2. CASE /\ walk.paged \/ walk.turn = Len(walk.sessions)
           /\ walk.layer < NumLayers
           /\ walk' = [walk EXCEPT !.pc = "rotate", !.layer = @ + 1]
  BY <1>2 DEF NextNode
<1>3. CASE /\ ~(~walk.paged /\ walk.turn < Len(walk.sessions))
           /\ ~((walk.paged \/ walk.turn = Len(walk.sessions)) /\ walk.layer < NumLayers)
           /\ walk' = NoWalk
  BY <1>3 DEF NextNode
<1> QED BY <1>1, <1>2, <1>3 DEF NextNode

\* Every step has one of the six effects.
LEMMA StepEffects ==
    ASSUME TypeInv, [Next]_vars
    PROVE  Effects
<1> USE DEF TypeInv
<1>1. ASSUME NEW s \in Sessions, NEW prompt \in Prompts, NEW remember \in BOOLEAN, Prefill(s, prompt, remember) PROVE Effects
  <2>1. GivenUp({s})
    BY <1>1, ClearGives DEF Prefill, Starts, GivenUp, NoJob
  <2> QED BY <2>1 DEF Effects
<1>2. ASSUME NEW s \in Sessions, NEW prompt \in Prompts, NEW remember \in BOOLEAN, PrefillFrom(s, prompt, remember) PROVE Effects
  <2>1. GivenUp({s})
    BY <1>2, ClearGives DEF PrefillFrom, Starts, GivenUp, NoJob
  <2> QED BY <2>1 DEF Effects
<1>3. ASSUME NEW s \in Sessions, NEW token \in Generated, Decode(s, token) PROVE Effects
  BY <1>3 DEF Decode, Effects
<1>4. ASSUME NEW sessions \in Batches, NEW p \in Prompts, NEW q \in Prompts, PrefillBatch(sessions, <<p, q>>) PROVE Effects
  <2>1. ToSet(sessions) \subseteq Sessions
    BY DEF Batches, ToSet
  <2>2. GivenUp(ToSet(sessions))
    BY <1>4 DEF PrefillBatch, Starts, GivenUp, NoJob
  <2> QED BY <2>1, <2>2 DEF Effects
<1>5. ASSUME NEW sessions \in Batches, NEW t \in Generated, NEW u \in Generated, DecodeBatch(sessions, <<t, u>>) PROVE Effects
  BY <1>5 DEF DecodeBatch, Effects
<1>6. CASE LoadLayer
  <2>1. walk # NoWalk /\ walk.pc = "load" /\ walk.layer \in Layers
    BY <1>6 DEF LoadLayer, At, NoWalk
  <2>2. Runner \in Sessions /\ snapshot # NoSnapshot
    BY <2>1, WalkSessions DEF Stands
  <2>3. snapshot.rows[walk.layer] \in Seq(RowType)
    BY <2>1, <2>2 DEF GivenType, SnapshotType
  <2>4. Begins(Runner, walk.layer, snapshot.rows[walk.layer])
    BY <1>6 DEF LoadLayer, At, WalkOnly, Begins
  <2> QED BY <2>1, <2>2, <2>3, <2>4 DEF Effects
<1>7. CASE Loaded \/ Rotate
  BY <1>7 DEF Loaded, Rotate, WalkOnly, Effects
<1>8. CASE AppendRows
  <2>1. walk # NoWalk /\ walk.pc = "attend"
    BY <1>8 DEF AppendRows, At, NoWalk
  <2>2. Session \in Sessions /\ Stands(walk) /\ walk.turn \in 1..Len(walk.sessions)
    BY <2>1, WalkSessions
  <2>3. walk.layer \in Layers
    BY <2>1, <2>2, CudaPagesAssumption DEF Stands, Layers
  <2>4. NewRows(walk.turn) \in Seq(RowType)
    BY <2>1, <2>2, NewRowsType
  <2>5. Begins(Session, walk.layer, NewRows(walk.turn))
    BY <1>8 DEF AppendRows, At, WalkOnly, Begins
  <2> QED BY <2>2, <2>3, <2>4, <2>5 DEF Effects
<1>9. CASE Append1
  BY <1>9 DEF Append1, sessionVars, Effects
<1>10. CASE Read
  BY <1>10, NextNodeCases DEF Read, Effects
<1>11. CASE TakeView
  BY <1>11 DEF TakeView, Fallback, WalkOnly, Effects
<1>12. CASE Kernel
  BY <1>12, NextNodeCases DEF Kernel, Fallback, Effects
<1>13. CASE MemoryLimit
  <2>1. walk # NoWalk /\ job = NoJob
    BY <1>13 DEF MemoryLimit, Fault, At
  <2>2. Runner \in Sessions
    BY <2>1, WalkSessions
  <2>3. GivenUp({Runner})
    BY <1>13, <2>1, <2>2, ClearGives DEF MemoryLimit, Fault, GivenUp, NoJob
  <2> QED BY <2>2, <2>3 DEF Effects
<1>14. CASE OutOfMemory
  <2>1. walk # NoWalk /\ Fault /\ Clear(Runner)
    BY <1>14 DEF OutOfMemory
  <2>2. Runner \in Sessions /\ (job # NoJob => job.session \in InWalk)
    BY <2>1, WalkSessions DEF Control
  <2>3. suspect' = suspect \cup InWalk
    BY <2>1 DEF Fault
  <2>4. \/ pools' = pools
        \/ \E l \in Layers : \E id : pools' = [pools EXCEPT ![l] = WithSlot(Grown(pools[l], 1), id)]
    <3>1. CASE job.pc = "write" /\ pools' = [pools EXCEPT ![job.layer] = WithSlot(Grown(Pool, 1), Cache.pages[Min(Pending)].id)]
      <4>1. job # NoJob
        BY <3>1 DEF NoJob
      <4>2. job.layer \in Layers
        BY <4>1 DEF JobsType, JobType
      <4> QED BY <3>1, <4>2 DEF Pool
    <3> QED BY <1>14, <3>1 DEF OutOfMemory
  <2>5. GivenUp({Runner})
    BY <1>14, <2>1, <2>2, <2>3, <2>4, ClearGives DEF OutOfMemory, GivenUp
  <2> QED BY <2>2, <2>5 DEF Effects
<1>15. CASE LoadFails
  <2>1. suspect' = suspect \cup InWalk /\ (job # NoJob => job.session \in InWalk)
    BY <1>15 DEF LoadFails, Fault, Control
  <2>2. GivenUp({})
    BY <1>15, <2>1, NothingCleared DEF LoadFails, allocator, GivenUp
  <2> QED BY <2>2 DEF Effects
<1>16. CASE WriteRaises
  <2>1. suspect' = suspect \cup InWalk /\ (job # NoJob => job.session \in InWalk)
    BY <1>16 DEF WriteRaises, Control
  <2>2. GivenUp({})
    BY <1>16, <2>1, NothingCleared DEF WriteRaises, allocator, GivenUp
  <2> QED BY <2>2 DEF Effects
<1>17. CASE UNCHANGED vars
  BY <1>17 DEF vars, sessionVars, Effects
<1> QED BY <1>1, <1>2, <1>3, <1>4, <1>5, <1>6, <1>7, <1>8, <1>9, <1>10, <1>11, <1>12, <1>13, <1>14, <1>15, <1>16, <1>17
        DEF Next

------------------------------------------------------------------------------
(* The types stay *)

LEMMA GrownShaped ==
    ASSUME NEW pool, Shaped(pool), NEW capacity \in Nat
    PROVE  /\ Shaped(Grown(pool, capacity))
           /\ Grown(pool, capacity).slots = pool.slots /\ Grown(pool, capacity).next = pool.next
           /\ Grown(pool, capacity).capacity >= capacity /\ Grown(pool, capacity).capacity >= pool.capacity
           /\ \A slot \in 0..(pool.capacity - 1) : Grown(pool, capacity).rows[slot] = pool.rows[slot]
<1>1. CASE pool.capacity >= capacity
  BY <1>1 DEF Grown, Shaped
<1>2. CASE ~(pool.capacity >= capacity)
  <2> DEFINE size == Most(capacity, 2 * pool.capacity)
             rows == [slot \in 0..(size - 1) |-> IF slot \in DOMAIN pool.rows THEN pool.rows[slot] ELSE <<>>]
  <2>1. Grown(pool, capacity) = [pool EXCEPT !.capacity = size, !.tensors = @ + 1, !.rows = rows]
    BY <1>2 DEF Grown
  <2>2. size \in Nat /\ size >= capacity /\ size >= pool.capacity
    BY DEF Shaped, Most
  <2>3. DOMAIN rows = 0..(size - 1) /\ \A slot \in 0..(pool.capacity - 1) : rows[slot] = pool.rows[slot]
    BY <2>2 DEF Shaped
  <2> HIDE DEF size, rows
  <2> QED BY <2>1, <2>2, <2>3 DEF Shaped
<1> QED BY <1>1, <1>2

LEMMA WithSlotShaped ==
    ASSUME NEW pool, Shaped(pool), NEW id
    PROVE  /\ Shaped(WithSlot(pool, id))
           /\ WithSlot(pool, id).capacity = pool.capacity /\ WithSlot(pool, id).rows = pool.rows
           /\ id \in DOMAIN WithSlot(pool, id).slots /\ WithSlot(pool, id).slots[id] = Slot(pool, id)
           /\ \A p \in DOMAIN pool.slots : p \in DOMAIN WithSlot(pool, id).slots /\ WithSlot(pool, id).slots[p] = pool.slots[p]
<1>1. CASE id \in DOMAIN pool.slots
  BY <1>1 DEF WithSlot, Slot
<1>2. CASE id \notin DOMAIN pool.slots
  <2> DEFINE slots == [p \in DOMAIN pool.slots \cup {id} |-> IF p = id THEN Slot(pool, id) ELSE pool.slots[p]]
  <2>1. WithSlot(pool, id) = [pool EXCEPT !.slots = slots, !.next = @ + 1]
    BY <1>2 DEF WithSlot
  <2>2. id \in DOMAIN slots /\ slots[id] = Slot(pool, id) /\ \A p \in DOMAIN pool.slots : p \in DOMAIN slots /\ slots[p] = pool.slots[p]
    BY <1>2
  <2> HIDE DEF slots
  <2> QED BY <2>1, <2>2 DEF Shaped
<1> QED BY <1>1, <1>2

\* A pass of WritePage: the pool after it.
Placed(pool, id) == Grown(WithSlot(Grown(pool, 1), id), IF id \in DOMAIN pool.slots THEN 1 ELSE Slot(pool, id) + 1)

LEMMA PlacedShaped ==
    ASSUME NEW pool, Shaped(pool), SlotsApart(pool), NEW id
    PROVE  /\ Shaped(Placed(pool, id))
           /\ id \in DOMAIN Placed(pool, id).slots /\ Placed(pool, id).slots[id] = Slot(pool, id)
           /\ \A p \in DOMAIN pool.slots : p \in DOMAIN Placed(pool, id).slots /\ Placed(pool, id).slots[p] = pool.slots[p]
           /\ Placed(pool, id).capacity >= pool.capacity
           /\ \A slot \in 0..(pool.capacity - 1) : Placed(pool, id).rows[slot] = pool.rows[slot]
           /\ Slot(pool, id) \in Nat
<1> DEFINE room == IF id \in DOMAIN pool.slots THEN 1 ELSE Slot(pool, id) + 1
           first == Grown(pool, 1)
           second == WithSlot(first, id)
<1>1. Slot(pool, id) \in Nat /\ room \in Nat
  BY DEF SlotsApart, Slot
<1>2. /\ Shaped(first) /\ first.slots = pool.slots /\ first.next = pool.next /\ first.capacity >= pool.capacity
      /\ \A slot \in 0..(pool.capacity - 1) : first.rows[slot] = pool.rows[slot]
  BY GrownShaped
<1>3. Slot(first, id) = Slot(pool, id)
  BY <1>2 DEF Slot
<1> HIDE DEF first
<1>4. /\ Shaped(second) /\ second.capacity = first.capacity /\ second.rows = first.rows
      /\ id \in DOMAIN second.slots /\ second.slots[id] = Slot(first, id)
      /\ \A p \in DOMAIN first.slots : p \in DOMAIN second.slots /\ second.slots[p] = first.slots[p]
  BY <1>2, WithSlotShaped
<1> HIDE DEF second, room
<1>5. /\ Shaped(Grown(second, room)) /\ Grown(second, room).slots = second.slots
      /\ Grown(second, room).capacity >= second.capacity
      /\ \A slot \in 0..(second.capacity - 1) : Grown(second, room).rows[slot] = second.rows[slot]
  BY <1>1, <1>4, GrownShaped
<1>6. Placed(pool, id) = Grown(second, room)
  BY DEF Placed, second, first, room
<1>7. pool.capacity \in Nat /\ first.capacity \in Nat /\ Grown(second, room).capacity \in Nat
  BY <1>2, <1>5 DEF Shaped
<1> QED BY <1>1, <1>2, <1>3, <1>4, <1>5, <1>6, <1>7

\* What a pass of WritePage writes.
LEMMA WritePagePool ==
    ASSUME WritePage
    PROVE  LET page == Cache.pages[Min(Pending)]
           IN /\ Pending # {} /\ job.pc = "write"
              /\ Slot(Pool, page.id) < Placed(Pool, page.id).capacity
              /\ pools' = [pools EXCEPT ![job.layer] = [Placed(Pool, page.id) EXCEPT !.rows[Slot(Pool, page.id)] = RowsOf(Cache, page)]]
              /\ job' = [job EXCEPT !.page = Min(Pending)]
              /\ UNCHANGED <<nextPage, resident, spilled, caches>>
BY DEF WritePage, Placed

LEMMA GivenUpPools ==
    ASSUME IInv, PoolsShaped, NEW T, GivenUp(T)
    PROVE  /\ PoolsShaped'
           /\ \A l \in Layers :
                /\ \A p \in DOMAIN pools[l].slots : p \in DOMAIN pools'[l].slots /\ pools'[l].slots[p] = pools[l].slots[p]
                /\ pools'[l].capacity >= pools[l].capacity /\ pools[l].capacity \in Nat
                /\ \A slot \in 0..(pools[l].capacity - 1) : pools'[l].rows[slot] = pools[l].rows[slot]
<1>1. CASE pools' = pools
  BY <1>1 DEF PoolsShaped, Shaped
<1>2. CASE \E l \in Layers : \E id : pools' = [pools EXCEPT ![l] = WithSlot(Grown(pools[l], 1), id)]
  <2>0. PICK l \in Layers : \E id : pools' = [pools EXCEPT ![l] = WithSlot(Grown(pools[l], 1), id)]
    BY <1>2
  <2>1. PICK id : pools' = [pools EXCEPT ![l] = WithSlot(Grown(pools[l], 1), id)]
    BY <2>0
  <2> DEFINE new == WithSlot(Grown(pools[l], 1), id)
  <2>2. Shaped(pools[l])
    BY DEF PoolsShaped
  <2>3. /\ Shaped(Grown(pools[l], 1)) /\ Grown(pools[l], 1).slots = pools[l].slots
        /\ Grown(pools[l], 1).capacity >= pools[l].capacity
        /\ \A slot \in 0..(pools[l].capacity - 1) : Grown(pools[l], 1).rows[slot] = pools[l].rows[slot]
    BY <2>2, GrownShaped
  <2>4. /\ Shaped(new) /\ new.capacity = Grown(pools[l], 1).capacity /\ new.rows = Grown(pools[l], 1).rows
        /\ \A p \in DOMAIN Grown(pools[l], 1).slots : p \in DOMAIN new.slots /\ new.slots[p] = Grown(pools[l], 1).slots[p]
    BY <2>3, WithSlotShaped
  <2> HIDE DEF new
  <2>5. \A k \in Layers : pools'[k] = IF k = l THEN new ELSE pools[k]
    BY <2>1 DEF IInv, PoolsApart, new
  <2>6. ASSUME NEW k \in Layers
        PROVE  /\ Shaped(pools'[k])
               /\ \A p \in DOMAIN pools[k].slots : p \in DOMAIN pools'[k].slots /\ pools'[k].slots[p] = pools[k].slots[p]
               /\ pools'[k].capacity >= pools[k].capacity /\ pools[k].capacity \in Nat
               /\ \A slot \in 0..(pools[k].capacity - 1) : pools'[k].rows[slot] = pools[k].rows[slot]
    <3>1. CASE k = l
      BY <2>2, <2>3, <2>4, <2>5, <3>1 DEF Shaped
    <3>2. CASE k # l
      BY <2>5, <3>2 DEF PoolsShaped, Shaped
    <3> QED BY <3>1, <3>2
  <2> QED BY <2>6 DEF PoolsShaped, Shaped
<1> QED BY <1>1, <1>2 DEF GivenUp

\* The least element of a set of numbers.
LEMMA LeastNat ==
    ASSUME NEW S, S \subseteq Nat, S # {}
    PROVE  \E n \in S : \A m \in S : n <= m
<1>1. PICK n \in S : \A m \in S : ~(<<m, n>> \in OpToRel(<, Nat))
  BY NatLessThanWellFounded, WFMin
<1>2. \A m \in S : ~(m < n)
  BY <1>1 DEF OpToRel
<1> QED BY <1>2

LEMMA ActiveJob ==
    ASSUME JobsType
    PROVE  /\ job.pc \in {"extend", "write"} => job # NoJob
           /\ job # NoJob => /\ job.session \in Sessions /\ job.layer \in Layers /\ job.start \in Nat /\ job.cursor \in Nat
                             /\ job.remaining \in Nat /\ job.page \in Nat /\ job.pc \in {"extend", "write"} /\ job \in JobType
BY DEF JobsType, JobType, NoJob

\* What a pass of _extend_pages takes of the tokens it has left.
Take == Least(job.remaining, PageSize - (job.cursor % PageSize))

LEMMA TakeBounds ==
    ASSUME JobsType, job # NoJob
    PROVE  /\ Take \in Nat /\ Take <= job.remaining /\ (job.cursor % PageSize) \in 0..(PageSize - 1)
           /\ Take <= PageSize - (job.cursor % PageSize)
           /\ job.remaining > 0 => Take > 0
           /\ Take = job.remaining \/ Take = PageSize - (job.cursor % PageSize)
           /\ PageSize \in Nat \ {0}
<1>1. PageSize \in Nat \ {0} /\ job.cursor \in Nat /\ job.remaining \in Nat
  BY ActiveJob, CudaPagesAssumption
<1>2. job.cursor % PageSize \in 0..(PageSize - 1)
  BY <1>1
<1> QED BY <1>1, <1>2 DEF Take, Least

\* The two ways of a pass of _extend_pages.
LEMMA ExtendCases ==
    ASSUME CachesType, JobsType, ExtendPages
    PROVE  /\ job.pc = "extend" /\ job # NoJob
           /\ pools' = pools
           /\ job' = [job EXCEPT !.cursor = @ + Take, !.remaining = @ - Take,
                                 !.pc = IF job.remaining = Take THEN "write" ELSE "extend"]
           /\ \/ /\ job.cursor % PageSize = 0
                 /\ Allocate(Take)
                 /\ caches' = [caches EXCEPT ![job.session][job.layer].pages = Append(@, NewPage(Take))]
              \/ /\ job.cursor % PageSize # 0
                 /\ caches' = [caches EXCEPT ![job.session][job.layer].pages[Len(Cache.pages)].length = @ + Take]
                 /\ UNCHANGED <<nextPage, resident, spilled>>
BY ActiveJob DEF ExtendPages, Take

LEMMA CachesTypeStays ==
    ASSUME IInv, TypeInv, Effects
    PROVE  CachesType'
<1> USE DEF TypeInv
<1>1. CASE UNCHANGED pageVars
  BY <1>1 DEF pageVars, CachesType
<1>2. ASSUME NEW T \in SUBSET Sessions, GivenUp(T) PROVE CachesType'
  <2>1. [l \in Layers |-> NoKV] \in [Layers -> CacheType]
    BY DEF NoKV, CacheType
  <2> QED BY <1>2, <2>1 DEF GivenUp, CachesType
<1>3. ASSUME NEW s \in Sessions, NEW l \in Layers, NEW rows \in Seq(RowType), Begins(s, l, rows) PROVE CachesType'
  <2>1. caches' = [caches EXCEPT ![s][l].rows = @ \o rows]
    BY <1>3 DEF Begins, BeginAppend
  <2>2. caches[s] \in [Layers -> CacheType] /\ caches[s][l] \in CacheType
    BY DEF CachesType
  <2>3. caches[s][l].rows \o rows \in Seq(RowType)
    BY <2>2 DEF CacheType
  <2>4. [caches[s][l] EXCEPT !.rows = @ \o rows] \in CacheType
    BY <2>2, <2>3 DEF CacheType
  <2>5. [caches[s] EXCEPT ![l] = [caches[s][l] EXCEPT !.rows = @ \o rows]] \in [Layers -> CacheType]
    BY <2>2, <2>4
  <2>6. caches' = [caches EXCEPT ![s] = [caches[s] EXCEPT ![l] = [caches[s][l] EXCEPT !.rows = @ \o rows]]]
    BY <2>1
  <2> QED BY <2>5, <2>6 DEF CachesType
<1>4. CASE ExtendPages
  <2> DEFINE s == job.session
             l == job.layer
  <2>1. job # NoJob /\ s \in Sessions /\ l \in Layers /\ job.cursor \in Nat /\ Take \in Nat /\ nextPage \in Nat
    BY <1>4, ExtendCases, ActiveJob, TakeBounds DEF IInv
  <2>2. caches[s] \in [Layers -> CacheType] /\ caches[s][l] \in CacheType /\ caches[s][l].pages \in Seq(PageType)
    BY <2>1 DEF CachesType, CacheType
  <2>3. NewPage(Take) \in PageType
    BY <2>1 DEF NewPage, PageType
  <2>4. \E pages \in Seq(PageType) : caches' = [caches EXCEPT ![s] = [caches[s] EXCEPT ![l] = [caches[s][l] EXCEPT !.pages = pages]]]
    <3>1. CASE caches' = [caches EXCEPT ![s][l].pages = Append(@, NewPage(Take))]
      <4>1. Append(caches[s][l].pages, NewPage(Take)) \in Seq(PageType)
        BY <2>2, <2>3
      <4>2. caches' = [caches EXCEPT ![s] = [caches[s] EXCEPT ![l] = [caches[s][l] EXCEPT !.pages = Append(caches[s][l].pages, NewPage(Take))]]]
        BY <3>1
      <4> QED BY <4>1, <4>2
    <3>2. CASE caches' = [caches EXCEPT ![s][l].pages[Len(Cache.pages)].length = @ + Take]
      <4> DEFINE pages == caches[s][l].pages
                 new == [pages EXCEPT ![Len(Cache.pages)].length = @ + Take]
      <4>1. \A i \in 1..Len(pages) : new[i] \in PageType
        <5> SUFFICES ASSUME NEW i \in 1..Len(pages) PROVE new[i] \in PageType
          OBVIOUS
        <5>0. pages \in Seq(PageType) /\ DOMAIN pages = 1..Len(pages)
          BY <2>2
        <5>1. pages[i] \in PageType
          BY <5>0
        <5>3. pages[i].length + Take \in Nat
          <6>1. pages[i].length \in Nat
            BY <5>1 DEF PageType
          <6> HIDE DEF pages
          <6> QED BY <2>1, <6>1
        <5>2. new[i] = pages[i] \/ new[i] = [pages[i] EXCEPT !.length = pages[i].length + Take]
          BY <5>0
        <5> QED BY <5>1, <5>2, <5>3 DEF PageType
      <4>2. DOMAIN new = 1..Len(pages) /\ Len(pages) \in Nat
        BY <2>2
      <4>3. new = [i \in 1..Len(pages) |-> new[i]]
        BY <4>2
      <4>4. caches' = [caches EXCEPT ![s] = [caches[s] EXCEPT ![l] = [caches[s][l] EXCEPT !.pages = new]]]
        BY <3>2
      <4> HIDE DEF new
      <4>5. new \in Seq(PageType)
        BY <4>1, <4>2, <4>3, SeqDef
      <4> QED BY <4>4, <4>5
    <3> QED BY <1>4, <3>1, <3>2, ExtendCases
  <2>5. PICK pages \in Seq(PageType) : caches' = [caches EXCEPT ![s] = [caches[s] EXCEPT ![l] = [caches[s][l] EXCEPT !.pages = pages]]]
    BY <2>4
  <2>6. [caches[s][l] EXCEPT !.pages = pages] \in CacheType
    BY <2>2 DEF CacheType
  <2>7. [caches[s] EXCEPT ![l] = [caches[s][l] EXCEPT !.pages = pages]] \in [Layers -> CacheType]
    BY <2>2, <2>6
  <2> QED BY <2>5, <2>7 DEF CachesType
<1>5. CASE WritePage \/ EndAppend
  BY <1>5 DEF WritePage, EndAppend, CachesType
<1> QED BY <1>1, <1>2, <1>3, <1>4, <1>5 DEF Effects

LEMMA MinPending ==
    ASSUME CachesType, JobsType, job # NoJob, Pending # {}
    PROVE  /\ Min(Pending) \in Pending /\ \A i \in Pending : Min(Pending) <= i
           /\ Pending \subseteq DOMAIN Cache.pages /\ Pending \subseteq 1..Len(Cache.pages)
           /\ Cache \in CacheType /\ Min(Pending) \in Nat
<1>1. Cache \in CacheType
  BY ActiveJob DEF Cache, CachesType
<1>2. DOMAIN Cache.pages = 1..Len(Cache.pages) /\ Len(Cache.pages) \in Nat
  BY <1>1 DEF CacheType
<1>3. Pending \subseteq 1..Len(Cache.pages)
  BY <1>2 DEF Pending, Touched
<1>4. \E m \in Pending : \A i \in Pending : m <= i
  <2>1. Pending \subseteq Nat
    BY <1>2, <1>3
  <2> QED BY <2>1, LeastNat
<1>5. Min(Pending) \in Pending /\ \A i \in Pending : Min(Pending) <= i
  BY <1>4 DEF Min
<1>6. Min(Pending) \in Nat
  <2>1. Min(Pending) \in 1..Len(Cache.pages)
    BY <1>3, <1>5
  <2> QED BY <1>2, <2>1
<1> QED BY <1>1, <1>2, <1>3, <1>5, <1>6

LEMMA PoolsShapedStays ==
    ASSUME IInv, TypeInv, Effects
    PROVE  PoolsShaped'
<1> USE DEF TypeInv
<1>1. CASE pools' = pools
  BY <1>1 DEF PoolsShaped, Shaped
<1>2. ASSUME NEW T \in SUBSET Sessions, GivenUp(T) PROVE PoolsShaped'
  BY <1>2, GivenUpPools
<1>3. CASE WritePage
  <2> DEFINE id == Cache.pages[Min(Pending)].id
             new == [Placed(Pool, id) EXCEPT !.rows[Slot(Pool, id)] = RowsOf(Cache, Cache.pages[Min(Pending)])]
  <2>1. pools' = [pools EXCEPT ![job.layer] = new] /\ job.layer \in Layers
    BY <1>3, WritePagePool, ActiveJob
  <2>2. Shaped(Pool) /\ SlotsApart(Pool)
    BY <2>1 DEF PoolsShaped, IInv, PoolsApart, Pool
  <2>3. Shaped(Placed(Pool, id))
    BY <2>2, PlacedShaped
  <2> HIDE DEF id
  <2>4. Shaped(new)
    BY <2>3 DEF Shaped
  <2> HIDE DEF new
  <2>5. \A l \in Layers : pools'[l] = IF l = job.layer THEN new ELSE pools[l]
    BY <2>1 DEF IInv, PoolsApart
  <2> QED BY <2>4, <2>5 DEF PoolsShaped, Shaped
<1> QED BY <1>1, <1>2, <1>3 DEF Effects, pageVars, Begins, BeginAppend, allocator, ExtendPages, EndAppend

LEMMA JobsTypeStays ==
    ASSUME IInv, TypeInv, Effects
    PROVE  JobsType'
<1> USE DEF TypeInv
<1>1. CASE job' = job \/ job' = NoJob
  BY <1>1 DEF JobsType, JobType
<1>2. ASSUME NEW s \in Sessions, NEW l \in Layers, NEW rows \in Seq(RowType), Begins(s, l, rows) PROVE JobsType'
  <2>1. Len(caches[s][l].rows) \in Nat /\ Len(rows) \in Nat
    BY DEF CachesType, CacheType
  <2>2. job' = [pc |-> IF rows = <<>> THEN "write" ELSE "extend", session |-> s, layer |-> l,
                start |-> Len(caches[s][l].rows), cursor |-> Len(caches[s][l].rows), remaining |-> Len(rows), page |-> 0]
    BY <1>2 DEF Begins, BeginAppend
  <2>3. job' \in JobType
    BY <2>1, <2>2 DEF JobType
  <2> QED BY <2>3 DEF JobsType, JobType
<1>3. CASE ExtendPages
  <2>1. /\ job \in JobType /\ Take \in Nat /\ Take <= job.remaining
        /\ job' = [job EXCEPT !.cursor = @ + Take, !.remaining = @ - Take,
                                 !.pc = IF job.remaining = Take THEN "write" ELSE "extend"]
    BY <1>3, ExtendCases, ActiveJob, TakeBounds
  <2>2. job.cursor + Take \in Nat /\ job.remaining - Take \in Nat
    BY <2>1 DEF JobType
  <2>3. (IF job.remaining = Take THEN "write" ELSE "extend") \in {"extend", "write"}
    OBVIOUS
  <2>4. job' \in JobType
    BY <2>1, <2>2, <2>3 DEF JobType
  <2> QED BY <2>4 DEF JobsType, JobType
<1>4. CASE WritePage
  <2>1. job \in JobType /\ job' = [job EXCEPT !.page = Min(Pending)] /\ Min(Pending) \in Nat
    BY <1>4, WritePagePool, ActiveJob, MinPending
  <2>2. job' \in JobType
    BY <2>1 DEF JobType
  <2> QED BY <2>2 DEF JobsType, JobType
<1> QED BY <1>1, <1>2, <1>3, <1>4 DEF Effects, pageVars, GivenUp, EndAppend

------------------------------------------------------------------------------
(* The walk stands somewhere *)

LEMMA FreshWalk ==
    ASSUME NEW mode \in {"prefill", "decode"}, NEW batch \in BOOLEAN, NEW sessions \in Seq(Sessions),
           NEW tokens \in Seq(Seq(Nat)), NEW pc \in {"rotate", "load"}, NEW remember \in BOOLEAN,
           Len(sessions) \in {1, 2}, Len(tokens) = Len(sessions),
           Len(sessions) = 2 => sessions[1] # sessions[2],
           mode = "decode" => \A i \in 1..Len(sessions) : Len(tokens[i]) = 1,
           pc = "load" => Len(sessions) = 1 /\ mode = "prefill" /\ snapshot' # NoSnapshot,
           walk' = Walk(pc, mode, batch, sessions, tokens, remember),
           job' = NoJob
    PROVE  WalksType' /\ Control'
<1>1. walk' = [pc |-> pc, mode |-> mode, batch |-> batch, sessions |-> sessions, tokens |-> tokens,
               layer |-> 1, turn |-> 1, offsets |-> <<>>, views |-> <<>>, paged |-> FALSE, remember |-> remember]
  BY DEF Walk
<1>2. /\ <<>> \in Seq(Nat) /\ <<>> \in Seq(ViewType) /\ 1 \in Nat /\ FALSE \in BOOLEAN
      /\ pc \in {"load", "rotate", "attend", "view", "read", "kernel"}
  OBVIOUS
<1>3. walk' \in WalkType
  <2>1. \A w : w = [pc |-> pc, mode |-> mode, batch |-> batch, sessions |-> sessions, tokens |-> tokens,
               layer |-> 1, turn |-> 1, offsets |-> <<>>, views |-> <<>>, paged |-> FALSE, remember |-> remember]
               => w \in WalkType
    BY <1>2 DEF WalkType
  <2> QED BY <1>1, <2>1
<1>4. NumLayers \in Nat \ {0}
  BY CudaPagesAssumption
<1>5. Stands(walk)'
  <2>1. /\ walk'.pc = pc /\ walk'.mode = mode /\ walk'.sessions = sessions /\ walk'.tokens = tokens
        /\ walk'.layer = 1 /\ walk'.turn = 1 /\ walk'.paged = FALSE
    <3>1. \A w : w = [pc |-> pc, mode |-> mode, batch |-> batch, sessions |-> sessions, tokens |-> tokens,
               layer |-> 1, turn |-> 1, offsets |-> <<>>, views |-> <<>>, paged |-> FALSE, remember |-> remember]
               => /\ w.pc = pc /\ w.mode = mode /\ w.sessions = sessions /\ w.tokens = tokens
                  /\ w.layer = 1 /\ w.turn = 1 /\ w.paged = FALSE
      OBVIOUS
    <3> QED BY <1>1, <3>1
  <2>2. 1 \in 1..(NumLayers + 1) /\ 1 # NumLayers + 1 /\ 1 \in 1..Len(sessions)
    BY <1>4
  <2> QED BY <2>1, <2>2 DEF Stands
<1> QED BY <1>3, <1>5 DEF WalksType, WalkType, ViewType, Control

LEMMA NoWalkStands == ASSUME walk' = NoWalk, job' = NoJob PROVE WalksType' /\ Control'
BY DEF WalksType, Control

\* A batch of two gives each session its own.
LEMMA GivenOf ==
    ASSUME NEW a, NEW b, a # b, NEW p, NEW q
    PROVE  /\ Given(<<a, b>>, <<p, q>>, a) = p /\ Given(<<a, b>>, <<p, q>>, b) = q
           /\ ToSet(<<a, b>>) = {a, b}
<1>1. DOMAIN <<a, b>> = {1, 2}
  OBVIOUS
<1>2. (CHOOSE i \in DOMAIN <<a, b>> : <<a, b>>[i] = a) = 1
  BY <1>1
<1>3. (CHOOSE i \in DOMAIN <<a, b>> : <<a, b>>[i] = b) = 2
  BY <1>1
<1> QED BY <1>1, <1>2, <1>3 DEF Given, ToSet

LEMMA BatchOf ==
    ASSUME NEW sessions \in Batches
    PROVE  \E a, b \in Sessions : a # b /\ sessions = <<a, b>>
BY DEF Batches

LEMMA SnapshotPrefixType ==
    ASSUME CachesType, NEW s \in Sessions, NEW length \in Nat
    PROVE  SnapshotPrefix(s, length) \in [Layers -> Seq(RowType)]
<1>1. ASSUME NEW l \in Layers PROVE SubSeq(caches[s][l].rows, 1, Least(length, Len(caches[s][l].rows))) \in Seq(RowType)
  <2>1. caches[s][l].rows \in Seq(RowType)
    BY DEF CachesType, CacheType
  <2>2. Len(caches[s][l].rows) \in Nat
    BY <2>1
  <2>3. Least(length, Len(caches[s][l].rows)) \in Nat /\ Least(length, Len(caches[s][l].rows)) <= Len(caches[s][l].rows)
    BY <2>2 DEF Least
  <2> HIDE DEF Least
  <2> QED BY <2>1, <2>2, <2>3
<1> QED BY <1>1 DEF SnapshotPrefix

\* The steps of a walk, with all that they assign.
WalkStep(pc, layer, turn, offsets, views, paged) ==
    /\ walk # NoWalk
    /\ walk' = [walk EXCEPT !.pc = pc, !.layer = layer, !.turn = turn, !.offsets = offsets, !.views = views, !.paged = paged]

LEMMA WalkFields ==
    ASSUME WalksType, walk # NoWalk
    PROVE  /\ walk.pc \in {"load", "rotate", "attend", "view", "read", "kernel"} /\ walk.layer \in Nat /\ walk.turn \in Nat
           /\ walk.offsets \in Seq(Nat) /\ walk.views \in Seq(ViewType) /\ walk.paged \in BOOLEAN
           /\ walk.mode \in {"prefill", "decode"}
           /\ walk.sessions \in Seq(Sessions) /\ walk.tokens \in Seq(Seq(Nat)) /\ walk.batch \in BOOLEAN
           /\ \A pc, layer, turn, offsets, views, paged :
                /\ walk' = [walk EXCEPT !.pc = pc] => WalkStep(pc, walk.layer, walk.turn, walk.offsets, walk.views, walk.paged)
                /\ walk' = [walk EXCEPT !.layer = layer] => WalkStep(walk.pc, layer, walk.turn, walk.offsets, walk.views, walk.paged)
                /\ walk' = [walk EXCEPT !.pc = pc, !.layer = layer] => WalkStep(pc, layer, walk.turn, walk.offsets, walk.views, walk.paged)
                /\ walk' = [walk EXCEPT !.pc = pc, !.turn = turn] => WalkStep(pc, walk.layer, turn, walk.offsets, walk.views, walk.paged)
                /\ walk' = [walk EXCEPT !.pc = pc, !.turn = turn, !.paged = paged] =>
                       WalkStep(pc, walk.layer, turn, walk.offsets, walk.views, paged)
                /\ walk' = [walk EXCEPT !.pc = pc, !.offsets = offsets, !.turn = turn, !.views = views, !.paged = paged] =>
                       WalkStep(pc, walk.layer, turn, offsets, views, paged)
                /\ walk' = [walk EXCEPT !.views = views, !.pc = pc, !.turn = turn] =>
                       WalkStep(pc, walk.layer, turn, walk.offsets, views, walk.paged)
<1>1. walk \in WalkType
  BY DEF WalksType
<1>2. /\ walk.pc \in {"load", "rotate", "attend", "view", "read", "kernel"} /\ walk.layer \in Nat /\ walk.turn \in Nat
      /\ walk.offsets \in Seq(Nat) /\ walk.views \in Seq(ViewType) /\ walk.paged \in BOOLEAN
      /\ walk.mode \in {"prefill", "decode"}
      /\ walk.sessions \in Seq(Sessions) /\ walk.tokens \in Seq(Seq(Nat)) /\ walk.batch \in BOOLEAN
  BY <1>1 DEF WalkType
<1>3. ASSUME NEW pc, NEW layer, NEW turn, NEW offsets, NEW views, NEW paged, walk' = [walk EXCEPT !.pc = pc]
      PROVE  WalkStep(pc, walk.layer, walk.turn, walk.offsets, walk.views, walk.paged)
  BY <1>1, <1>3 DEF WalkType, WalkStep
<1>4. ASSUME NEW pc, NEW layer, NEW turn, NEW offsets, NEW views, NEW paged, walk' = [walk EXCEPT !.layer = layer]
      PROVE  WalkStep(walk.pc, layer, walk.turn, walk.offsets, walk.views, walk.paged)
  BY <1>1, <1>4 DEF WalkType, WalkStep
<1>5. ASSUME NEW pc, NEW layer, NEW turn, NEW offsets, NEW views, NEW paged, walk' = [walk EXCEPT !.pc = pc, !.layer = layer]
      PROVE  WalkStep(pc, layer, walk.turn, walk.offsets, walk.views, walk.paged)
  BY <1>1, <1>5 DEF WalkType, WalkStep
<1>6. ASSUME NEW pc, NEW layer, NEW turn, NEW offsets, NEW views, NEW paged, walk' = [walk EXCEPT !.pc = pc, !.turn = turn]
      PROVE  WalkStep(pc, walk.layer, turn, walk.offsets, walk.views, walk.paged)
  BY <1>1, <1>6 DEF WalkType, WalkStep
<1>7. ASSUME NEW pc, NEW layer, NEW turn, NEW offsets, NEW views, NEW paged, walk' = [walk EXCEPT !.pc = pc, !.turn = turn, !.paged = paged]
      PROVE  WalkStep(pc, walk.layer, turn, walk.offsets, walk.views, paged)
  BY <1>1, <1>7 DEF WalkType, WalkStep
<1>8. ASSUME NEW pc, NEW layer, NEW turn, NEW offsets, NEW views, NEW paged, walk' = [walk EXCEPT !.pc = pc, !.offsets = offsets, !.turn = turn, !.views = views, !.paged = paged]
      PROVE  WalkStep(pc, walk.layer, turn, offsets, views, paged)
  BY <1>1, <1>8 DEF WalkType, WalkStep
<1>9. ASSUME NEW pc, NEW layer, NEW turn, NEW offsets, NEW views, NEW paged, walk' = [walk EXCEPT !.views = views, !.pc = pc, !.turn = turn]
      PROVE  WalkStep(pc, walk.layer, turn, walk.offsets, views, walk.paged)
  BY <1>1, <1>9 DEF WalkType, WalkStep
<1>10. ASSUME NEW pc, NEW layer, NEW turn, NEW offsets, NEW views, NEW paged
       PROVE
      /\ walk' = [walk EXCEPT !.pc = pc] => WalkStep(pc, walk.layer, walk.turn, walk.offsets, walk.views, walk.paged)
      /\ walk' = [walk EXCEPT !.layer = layer] => WalkStep(walk.pc, layer, walk.turn, walk.offsets, walk.views, walk.paged)
      /\ walk' = [walk EXCEPT !.pc = pc, !.layer = layer] => WalkStep(pc, layer, walk.turn, walk.offsets, walk.views, walk.paged)
      /\ walk' = [walk EXCEPT !.pc = pc, !.turn = turn] => WalkStep(pc, walk.layer, turn, walk.offsets, walk.views, walk.paged)
      /\ walk' = [walk EXCEPT !.pc = pc, !.turn = turn, !.paged = paged] =>
             WalkStep(pc, walk.layer, turn, walk.offsets, walk.views, paged)
      /\ walk' = [walk EXCEPT !.pc = pc, !.offsets = offsets, !.turn = turn, !.views = views, !.paged = paged] =>
             WalkStep(pc, walk.layer, turn, offsets, views, paged)
      /\ walk' = [walk EXCEPT !.views = views, !.pc = pc, !.turn = turn] =>
             WalkStep(pc, walk.layer, turn, walk.offsets, views, walk.paged)
  BY <1>3, <1>4, <1>5, <1>6, <1>7, <1>8, <1>9
<1> QED BY <1>2, <1>10

LEMMA WalkStepGives ==
    ASSUME WalksType,
           NEW pc \in {"load", "rotate", "attend", "view", "read", "kernel"}, NEW layer \in Nat, NEW turn \in Nat,
           NEW offsets \in Seq(Nat), NEW views \in Seq(ViewType), NEW paged \in BOOLEAN,
           WalkStep(pc, layer, turn, offsets, views, paged)
    PROVE  /\ WalksType' /\ walk # NoWalk /\ walk' # NoWalk
           /\ walk'.pc = pc /\ walk'.layer = layer /\ walk'.turn = turn /\ walk'.offsets = offsets
           /\ walk'.views = views /\ walk'.paged = paged
           /\ walk'.mode = walk.mode /\ walk'.batch = walk.batch /\ walk'.sessions = walk.sessions /\ walk'.tokens = walk.tokens
           /\ walk'.remember = walk.remember
           /\ InWalk' = InWalk /\ Runner' = Runner
<1> DEFINE w == [walk EXCEPT !.pc = pc, !.layer = layer, !.turn = turn, !.offsets = offsets, !.views = views, !.paged = paged]
<1>1. walk' = w
  BY DEF WalkStep
<1>3. walk # NoWalk
  BY DEF WalkStep
<1>2. /\ w \in WalkType /\ w # NoWalk
      /\ w.pc = pc /\ w.layer = layer /\ w.turn = turn /\ w.offsets = offsets /\ w.views = views /\ w.paged = paged
      /\ w.mode = walk.mode /\ w.batch = walk.batch /\ w.sessions = walk.sessions /\ w.tokens = walk.tokens
      /\ w.remember = walk.remember
  <2>1. walk \in WalkType
    BY <1>3 DEF WalksType
  <2> QED BY <2>1 DEF WalkType, NoWalk
<1> HIDE DEF w
<1>4. WalksType'
  BY <1>1, <1>2 DEF WalksType, WalkType, ViewType
<1> QED BY <1>1, <1>2, <1>3, <1>4 DEF InWalk, Runner

\* A step of a walk whose new values stand.
LEMMA StandsOn ==
    ASSUME WalksType, Control, JobsType, job = NoJob,
           NEW pc \in {"load", "rotate", "attend", "view", "read", "kernel"}, NEW layer \in 1..(NumLayers + 1),
           NEW turn \in 1..Len(walk.sessions), NEW offsets \in Seq(Nat), NEW views \in Seq(ViewType), NEW paged \in BOOLEAN,
           WalkStep(pc, layer, turn, offsets, views, paged), snapshot' = snapshot,
           layer = NumLayers + 1 => pc = "load",
           pc = "load" => walk.pc = "load",
           pc = "read" => ~paged, pc \in {"view", "kernel"} => paged, paged => walk.mode = "decode",
           pc = "kernel" => turn = Len(walk.sessions),
           pc \in {"attend", "view", "read", "kernel"} => Len(offsets) = Len(walk.sessions),
           job' # NoJob => pc \in {"load", "view", "read"} /\ job'.session \in InWalk
    PROVE  WalksType' /\ Control'
<1>1. layer \in Nat /\ turn \in Nat /\ NumLayers \in Nat /\ walk # NoWalk
  <2>1. walk # NoWalk
    BY DEF WalkStep
  <2>2. Len(walk.sessions) \in {1, 2}
    BY <2>1, WalkSessions
  <2> QED BY <2>1, <2>2, CudaPagesAssumption
<1>2. /\ WalksType' /\ walk' # NoWalk
      /\ walk'.pc = pc /\ walk'.layer = layer /\ walk'.turn = turn /\ walk'.offsets = offsets
      /\ walk'.views = views /\ walk'.paged = paged
      /\ walk'.mode = walk.mode /\ walk'.sessions = walk.sessions /\ walk'.tokens = walk.tokens
      /\ InWalk' = InWalk
  BY <1>1, WalkStepGives
<1>3. Stands(walk)
  BY <1>1 DEF Control
<1>4. Stands(walk)'
  BY <1>2, <1>3 DEF Stands
<1> QED BY <1>2, <1>4 DEF Control

LEMMA NextNodeControl ==
    ASSUME TypeInv, job = NoJob, walk # NoWalk, walk.pc \in {"read", "kernel"}, NextNode
    PROVE  WalksType' /\ GivenType' /\ Control'
<1> USE DEF TypeInv
<1>1. Stands(walk) /\ Runner \in Sessions /\ Len(walk.sessions) \in {1, 2} /\ walk.turn \in 1..Len(walk.sessions) /\ NumLayers \in Nat
      /\ walk.layer \in 1..NumLayers
  <2>1. Stands(walk) /\ Runner \in Sessions /\ Len(walk.sessions) \in {1, 2} /\ walk.turn \in 1..Len(walk.sessions)
    BY WalkSessions
  <2> QED BY <2>1, CudaPagesAssumption DEF Stands
<1>2. job' = NoJob /\ context' = context /\ suspect' = suspect
  BY NextNodeCases DEF pageVars
<1>3. snapshot' = snapshot \/ snapshot' = Remembered
  BY NextNodeCases
<1>4. Remembered \in SnapshotType
  <2>1. context[Runner] \in Seq(Nat) /\ Len(context[Runner]) \in Nat
    BY <1>1 DEF GivenType
  <2>2. SnapshotPrefix(Runner, Len(context[Runner])) \in [Layers -> Seq(RowType)]
    BY <1>1, <2>1, SnapshotPrefixType
  <2>3. (Runner \in suspect) \in BOOLEAN
    OBVIOUS
  <2> QED BY <2>1, <2>2, <2>3 DEF Remembered, SnapshotType
<1>5. GivenType'
  BY <1>2, <1>3, <1>4 DEF GivenType, SnapshotType, RowType
<1>6. CASE ~walk.paged /\ walk.turn < Len(walk.sessions) /\ walk' = [walk EXCEPT !.pc = "attend", !.turn = @ + 1]
  <2>1. walk' = [walk EXCEPT !.pc = "attend", !.turn = walk.turn + 1]
    BY <1>6
  <2>2. WalkStep("attend", walk.layer, walk.turn + 1, walk.offsets, walk.views, walk.paged)
    BY <2>1, WalkFields
  <2>3. snapshot' = snapshot
    <3>1. walk'.pc = "attend"
      <4>1. walk \in WalkType
        BY DEF WalksType
      <4> QED BY <2>1, <4>1 DEF WalkType
    <3> QED BY <3>1, NextNodeCases
  <2>4. walk.turn + 1 \in 1..Len(walk.sessions) /\ walk.layer \in 1..(NumLayers + 1) /\ walk.layer # NumLayers + 1
    BY <1>1, <1>6
  <2>5. Len(walk.offsets) = Len(walk.sessions) /\ (walk.paged => walk.mode = "decode")
    BY <1>1 DEF Stands
  <2>6. walk.offsets \in Seq(Nat) /\ walk.views \in Seq(ViewType) /\ walk.paged \in BOOLEAN
    BY WalkFields
  <2> QED BY <1>2, <1>5, <2>2, <2>3, <2>4, <2>5, <2>6, StandsOn
<1>7. CASE /\ walk.paged \/ walk.turn = Len(walk.sessions)
           /\ walk.layer < NumLayers
           /\ walk' = [walk EXCEPT !.pc = "rotate", !.layer = @ + 1]
  <2>1. walk' = [walk EXCEPT !.pc = "rotate", !.layer = walk.layer + 1]
    BY <1>7
  <2>2. WalkStep("rotate", walk.layer + 1, walk.turn, walk.offsets, walk.views, walk.paged)
    BY <2>1, WalkFields
  <2>3. snapshot' = snapshot
    <3>1. walk'.pc = "rotate"
      <4>1. walk \in WalkType
        BY DEF WalksType
      <4> QED BY <2>1, <4>1 DEF WalkType
    <3> QED BY <3>1, NextNodeCases
  <2>4. walk.layer + 1 \in 1..(NumLayers + 1) /\ walk.layer + 1 # NumLayers + 1
    BY <1>1, <1>7
  <2>5. walk.paged => walk.mode = "decode"
    BY <1>1 DEF Stands
  <2>6. walk.offsets \in Seq(Nat) /\ walk.views \in Seq(ViewType) /\ walk.paged \in BOOLEAN
    BY WalkFields
  <2> QED BY <1>1, <1>2, <1>5, <2>2, <2>3, <2>4, <2>5, <2>6, StandsOn
<1>8. CASE walk' = NoWalk
  BY <1>2, <1>5, <1>8, NoWalkStands
<1> QED BY <1>6, <1>7, <1>8, NextNodeCases

LEMMA FallbackControl ==
    ASSUME TypeInv, job = NoJob, walk # NoWalk, walk.pc \in {"view", "kernel"}, Fallback
    PROVE  WalksType' /\ GivenType' /\ Control'
<1> USE DEF TypeInv
<1>1. Stands(walk) /\ Len(walk.sessions) \in {1, 2} /\ walk.turn \in 1..Len(walk.sessions) /\ NumLayers \in Nat
      /\ walk.layer \in 1..NumLayers
  <2>1. Stands(walk) /\ Len(walk.sessions) \in {1, 2} /\ walk.turn \in 1..Len(walk.sessions)
    BY WalkSessions
  <2> QED BY <2>1, CudaPagesAssumption DEF Stands
<1>2. /\ walk' = [walk EXCEPT !.pc = "attend", !.turn = 1, !.paged = FALSE]
      /\ suspect' = suspect \cup {walk.sessions[i] : i \in 1..walk.turn}
      /\ job' = NoJob /\ snapshot' = snapshot /\ context' = context
  BY DEF Fallback, pageVars
<1>3. \A i \in 1..walk.turn : walk.sessions[i] \in Sessions
  <2>1. walk.sessions \in Seq(Sessions)
    BY WalkFields
  <2>2. \A i \in 1..walk.turn : i \in 1..Len(walk.sessions)
    BY <1>1
  <2> QED BY <2>1, <2>2
<1>4. GivenType'
  BY <1>2, <1>3 DEF GivenType, SnapshotType, RowType
<1>5. WalkStep("attend", walk.layer, 1, walk.offsets, walk.views, FALSE)
  BY <1>2, WalkFields
<1>6. Len(walk.offsets) = Len(walk.sessions)
  BY <1>1 DEF Stands
<1>7. walk.offsets \in Seq(Nat) /\ walk.views \in Seq(ViewType)
  BY WalkFields
<1>8. 1 \in 1..Len(walk.sessions) /\ walk.layer \in 1..(NumLayers + 1) /\ walk.layer # NumLayers + 1
  BY <1>1
<1>9. WalksType' /\ Control'
  BY <1>2, <1>5, <1>6, <1>7, <1>8, StandsOn
<1> QED BY <1>4, <1>9

LEMMA PagedViewType ==
    ASSUME IInv, CachesType, PoolsShaped, NEW s \in Sessions, NEW l \in Layers, HasView(s, l)
    PROVE  PagedView(s, l) \in ViewType
<1> DEFINE pages == caches[s][l].pages
           table == [i \in DOMAIN pages |-> pools[l].slots[pages[i].id]]
<1>1. pages \in Seq(PageType) /\ caches[s][l].rows \in Seq(RowType)
  BY DEF CachesType, CacheType
<1>2. DOMAIN pages = 1..Len(pages) /\ Len(pages) \in Nat /\ Len(caches[s][l].rows) \in Nat
  BY <1>1
<1>3. \A i \in DOMAIN pages : pools[l].slots[pages[i].id] \in Nat
  BY DEF HasView, IInv, PoolsApart, SlotsApart
<1>4. table \in Seq(Nat)
  BY <1>2, <1>3, SeqDef
<1>5. pools[l].tensors \in Nat
  BY DEF PoolsShaped, Shaped
<1>6. PagedView(s, l) = [tensors |-> pools[l].tensors, length |-> Len(caches[s][l].rows), table |-> table]
  BY DEF PagedView
<1> HIDE DEF table
<1> QED BY <1>2, <1>4, <1>5, <1>6 DEF ViewType

LEMMA ControlStays ==
    ASSUME IInv, TypeInv, [Next]_vars
    PROVE  WalksType' /\ GivenType' /\ Control'
<1> USE DEF TypeInv
<1> DEFINE Goal == WalksType' /\ GivenType' /\ Control'
<1>0. /\ UNCHANGED <<context, suspect, snapshot>> => GivenType'
      /\ NumLayers \in Nat \ {0}
  BY CudaPagesAssumption DEF GivenType, SnapshotType, RowType
<1>1. ASSUME NEW s \in Sessions, NEW prompt \in Prompts, NEW remember \in BOOLEAN, Prefill(s, prompt, remember) PROVE Goal
  <2>1. prompt \in Seq(Nat)
    BY CudaSessionsAssumption
  <2>2. /\ walk' = Walk("rotate", "prefill", FALSE, <<s>>, <<prompt>>, remember)
        /\ job' = NoJob /\ snapshot' = snapshot /\ context' = [context EXCEPT ![s] = prompt] /\ suspect' = suspect \ {s}
    BY <1>1 DEF Prefill, Starts
  <2> DEFINE ss == <<s>>
             tt == <<prompt>>
  <2>3. walk' = Walk("rotate", "prefill", FALSE, ss, tt, remember)
    BY <2>2
  <2>4. ss \in Seq(Sessions) /\ tt \in Seq(Seq(Nat)) /\ Len(ss) = 1 /\ Len(tt) = 1
    BY <2>1
  <2>5. WalksType' /\ Control'
    <3>1. /\ Len(ss) \in {1, 2} /\ Len(tt) = Len(ss) /\ (Len(ss) = 2 => ss[1] # ss[2]) /\ FALSE \in BOOLEAN
          /\ "prefill" \in {"prefill", "decode"} /\ "rotate" \in {"rotate", "load"} /\ job' = NoJob
      BY <2>2, <2>4
    <3> HIDE DEF ss, tt
    <3> QED BY <3>1, <2>3, <2>4, FreshWalk
  <2>6. GivenType'
    BY <2>1, <2>2 DEF GivenType, SnapshotType, RowType
  <2> QED BY <2>5, <2>6
<1>2. ASSUME NEW s \in Sessions, NEW prompt \in Prompts, NEW remember \in BOOLEAN, PrefillFrom(s, prompt, remember) PROVE Goal
  <2> DEFINE rest == SubSeq(prompt, Len(snapshot.tokens) + 1, Len(prompt))
  <2>1. prompt \in Seq(Nat) /\ Len(prompt) \in Nat
    BY CudaSessionsAssumption
  <2>2. /\ walk' = Walk("load", "prefill", FALSE, <<s>>, <<rest>>, remember)
        /\ snapshot # NoSnapshot /\ job' = NoJob /\ snapshot' = snapshot /\ context' = [context EXCEPT ![s] = prompt]
        /\ suspect' = suspect \cup {s} \/ suspect' = suspect \ {s}
        /\ Len(snapshot.tokens) < Len(prompt)
    BY <1>2 DEF PrefillFrom, Starts
  <2>3. rest \in Seq(Nat)
    <3>1. Len(snapshot.tokens) \in Nat
      BY <2>2 DEF GivenType, SnapshotType
    <3> QED BY <2>1, <2>2, <3>1
  <2> HIDE DEF rest
  <2> DEFINE ss == <<s>>
             tt == <<rest>>
  <2>4. walk' = Walk("load", "prefill", FALSE, ss, tt, remember)
    BY <2>2
  <2>5. ss \in Seq(Sessions) /\ tt \in Seq(Seq(Nat)) /\ Len(ss) = 1 /\ Len(tt) = 1
    BY <2>3
  <2>6. WalksType' /\ Control'
    <3>1. /\ Len(ss) \in {1, 2} /\ Len(tt) = Len(ss) /\ (Len(ss) = 2 => ss[1] # ss[2]) /\ FALSE \in BOOLEAN
          /\ "prefill" \in {"prefill", "decode"} /\ "load" \in {"rotate", "load"} /\ job' = NoJob /\ snapshot' # NoSnapshot
      BY <2>2, <2>5
    <3> HIDE DEF ss, tt
    <3> QED BY <3>1, <2>4, <2>5, FreshWalk
  <2>7. GivenType'
    BY <2>1, <2>2 DEF GivenType, SnapshotType, RowType
  <2> QED BY <2>6, <2>7
<1>3. ASSUME NEW s \in Sessions, NEW token \in Generated, Decode(s, token) PROVE Goal
  <2>1. token \in Nat
    BY CudaSessionsAssumption
  <2>2. /\ walk' = Walk("rotate", "decode", FALSE, <<s>>, <<<<token>>>>, FALSE)
        /\ job' = NoJob /\ snapshot' = snapshot /\ context' = [context EXCEPT ![s] = Append(context[s], token)] /\ suspect' = suspect
    BY <1>3 DEF Decode, Starts, pageVars
  <2> DEFINE ss == <<s>>
             tt == <<<<token>>>>
  <2>3. walk' = Walk("rotate", "decode", FALSE, ss, tt, FALSE)
    BY <2>2
  <2>4. ss \in Seq(Sessions) /\ tt \in Seq(Seq(Nat)) /\ Len(ss) = 1 /\ Len(tt) = 1 /\ \A i \in 1..Len(ss) : Len(tt[i]) = 1
    BY <2>1
  <2>5. WalksType' /\ Control'
    <3>1. /\ Len(ss) \in {1, 2} /\ Len(tt) = Len(ss) /\ (Len(ss) = 2 => ss[1] # ss[2]) /\ FALSE \in BOOLEAN
          /\ "decode" \in {"prefill", "decode"} /\ "rotate" \in {"rotate", "load"} /\ job' = NoJob
      BY <2>2, <2>4
    <3> HIDE DEF ss, tt
    <3> QED BY <3>1, <2>3, <2>4, FreshWalk
  <2>6. Append(context[s], token) \in Seq(Nat)
    BY <2>1 DEF GivenType
  <2>7. GivenType'
    BY <2>2, <2>6 DEF GivenType, SnapshotType, RowType
  <2> QED BY <2>5, <2>7
<1>4. ASSUME NEW sessions \in Batches, NEW p \in Prompts, NEW q \in Prompts, PrefillBatch(sessions, <<p, q>>) PROVE Goal
  <2>1. PICK a \in Sessions, b \in Sessions : a # b /\ sessions = <<a, b>>
    BY BatchOf
  <2>2. /\ walk' = Walk("rotate", "prefill", TRUE, sessions, <<p, q>>, FALSE)
        /\ job' = NoJob /\ snapshot' = snapshot /\ suspect' = suspect \ ToSet(sessions)
        /\ context' = [s \in Sessions |-> IF s \in ToSet(sessions) THEN Given(sessions, <<p, q>>, s) ELSE context[s]]
    BY <1>4 DEF PrefillBatch, Starts
  <2>3. walk' = Walk("rotate", "prefill", TRUE, sessions, <<p, q>>, FALSE)
    BY <2>2
  <2>4. p \in Seq(Nat) /\ q \in Seq(Nat)
    BY CudaSessionsAssumption
  <2>5. /\ sessions \in Seq(Sessions) /\ <<p, q>> \in Seq(Seq(Nat)) /\ Len(sessions) = 2 /\ Len(<<p, q>>) = 2
        /\ sessions[1] # sessions[2]
    BY <2>1, <2>4
  <2>6. WalksType' /\ Control'
    BY <2>2, <2>3, <2>5, FreshWalk
  <2>7. ToSet(sessions) = {a, b} /\ Given(sessions, <<p, q>>, a) = p /\ Given(sessions, <<p, q>>, b) = q
    BY <2>1, GivenOf
  <2>8. \A s \in Sessions : (IF s \in ToSet(sessions) THEN Given(sessions, <<p, q>>, s) ELSE context[s]) \in Seq(Nat)
    BY <2>4, <2>7 DEF GivenType
  <2>9. GivenType'
    BY <2>2, <2>8 DEF GivenType, SnapshotType, RowType
  <2> QED BY <2>6, <2>9
<1>5. ASSUME NEW sessions \in Batches, NEW t \in Generated, NEW u \in Generated, DecodeBatch(sessions, <<t, u>>) PROVE Goal
  <2>1. PICK a \in Sessions, b \in Sessions : a # b /\ sessions = <<a, b>>
    BY BatchOf
  <2>2. /\ walk' = Walk("rotate", "decode", TRUE, sessions, [i \in DOMAIN <<t, u>> |-> <<<<t, u>>[i]>>], FALSE)
        /\ job' = NoJob /\ snapshot' = snapshot /\ suspect' = suspect
        /\ context' = [s \in Sessions |-> IF s \in ToSet(sessions) THEN Append(context[s], Given(sessions, <<t, u>>, s)) ELSE context[s]]
    BY <1>5 DEF DecodeBatch, Starts, pageVars
  <2>3. [i \in DOMAIN <<t, u>> |-> <<<<t, u>>[i]>>] = <<<<t>>, <<u>>>>
    OBVIOUS
  <2>4. walk' = Walk("rotate", "decode", TRUE, sessions, <<<<t>>, <<u>>>>, FALSE)
    BY <2>2, <2>3
  <2>5. t \in Nat /\ u \in Nat
    BY CudaSessionsAssumption
  <2>6. /\ sessions \in Seq(Sessions) /\ <<<<t>>, <<u>>>> \in Seq(Seq(Nat)) /\ Len(sessions) = 2 /\ Len(<<<<t>>, <<u>>>>) = 2
        /\ sessions[1] # sessions[2] /\ \A i \in 1..2 : Len(<<<<t>>, <<u>>>>[i]) = 1
    BY <2>1, <2>5
  <2>7. WalksType' /\ Control'
    BY <2>2, <2>4, <2>6, FreshWalk
  <2>8. ToSet(sessions) = {a, b} /\ Given(sessions, <<t, u>>, a) = t /\ Given(sessions, <<t, u>>, b) = u
    BY <2>1, GivenOf
  <2>9. \A s \in Sessions : (IF s \in ToSet(sessions) THEN Append(context[s], Given(sessions, <<t, u>>, s)) ELSE context[s]) \in Seq(Nat)
    BY <2>5, <2>8 DEF GivenType
  <2>10. GivenType'
    BY <2>2, <2>9 DEF GivenType, SnapshotType, RowType
  <2> QED BY <2>7, <2>10
<1>6. CASE LoadLayer
  <2>1. walk # NoWalk /\ walk.pc = "load" /\ job = NoJob /\ walk.layer \in Layers /\ snapshot' = snapshot
        /\ walk' = [walk EXCEPT !.layer = walk.layer + 1] /\ UNCHANGED <<context, suspect>>
    BY <1>6 DEF LoadLayer, At, NoWalk, WalkOnly
  <2>2. job'.session = Runner
    BY <1>6 DEF LoadLayer, BeginAppend
  <2>3. WalkStep("load", walk.layer + 1, walk.turn, walk.offsets, walk.views, walk.paged)
    BY <2>1, WalkFields
  <2>4. walk.layer + 1 \in 1..(NumLayers + 1)
    BY <1>0, <2>1 DEF Layers
  <2>5. Stands(walk) /\ Runner \in InWalk /\ walk.turn \in 1..Len(walk.sessions)
    BY <2>1, WalkSessions
  <2>6. walk.paged => walk.mode = "decode"
    BY <2>5 DEF Stands
  <2>7. walk.offsets \in Seq(Nat) /\ walk.views \in Seq(ViewType) /\ walk.paged \in BOOLEAN
    BY <2>1, WalkFields
  <2>8. WalksType' /\ Control'
    BY <2>1, <2>2, <2>3, <2>4, <2>5, <2>6, <2>7, StandsOn
  <2> QED BY <1>0, <2>1, <2>8
<1>7. CASE Loaded
  <2>1. walk # NoWalk /\ walk.pc = "load" /\ job = NoJob /\ snapshot' = snapshot /\ job' = NoJob
        /\ walk' = [walk EXCEPT !.pc = "rotate", !.layer = 1] /\ UNCHANGED <<context, suspect>>
    BY <1>7 DEF Loaded, At, NoWalk, WalkOnly, pageVars
  <2>2. WalkStep("rotate", 1, walk.turn, walk.offsets, walk.views, walk.paged)
    BY <2>1, WalkFields
  <2>3. 1 \in 1..(NumLayers + 1) /\ 1 # NumLayers + 1
    BY <1>0
  <2>4. Stands(walk) /\ walk.turn \in 1..Len(walk.sessions)
    BY <2>1, WalkSessions
  <2>5. walk.paged => walk.mode = "decode"
    BY <2>4 DEF Stands
  <2>6. walk.offsets \in Seq(Nat) /\ walk.views \in Seq(ViewType) /\ walk.paged \in BOOLEAN
    BY <2>1, WalkFields
  <2>7. WalksType' /\ Control'
    BY <2>1, <2>2, <2>3, <2>4, <2>5, <2>6, StandsOn
  <2> QED BY <1>0, <2>1, <2>7
<1>8. CASE Rotate
  <2> DEFINE fused == triton /\ walk.batch /\ walk.mode = "decode"
  <2>1. walk # NoWalk /\ walk.pc = "rotate" /\ job = NoJob /\ snapshot' = snapshot /\ job' = NoJob
        /\ walk' = [walk EXCEPT !.pc = "attend", !.offsets = Offsets, !.turn = 1, !.views = <<>>, !.paged = fused]
        /\ UNCHANGED <<context, suspect>>
    BY <1>8 DEF Rotate, At, NoWalk, WalkOnly, pageVars
  <2>2. WalkStep("attend", walk.layer, 1, Offsets, <<>>, fused)
    <3> HIDE DEF fused
    <3> QED BY <2>1, WalkFields
  <2>3. Stands(walk) /\ Len(walk.sessions) \in {1, 2}
    BY <2>1, WalkSessions
  <2>4. walk.layer \in 1..(NumLayers + 1) /\ walk.layer # NumLayers + 1 /\ walk.layer \in Layers /\ 1 \in 1..Len(walk.sessions)
    BY <1>0, <2>1, <2>3 DEF Stands, Layers
  <2>5. walk.sessions \in Seq(Sessions)
    BY <2>1, WalkFields
  <2>6. \A i \in 1..Len(walk.sessions) : PositionOffset(walk.sessions[i]) \in Nat
    <3> SUFFICES ASSUME NEW i \in 1..Len(walk.sessions) PROVE PositionOffset(walk.sessions[i]) \in Nat
      OBVIOUS
    <3>1. walk.sessions[i] \in Sessions
      BY <2>5
    <3>2. caches[walk.sessions[i]][walk.layer].rows \in Seq(RowType)
      BY <2>4, <3>1 DEF CachesType, CacheType
    <3>3. \A rows \in Seq(RowType) : Len(rows) \in Nat
      OBVIOUS
    <3> QED BY <3>2, <3>3 DEF PositionOffset
  <2>7. Offsets \in Seq(Nat) /\ Len(Offsets) = Len(walk.sessions)
    <3>1. DOMAIN walk.sessions = 1..Len(walk.sessions) /\ Len(walk.sessions) \in Nat
      BY <2>5
    <3>2. Offsets \in [1..Len(walk.sessions) -> Nat]
      BY <2>6, <3>1 DEF Offsets
    <3> QED BY <3>1, <3>2, SeqDef
  <2>8. fused \in BOOLEAN /\ (fused => walk.mode = "decode") /\ <<>> \in Seq(ViewType)
    OBVIOUS
  <2> HIDE DEF fused
  <2>9. WalksType' /\ Control'
    BY <2>1, <2>2, <2>4, <2>7, <2>8, StandsOn
  <2> QED BY <1>0, <2>1, <2>9
<1>9. CASE AppendRows
  <2>1. walk # NoWalk /\ walk.pc = "attend" /\ job = NoJob /\ snapshot' = snapshot
        /\ walk' = [walk EXCEPT !.pc = IF walk.paged THEN "view" ELSE "read"] /\ UNCHANGED <<context, suspect>>
    BY <1>9 DEF AppendRows, At, NoWalk, WalkOnly
  <2>2. job'.session = Session
    BY <1>9 DEF AppendRows, BeginAppend
  <2>3. WalkStep(IF walk.paged THEN "view" ELSE "read", walk.layer, walk.turn, walk.offsets, walk.views, walk.paged)
    BY <2>1, WalkFields
  <2>4. Stands(walk) /\ Session \in InWalk /\ walk.turn \in 1..Len(walk.sessions)
    BY <2>1, WalkSessions
  <2>5. walk.layer \in 1..(NumLayers + 1) /\ walk.layer # NumLayers + 1 /\ (walk.paged => walk.mode = "decode")
        /\ Len(walk.offsets) = Len(walk.sessions)
    BY <2>1, <2>4 DEF Stands
  <2>6. walk.offsets \in Seq(Nat) /\ walk.views \in Seq(ViewType) /\ walk.paged \in BOOLEAN
    BY <2>1, WalkFields
  <2>7. CASE walk.paged
    BY <1>0, <2>1, <2>2, <2>3, <2>4, <2>5, <2>6, <2>7, StandsOn
  <2>8. CASE ~walk.paged
    BY <1>0, <2>1, <2>2, <2>3, <2>4, <2>5, <2>6, <2>8, StandsOn
  <2> QED BY <2>7, <2>8
<1>10. CASE Append1
  <2>1. UNCHANGED <<walk, context, suspect, snapshot>>
    BY <1>10 DEF Append1, sessionVars
  <2>2. job' # NoJob => job # NoJob /\ job'.session = job.session
    <3>1. CASE ExtendPages
      <4>1. job \in JobType /\ job # NoJob
        BY <3>1, ExtendCases, ActiveJob
      <4>2. job'.session = job.session
        BY <3>1, <4>1, ExtendCases DEF JobType
      <4> QED BY <4>1, <4>2
    <3>2. CASE WritePage
      <4>1. job \in JobType /\ job # NoJob
        BY <3>2, WritePagePool, ActiveJob
      <4>2. job'.session = job.session
        BY <3>2, <4>1, WritePagePool DEF JobType
      <4> QED BY <4>1, <4>2
    <3>3. CASE EndAppend
      BY <3>3 DEF EndAppend
    <3> QED BY <1>10, <3>1, <3>2, <3>3 DEF Append1
  <2>3. WalksType'
    BY <2>1 DEF WalksType, WalkType, ViewType
  <2>4. Control'
    BY <2>1, <2>2 DEF Control, Stands, InWalk
  <2> QED BY <1>0, <2>1, <2>3, <2>4
<1>11. CASE Read
  <2>1. walk # NoWalk /\ walk.pc = "read" /\ job = NoJob /\ NextNode
    BY <1>11 DEF Read, At, NoWalk
  <2> QED BY <2>1, NextNodeControl
<1>12. CASE TakeView
  <2>1. walk # NoWalk /\ walk.pc = "view" /\ job = NoJob
    BY <1>12 DEF TakeView, At, NoWalk
  <2>2. CASE Fallback
    BY <2>1, <2>2, FallbackControl
  <2>3. CASE /\ HasView(Session, walk.layer)
             /\ walk' = [walk EXCEPT !.views = Append(@, PagedView(Session, walk.layer)),
                                     !.pc = IF walk.turn = Len(walk.sessions) THEN "kernel" ELSE "attend",
                                     !.turn = IF walk.turn = Len(walk.sessions) THEN @ ELSE @ + 1]
             /\ UNCHANGED pageVars /\ WalkOnly
    <3> DEFINE pc == IF walk.turn = Len(walk.sessions) THEN "kernel" ELSE "attend"
               turn == IF walk.turn = Len(walk.sessions) THEN walk.turn ELSE walk.turn + 1
               views == Append(walk.views, PagedView(Session, walk.layer))
    <3>1. Stands(walk) /\ Session \in Sessions /\ Len(walk.sessions) \in {1, 2} /\ walk.turn \in 1..Len(walk.sessions)
      BY <2>1, WalkSessions
    <3>2. walk.layer \in 1..(NumLayers + 1) /\ walk.layer # NumLayers + 1 /\ walk.layer \in Layers
          /\ (walk.paged => walk.mode = "decode") /\ walk.paged /\ Len(walk.offsets) = Len(walk.sessions)
      BY <1>0, <2>1, <3>1 DEF Stands, Layers
    <3>3. walk.offsets \in Seq(Nat) /\ walk.views \in Seq(ViewType) /\ walk.paged \in BOOLEAN
      BY <2>1, WalkFields
    <3>4. views \in Seq(ViewType)
      BY <2>3, <3>1, <3>2, <3>3, PagedViewType
    <3>5. pc \in {"attend", "kernel"} /\ (pc = "kernel" => turn = Len(walk.sessions)) /\ turn \in 1..Len(walk.sessions)
      BY <3>1
    <3>6. walk' = [walk EXCEPT !.views = views, !.pc = pc, !.turn = turn]
      BY <2>3
    <3>7. job' = NoJob /\ snapshot' = snapshot /\ UNCHANGED <<context, suspect>>
      BY <2>1, <2>3 DEF pageVars, WalkOnly
    <3> HIDE DEF pc, turn, views
    <3>8. WalkStep(pc, walk.layer, turn, walk.offsets, views, walk.paged)
      BY <2>1, <3>6, WalkFields
    <3>9. WalksType' /\ Control'
      BY <2>1, <3>2, <3>3, <3>4, <3>5, <3>7, <3>8, StandsOn
    <3> QED BY <1>0, <3>7, <3>9
  <2> QED BY <1>12, <2>2, <2>3 DEF TakeView
<1>13. CASE Kernel
  <2>1. walk # NoWalk /\ walk.pc = "kernel" /\ job = NoJob
    BY <1>13 DEF Kernel, At, NoWalk
  <2> QED BY <1>13, <2>1, NextNodeControl, FallbackControl DEF Kernel
<1>14. ASSUME Fault, walk' \in {walk, NoWalk}, job' = NoJob PROVE Goal
  <2>1. walk # NoWalk /\ suspect' = suspect \cup InWalk /\ UNCHANGED <<snapshot, context>>
    BY <1>14 DEF Fault
  <2>2. InWalk \subseteq Sessions
    BY <2>1, WalkSessions
  <2>3. GivenType'
    BY <2>1, <2>2 DEF GivenType, SnapshotType, RowType
  <2>4. CASE walk' = walk
    <3>1. WalksType'
      BY <2>4 DEF WalksType, WalkType, ViewType
    <3>2. Control'
      BY <1>14, <2>1, <2>4 DEF Control, Stands
    <3> QED BY <2>3, <3>1, <3>2
  <2>5. CASE walk' = NoWalk
    BY <1>14, <2>3, <2>5, NoWalkStands
  <2> QED BY <1>14, <2>4, <2>5
<1>15. CASE MemoryLimit
  <2>1. job' = NoJob /\ Fault /\ walk' \in {walk, NoWalk}
    BY <1>15 DEF MemoryLimit, At
  <2> QED BY <1>14, <2>1
<1>16. CASE OutOfMemory \/ LoadFails
  <2>1. job' = NoJob /\ Fault /\ walk' = NoWalk
    BY <1>16 DEF OutOfMemory, LoadFails
  <2> QED BY <1>14, <2>1
<1>17. CASE WriteRaises
  <2>1. job' = NoJob /\ walk' = NoWalk /\ suspect' = suspect \cup InWalk /\ UNCHANGED <<snapshot, context>> /\ job # NoJob
    BY <1>17, ActiveJob DEF WriteRaises
  <2>2. InWalk \subseteq Sessions
    BY <2>1, WalkSessions DEF Control
  <2>3. GivenType'
    BY <2>1, <2>2 DEF GivenType, SnapshotType, RowType
  <2> QED BY <2>1, <2>3, NoWalkStands
<1>18. CASE UNCHANGED vars
  <2>1. UNCHANGED <<walk, job, context, suspect, snapshot>>
    BY <1>18 DEF vars, pageVars, sessionVars
  <2>2. WalksType'
    BY <2>1 DEF WalksType, WalkType, ViewType
  <2>3. Control'
    BY <2>1 DEF Control, Stands, InWalk
  <2> QED BY <1>0, <2>1, <2>2, <2>3
<1> QED BY <1>1, <1>2, <1>3, <1>4, <1>5, <1>6, <1>7, <1>8, <1>9, <1>10, <1>11, <1>12, <1>13, <1>15, <1>16, <1>17, <1>18
        DEF Next

LEMMA TypesStay == ASSUME IInv, TypeInv, [Next]_vars PROVE TypeInv'
<1>1. Effects
  BY StepEffects
<1>2. CachesType' /\ PoolsShaped' /\ JobsType'
  BY <1>1, CachesTypeStays, PoolsShapedStays, JobsTypeStays
<1>3. WalksType' /\ GivenType' /\ Control'
  BY ControlStays
<1> QED BY <1>2, <1>3 DEF TypeInv

------------------------------------------------------------------------------
(***************************************************************************)
(* The markers.  MarkersExact is not inductive either: a marker that is    *)
(* released must be the only one of its page, the one the budget takes is  *)
(* the oldest only if the ids of the markers were handed out, and there is *)
(* one only if they are finitely many.                                     *)
(***************************************************************************)

MarkerType == [page : Nat, session : Sessions, layer : Layers, start : Nat, length : Nat]

MarkersInv ==
    /\ resident \subseteq MarkerType /\ IsFiniteSet(resident)
    /\ \A m \in resident : m.page < nextPage
    /\ \A m, n \in resident : m.page = n.page => m = n
    /\ MarkersExact

LEMMA InitMarkers == Init => MarkersInv
<1> SUFFICES ASSUME Init PROVE MarkersInv
  OBVIOUS
<1>1. resident = {} /\ spilled = {} /\ caches = [s \in Sessions |-> [l \in Layers |-> NoKV]]
  BY DEF Init, PagesInit
<1>2. \A s \in Sessions, l \in Layers : PagesOf(s, l) = {}
  BY <1>1 DEF PagesOf, NoKV
<1>3. Cardinality(resident) = 0 /\ IsFiniteSet(resident)
  BY <1>1, FS_EmptySet
<1> QED BY <1>1, <1>2, <1>3, CudaPagesAssumption DEF MarkersInv, MarkersExact

\* Markers stay exact when the page tables and they stay.
LEMMA SameMarkers ==
    ASSUME MarkersInv, nextPage' = nextPage, resident' = resident, spilled' = spilled,
           \A s \in Sessions, l \in Layers : PagesOf(s, l)' = PagesOf(s, l)
    PROVE  MarkersInv'
<1>1. MarkersExact'
  <2>1. \A m \in resident' : m.page \in PagesOf(m.session, m.layer)'
    <3>1. \A m \in resident : m.session \in Sessions /\ m.layer \in Layers /\ m.page \in PagesOf(m.session, m.layer)
      BY DEF MarkersInv, MarkersExact, MarkerType
    <3> QED BY <3>1
  <2> QED BY <2>1 DEF MarkersInv, MarkersExact
<1> QED BY <1>1 DEF MarkersInv, MarkerType

LEMMA SamePages ==
    ASSUME CachesType, NEW s \in Sessions, NEW l \in Layers, caches'[s][l].pages = caches[s][l].pages
    PROVE  PagesOf(s, l)' = PagesOf(s, l)
BY DEF PagesOf

LEMMA MarkersReleased ==
    ASSUME IInv, MarkersInv, NEW T \in SUBSET Sessions, GivenUp(T)
    PROVE  MarkersInv'
<1>1. /\ caches' = [s \in Sessions |-> IF s \in T THEN [l \in Layers |-> NoKV] ELSE caches[s]]
      /\ resident' = {m \in resident : m.session \notin T} /\ nextPage' = nextPage /\ spilled' = spilled
  BY DEF GivenUp
<1>2. ASSUME NEW s \in Sessions, NEW l \in Layers
      PROVE  PagesOf(s, l)' = IF s \in T THEN {} ELSE PagesOf(s, l)
  BY <1>1 DEF PagesOf, NoKV
<1>3. \A m \in resident : m \in MarkerType /\ m.session \in Sessions /\ m.layer \in Layers /\ m.page \in PagesOf(m.session, m.layer)
  BY DEF MarkersInv, MarkersExact, MarkerType
<1>4. \A m \in resident' : m \in resident /\ m.session \notin T
  BY <1>1
<1>5. \A m \in resident' : m.page \in PagesOf(m.session, m.layer)'
  BY <1>2, <1>3, <1>4
<1>6. ASSUME NEW s \in Sessions, NEW l \in Layers, NEW p \in PagesOf(s, l)'
      PROVE  p \in spilled' \cup {m.page : m \in resident'}
  <2>1. s \notin T /\ p \in PagesOf(s, l)
    BY <1>2, <1>6
  <2>2. CASE p \in spilled
    BY <1>1, <2>2
  <2>3. CASE p \notin spilled
    <3>1. PICK m \in resident : p = m.page
      BY <2>1, <2>3 DEF MarkersInv, MarkersExact
    <3>2. m.session = s
      <4>1. m.session \in Sessions /\ m.layer \in Layers /\ p \in PagesOf(m.session, m.layer)
        BY <1>3, <3>1
      <4>2. PICK i \in DOMAIN caches[s][l].pages : caches[s][l].pages[i].id = p
        BY <2>1 DEF PagesOf
      <4>3. PICK j \in DOMAIN caches[m.session][m.layer].pages : caches[m.session][m.layer].pages[j].id = p
        BY <4>1 DEF PagesOf
      <4> QED BY <4>1, <4>2, <4>3 DEF IInv, IdsApart
    <3> QED BY <1>1, <2>1, <3>1, <3>2
  <2> QED BY <2>2, <2>3
<1>7. resident' \subseteq resident /\ IsFiniteSet(resident') /\ Cardinality(resident') <= Cardinality(resident)
      /\ Cardinality(resident) \in Nat /\ Cardinality(resident') \in Nat
  BY <1>1, FS_Subset, FS_CardinalityType DEF MarkersInv
<1>8. Budget # NoLimit => Cardinality(resident') <= Budget
  BY <1>7, CudaPagesAssumption DEF MarkersInv, MarkersExact
<1>9. MarkersExact'
  BY <1>5, <1>6, <1>8 DEF MarkersExact
<1> QED BY <1>1, <1>7, <1>9 DEF MarkersInv, MarkerType

LEMMA OldestMarker ==
    ASSUME NEW S, S \subseteq MarkerType, S # {}
    PROVE  LET oldest == CHOOSE m \in S : \A n \in S : m.page <= n.page
           IN oldest \in S /\ \A n \in S : oldest.page <= n.page
<1> DEFINE ids == {m.page : m \in S}
<1>1. ids \subseteq Nat /\ ids # {}
  BY DEF MarkerType
<1>2. PICK i \in ids : \A j \in ids : i <= j
  <2> HIDE DEF ids
  <2> QED BY <1>1, LeastNat
<1>3. PICK m \in S : m.page = i
  BY <1>2
<1>4. \A n \in S : m.page <= n.page
  BY <1>2, <1>3
<1> QED BY <1>3, <1>4

LEMMA MarkersAllocated ==
    ASSUME IInv, TypeInv, MarkersInv, ExtendPages,
           Allocate(Take), caches' = [caches EXCEPT ![job.session][job.layer].pages = Append(@, NewPage(Take))]
    PROVE  MarkersInv'
<1> DEFINE marker == [page |-> nextPage, session |-> job.session, layer |-> job.layer,
                      start |-> job.cursor, length |-> Take]
           marked == resident \cup {marker}
           over == Budget # NoLimit /\ Cardinality(marked) > Budget
           oldest == CHOOSE m \in marked : \A n \in marked : m.page <= n.page
<1> USE DEF TypeInv
<1>1. /\ nextPage' = nextPage + 1
      /\ resident' = (IF over THEN marked \ {oldest} ELSE marked)
      /\ spilled' = (IF over THEN spilled \cup {oldest.page} ELSE spilled)
  BY DEF Allocate
<1>2. job # NoJob /\ job.session \in Sessions /\ job.layer \in Layers /\ job.cursor \in Nat /\ Take \in Nat /\ nextPage \in Nat
  BY ExtendCases, ActiveJob, TakeBounds DEF IInv
<1>3. marker \in MarkerType /\ marker.page = nextPage /\ marker.session = job.session /\ marker.layer = job.layer
  BY <1>2 DEF MarkerType
<1>4. marker \notin resident
  BY <1>2, <1>3 DEF MarkersInv, MarkerType
<1> HIDE DEF marker
<1>5. marked \subseteq MarkerType /\ marked # {}
  BY <1>3 DEF MarkersInv
<1>6. oldest \in marked /\ \A n \in marked : oldest.page <= n.page
  <2> HIDE DEF marked
  <2> QED BY <1>5, OldestMarker
<1>7. IsFiniteSet(marked) /\ Cardinality(marked) = Cardinality(resident) + 1 /\ Cardinality(resident) \in Nat
  BY <1>4, FS_AddElement, FS_CardinalityType DEF MarkersInv
<1>8. IsFiniteSet(marked \ {oldest}) /\ Cardinality(marked \ {oldest}) = Cardinality(marked) - 1
  <2> HIDE DEF marked, oldest
  <2> QED BY <1>6, <1>7, FS_RemoveElement
<1>9. ASSUME NEW s \in Sessions, NEW l \in Layers
      PROVE  PagesOf(s, l)' = IF s = job.session /\ l = job.layer THEN PagesOf(s, l) \cup {nextPage} ELSE PagesOf(s, l)
  <2>1. caches[s][l].pages \in Seq(PageType)
    BY DEF CachesType, CacheType
  <2>2. caches'[s][l].pages = IF s = job.session /\ l = job.layer THEN Append(caches[s][l].pages, NewPage(Take)) ELSE caches[s][l].pages
    BY <1>2 DEF CachesType, CacheType
  <2>3. CASE s = job.session /\ l = job.layer
    <3> DEFINE pages == caches[s][l].pages
               new == Append(pages, NewPage(Take))
    <3>1. /\ DOMAIN new = DOMAIN pages \cup {Len(pages) + 1} /\ Len(pages) + 1 \notin DOMAIN pages
          /\ new[Len(pages) + 1] = NewPage(Take) /\ \A i \in DOMAIN pages : new[i] = pages[i]
      BY <2>1, Appended
    <3>2. NewPage(Take).id = nextPage
      BY DEF NewPage
    <3> HIDE DEF new
    <3>3. {new[i].id : i \in DOMAIN new} = {pages[i].id : i \in DOMAIN pages} \cup {nextPage}
      BY <3>1, <3>2
    <3>4. caches'[s][l].pages = new
      BY <2>2, <2>3 DEF new
    <3> QED BY <2>3, <3>3, <3>4 DEF PagesOf
  <2>4. CASE ~(s = job.session /\ l = job.layer)
    <3>1. caches'[s][l].pages = caches[s][l].pages
      BY <2>2, <2>4
    <3> QED BY <2>4, <3>1, SamePages
  <2> QED BY <2>3, <2>4
<1>10. \A m \in marked : m.session \in Sessions /\ m.layer \in Layers /\ m.page \in PagesOf(m.session, m.layer)'
  <2> SUFFICES ASSUME NEW m \in marked PROVE m.session \in Sessions /\ m.layer \in Layers /\ m.page \in PagesOf(m.session, m.layer)'
    OBVIOUS
  <2>1. m.session \in Sessions /\ m.layer \in Layers
    BY <1>5 DEF MarkerType
  <2>2. CASE m = marker
    BY <1>2, <1>3, <1>9, <2>2
  <2>3. CASE m \in resident
    <3>1. m.page \in PagesOf(m.session, m.layer)
      BY <2>3 DEF MarkersInv, MarkersExact
    <3>2. PagesOf(m.session, m.layer) \subseteq PagesOf(m.session, m.layer)'
      BY <1>9, <2>1
    <3> QED BY <2>1, <3>1, <3>2
  <2> QED BY <2>2, <2>3
<1>11. \A s \in Sessions, l \in Layers : PagesOf(s, l)' \subseteq spilled \cup {m.page : m \in marked}
  <2> SUFFICES ASSUME NEW s \in Sessions, NEW l \in Layers, NEW p \in PagesOf(s, l)'
               PROVE  p \in spilled \cup {m.page : m \in marked}
    OBVIOUS
  <2>1. CASE p = nextPage
    BY <1>3, <2>1
  <2>2. CASE p \in PagesOf(s, l)
    BY <2>2 DEF MarkersInv, MarkersExact
  <2> QED BY <1>9, <2>1, <2>2
<1>12. \A m, n \in marked : (m.page = n.page => m = n) /\ m.page < nextPage + 1
  <2>1. \A m \in resident : m.page < nextPage /\ m.page \in Nat
    BY DEF MarkersInv, MarkerType
  <2> QED BY <1>2, <1>3, <2>1 DEF MarkersInv
<1>13. resident' \subseteq marked /\ IsFiniteSet(resident')
  BY <1>1, <1>7, <1>8
<1>14. \A m \in marked : m.page \in spilled' \/ m \in resident'
  BY <1>1
<1>15. spilled \subseteq spilled'
  BY <1>1
<1>16. Budget # NoLimit => Cardinality(resident') <= Budget
  <2>1. CASE over
    <3>1. Budget # NoLimit => Cardinality(resident) <= Budget
      BY DEF MarkersInv, MarkersExact
    <3> HIDE DEF marked, oldest
    <3> QED BY <1>1, <1>7, <1>8, <2>1, <3>1, CudaPagesAssumption
  <2>2. CASE ~over
    <3> HIDE DEF marked, oldest
    <3> QED BY <1>1, <1>7, <2>2, CudaPagesAssumption
  <2> QED BY <2>1, <2>2
<1> HIDE DEF marked, over, oldest
<1>17. MarkersExact'
  <2>1. \A m \in resident' : m.page \in PagesOf(m.session, m.layer)'
    BY <1>10, <1>13
  <2>2. \A s \in Sessions, l \in Layers : PagesOf(s, l)' \subseteq spilled' \cup {m.page : m \in resident'}
    BY <1>11, <1>14, <1>15
  <2> QED BY <1>16, <2>1, <2>2 DEF MarkersExact
<1> QED BY <1>1, <1>5, <1>12, <1>13, <1>17 DEF MarkersInv, MarkerType

LEMMA MarkersStay ==
    ASSUME IInv, TypeInv, MarkersInv, Effects
    PROVE  MarkersInv'
<1> USE DEF TypeInv
<1>1. CASE UNCHANGED pageVars
  BY <1>1, SameMarkers DEF pageVars, PagesOf
<1>2. ASSUME NEW T \in SUBSET Sessions, GivenUp(T) PROVE MarkersInv'
  BY <1>2, MarkersReleased
<1>3. ASSUME NEW s \in Sessions, NEW l \in Layers, NEW rows \in Seq(RowType), Begins(s, l, rows) PROVE MarkersInv'
  <2>1. caches' = [caches EXCEPT ![s][l].rows = @ \o rows] /\ nextPage' = nextPage /\ resident' = resident /\ spilled' = spilled
    BY <1>3 DEF Begins, BeginAppend, allocator
  <2>2. \A t \in Sessions, m \in Layers : caches'[t][m].pages = caches[t][m].pages
    BY <2>1 DEF CachesType, CacheType
  <2> QED BY <2>1, <2>2, SamePages, SameMarkers
<1>4. CASE ExtendPages
  <2>1. CASE Allocate(Take) /\ caches' = [caches EXCEPT ![job.session][job.layer].pages = Append(@, NewPage(Take))]
    BY <1>4, <2>1, MarkersAllocated
  <2>2. CASE /\ caches' = [caches EXCEPT ![job.session][job.layer].pages[Len(Cache.pages)].length = @ + Take]
             /\ UNCHANGED <<nextPage, resident, spilled>>
    <3>1. ASSUME NEW s \in Sessions, NEW l \in Layers PROVE PagesOf(s, l)' = PagesOf(s, l)
      <4> DEFINE old == caches[s][l].pages
                 new == [old EXCEPT ![Len(Cache.pages)].length = @ + Take]
      <4>1. caches'[s][l].pages = old \/ caches'[s][l].pages = new
        BY <2>2 DEF CachesType, CacheType
      <4>2. old \in Seq(PageType)
        BY DEF CachesType, CacheType
      <4>3. DOMAIN new = DOMAIN old /\ \A i \in DOMAIN old : new[i].id = old[i].id
        BY <4>2 DEF PageType
      <4> HIDE DEF new
      <4>4. CASE caches'[s][l].pages = new
        BY <4>3, <4>4 DEF PagesOf
      <4>5. CASE caches'[s][l].pages = old
        BY <4>5, SamePages
      <4> QED BY <4>1, <4>4, <4>5
    <3> QED BY <2>2, <3>1, SameMarkers
  <2> QED BY <1>4, <2>1, <2>2, ExtendCases
<1>5. CASE WritePage \/ EndAppend
  <2>1. UNCHANGED <<nextPage, resident, spilled, caches>>
    BY <1>5 DEF WritePage, EndAppend, allocator
  <2> QED BY <2>1, SameMarkers DEF PagesOf
<1> QED BY <1>1, <1>2, <1>3, <1>4, <1>5 DEF Effects

\* A clear of any session, in a walk or after a fault, takes exactly its
\* markers (release_owner), the budget takes the oldest one and no more are
\* left than it allows (allocate), for any number of sessions and any budget.
THEOREM MarkersExactHolds == Spec => []MarkersExact
<1>1. Init => IInv /\ TypeInv /\ MarkersInv
  BY InitIInv, InitTypes, InitMarkers
<1>2. IInv /\ TypeInv /\ MarkersInv /\ [Next]_vars => IInv' /\ TypeInv' /\ MarkersInv'
  BY Inductive, TypesStay, StepEffects, MarkersStay
<1>3. MarkersInv => MarkersExact
  BY DEF MarkersInv
<1> QED BY <1>1, <1>2, <1>3, PTL DEF Spec

------------------------------------------------------------------------------
(* Arithmetic of pages *)

LEMMA Multiples ==
    ASSUME NEW b \in Nat, NEW q \in Nat, NEW d \in Nat, q >= d + 1
    PROVE  b * q >= b * d + b
<1>1. PICK k \in Nat : q = d + 1 + k
  <2>1. q - d - 1 \in Nat /\ q = d + 1 + (q - d - 1)
    OBVIOUS
  <2> QED BY <2>1
<1>2. b * q = b * d + b + b * k /\ b * k \in Nat /\ b * d \in Nat
  BY <1>1
<1> QED BY <1>2

LEMMA Quotient ==
    ASSUME NEW a \in Nat, NEW b \in Nat \ {0}
    PROVE  a = b * (a \div b) + (a % b) /\ a \div b \in Nat /\ a % b \in 0..(b - 1)
OBVIOUS

LEMMA QuotientUnique ==
    ASSUME NEW b \in Nat \ {0}, NEW q \in Nat, NEW r \in 0..(b - 1), NEW d \in Nat, NEW e \in 0..(b - 1),
           b * q + r = b * d + e
    PROVE  q = d /\ r = e
<1>1. b * q \in Nat /\ b * d \in Nat
  OBVIOUS
<1>2. ~(q >= d + 1)
  <2>1. ASSUME q >= d + 1 PROVE b * q >= b * d + b
    BY <2>1, Multiples
  <2> QED BY <1>1, <2>1
<1>3. ~(d >= q + 1)
  <2>1. ASSUME d >= q + 1 PROVE b * d >= b * q + b
    BY <2>1, Multiples
  <2> QED BY <1>1, <2>1
<1>4. q = d
  BY <1>2, <1>3
<1> QED BY <1>1, <1>4

\* The pages of a table tile the positions below covered.
Tiles(pages, covered) ==
    /\ Len(pages) = 0 <=> covered = 0
    /\ \A i \in 1..Len(pages) :
         /\ pages[i].start = PageSize * (i - 1)
         /\ pages[i].length \in 1..PageSize
         /\ i < Len(pages) => pages[i].length = PageSize
         /\ i = Len(pages) => pages[i].start + pages[i].length = covered

LEMMA TileLength ==
    ASSUME NEW pages \in Seq(PageType), NEW covered \in Nat, Tiles(pages, covered), Len(pages) > 0
    PROVE  LET n == Len(pages)
               rest == pages[n].length
           IN /\ n \in Nat /\ rest \in 1..PageSize /\ covered = PageSize * (n - 1) + rest
              /\ covered % PageSize = 0 => rest = PageSize /\ covered = PageSize * n
              /\ covered % PageSize # 0 => rest = covered % PageSize
<1> DEFINE n == Len(pages)
           rest == pages[n].length
           d == covered \div PageSize
           e == covered % PageSize
<1>1. n \in Nat \ {0} /\ n \in 1..Len(pages) /\ PageSize \in Nat \ {0}
  BY CudaPagesAssumption
<1>2. rest \in 1..PageSize /\ covered = PageSize * (n - 1) + rest
  BY <1>1 DEF Tiles
<1> HIDE DEF rest, n
<1>3. covered = PageSize * d + e /\ d \in Nat /\ e \in 0..(PageSize - 1)
  BY <1>1, Quotient
<1> HIDE DEF d, e
<1>4. CASE rest < PageSize
  <2> DEFINE p == n - 1
  <2>1. rest \in 0..(PageSize - 1) /\ p \in Nat
    BY <1>1, <1>2, <1>4
  <2>2. PageSize * p + rest = PageSize * d + e
    BY <1>2, <1>3
  <2> HIDE DEF p
  <2>3. rest = e
    BY <1>1, <1>3, <2>1, <2>2, QuotientUnique
  <2> QED BY <1>1, <1>2, <1>4, <2>3 DEF rest, n, e
<1>5. CASE rest = PageSize
  <2>1. covered = PageSize * n + 0
    <3>1. PageSize * (n - 1) + PageSize = PageSize * n
      BY <1>1
    <3> QED BY <1>1, <1>2, <1>5, <3>1
  <2>2. PageSize * n + 0 = PageSize * d + e
    BY <1>3, <2>1
  <2>3. e = 0
    <3>1. 0 \in 0..(PageSize - 1)
      BY <1>1
    <3> QED BY <1>1, <1>3, <2>2, <3>1, QuotientUnique
  <2>4. covered = PageSize * n
    BY <1>1, <2>1
  <2> QED BY <1>1, <1>2, <1>5, <2>3, <2>4 DEF rest, n, e
<1> QED BY <1>1, <1>2, <1>4, <1>5

LEMMA TilesOneMore ==
    ASSUME NEW pages \in Seq(PageType), NEW covered \in Nat, Tiles(pages, covered), covered % PageSize = 0,
           NEW take \in 1..PageSize, NEW page \in PageType, page.start = covered, page.length = take
    PROVE  Tiles(Append(pages, page), covered + take)
<1> DEFINE n == Len(pages)
           new == Append(pages, page)
<1>1. n \in Nat /\ PageSize \in Nat \ {0}
  BY CudaPagesAssumption
<1>2. Len(new) = n + 1 /\ new[n + 1] = page /\ \A i \in 1..n : new[i] = pages[i]
  OBVIOUS
<1>3. covered = PageSize * n
  <2>1. CASE n = 0
    BY <1>1, <2>1 DEF Tiles
  <2>2. CASE n > 0
    BY <2>2, TileLength
  <2> QED BY <1>1, <2>1, <2>2
<1>4. \A i \in 1..n : pages[i].length = PageSize /\ pages[i].start = PageSize * (i - 1)
  <2> SUFFICES ASSUME NEW i \in 1..n PROVE pages[i].length = PageSize /\ pages[i].start = PageSize * (i - 1)
    OBVIOUS
  <2>1. CASE i < n
    BY <2>1 DEF Tiles
  <2>2. CASE i = n
    <3>1. n > 0
      BY <1>1, <2>2
    <3>2. pages[n].length = PageSize
      BY <3>1, TileLength
    <3> QED BY <2>2, <3>2 DEF Tiles
  <2> QED BY <1>1, <2>1, <2>2
<1> HIDE DEF new, n
<1>5. covered + take # 0 /\ n + 1 # 0
  BY <1>1
<1>6. ASSUME NEW i \in 1..(n + 1)
      PROVE  /\ new[i].start = PageSize * (i - 1)
             /\ new[i].length \in 1..PageSize
             /\ i < n + 1 => new[i].length = PageSize
             /\ i = n + 1 => new[i].start + new[i].length = covered + take
  <2>1. CASE i = n + 1
    <3>1. i - 1 = n
      BY <1>1, <2>1
    <3> QED BY <1>1, <1>2, <1>3, <2>1, <3>1
  <2>2. CASE i \in 1..n
    <3>1. PageSize \in 1..PageSize /\ i # n + 1
      BY <1>1, <2>2
    <3> QED BY <1>2, <1>4, <2>2, <3>1
  <2> QED BY <1>1, <2>1, <2>2
<1> QED BY <1>2, <1>5, <1>6 DEF Tiles, new

LEMMA TilesLonger ==
    ASSUME NEW pages \in Seq(PageType), NEW covered \in Nat, Tiles(pages, covered), covered % PageSize # 0,
           NEW take \in 1..(PageSize - (covered % PageSize))
    PROVE  /\ Tiles([pages EXCEPT ![Len(pages)].length = @ + take], covered + take)
           /\ Len(pages) > 0
<1> DEFINE n == Len(pages)
           new == [pages EXCEPT ![n].length = @ + take]
<1>1. n \in Nat /\ PageSize \in Nat \ {0} /\ covered % PageSize \in 0..(PageSize - 1)
  BY CudaPagesAssumption, Quotient
<1>2. n > 0
  <2>1. covered # 0
    <3>1. 0 % PageSize = 0
      BY <1>1
    <3> QED BY <3>1
  <2> QED BY <1>1, <2>1 DEF Tiles
<1>3. pages[n].length = covered % PageSize /\ pages[n].start + pages[n].length = covered /\ pages[n].start \in Nat
  <2>1. pages[n].length = covered % PageSize
    BY <1>2, TileLength
  <2>2. n \in 1..Len(pages)
    BY <1>1, <1>2
  <2>3. pages[n] \in PageType
    BY <2>2
  <2> QED BY <2>1, <2>2, <2>3 DEF Tiles, PageType
<1>4. Len(new) = n /\ DOMAIN new = 1..n
  OBVIOUS
<1>5. \A i \in 1..n : pages[i] \in PageType
  OBVIOUS
<1>6. \A i \in 1..n : i # n => new[i] = pages[i]
  OBVIOUS
<1>7. new[n].start = pages[n].start /\ new[n].length = pages[n].length + take
  <2>1. pages[n] \in PageType /\ n \in DOMAIN pages
    BY <1>1, <1>2, <1>5
  <2>2. new[n] = [pages[n] EXCEPT !.length = @ + take]
    BY <2>1
  <2> HIDE DEF new, n
  <2> QED BY <2>1, <2>2 DEF PageType
<1> HIDE DEF new
<1>8. ASSUME NEW i \in 1..n
      PROVE  /\ new[i].start = PageSize * (i - 1)
             /\ new[i].length \in 1..PageSize
             /\ i < n => new[i].length = PageSize
             /\ i = n => new[i].start + new[i].length = covered + take
  <2>1. CASE i = n
    <3>1. new[n].length \in 1..PageSize
      BY <1>1, <1>3, <1>7
    <3>2. new[n].start + new[n].length = covered + take
      <4>1. \A start, length, more \in Nat : start + (length + more) = (start + length) + more
        OBVIOUS
      <4>2. pages[n].start \in Nat /\ pages[n].length \in Nat /\ take \in Nat
        BY <1>1, <1>3
      <4>3. pages[n].start + (pages[n].length + take) = (pages[n].start + pages[n].length) + take
        BY <4>1, <4>2
      <4> QED BY <1>3, <1>7, <4>3
    <3>3. new[n].start = PageSize * (n - 1)
      BY <1>7, <2>1 DEF Tiles
    <3> QED BY <2>1, <3>1, <3>2, <3>3
  <2>2. CASE i # n
    BY <1>6, <2>2 DEF Tiles
  <2> QED BY <2>1, <2>2
<1>9. covered + take # 0 /\ n # 0
  BY <1>1, <1>2
<1>10. Tiles(new, covered + take)
  BY <1>4, <1>8, <1>9 DEF Tiles
<1> QED BY <1>2, <1>10 DEF new

\* The page of a position, and the place in it.
LEMMA TileOf ==
    ASSUME NEW pages \in Seq(PageType), NEW covered \in Nat, Tiles(pages, covered), NEW n \in 1..covered
    PROVE  LET i == ((n - 1) \div PageSize) + 1
               k == ((n - 1) % PageSize) + 1
           IN /\ i \in 1..Len(pages) /\ k \in 1..pages[i].length
              /\ pages[i].start + k = n /\ pages[i].start \in Nat
              /\ covered <= PageSize * Len(pages)
<1> DEFINE d == (n - 1) \div PageSize
           r == (n - 1) % PageSize
           m == Len(pages)
<1>1. PageSize \in Nat \ {0} /\ n - 1 \in Nat /\ m \in Nat
  BY CudaPagesAssumption
<1>2. n - 1 = PageSize * d + r /\ d \in Nat /\ r \in 0..(PageSize - 1)
  <2> HIDE DEF d, r
  <2>1. n - 1 = PageSize * ((n - 1) \div PageSize) + ((n - 1) % PageSize) /\ (n - 1) \div PageSize \in Nat
        /\ (n - 1) % PageSize \in 0..(PageSize - 1)
    BY <1>1, Quotient
  <2> QED BY <2>1 DEF d, r
<1>3. m > 0
  BY <1>1 DEF Tiles
<1>4. covered = PageSize * (m - 1) + pages[m].length /\ pages[m].length \in 1..PageSize
  BY <1>3, TileLength
<1> HIDE DEF d, r
<1>5. d <= m - 1
  <2> SUFFICES ASSUME d >= m PROVE FALSE
    BY <1>1, <1>2, <1>3
  <2>1. d >= (m - 1) + 1 /\ m - 1 \in Nat
    BY <1>1, <1>3
  <2>2. PageSize * d >= PageSize * (m - 1) + PageSize
    BY <1>1, <1>2, <2>1, Multiples
  <2>3. PageSize * d \in Nat /\ PageSize * (m - 1) \in Nat
    BY <1>1, <1>2, <2>1
  <2> HIDE DEF m
  <2> QED BY <1>1, <1>2, <1>4, <2>2, <2>3
<1>6. d + 1 \in 1..m
  BY <1>1, <1>2, <1>5
<1>7. pages[d + 1].start = PageSize * d
  <2>1. (d + 1) - 1 = d
    BY <1>2
  <2> QED BY <1>6, <2>1 DEF Tiles
<1>8. r + 1 \in 1..pages[d + 1].length
  <2>1. CASE d + 1 < m
    <3>1. pages[d + 1].length = PageSize
      BY <1>6, <2>1 DEF Tiles
    <3> QED BY <1>1, <1>2, <3>1
  <2>2. CASE d + 1 = m
    <3>1. d = m - 1
      BY <1>1, <1>2, <2>2
    <3>2. covered = PageSize * d + pages[m].length /\ PageSize * d \in Nat
      BY <1>1, <1>2, <1>4, <3>1
    <3> HIDE DEF m
    <3> QED BY <1>1, <1>2, <1>4, <2>2, <3>2
  <2> QED BY <1>1, <1>6, <2>1, <2>2
<1>9. pages[d + 1].start + (r + 1) = n /\ pages[d + 1].start \in Nat
  <2>1. PageSize * d \in Nat
    BY <1>1, <1>2
  <2> QED BY <1>1, <1>2, <1>7, <2>1
<1>10. covered <= PageSize * m
  <2>1. PageSize * (m - 1) + PageSize = PageSize * m /\ PageSize * (m - 1) \in Nat
    BY <1>1, <1>3
  <2> HIDE DEF m
  <2> QED BY <1>1, <1>4, <2>1
<1> QED BY <1>6, <1>8, <1>9, <1>10 DEF d, r

------------------------------------------------------------------------------
(* The page tables *)

\* The tokens of a layer that have their pages by now.
Covered(s, l) == IF Busy(s, l) /\ job.pc = "extend" THEN job.cursor ELSE Len(caches[s][l].rows)

\* An append has the tokens from its cursor to the end of the array before it.
JobInv ==
    job # NoJob =>
        /\ job.start <= job.cursor /\ job.cursor + job.remaining = Len(Cache.rows)
        /\ job.pc = "extend" => job.remaining > 0 /\ job.page = 0
        /\ job.pc = "write" => job.remaining = 0

\* The pages of a layer tile its rows, also those of a session in doubt.
PagesInv == JobInv /\ \A s \in Sessions, l \in Layers : Tiles(caches[s][l].pages, Covered(s, l))

LEMMA InitPages == Init => PagesInv
<1> SUFFICES ASSUME Init PROVE PagesInv
  OBVIOUS
<1>1. job = NoJob /\ caches = [s \in Sessions |-> [l \in Layers |-> NoKV]]
  BY DEF Init, PagesInit
<1>2. ASSUME NEW s \in Sessions, NEW l \in Layers PROVE Tiles(caches[s][l].pages, Covered(s, l))
  <2>1. caches[s][l].pages = <<>> /\ Covered(s, l) = 0
    BY <1>1 DEF Covered, Busy, NoKV
  <2> QED BY <2>1 DEF Tiles
<1> QED BY <1>1, <1>2 DEF PagesInv, JobInv

LEMMA CacheTypes ==
    ASSUME CachesType, NEW s \in Sessions, NEW l \in Layers
    PROVE  /\ caches[s][l] \in CacheType /\ caches[s][l].rows \in Seq(RowType) /\ caches[s][l].pages \in Seq(PageType)
           /\ Len(caches[s][l].rows) \in Nat /\ Len(caches[s][l].pages) \in Nat
           /\ DOMAIN caches[s][l].pages = 1..Len(caches[s][l].pages)
<1>1. caches[s][l] \in CacheType
  BY DEF CachesType
<1>2. caches[s][l].rows \in Seq(RowType) /\ caches[s][l].pages \in Seq(PageType)
  BY <1>1 DEF CacheType
<1> QED BY <1>1, <1>2

\* A step that touches no pages of a layer and covers what was covered.
LEMMA SameTiles ==
    ASSUME PagesInv, NEW s \in Sessions, NEW l \in Layers,
           caches'[s][l].pages = caches[s][l].pages, Covered(s, l)' = Covered(s, l)
    PROVE  Tiles(caches[s][l].pages, Covered(s, l))'
<1>1. Tiles(caches[s][l].pages, Covered(s, l))
  BY DEF PagesInv
<1> DEFINE pages == caches[s][l].pages
           covered == Covered(s, l)
<1>2. Tiles(pages, covered)
  BY <1>1
<1>3. Tiles(caches'[s][l].pages, Covered(s, l)')
  BY <1>1
<1> QED BY <1>3 DEF Tiles

LEMMA BeginGives ==
    ASSUME CachesType, NEW s \in Sessions, NEW l \in Layers, NEW rows \in Seq(RowType), Begins(s, l, rows)
    PROVE  /\ job = NoJob /\ job' # NoJob /\ job'.session = s /\ job'.layer = l /\ job'.page = 0 /\ job'.remaining = Len(rows)
           /\ job'.start = Len(caches[s][l].rows) /\ job'.cursor = Len(caches[s][l].rows)
           /\ job'.pc = IF rows = <<>> THEN "write" ELSE "extend"
           /\ \A t \in Sessions, m \in Layers :
                /\ caches'[t][m].pages = caches[t][m].pages
                /\ caches'[t][m].rows = IF t = s /\ m = l THEN caches[t][m].rows \o rows ELSE caches[t][m].rows
           /\ UNCHANGED <<nextPage, resident, spilled, pools, suspect>>
<1>1. job' = [pc |-> IF rows = <<>> THEN "write" ELSE "extend", session |-> s, layer |-> l,
              start |-> Len(caches[s][l].rows), cursor |-> Len(caches[s][l].rows), remaining |-> Len(rows), page |-> 0]
  BY DEF Begins, BeginAppend
<1>2. job = NoJob /\ UNCHANGED <<nextPage, resident, spilled, pools, suspect>>
  BY DEF Begins, BeginAppend, allocator
<1>3. caches' = [caches EXCEPT ![s][l].rows = @ \o rows]
  BY DEF Begins, BeginAppend
<1>4. ASSUME NEW t \in Sessions, NEW m \in Layers
      PROVE  /\ caches'[t][m].pages = caches[t][m].pages
             /\ caches'[t][m].rows = IF t = s /\ m = l THEN caches[t][m].rows \o rows ELSE caches[t][m].rows
  BY <1>3 DEF CachesType, CacheType
<1>5. job' # NoJob
  BY <1>1 DEF NoJob
<1> QED BY <1>1, <1>2, <1>4, <1>5

LEMMA BeginPages ==
    ASSUME TypeInv, PagesInv, NEW s \in Sessions, NEW l \in Layers, NEW rows \in Seq(RowType), Begins(s, l, rows)
    PROVE  PagesInv'
<1> USE DEF TypeInv
<1>1. /\ job = NoJob /\ job' # NoJob /\ job'.session = s /\ job'.layer = l /\ job'.page = 0 /\ job'.remaining = Len(rows)
      /\ job'.start = Len(caches[s][l].rows) /\ job'.cursor = Len(caches[s][l].rows)
      /\ job'.pc = IF rows = <<>> THEN "write" ELSE "extend"
  BY BeginGives
<1>2. \A t \in Sessions, m \in Layers :
          /\ caches'[t][m].pages = caches[t][m].pages
          /\ caches'[t][m].rows = IF t = s /\ m = l THEN caches[t][m].rows \o rows ELSE caches[t][m].rows
  BY BeginGives
<1>3. Len(caches[s][l].rows) \in Nat /\ Len(rows) \in Nat /\ Len(caches[s][l].rows \o rows) = Len(caches[s][l].rows) + Len(rows)
      /\ (rows # <<>> => Len(rows) > 0) /\ (rows = <<>> => Len(rows) = 0)
  BY CacheTypes
<1>4. JobInv'
  <2>1. Cache'.rows = caches[s][l].rows \o rows
    BY <1>1, <1>2 DEF Cache
  <2> QED BY <1>1, <1>3, <2>1 DEF JobInv
<1>5. ASSUME NEW t \in Sessions, NEW m \in Layers PROVE Tiles(caches[t][m].pages, Covered(t, m))'
  <2>1. Covered(t, m) = Len(caches[t][m].rows)
    BY <1>1 DEF Covered, Busy
  <2>2. CASE t = s /\ m = l
    <3>1. Covered(t, m)' = IF rows # <<>> THEN Len(caches[s][l].rows) ELSE Len(caches[s][l].rows \o rows)
      BY <1>1, <1>2, <2>2 DEF Covered, Busy
    <3>2. Covered(t, m)' = Covered(t, m)
      BY <1>3, <2>1, <2>2, <3>1
    <3> QED BY <1>2, <3>2, SameTiles
  <2>3. CASE ~(t = s /\ m = l)
    <3>1. Covered(t, m)' = Len(caches[t][m].rows)
      BY <1>1, <1>2, <2>3 DEF Covered, Busy
    <3> QED BY <1>2, <2>1, <3>1, SameTiles
  <2> QED BY <2>2, <2>3
<1> QED BY <1>4, <1>5 DEF PagesInv

\* A pass of _extend_pages: the fields of the append, and the table.
LEMMA ExtendGives ==
    ASSUME IInv, TypeInv, PagesInv, ExtendPages
    PROVE  /\ job # NoJob /\ job' # NoJob /\ job.pc = "extend" /\ job.session \in Sessions /\ job.layer \in Layers
           /\ job'.session = job.session /\ job'.layer = job.layer /\ job'.start = job.start /\ job'.page = 0 /\ job.page = 0
           /\ job'.cursor = job.cursor + Take /\ job'.remaining = job.remaining - Take
           /\ job'.pc = IF job.remaining = Take THEN "write" ELSE "extend"
           /\ Take \in 1..job.remaining /\ Take <= PageSize - (job.cursor % PageSize)
           /\ job.cursor \in Nat /\ job.start \in Nat /\ job.start <= job.cursor /\ job.remaining \in Nat
           /\ job.cursor + job.remaining = Len(caches[job.session][job.layer].rows)
           /\ pools' = pools
           /\ \A t \in Sessions, m \in Layers :
                /\ caches'[t][m].rows = caches[t][m].rows
                /\ ~(t = job.session /\ m = job.layer) => caches'[t][m].pages = caches[t][m].pages
           /\ LET pages == caches[job.session][job.layer].pages
                  new == caches'[job.session][job.layer].pages
              IN \/ job.cursor % PageSize = 0 /\ new = Append(pages, NewPage(Take))
                 \/ job.cursor % PageSize # 0 /\ new = [pages EXCEPT ![Len(pages)].length = @ + Take]
<1> USE DEF TypeInv
<1>1. /\ job.pc = "extend" /\ job # NoJob /\ pools' = pools
      /\ job' = [job EXCEPT !.cursor = @ + Take, !.remaining = @ - Take,
                            !.pc = IF job.remaining = Take THEN "write" ELSE "extend"]
  BY ExtendCases
<1>2. job \in JobType /\ job.session \in Sessions /\ job.layer \in Layers /\ job.cursor \in Nat /\ job.start \in Nat /\ job.remaining \in Nat
  BY <1>1, ActiveJob
<1>3. /\ job' # NoJob /\ job'.session = job.session /\ job'.layer = job.layer /\ job'.start = job.start /\ job'.page = job.page
      /\ job'.cursor = job.cursor + Take /\ job'.remaining = job.remaining - Take
      /\ job'.pc = IF job.remaining = Take THEN "write" ELSE "extend"
  BY <1>1, <1>2 DEF JobType, NoJob
<1>4. /\ job.page = 0 /\ job.remaining > 0 /\ job.start <= job.cursor
      /\ job.cursor + job.remaining = Len(caches[job.session][job.layer].rows)
  BY <1>1 DEF PagesInv, JobInv, Cache
<1>5. Take \in 1..job.remaining /\ Take <= PageSize - (job.cursor % PageSize)
  <2>1. Take \in Nat /\ Take <= job.remaining /\ Take > 0 /\ Take <= PageSize - (job.cursor % PageSize)
    BY <1>1, <1>4, TakeBounds
  <2> QED BY <1>2, <2>1
<1> DEFINE pages == caches[job.session][job.layer].pages
           longer == [pages EXCEPT ![Len(pages)].length = @ + Take]
<1>6. /\ \A t \in Sessions, m \in Layers :
           /\ caches'[t][m].rows = caches[t][m].rows
           /\ ~(t = job.session /\ m = job.layer) => caches'[t][m].pages = caches[t][m].pages
      /\ \/ job.cursor % PageSize = 0 /\ caches'[job.session][job.layer].pages = Append(pages, NewPage(Take))
         \/ job.cursor % PageSize # 0 /\ caches'[job.session][job.layer].pages = longer
  <2>1. CASE /\ job.cursor % PageSize = 0
             /\ caches' = [caches EXCEPT ![job.session][job.layer].pages = Append(@, NewPage(Take))]
    <3> DEFINE new == Append(pages, NewPage(Take))
    <3>1. caches' = [caches EXCEPT ![job.session][job.layer].pages = new]
      BY <2>1
    <3> HIDE DEF new
    <3>2. \A t \in Sessions, m \in Layers :
            /\ caches'[t][m].rows = caches[t][m].rows
            /\ caches'[t][m].pages = IF t = job.session /\ m = job.layer THEN new ELSE caches[t][m].pages
      BY <1>2, <3>1 DEF CachesType, CacheType
    <3>3. caches'[job.session][job.layer].pages = new
      BY <1>2, <3>2
    <3> QED BY <2>1, <3>2, <3>3 DEF new
  <2>2. CASE /\ job.cursor % PageSize # 0
             /\ caches' = [caches EXCEPT ![job.session][job.layer].pages[Len(Cache.pages)].length = @ + Take]
    <3>1. Len(Cache.pages) = Len(pages)
      BY DEF Cache
    <3>2. caches' = [caches EXCEPT ![job.session][job.layer].pages[Len(pages)].length = @ + Take]
      BY <2>2, <3>1
    <3> HIDE DEF longer
    <3>3. caches' = [caches EXCEPT ![job.session][job.layer].pages = longer]
      BY <3>2 DEF longer
    <3>4. \A t \in Sessions, m \in Layers :
            /\ caches'[t][m].rows = caches[t][m].rows
            /\ caches'[t][m].pages = IF t = job.session /\ m = job.layer THEN longer ELSE caches[t][m].pages
      BY <1>2, <3>3 DEF CachesType, CacheType
    <3>5. caches'[job.session][job.layer].pages = longer
      BY <1>2, <3>4
    <3>6. job.cursor % PageSize # 0
      BY <2>2
    <3> QED BY <3>4, <3>5, <3>6
  <2> QED BY <2>1, <2>2, ExtendCases
<1> QED BY <1>1, <1>2, <1>3, <1>4, <1>5, <1>6

LEMMA ExtendTiles ==
    ASSUME IInv, TypeInv, PagesInv, ExtendPages
    PROVE  PagesInv'
<1> USE DEF TypeInv
<1> DEFINE s == job.session
           l == job.layer
           pages == caches[s][l].pages
           cursor == job.cursor
<1>1. /\ job # NoJob /\ job' # NoJob /\ job.pc = "extend" /\ s \in Sessions /\ l \in Layers
      /\ job'.session = s /\ job'.layer = l /\ job'.start = job.start /\ job'.page = 0
      /\ job'.cursor = cursor + Take /\ job'.remaining = job.remaining - Take
      /\ job'.pc = IF job.remaining = Take THEN "write" ELSE "extend"
      /\ Take \in 1..job.remaining /\ Take <= PageSize - (cursor % PageSize)
      /\ cursor \in Nat /\ job.start \in Nat /\ job.start <= cursor /\ job.remaining \in Nat
      /\ cursor + job.remaining = Len(caches[s][l].rows)
  BY ExtendGives
<1>2. \A t \in Sessions, m \in Layers :
          /\ caches'[t][m].rows = caches[t][m].rows
          /\ ~(t = s /\ m = l) => caches'[t][m].pages = caches[t][m].pages
  BY ExtendGives
<1>3. \/ cursor % PageSize = 0 /\ caches'[s][l].pages = Append(pages, NewPage(Take))
      \/ cursor % PageSize # 0 /\ caches'[s][l].pages = [pages EXCEPT ![Len(pages)].length = @ + Take]
  BY ExtendGives
<1>4. pages \in Seq(PageType) /\ Tiles(pages, cursor)
  <2>1. Covered(s, l) = cursor
    BY <1>1 DEF Covered, Busy
  <2> QED BY <1>1, <2>1, CacheTypes DEF PagesInv
<1>5. nextPage \in Nat
  BY DEF IInv
<1>6. PageSize \in Nat \ {0} /\ cursor % PageSize \in 0..(PageSize - 1)
  BY <1>1, Quotient, CudaPagesAssumption
<1> HIDE DEF s, l, pages, cursor
<1>7. Tiles(caches'[s][l].pages, cursor + Take)
  <2>1. CASE cursor % PageSize = 0 /\ caches'[s][l].pages = Append(pages, NewPage(Take))
    <3>1. NewPage(Take) = [id |-> nextPage, start |-> cursor, length |-> Take]
      BY DEF NewPage, cursor
    <3>2. Take \in Nat /\ Take \in 1..PageSize
      BY <1>1, <1>6, <2>1
    <3>3. NewPage(Take) \in PageType /\ NewPage(Take).start = cursor /\ NewPage(Take).length = Take
      BY <1>1, <1>5, <3>1, <3>2 DEF PageType
    <3> QED BY <1>1, <1>4, <2>1, <3>2, <3>3, TilesOneMore
  <2>2. CASE cursor % PageSize # 0 /\ caches'[s][l].pages = [pages EXCEPT ![Len(pages)].length = @ + Take]
    <3>1. Take \in 1..(PageSize - (cursor % PageSize))
      BY <1>1, <1>6
    <3> QED BY <1>1, <1>4, <2>2, <3>1, TilesLonger
  <2> QED BY <1>3, <2>1, <2>2
<1>8. JobInv'
  <2>1. Cache'.rows = caches[s][l].rows
    BY <1>1, <1>2 DEF Cache
  <2>2. cursor + Take + (job.remaining - Take) = Len(caches[s][l].rows) /\ job.start <= cursor + Take
    <3>1. /\ Take \in Nat /\ cursor \in Nat /\ job.remaining \in Nat /\ job.start \in Nat /\ job.start <= cursor
          /\ cursor + job.remaining = Len(caches[s][l].rows)
      BY <1>1
    <3>2. cursor + Take + (job.remaining - Take) = cursor + job.remaining
      BY <3>1
    <3> QED BY <3>1, <3>2
  <2>3. job.remaining # Take => job.remaining - Take > 0
    BY <1>1
  <2>4. job.remaining = Take => job.remaining - Take = 0
    BY <1>1
  <2> QED BY <1>1, <2>1, <2>2, <2>3, <2>4 DEF JobInv
<1>9. ASSUME NEW t \in Sessions, NEW m \in Layers PROVE Tiles(caches[t][m].pages, Covered(t, m))'
  <2>1. CASE t = s /\ m = l
    <3>1. Covered(t, m)' = cursor + Take
      <4>1. CASE job.remaining = Take
        <5>1. Covered(t, m)' = Len(caches'[s][l].rows)
          BY <1>1, <2>1, <4>1 DEF Covered, Busy
        <5> QED BY <1>1, <1>2, <4>1, <5>1
      <4>2. CASE job.remaining # Take
        BY <1>1, <2>1, <4>2 DEF Covered, Busy
      <4> QED BY <4>1, <4>2
    <3>2. Tiles(caches'[t][m].pages, Covered(t, m)')
      BY <1>7, <2>1, <3>1
    <3> QED BY <3>2 DEF Tiles
  <2>2. CASE ~(t = s /\ m = l)
    <3>1. Covered(t, m) = Len(caches[t][m].rows)
      BY <2>2 DEF Covered, Busy, s, l
    <3>2. Covered(t, m)' = Len(caches[t][m].rows)
      BY <1>1, <1>2, <2>2 DEF Covered, Busy
    <3> QED BY <1>2, <2>2, <3>1, <3>2, SameTiles
  <2> QED BY <2>1, <2>2
<1> QED BY <1>8, <1>9 DEF PagesInv

LEMMA PagesStay ==
    ASSUME IInv, TypeInv, PagesInv, Effects
    PROVE  PagesInv'
<1> USE DEF TypeInv
<1>1. CASE UNCHANGED pageVars
  <2>1. job' = job /\ caches' = caches
    BY <1>1 DEF pageVars
  <2>2. \A s \in Sessions, l \in Layers : Covered(s, l)' = Covered(s, l)
    BY <2>1 DEF Covered, Busy
  <2>3. JobInv'
    BY <2>1 DEF PagesInv, JobInv, Cache
  <2>4. ASSUME NEW s \in Sessions, NEW l \in Layers PROVE Tiles(caches[s][l].pages, Covered(s, l))'
    BY <2>1, <2>2, SameTiles
  <2> QED BY <2>3, <2>4 DEF PagesInv
<1>2. ASSUME NEW T \in SUBSET Sessions, GivenUp(T) PROVE PagesInv'
  <2>1. /\ job.pc # "extend" /\ job' = NoJob
        /\ caches' = [s \in Sessions |-> IF s \in T THEN [l \in Layers |-> NoKV] ELSE caches[s]]
    BY <1>2 DEF GivenUp
  <2>2. ASSUME NEW s \in Sessions, NEW l \in Layers PROVE Tiles(caches[s][l].pages, Covered(s, l))'
    <3>1. Covered(s, l)' = Len(caches'[s][l].rows) /\ Covered(s, l) = Len(caches[s][l].rows)
      BY <2>1 DEF Covered, Busy
    <3>2. CASE s \in T
      <4>1. caches'[s][l].rows = <<>> /\ caches'[s][l].pages = <<>>
        BY <2>1, <3>2 DEF NoKV
      <4> QED BY <3>1, <4>1 DEF Tiles
    <3>3. CASE s \notin T
      <4>1. caches'[s][l] = caches[s][l]
        BY <2>1, <3>3
      <4> QED BY <3>1, <4>1, SameTiles
    <3> QED BY <3>2, <3>3
  <2>3. JobInv'
    BY <2>1 DEF JobInv
  <2> QED BY <2>2, <2>3 DEF PagesInv
<1>3. ASSUME NEW s \in Sessions, NEW l \in Layers, NEW rows \in Seq(RowType), Begins(s, l, rows) PROVE PagesInv'
  BY <1>3, BeginPages
<1>4. CASE ExtendPages
  BY <1>4, ExtendTiles
<1>5. CASE WritePage \/ EndAppend
  <2>1. /\ job # NoJob /\ job.pc = "write" /\ caches' = caches
        /\ job' = NoJob \/ job' = [job EXCEPT !.page = Min(Pending)]
    BY <1>5, ActiveJob DEF WritePage, EndAppend
  <2>2. job \in JobType
    BY <2>1, ActiveJob
  <2>3. job' # NoJob => /\ job'.pc = "write" /\ job'.session = job.session /\ job'.layer = job.layer
                        /\ job'.start = job.start /\ job'.cursor = job.cursor /\ job'.remaining = job.remaining
    BY <2>1, <2>2 DEF JobType
  <2>4. ASSUME NEW s \in Sessions, NEW l \in Layers PROVE Tiles(caches[s][l].pages, Covered(s, l))'
    <3>1. Covered(s, l)' = Len(caches[s][l].rows) /\ Covered(s, l) = Len(caches[s][l].rows)
      BY <2>1, <2>3 DEF Covered, Busy
    <3> QED BY <2>1, <3>1, SameTiles
  <2>5. JobInv'
    <3>1. job' # NoJob => Cache'.rows = Cache.rows
      BY <2>1, <2>3 DEF Cache
    <3> QED BY <2>1, <2>3, <3>1 DEF PagesInv, JobInv
  <2> QED BY <2>4, <2>5 DEF PagesInv
<1> QED BY <1>1, <1>2, <1>3, <1>4, <1>5 DEF Effects
=============================================================================
