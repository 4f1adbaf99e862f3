-------------------------- MODULE CudaSessionsProofs --------------------------
(***************************************************************************)
(* What CUDA sessions attend to: between appends the pool holds what the   *)
(* arrays hold (PoolHoldsContext), and every query of every walk sees its  *)
(* context (AttendsContext).  On top of the layers of CudaPagesProofs:     *)
(*   WrittenInv  a page that is not waiting to be copied is in its slot;   *)
(*   ContentInv  the rows and positions a walk has given its sessions;     *)
(*   ViewsInv    the views a batch has taken are those of its page tables. *)
(***************************************************************************)
EXTENDS CudaPagesProofs

------------------------------------------------------------------------------
(***************************************************************************)
(* The pools.  PoolHoldsContext speaks of a session between its appends;   *)
(* what is kept in an append is that each page is in its slot but those    *)
(* the append has yet to copy.  What the other sessions copy meanwhile     *)
(* goes to slots of their own (SlotsExclusive).                            *)
(***************************************************************************)

\* Page i of a layer is not waiting to be copied.
Settled(s, l, i) ==
    \/ ~Busy(s, l)
    \/ caches[s][l].pages[i].start + caches[s][l].pages[i].length <= job.start
    \/ job.pc = "write" /\ i <= job.page

\* The slot of a page has the rows of the page.
Written(s, l, i) ==
    LET page == caches[s][l].pages[i]
    IN /\ page.id \in DOMAIN pools[l].slots
       /\ pools[l].slots[page.id] < pools[l].capacity
       /\ pools[l].rows[pools[l].slots[page.id]] = RowsOf(caches[s][l], page)

WrittenInv ==
    \A s \in Sessions \ suspect, l \in Layers : \A i \in 1..Len(caches[s][l].pages) :
        Settled(s, l, i) => Written(s, l, i)

\* A page ends where the tokens covered do, or before.
LEMMA TileEnds ==
    ASSUME NEW pages \in Seq(PageType), NEW covered \in Nat, Tiles(pages, covered), NEW i \in 1..Len(pages)
    PROVE  /\ pages[i].start \in Nat /\ pages[i].length \in 1..PageSize /\ pages[i].start + pages[i].length <= covered
           /\ i = Len(pages) => pages[i].start + pages[i].length = covered
<1>1. PageSize \in Nat \ {0} /\ Len(pages) \in Nat /\ i \in Nat
  BY CudaPagesAssumption
<1>2. pages[i].start = PageSize * (i - 1) /\ pages[i].length \in 1..PageSize /\ (i < Len(pages) => pages[i].length = PageSize)
      /\ (i = Len(pages) => pages[i].start + pages[i].length = covered)
  BY DEF Tiles
<1>3. pages[i] \in PageType
  OBVIOUS
<1>4. pages[i].start \in Nat
  BY <1>3 DEF PageType
<1>5. CASE i < Len(pages)
  <2> DEFINE n == Len(pages)
             d == i - 1
             q == n - 1
  <2>1. d \in Nat /\ q \in Nat /\ q >= d + 1 /\ n > 0
    BY <1>1, <1>5
  <2>2. covered = PageSize * q + pages[n].length /\ pages[n].length \in 1..PageSize
    BY <2>1, TileLength
  <2>3. pages[i].start = PageSize * d /\ pages[i].length = PageSize
    BY <1>2, <1>5
  <2> HIDE DEF d, q, n
  <2>4. PageSize * q >= PageSize * d + PageSize
    BY <1>1, <2>1, Multiples
  <2>5. PageSize * q \in Nat /\ PageSize * d \in Nat
    BY <1>1, <2>1
  <2>6. pages[i].start + pages[i].length <= covered
    BY <1>1, <2>2, <2>3, <2>4, <2>5
  <2> QED BY <1>2, <1>4, <2>6
<1>6. CASE i = Len(pages)
  <2>1. pages[i].start + pages[i].length <= covered
    BY <1>2, <1>6
  <2> QED BY <1>2, <1>4, <2>1
<1> QED BY <1>1, <1>5, <1>6

\* What lies in the first of two sequences.
LEMMA SubSeqOfFirst ==
    ASSUME NEW S, NEW a \in Seq(S), NEW b \in Seq(S), NEW start \in Nat, NEW length \in Nat, start + length <= Len(a)
    PROVE  SubSeq(a \o b, start + 1, start + length) = SubSeq(a, start + 1, start + length)
<1> DEFINE c == a \o b
<1>1. c \in Seq(S) /\ Len(c) = Len(a) + Len(b) /\ Len(a) \in Nat /\ Len(b) \in Nat
      /\ \A n \in 1..Len(a) : c[n] = a[n]
  OBVIOUS
<1> HIDE DEF c
<1>2. SubSeq(c, start + 1, start + length) = SubSeq(a, start + 1, start + length)
  BY <1>1
<1> QED BY <1>2 DEF c

LEMMA BelowMore ==
    \A a, b, c \in Nat : a < b /\ c >= b => a < c
OBVIOUS

\* A page whose rows, slot and place in the pool are as before is written as before.
LEMMA WrittenKept ==
    ASSUME NEW s, NEW l, NEW i, Written(s, l, i),
           caches'[s][l].pages[i] = caches[s][l].pages[i],
           RowsOf(caches'[s][l], caches[s][l].pages[i]) = RowsOf(caches[s][l], caches[s][l].pages[i]),
           caches[s][l].pages[i].id \in DOMAIN pools'[l].slots,
           pools'[l].slots[caches[s][l].pages[i].id] = pools[l].slots[caches[s][l].pages[i].id],
           pools[l].slots[caches[s][l].pages[i].id] \in Nat, pools[l].capacity \in Nat, pools'[l].capacity \in Nat,
           pools'[l].capacity >= pools[l].capacity,
           pools'[l].rows[pools[l].slots[caches[s][l].pages[i].id]] = pools[l].rows[pools[l].slots[caches[s][l].pages[i].id]]
    PROVE  Written(s, l, i)'
<1> DEFINE page == caches[s][l].pages[i]
           slot == pools[l].slots[page.id]
<1>1. slot < pools[l].capacity /\ pools[l].rows[slot] = RowsOf(caches[s][l], page)
  BY DEF Written
<1>2. page.id \in DOMAIN pools'[l].slots /\ pools'[l].slots[page.id] = slot
  OBVIOUS
<1>3. slot < pools'[l].capacity
  <2> DEFINE old == pools[l].capacity
             new == pools'[l].capacity
  <2>1. slot \in Nat /\ old \in Nat /\ new \in Nat /\ new >= old /\ slot < old
    BY <1>1
  <2> HIDE DEF slot, old, new
  <2>2. slot < new
    BY <2>1, BelowMore, Zenon
  <2> QED BY <2>2 DEF new
<1>4. pools'[l].rows[slot] = RowsOf(caches'[s][l], page)
  BY <1>1
<1>5. caches'[s][l].pages[i] = page
  OBVIOUS
<1> HIDE DEF page, slot
<1> QED BY <1>2, <1>3, <1>4, <1>5 DEF Written

LEMMA PoolFacts ==
    ASSUME IInv, PoolsShaped, NEW l \in Layers
    PROVE  /\ Shaped(pools[l]) /\ SlotsApart(pools[l]) /\ pools[l].capacity \in Nat /\ pools[l].next \in Nat
           /\ DOMAIN pools[l].rows = 0..(pools[l].capacity - 1)
           /\ \A p \in DOMAIN pools[l].slots : pools[l].slots[p] \in Nat /\ pools[l].slots[p] < pools[l].next
           /\ \A p, q \in DOMAIN pools[l].slots : p # q => pools[l].slots[p] # pools[l].slots[q]
BY DEF IInv, PoolsShaped, PoolsApart, SlotsApart, Shaped

LEMMA InitWritten == Init => WrittenInv
BY DEF Init, PagesInit, WrittenInv, NoKV

LEMMA WrittenStill ==
    ASSUME WrittenInv, UNCHANGED pageVars, suspect \subseteq suspect'
    PROVE  WrittenInv'
<1>1. caches' = caches /\ pools' = pools /\ job' = job
  BY DEF pageVars
<1> SUFFICES ASSUME NEW s \in Sessions \ suspect, NEW l \in Layers, NEW i \in 1..Len(caches[s][l].pages), Settled(s, l, i)'
             PROVE  Written(s, l, i)'
  BY <1>1 DEF WrittenInv
<1>2. Settled(s, l, i)
  BY <1>1 DEF Settled, Busy
<1>3. Written(s, l, i)
  BY <1>2 DEF WrittenInv
<1> QED BY <1>1, <1>3 DEF Written

LEMMA WrittenGivenUp ==
    ASSUME IInv, TypeInv, WrittenInv, NEW T \in SUBSET Sessions, GivenUp(T)
    PROVE  WrittenInv'
<1> USE DEF TypeInv
<1>1. /\ job' = NoJob /\ suspect \ T \subseteq suspect' /\ (job # NoJob => job.session \in suspect')
      /\ caches' = [s \in Sessions |-> IF s \in T THEN [l \in Layers |-> NoKV] ELSE caches[s]]
  BY DEF GivenUp
<1> SUFFICES ASSUME NEW s \in Sessions \ suspect', NEW l \in Layers, NEW i \in 1..Len(caches'[s][l].pages)
             PROVE  Written(s, l, i)'
  BY DEF WrittenInv
<1>2. s \notin T
  <2>1. s \in T => caches'[s][l].pages = <<>>
    BY <1>1 DEF NoKV
  <2> QED BY <2>1
<1>3. s \in Sessions \ suspect /\ caches'[s][l] = caches[s][l]
  BY <1>1, <1>2
<1>4. Settled(s, l, i) /\ i \in 1..Len(caches[s][l].pages)
  BY <1>1, <1>3 DEF Settled, Busy
<1>5. Written(s, l, i)
  BY <1>3, <1>4 DEF WrittenInv
<1>6. /\ \A p \in DOMAIN pools[l].slots : p \in DOMAIN pools'[l].slots /\ pools'[l].slots[p] = pools[l].slots[p]
      /\ pools'[l].capacity >= pools[l].capacity /\ pools[l].capacity \in Nat /\ PoolsShaped'
      /\ \A slot \in 0..(pools[l].capacity - 1) : pools'[l].rows[slot] = pools[l].rows[slot]
  BY GivenUpPools
<1>7. pools'[l].capacity \in Nat
  BY <1>6 DEF PoolsShaped, Shaped
<1> DEFINE id == caches[s][l].pages[i].id
<1>8. id \in DOMAIN pools[l].slots /\ pools[l].slots[id] \in Nat /\ pools[l].slots[id] < pools[l].capacity
  BY <1>5, PoolFacts DEF Written
<1>9. pools[l].slots[id] \in 0..(pools[l].capacity - 1)
  BY <1>6, <1>8
<1> QED BY <1>3, <1>5, <1>6, <1>7, <1>8, <1>9, WrittenKept

LEMMA WrittenBegins ==
    ASSUME IInv, TypeInv, PagesInv, WrittenInv, NEW s \in Sessions, NEW l \in Layers, NEW rows \in Seq(RowType), Begins(s, l, rows)
    PROVE  WrittenInv'
<1> USE DEF TypeInv
<1>1. /\ job = NoJob /\ job' # NoJob /\ job'.session = s /\ job'.layer = l /\ job'.page = 0
      /\ job'.start = Len(caches[s][l].rows) /\ pools' = pools /\ suspect' = suspect
      /\ \A t \in Sessions, m \in Layers :
                /\ caches'[t][m].pages = caches[t][m].pages
                /\ caches'[t][m].rows = IF t = s /\ m = l THEN caches[t][m].rows \o rows ELSE caches[t][m].rows
  BY BeginGives
<1> SUFFICES ASSUME NEW t \in Sessions \ suspect, NEW m \in Layers, NEW i \in 1..Len(caches[t][m].pages)
             PROVE  Written(t, m, i)'
  BY <1>1 DEF WrittenInv
<1> DEFINE page == caches[t][m].pages[i]
           old == caches[t][m].rows
<1>2. Written(t, m, i)
  BY <1>1 DEF WrittenInv, Settled, Busy
<1>3. old \in Seq(RowType) /\ caches[t][m].pages \in Seq(PageType) /\ Len(old) \in Nat
  BY CacheTypes
<1>4. Tiles(caches[t][m].pages, Len(old))
  <2>1. Covered(t, m) = Len(old)
    BY <1>1 DEF Covered, Busy
  <2> QED BY <2>1 DEF PagesInv
<1>5. page.start \in Nat /\ page.length \in 1..PageSize /\ page.start + page.length <= Len(old)
  BY <1>3, <1>4, TileEnds
<1>6. PageSize \in Nat
  BY CudaPagesAssumption
<1>7. RowsOf(caches'[t][m], page) = RowsOf(caches[t][m], page)
  <2>1. CASE t = s /\ m = l
    <3>1. caches'[t][m].rows = old \o rows
      BY <1>1, <2>1
    <3> HIDE DEF page, old
    <3>2. SubSeq(old \o rows, page.start + 1, page.start + page.length) = SubSeq(old, page.start + 1, page.start + page.length)
      <4>1. page.length \in Nat /\ page.start \in Nat /\ page.start + page.length <= Len(old) /\ old \in Seq(RowType)
        BY <1>3, <1>5, <1>6
      <4> QED BY <4>1, SubSeqOfFirst
    <3> QED BY <3>1, <3>2 DEF RowsOf, old
  <2>2. CASE ~(t = s /\ m = l)
    BY <1>1, <2>2 DEF RowsOf
  <2> QED BY <2>1, <2>2
<1>8. page.id \in DOMAIN pools[m].slots /\ pools[m].slots[page.id] \in Nat /\ pools[m].capacity \in Nat
  BY <1>2, PoolFacts DEF Written
<1>9. caches'[t][m].pages[i] = page
  BY <1>1
<1> QED BY <1>1, <1>2, <1>7, <1>8, <1>9, WrittenKept

LEMMA WrittenExtends ==
    ASSUME IInv, TypeInv, PagesInv, WrittenInv, ExtendPages, suspect' = suspect
    PROVE  WrittenInv'
<1> USE DEF TypeInv
<1> DEFINE s == job.session
           l == job.layer
           pages == caches[s][l].pages
<1>1. /\ job # NoJob /\ job' # NoJob /\ job.pc = "extend" /\ s \in Sessions /\ l \in Layers
      /\ job'.session = s /\ job'.layer = l /\ job'.start = job.start /\ job'.page = 0
      /\ Take \in 1..job.remaining /\ job.cursor \in Nat /\ job.start \in Nat /\ job.start <= job.cursor /\ job.remaining \in Nat
      /\ pools' = pools
  BY ExtendGives
<1>2. \A t \in Sessions, m \in Layers :
          /\ caches'[t][m].rows = caches[t][m].rows
          /\ ~(t = s /\ m = l) => caches'[t][m].pages = caches[t][m].pages
  BY ExtendGives
<1>3. \/ caches'[s][l].pages = Append(pages, NewPage(Take))
      \/ caches'[s][l].pages = [pages EXCEPT ![Len(pages)].length = @ + Take]
  BY ExtendGives
<1>4. pages \in Seq(PageType) /\ Tiles(pages, job.cursor) /\ DOMAIN pages = 1..Len(pages) /\ Len(pages) \in Nat
  <2>1. Covered(s, l) = job.cursor
    BY <1>1 DEF Covered, Busy
  <2> QED BY <1>1, <2>1, CacheTypes DEF PagesInv
<1> SUFFICES ASSUME NEW t \in Sessions \ suspect, NEW m \in Layers, NEW i \in 1..Len(caches'[t][m].pages), Settled(t, m, i)'
             PROVE  Written(t, m, i)'
  BY DEF WrittenInv
<1>5. i \in 1..Len(caches[t][m].pages) /\ caches'[t][m].pages[i] = caches[t][m].pages[i] /\ Settled(t, m, i)
  <2>1. CASE t = s /\ m = l
    <3>1. Busy(t, m)' /\ job'.page = 0 /\ i # 0
      BY <1>1, <2>1 DEF Busy
    <3>2. ~(i <= 0)
      BY <3>1
    <3>3. caches'[s][l].pages[i].start + caches'[s][l].pages[i].length <= job.start
      BY <1>1, <2>1, <3>1, <3>2 DEF Settled
    <3>4. CASE caches'[s][l].pages = Append(pages, NewPage(Take))
      <4>1. Len(Append(pages, NewPage(Take))) = Len(pages) + 1 /\ Append(pages, NewPage(Take))[Len(pages) + 1] = NewPage(Take)
            /\ \A j \in 1..Len(pages) : Append(pages, NewPage(Take))[j] = pages[j]
        <5> DEFINE page == NewPage(Take)
        <5> HIDE DEF page, pages
        <5>1. Len(Append(pages, page)) = Len(pages) + 1 /\ Append(pages, page)[Len(pages) + 1] = page
              /\ \A j \in 1..Len(pages) : Append(pages, page)[j] = pages[j]
          BY <1>4
        <5> QED BY <5>1 DEF page
      <4>2. CASE i = Len(pages) + 1
        <5>1. caches'[s][l].pages[i].start = job.cursor /\ caches'[s][l].pages[i].length = Take
          <6>1. caches'[s][l].pages[i] = NewPage(Take)
            <7> HIDE DEF pages
            <7> QED BY <3>4, <4>1, <4>2
          <6> QED BY <6>1 DEF NewPage
        <5> QED BY <1>1, <3>3, <5>1
      <4>3. CASE i \in 1..Len(pages)
        <5>1. caches'[s][l].pages[i] = pages[i]
          BY <3>4, <4>1, <4>3
        <5> QED BY <2>1, <3>3, <4>3, <5>1 DEF Settled
      <4>4. i \in 1..(Len(pages) + 1)
        <5> HIDE DEF pages
        <5> QED BY <2>1, <3>4, <4>1
      <4>5. i = Len(pages) + 1 \/ i \in 1..Len(pages)
        <5> HIDE DEF pages
        <5> QED BY <1>4, <4>4
      <4> QED BY <4>2, <4>3, <4>5
    <3>5. CASE caches'[s][l].pages = [pages EXCEPT ![Len(pages)].length = @ + Take]
      <4> DEFINE new == [pages EXCEPT ![Len(pages)].length = @ + Take]
      <4>1. Len(new) = Len(pages) /\ \A j \in 1..Len(pages) : j # Len(pages) => new[j] = pages[j]
        BY <1>4
      <4>2. i \in 1..Len(pages)
        BY <2>1, <3>5, <4>1
      <4>3. CASE i = Len(pages)
        <5>1. pages[i] \in PageType
          BY <1>4, <4>2
        <5>2. new[i] = [pages[i] EXCEPT !.length = @ + Take]
          BY <1>4, <4>2, <4>3
        <5>3. new[i].start = pages[i].start /\ new[i].length = pages[i].length + Take
          <6> HIDE DEF new
          <6> QED BY <5>1, <5>2 DEF PageType
        <5>4. pages[i].start + pages[i].length = job.cursor /\ pages[i].start \in Nat /\ pages[i].length \in 1..PageSize
          BY <1>1, <1>4, <4>2, <4>3, TileEnds
        <5>5. PageSize \in Nat
          BY CudaPagesAssumption
        <5>6. pages[i].start + (pages[i].length + Take) <= job.start
          BY <3>3, <3>5, <5>3
        <5> HIDE DEF pages, new
        <5> QED BY <1>1, <5>4, <5>5, <5>6
      <4>4. CASE i # Len(pages)
        <5>1. caches'[s][l].pages[i] = pages[i]
          BY <3>5, <4>1, <4>2, <4>4
        <5> QED BY <2>1, <3>3, <4>2, <5>1 DEF Settled
      <4> QED BY <4>3, <4>4
    <3> QED BY <1>3, <3>4, <3>5
  <2>2. CASE ~(t = s /\ m = l)
    <3>1. caches'[t][m].pages = caches[t][m].pages
      BY <1>2, <2>2
    <3>2. ~Busy(t, m)
      BY <2>2 DEF Busy
    <3> QED BY <3>1, <3>2 DEF Settled
  <2> QED BY <2>1, <2>2
<1>6. Written(t, m, i)
  BY <1>5 DEF WrittenInv
<1>7. RowsOf(caches'[t][m], caches[t][m].pages[i]) = RowsOf(caches[t][m], caches[t][m].pages[i])
  BY <1>2 DEF RowsOf
<1>8. /\ caches[t][m].pages[i].id \in DOMAIN pools[m].slots /\ pools[m].slots[caches[t][m].pages[i].id] \in Nat
      /\ pools[m].capacity \in Nat
  BY <1>6, PoolFacts DEF Written
<1> QED BY <1>1, <1>5, <1>6, <1>7, <1>8, WrittenKept

\* A page is in one place.
LEMMA ApartIn ==
    ASSUME IdsApart, NEW t \in Sessions, NEW s \in Sessions, NEW m \in Layers, NEW l \in Layers,
           NEW x \in DOMAIN caches[t][m].pages, NEW y \in DOMAIN caches[s][l].pages,
           caches[t][m].pages[x].id = caches[s][l].pages[y].id
    PROVE  t = s /\ m = l /\ x = y
BY DEF IdsApart

\* No other page has the slot that a page has or gets.
LEMMA SlotOwn ==
    ASSUME NEW pool, SlotsApart(pool), NEW id
    PROVE  \A p \in DOMAIN pool.slots : p # id => pool.slots[p] # Slot(pool, id)
<1>1. CASE id \in DOMAIN pool.slots
  BY <1>1 DEF SlotsApart, Slot
<1>2. CASE id \notin DOMAIN pool.slots
  <2>1. Slot(pool, id) = pool.next
    BY <1>2 DEF Slot
  <2>2. pool.next \in Nat /\ \A p \in DOMAIN pool.slots : pool.slots[p] \in Nat /\ pool.slots[p] < pool.next
    BY DEF SlotsApart
  <2> QED BY <2>1, <2>2
<1> QED BY <1>1, <1>2

\* A pass of _write_touched_pages: the page it copies and the pool after it.
LEMMA WriteGives ==
    ASSUME IInv, TypeInv, WritePage
    PROVE  LET s == job.session
               l == job.layer
               i == Min(Pending)
               page == caches[s][l].pages[i]
               slot == Slot(pools[l], page.id)
           IN /\ job # NoJob /\ job.pc = "write" /\ s \in Sessions /\ l \in Layers /\ i \in 1..Len(caches[s][l].pages)
              /\ \A j \in Pending : i <= j
              /\ job' # NoJob /\ job'.pc = "write" /\ job'.session = s /\ job'.layer = l /\ job'.start = job.start /\ job'.page = i
              /\ caches' = caches
              /\ \A k \in Layers : k # l => pools'[k] = pools[k]
              /\ page.id \in DOMAIN pools'[l].slots /\ pools'[l].slots[page.id] = slot
              /\ slot \in Nat /\ slot < pools'[l].capacity
              /\ pools'[l].rows[slot] = RowsOf(caches[s][l], page)
              /\ \A p \in DOMAIN pools[l].slots :
                    /\ p \in DOMAIN pools'[l].slots /\ pools'[l].slots[p] = pools[l].slots[p]
                    /\ p # page.id => pools[l].slots[p] # slot
              /\ pools'[l].capacity \in Nat /\ pools'[l].capacity >= pools[l].capacity
              /\ \A k \in 0..(pools[l].capacity - 1) : k # slot => pools'[l].rows[k] = pools[l].rows[k]
<1> USE DEF TypeInv
<1> DEFINE s == job.session
           l == job.layer
           i == Min(Pending)
           page == caches[s][l].pages[i]
           slot == Slot(pools[l], page.id)
           placed == Placed(pools[l], page.id)
           new == [placed EXCEPT !.rows[slot] = RowsOf(caches[s][l], page)]
<1>1. /\ job.pc = "write" /\ job # NoJob /\ job \in JobType /\ s \in Sessions /\ l \in Layers /\ Pending # {}
      /\ job' = [job EXCEPT !.page = i] /\ caches' = caches
  BY WritePagePool, ActiveJob
<1>2. i \in Pending /\ (\A j \in Pending : i <= j) /\ i \in 1..Len(caches[s][l].pages)
  <2>1. Min(Pending) \in Pending /\ (\A j \in Pending : Min(Pending) <= j) /\ Pending \subseteq 1..Len(Cache.pages)
    BY <1>1, MinPending
  <2> QED BY <2>1 DEF Cache
<1>3. job' # NoJob /\ job'.pc = "write" /\ job'.session = s /\ job'.layer = l /\ job'.start = job.start /\ job'.page = i
  <2> HIDE DEF i
  <2> QED BY <1>1 DEF JobType, NoJob
<1>4. slot < placed.capacity /\ pools' = [pools EXCEPT ![l] = new]
  <2>1. Cache = caches[s][l] /\ Pool = pools[l]
    BY DEF Cache, Pool
  <2> QED BY <2>1, WritePagePool
<1>5. Shaped(pools[l]) /\ SlotsApart(pools[l]) /\ pools[l].capacity \in Nat
  BY <1>1, PoolFacts
<1>6. /\ Shaped(placed)
      /\ page.id \in DOMAIN placed.slots /\ placed.slots[page.id] = slot
      /\ \A p \in DOMAIN pools[l].slots : p \in DOMAIN placed.slots /\ placed.slots[p] = pools[l].slots[p]
      /\ placed.capacity >= pools[l].capacity
      /\ \A k \in 0..(pools[l].capacity - 1) : placed.rows[k] = pools[l].rows[k]
      /\ slot \in Nat
  BY <1>5, PlacedShaped
<1>7. \A p \in DOMAIN pools[l].slots : p # page.id => pools[l].slots[p] # slot
  BY <1>5, SlotOwn
<1> HIDE DEF page, slot, placed
<1>8. /\ new.slots = placed.slots /\ new.capacity = placed.capacity /\ new.capacity \in Nat
      /\ new.rows = [placed.rows EXCEPT ![slot] = RowsOf(caches[s][l], page)]
  BY <1>6 DEF Shaped
<1>9. slot \in DOMAIN placed.rows
  <2>1. DOMAIN placed.rows = 0..(placed.capacity - 1) /\ placed.capacity \in Nat
    BY <1>6 DEF Shaped
  <2> QED BY <1>4, <1>6, <2>1
<1>10. /\ new.rows[slot] = RowsOf(caches[s][l], page)
       /\ \A k \in 0..(pools[l].capacity - 1) : k # slot => new.rows[k] = pools[l].rows[k]
  <2> DEFINE rows == new.rows
  <2> HIDE DEF new
  <2>1. \A k \in 0..(pools[l].capacity - 1) : k \in DOMAIN placed.rows
    <3>1. DOMAIN placed.rows = 0..(placed.capacity - 1) /\ placed.capacity \in Nat
      BY <1>6 DEF Shaped
    <3> QED BY <1>5, <1>6, <3>1
  <2> QED BY <1>6, <1>8, <1>9, <2>1
<1> HIDE DEF new
<1>11. pools'[l] = new /\ \A k \in Layers : k # l => pools'[k] = pools[k]
  BY <1>1, <1>4 DEF IInv, PoolsApart
<1>12. /\ page.id \in DOMAIN pools'[l].slots /\ pools'[l].slots[page.id] = slot
       /\ slot \in Nat /\ slot < pools'[l].capacity
       /\ pools'[l].rows[slot] = RowsOf(caches[s][l], page)
       /\ pools'[l].capacity \in Nat /\ pools'[l].capacity >= pools[l].capacity
  BY <1>4, <1>6, <1>8, <1>10, <1>11
<1>13. /\ \A p \in DOMAIN pools[l].slots :
             /\ p \in DOMAIN pools'[l].slots /\ pools'[l].slots[p] = pools[l].slots[p]
             /\ p # page.id => pools[l].slots[p] # slot
       /\ \A k \in 0..(pools[l].capacity - 1) : k # slot => pools'[l].rows[k] = pools[l].rows[k]
  BY <1>6, <1>7, <1>8, <1>10, <1>11
<1> QED BY <1>1, <1>2, <1>3, <1>11, <1>12, <1>13 DEF page, slot

LEMMA WrittenWrites ==
    ASSUME IInv, TypeInv, PagesInv, WrittenInv, WritePage, suspect' = suspect
    PROVE  WrittenInv'
<1> DEFINE s == job.session
           l == job.layer
           i == Min(Pending)
           page == caches[s][l].pages[i]
           slot == Slot(pools[l], page.id)
<1>1. /\ job # NoJob /\ job.pc = "write" /\ s \in Sessions /\ l \in Layers /\ i \in 1..Len(caches[s][l].pages)
      /\ \A j \in Pending : i <= j
      /\ job' # NoJob /\ job'.pc = "write" /\ job'.session = s /\ job'.layer = l /\ job'.start = job.start /\ job'.page = i
      /\ caches' = caches
      /\ \A k \in Layers : k # l => pools'[k] = pools[k]
  BY WriteGives
<1>2. /\ page.id \in DOMAIN pools'[l].slots /\ pools'[l].slots[page.id] = slot
      /\ slot \in Nat /\ slot < pools'[l].capacity
      /\ pools'[l].rows[slot] = RowsOf(caches[s][l], page)
      /\ \A p \in DOMAIN pools[l].slots :
            /\ p \in DOMAIN pools'[l].slots /\ pools'[l].slots[p] = pools[l].slots[p]
            /\ p # page.id => pools[l].slots[p] # slot
      /\ pools'[l].capacity \in Nat /\ pools'[l].capacity >= pools[l].capacity
      /\ \A k \in 0..(pools[l].capacity - 1) : k # slot => pools'[l].rows[k] = pools[l].rows[k]
  BY WriteGives
<1> SUFFICES ASSUME NEW t \in Sessions \ suspect, NEW m \in Layers, NEW j \in 1..Len(caches[t][m].pages), Settled(t, m, j)'
             PROVE  Written(t, m, j)'
  BY <1>1 DEF WrittenInv
<1> HIDE DEF page, slot, i
<1>3. CASE t = s /\ m = l /\ j = i
  <2>1. caches'[t][m].pages[j] = page /\ caches'[t][m] = caches[s][l]
    BY <1>1, <1>3 DEF page
  <2> QED BY <1>2, <1>3, <2>1 DEF Written
<1>4. CASE ~(t = s /\ m = l /\ j = i)
  <2>1. Settled(t, m, j)
    <3>1. CASE t = s /\ m = l
      <4>1. \/ caches[t][m].pages[j].start + caches[t][m].pages[j].length <= job.start
            \/ j <= i
        BY <1>1, <3>1 DEF Settled, Busy
      <4>2. CASE j <= i /\ ~(caches[t][m].pages[j].start + caches[t][m].pages[j].length <= job.start)
        <5>1. caches[t][m].pages \in Seq(PageType)
          BY CacheTypes DEF TypeInv
        <5>2. caches[t][m].pages[j] \in PageType /\ DOMAIN Cache.pages = 1..Len(caches[t][m].pages)
          BY <3>1, <5>1 DEF Cache
        <5>3. job.start \in Nat /\ job.page \in Nat
          BY <1>1, ActiveJob DEF TypeInv
        <5>4. j \in Touched
          BY <3>1, <4>2, <5>2, <5>3 DEF Touched, Cache, PageType
        <5>5. j \notin Pending
          BY <1>1, <1>4, <3>1, <4>2
        <5>6. j <= job.page
          BY <5>3, <5>4, <5>5 DEF Pending
        <5> QED BY <1>1, <5>6 DEF Settled
      <4> QED BY <4>1, <4>2 DEF Settled
    <3>2. CASE ~(t = s /\ m = l)
      BY <3>2 DEF Settled, Busy
    <3> QED BY <3>1, <3>2
  <2>2. Written(t, m, j)
    BY <2>1 DEF WrittenInv
  <2> DEFINE id == caches[t][m].pages[j].id
             own == pools[m].slots[id]
  <2>3. id \in DOMAIN pools[m].slots /\ own \in Nat /\ own < pools[m].capacity /\ pools[m].capacity \in Nat
    BY <2>2, PoolFacts DEF Written, TypeInv
  <2>4. m = l => id # page.id
    <3>1. j \in DOMAIN caches[t][m].pages /\ i \in DOMAIN caches[s][l].pages
      BY <1>1, CacheTypes DEF TypeInv
    <3>2. id = page.id => t = s /\ m = l /\ j = i
      <4>1. caches[t][m].pages[j].id = caches[s][l].pages[i].id => t = s /\ m = l /\ j = i
        <5>1. IdsApart
          BY DEF IInv
        <5>2. s \in Sessions /\ l \in Layers
          BY <1>1
        <5>3. t \in Sessions /\ m \in Layers
          OBVIOUS
        <5>4. j \in DOMAIN caches[t][m].pages /\ i \in DOMAIN caches[s][l].pages
          BY <3>1
        <5> HIDE DEF s, l
        <5> QED BY <5>1, <5>2, <5>3, <5>4, ApartIn
      <4> QED BY <4>1 DEF page
    <3> QED BY <1>4, <3>2
  <2>5. /\ id \in DOMAIN pools'[m].slots /\ pools'[m].slots[id] = own
        /\ pools'[m].capacity \in Nat /\ pools'[m].capacity >= pools[m].capacity
        /\ pools'[m].rows[own] = pools[m].rows[own]
    <3> HIDE DEF id, own
    <3>1. own \in 0..(pools[m].capacity - 1)
      BY <2>3
    <3>2. CASE m = l
      <4>1. own # slot
        BY <1>2, <2>3, <2>4, <3>2 DEF own
      <4>2. id \in DOMAIN pools'[m].slots /\ pools'[m].slots[id] = own
        BY <1>2, <2>3, <3>2 DEF own
      <4> QED BY <1>2, <3>1, <3>2, <4>1, <4>2
    <3>3. CASE m # l
      <4>1. pools'[m] = pools[m]
        BY <1>1, <3>3
      <4> QED BY <2>3, <4>1 DEF own
    <3> QED BY <3>2, <3>3
  <2> QED BY <1>1, <2>2, <2>3, <2>5, WrittenKept
<1> QED BY <1>3, <1>4

LEMMA WrittenEnds ==
    ASSUME TypeInv, WrittenInv, EndAppend, suspect' = suspect
    PROVE  WrittenInv'
<1>1. job.pc = "write" /\ Pending = {} /\ job' = NoJob /\ caches' = caches /\ pools' = pools /\ job # NoJob
  BY ActiveJob DEF EndAppend, allocator, TypeInv
<1> SUFFICES ASSUME NEW t \in Sessions \ suspect, NEW m \in Layers, NEW j \in 1..Len(caches[t][m].pages)
             PROVE  Written(t, m, j)'
  BY <1>1 DEF WrittenInv
<1>2. Settled(t, m, j)
  <2>1. CASE Busy(t, m) /\ ~(caches[t][m].pages[j].start + caches[t][m].pages[j].length <= job.start)
    <3>1. caches[t][m].pages \in Seq(PageType)
      BY CacheTypes DEF TypeInv
    <3>2. Cache.pages = caches[t][m].pages
      BY <2>1 DEF Cache, Busy
    <3>3. caches[t][m].pages[j] \in PageType /\ DOMAIN Cache.pages = 1..Len(caches[t][m].pages)
      BY <3>1, <3>2
    <3>4. job.start \in Nat /\ job.page \in Nat
      BY <1>1, ActiveJob DEF TypeInv
    <3>5. j \in Touched
      BY <2>1, <3>2, <3>3, <3>4 DEF Touched, PageType
    <3>6. j <= job.page
      BY <1>1, <3>4, <3>5 DEF Pending
    <3> QED BY <1>1, <3>6 DEF Settled
  <2> QED BY <2>1 DEF Settled
<1>3. Written(t, m, j)
  BY <1>2 DEF WrittenInv
<1> QED BY <1>1, <1>3 DEF Written

LEMMA WrittenStay ==
    ASSUME IInv, TypeInv, PagesInv, WrittenInv, Effects
    PROVE  WrittenInv'
<1>1. CASE UNCHANGED pageVars /\ suspect \subseteq suspect'
  BY <1>1, WrittenStill
<1>2. ASSUME NEW T \in SUBSET Sessions, GivenUp(T) PROVE WrittenInv'
  BY <1>2, WrittenGivenUp
<1>3. ASSUME NEW s \in Sessions, NEW l \in Layers, NEW rows \in Seq(RowType), Begins(s, l, rows) PROVE WrittenInv'
  BY <1>3, WrittenBegins
<1>4. CASE ExtendPages /\ suspect' = suspect
  BY <1>4, WrittenExtends
<1>5. CASE WritePage /\ suspect' = suspect
  BY <1>5, WrittenWrites
<1>6. CASE EndAppend /\ suspect' = suspect
  BY <1>6, WrittenEnds
<1> QED BY <1>1, <1>2, <1>3, <1>4, <1>5, <1>6 DEF Effects

------------------------------------------------------------------------------
(* What the kernel reads *)

\* A table of slots that hold the pages of some rows, in order, is read as the rows.
LEMMA GatheredRows ==
    ASSUME NEW pool, NEW view, NEW rows \in Seq(RowType), NEW pages \in Seq(PageType), Tiles(pages, Len(rows)),
           view.length = Len(rows), Len(view.table) = Len(pages),
           \A i \in 1..Len(pages) :
               pool.rows[view.table[i]] = SubSeq(rows, pages[i].start + 1, pages[i].start + pages[i].length)
    PROVE  Gathered(pool, view) = rows
<1> DEFINE Stored(n) == pool.rows[view.table[((n - 1) \div PageSize) + 1]]
           Place(n) == ((n - 1) % PageSize) + 1
           Read1(n) == IF Place(n) \in DOMAIN Stored(n) THEN Stored(n)[Place(n)] ELSE Zeros
<1>1. Gathered(pool, view) = [n \in 1..Least(Len(rows), PageSize * Len(pages)) |-> Read1(n)]
  BY DEF Gathered
<1>2. Len(rows) \in Nat /\ Len(pages) \in Nat /\ PageSize \in Nat
  BY CudaPagesAssumption
<1>3. Least(Len(rows), PageSize * Len(pages)) = Len(rows)
  <2>1. PageSize * Len(pages) \in Nat
    BY <1>2
  <2>2. CASE Len(rows) = 0
    BY <1>2, <2>1, <2>2 DEF Least
  <2>3. CASE Len(rows) # 0
    <3>1. 1 \in 1..Len(rows)
      BY <1>2, <2>3
    <3>2. Len(rows) <= PageSize * Len(pages)
      BY <1>2, <3>1, TileOf
    <3> DEFINE a == Len(rows)
               b == PageSize * Len(pages)
    <3>3. a \in Nat /\ b \in Nat /\ a <= b
      BY <1>2, <2>1, <3>2
    <3> HIDE DEF a, b
    <3>4. Least(a, b) = a
      BY <3>3 DEF Least
    <3> QED BY <3>4 DEF a, b
  <2> QED BY <2>2, <2>3
<1>4. ASSUME NEW n \in 1..Len(rows) PROVE Read1(n) = rows[n]
  <2> DEFINE i == ((n - 1) \div PageSize) + 1
             k == ((n - 1) % PageSize) + 1
             start == pages[i].start
             length == pages[i].length
  <2>1. i \in 1..Len(pages) /\ k \in 1..length /\ start + k = n /\ start \in Nat
    BY <1>2, TileOf
  <2>2. length \in Nat /\ start + length <= Len(rows)
    <3>1. length \in 1..PageSize /\ start + length <= Len(rows)
      <4> HIDE DEF i
      <4> QED BY <1>2, <2>1, TileEnds
    <3> QED BY <1>2, <3>1
  <2>3. Stored(n) = SubSeq(rows, start + 1, start + length)
    BY <2>1
  <2> HIDE DEF i, k, start, length
  <2>4. k \in DOMAIN SubSeq(rows, start + 1, start + length) /\ SubSeq(rows, start + 1, start + length)[k] = rows[n]
    BY <1>2, <2>1, <2>2
  <2>5. Place(n) = k
    BY DEF k
  <2> QED BY <2>3, <2>4, <2>5
<1>5. rows = [n \in 1..Len(rows) |-> rows[n]]
  OBVIOUS
<1> HIDE DEF Read1
<1> QED BY <1>1, <1>3, <1>4, <1>5

\* A session whose pages are all written is read as its array.
LEMMA GatheredExact ==
    ASSUME TypeInv, NEW s \in Sessions, NEW l \in Layers,
           Tiles(caches[s][l].pages, Len(caches[s][l].rows)), \A i \in 1..Len(caches[s][l].pages) : Written(s, l, i),
           NEW view, view.length = Len(caches[s][l].rows), view.table = PagedView(s, l).table
    PROVE  Gathered(pools[l], view) = caches[s][l].rows
<1> DEFINE pages == caches[s][l].pages
           rows == caches[s][l].rows
<1>1. rows \in Seq(RowType) /\ pages \in Seq(PageType) /\ DOMAIN pages = 1..Len(pages) /\ Len(pages) \in Nat
  BY CacheTypes DEF TypeInv
<1>2. view.table = [i \in 1..Len(pages) |-> pools[l].slots[pages[i].id]]
  BY <1>1 DEF PagedView
<1>3. Len(view.table) = Len(pages)
  <2> DEFINE S == {pools[l].slots[pages[i].id] : i \in 1..Len(pages)}
             n == Len(pages)
             table == view.table
  <2>1. \A i \in 1..n : pools[l].slots[pages[i].id] \in S
    OBVIOUS
  <2>2. table \in [1..n -> S]
    <3> HIDE DEF S
    <3> QED BY <1>2, <2>1
  <2>3. n \in Nat
    BY <1>1
  <2> HIDE DEF table, S, n
  <2>4. table \in Seq(S)
    BY <2>2, <2>3, SeqDef
  <2>5. Len(table) = n
    BY <2>2, <2>3, <2>4
  <2> QED BY <2>5 DEF table, n
<1>4. ASSUME NEW i \in 1..Len(pages)
      PROVE  pools[l].rows[view.table[i]] = SubSeq(rows, pages[i].start + 1, pages[i].start + pages[i].length)
  BY <1>2 DEF Written, RowsOf
<1> HIDE DEF pages, rows
<1>5. Tiles(pages, Len(rows)) /\ view.length = Len(rows)
  BY DEF pages, rows
<1>6. Gathered(pools[l], view) = rows
  BY <1>1, <1>3, <1>4, <1>5, GatheredRows
<1> QED BY <1>6 DEF rows

\* Between appends the pages of a session that is not in doubt are written.
LEMMA IdlePages ==
    ASSUME TypeInv, PagesInv, WrittenInv, NEW s \in Sessions, NEW l \in Layers, ~Busy(s, l)
    PROVE  /\ Tiles(caches[s][l].pages, Len(caches[s][l].rows))
           /\ s \notin suspect => \A i \in 1..Len(caches[s][l].pages) : Written(s, l, i)
<1>1. Covered(s, l) = Len(caches[s][l].rows)
  BY DEF Covered
<1>2. Tiles(caches[s][l].pages, Covered(s, l))
  BY DEF PagesInv
<1>3. \A i \in 1..Len(caches[s][l].pages) : Settled(s, l, i)
  BY DEF Settled
<1> QED BY <1>1, <1>2, <1>3 DEF WrittenInv

LEMMA IdleView ==
    ASSUME TypeInv, PagesInv, WrittenInv, NEW s \in Sessions \ suspect, NEW l \in Layers, ~Busy(s, l)
    PROVE  /\ caches[s][l].rows # <<>> => HasView(s, l)
           /\ Gathered(pools[l], PagedView(s, l)) = caches[s][l].rows
           /\ \A i \in DOMAIN caches[s][l].pages : Written(s, l, i)
<1>1. /\ Tiles(caches[s][l].pages, Len(caches[s][l].rows))
      /\ \A i \in 1..Len(caches[s][l].pages) : Written(s, l, i)
  BY IdlePages
<1>2. /\ DOMAIN caches[s][l].pages = 1..Len(caches[s][l].pages)
      /\ caches[s][l].rows \in Seq(RowType) /\ caches[s][l].pages \in Seq(PageType)
  BY CacheTypes DEF TypeInv
<1>3. caches[s][l].rows # <<>> => HasView(s, l)
  <2>1. \A i \in DOMAIN caches[s][l].pages : caches[s][l].pages[i].id \in DOMAIN pools[l].slots
    BY <1>1, <1>2 DEF Written
  <2>2. caches[s][l].rows # <<>> => caches[s][l].pages # <<>>
    <3>1. Len(caches[s][l].pages) = 0 <=> Len(caches[s][l].rows) = 0
      BY <1>1 DEF Tiles
    <3> QED BY <1>2, <3>1
  <2> QED BY <2>1, <2>2 DEF HasView
<1>4. PagedView(s, l).length = Len(caches[s][l].rows)
  BY DEF PagedView
<1>5. Gathered(pools[l], PagedView(s, l)) = caches[s][l].rows
  BY <1>1, <1>4, GatheredExact
<1> QED BY <1>1, <1>2, <1>3, <1>5

\* Between appends the kernel reads through the page table what the
\* reference attention reads of the array (_append, paged_view), in slots
\* that the pool has, whatever the other sessions did to the pool.
THEOREM PoolHoldsContextHolds == Spec => []PoolHoldsContext
<1>1. Init => IInv /\ TypeInv /\ PagesInv /\ WrittenInv
  BY InitIInv, InitTypes, InitPages, InitWritten
<1>2. IInv /\ TypeInv /\ PagesInv /\ WrittenInv /\ [Next]_vars => IInv' /\ TypeInv' /\ PagesInv' /\ WrittenInv'
  BY Inductive, TypesStay, StepEffects, PagesStay, WrittenStay
<1>3. TypeInv /\ PagesInv /\ WrittenInv => PoolHoldsContext
  <2> SUFFICES ASSUME TypeInv, PagesInv, WrittenInv, NEW s \in Sessions \ suspect, NEW l \in Layers,
                      caches[s][l].rows # <<>>, ~Busy(s, l)
               PROVE  /\ HasView(s, l)
                      /\ \A i \in DOMAIN caches[s][l].pages :
                             pools[l].slots[caches[s][l].pages[i].id] < pools[l].capacity
                      /\ Gathered(pools[l], PagedView(s, l)) = caches[s][l].rows
    BY DEF PoolHoldsContext
  <2> QED BY IdleView DEF Written
<1> QED BY <1>1, <1>2, <1>3, PTL DEF Spec

------------------------------------------------------------------------------
(***************************************************************************)
(* What a session attends to.  The rows of its array are those of its      *)
(* context, in a walk as far as the walk has come (RowsInv); to keep that, *)
(* the offsets a node was rotated by must be those of the session, the     *)
(* remembered prefix must hold the rows of its tokens, and the views that  *)
(* a batch has taken must still be those of the page tables.               *)
(***************************************************************************)

\* What the i-th session of a walk had been given before it.
Past(i) == SubSeq(context[walk.sessions[i]], 1, Len(context[walk.sessions[i]]) - Len(walk.tokens[i]))

\* A session in a walk has been given its tokens after its past.
TokensInv ==
    walk # NoWalk => \A i \in 1..Len(walk.sessions) :
        /\ Len(walk.tokens[i]) <= Len(context[walk.sessions[i]])
        /\ context[walk.sessions[i]] = Past(i) \o walk.tokens[i]

\* The i-th session has appended its tokens to layer l.
Done(i, l) ==
    \/ l < walk.layer
    \/ /\ l = walk.layer
       /\ \/ walk.pc = "kernel"
          \/ walk.pc \in {"attend", "view", "read"} /\ i < walk.turn
          \/ walk.pc \in {"view", "read"} /\ i = walk.turn

Expected(i, l) ==
    IF walk.pc = "load" THEN IF l < walk.layer THEN RowsAt(Past(i), 0) ELSE <<>>
    ELSE IF Done(i, l) THEN RowsAt(context[walk.sessions[i]], 0) ELSE RowsAt(Past(i), 0)

RowsInv ==
    \A l \in Layers :
        /\ \A s \in Sessions \ suspect : walk = NoWalk \/ s \notin InWalk => caches[s][l].rows = RowsAt(context[s], 0)
        /\ walk # NoWalk => \A i \in 1..Len(walk.sessions) :
               walk.sessions[i] \notin suspect => caches[walk.sessions[i]][l].rows = Expected(i, l)

OffsetsInv ==
    walk # NoWalk /\ walk.pc \in {"attend", "view", "read", "kernel"} =>
        \A i \in 1..Len(walk.sessions) : walk.sessions[i] \notin suspect => walk.offsets[i] = Len(Past(i))

\* A view that has been taken is the one its session would have now, but
\* for the tensors.
Good(view, cache, slots) ==
    /\ cache.pages # <<>> /\ \A i \in DOMAIN cache.pages : cache.pages[i].id \in DOMAIN slots
    /\ view.length = Len(cache.rows)
    /\ view.table = [i \in DOMAIN cache.pages |-> slots[cache.pages[i].id]]

\* The views a batch has taken, and the append that precedes the next.
ViewsInv ==
    walk # NoWalk /\ walk.paged /\ walk.pc \in {"attend", "view", "kernel"} =>
        /\ job # NoJob => job.session = Session
        /\ Len(walk.views) = IF walk.pc = "kernel" THEN Len(walk.sessions) ELSE walk.turn - 1
        /\ \A i \in 1..Len(walk.views) : Good(walk.views[i], caches[walk.sessions[i]][walk.layer], pools[walk.layer].slots)

SnapshotInv == snapshot # NoSnapshot /\ ~snapshot.doubt =>
    \A l \in Layers : snapshot.rows[l] = RowsAt(snapshot.tokens, 0)

LoadInv == walk # NoWalk /\ walk.pc = "load" /\ Runner \notin suspect => ~snapshot.doubt /\ Past(1) = snapshot.tokens

ContentInv == TokensInv /\ RowsInv /\ OffsetsInv /\ SnapshotInv /\ LoadInv

------------------------------------------------------------------------------
(* Rows of tokens *)

LEMMA RowsAtType ==
    ASSUME NEW tokens \in Seq(Nat), NEW offset \in Nat
    PROVE  /\ RowsAt(tokens, offset) \in Seq(RowType) /\ Len(RowsAt(tokens, offset)) = Len(tokens)
           /\ \A n \in 1..Len(tokens) : RowsAt(tokens, offset)[n] = Row(tokens[n], offset + n - 1)
<1> DEFINE m == Len(tokens)
           rows == RowsAt(tokens, offset)
<1>1. m \in Nat /\ DOMAIN tokens = 1..m /\ \A n \in 1..m : tokens[n] \in Nat
  OBVIOUS
<1>2. rows = [n \in 1..m |-> Row(tokens[n], offset + n - 1)]
  BY <1>1 DEF RowsAt
<1>3. ASSUME NEW n \in 1..m PROVE Row(tokens[n], offset + n - 1) \in RowType
  BY <1>1 DEF Row, RowType
<1> HIDE DEF m, rows
<1>4. rows \in [1..m -> RowType]
  BY <1>2, <1>3
<1>5. rows \in Seq(RowType) /\ Len(rows) = m
  <2>1. rows \in Seq(RowType)
    BY <1>1, <1>4, SeqDef
  <2> QED BY <1>1, <1>4, <2>1
<1>6. \A n \in 1..m : rows[n] = Row(tokens[n], offset + n - 1)
  BY <1>2
<1> QED BY <1>5, <1>6 DEF m, rows

LEMMA RowsAtEmpty == RowsAt(<<>>, 0) = <<>>
<1>1. RowsAt(<<>>, 0) \in Seq(RowType) /\ Len(RowsAt(<<>>, 0)) = 0
  <2> DEFINE none == <<>>
  <2>1. none \in Seq(Nat) /\ Len(none) = 0 /\ 0 \in Nat
    OBVIOUS
  <2> HIDE DEF none
  <2>2. RowsAt(none, 0) \in Seq(RowType) /\ Len(RowsAt(none, 0)) = 0
    BY <2>1, RowsAtType
  <2> QED BY <2>2 DEF none
<1> QED BY <1>1

\* The rows of new tokens follow those of the old.
LEMMA RowsAtConcat ==
    ASSUME NEW a \in Seq(Nat), NEW b \in Seq(Nat)
    PROVE  RowsAt(a, 0) \o RowsAt(b, Len(a)) = RowsAt(a \o b, 0)
<1> DEFINE ra == RowsAt(a, 0)
           rb == RowsAt(b, Len(a))
           c == a \o b
           rc == RowsAt(c, 0)
<1>1. Len(a) \in Nat /\ Len(b) \in Nat /\ c \in Seq(Nat) /\ Len(c) = Len(a) + Len(b)
      /\ (\A n \in 1..Len(a) : c[n] = a[n]) /\ (\A n \in 1..Len(b) : c[Len(a) + n] = b[n])
  OBVIOUS
<1> HIDE DEF c
<1>2. ra \in Seq(RowType) /\ Len(ra) = Len(a) /\ \A n \in 1..Len(a) : ra[n] = Row(a[n], 0 + n - 1)
  BY RowsAtType
<1>3. rb \in Seq(RowType) /\ Len(rb) = Len(b) /\ \A n \in 1..Len(b) : rb[n] = Row(b[n], Len(a) + n - 1)
  BY <1>1, RowsAtType
<1>4. rc \in Seq(RowType) /\ Len(rc) = Len(c) /\ \A n \in 1..Len(c) : rc[n] = Row(c[n], 0 + n - 1)
  BY <1>1, RowsAtType
<1> HIDE DEF ra, rb, rc
<1>5. ra \o rb \in Seq(RowType) /\ Len(ra \o rb) = Len(a) + Len(b)
      /\ (\A n \in 1..Len(a) : (ra \o rb)[n] = ra[n]) /\ (\A n \in 1..Len(b) : (ra \o rb)[Len(a) + n] = rb[n])
  <2>1. ra \o rb \in Seq(RowType) /\ Len(ra \o rb) = Len(ra) + Len(rb)
        /\ (\A n \in 1..Len(ra) : (ra \o rb)[n] = ra[n]) /\ (\A n \in 1..Len(rb) : (ra \o rb)[Len(ra) + n] = rb[n])
    <3>1. ra \in Seq(RowType) /\ rb \in Seq(RowType)
      BY <1>2, <1>3
    <3> QED BY <3>1, ConcatElements
  <2>2. Len(ra) = Len(a) /\ Len(rb) = Len(b)
    BY <1>2, <1>3
  <2> QED BY <2>1, <2>2, Zenon
<1>6. ASSUME NEW n \in 1..Len(rc) PROVE (ra \o rb)[n] = rc[n]
  <2>1. CASE n \in 1..Len(a)
    BY <1>1, <1>2, <1>4, <1>5, <2>1
  <2>2. CASE n \notin 1..Len(a)
    <3> DEFINE k == n - Len(a)
    <3>1. k \in 1..Len(b) /\ n = Len(a) + k /\ n \in 1..Len(c)
      BY <1>1, <1>4, <2>2
    <3> HIDE DEF k
    <3>2. (ra \o rb)[n] = Row(b[k], Len(a) + k - 1)
      BY <1>3, <1>5, <3>1
    <3>3. rc[n] = Row(b[k], 0 + (Len(a) + k) - 1)
      BY <1>1, <1>4, <3>1
    <3>4. Len(a) + k - 1 = 0 + (Len(a) + k) - 1
      BY <1>1, <3>1
    <3> QED BY <3>2, <3>3, <3>4
  <2> QED BY <2>1, <2>2
<1>7. ra \o rb = rc
  BY <1>1, <1>4, <1>5, <1>6, SeqEqual
<1> QED BY <1>7 DEF ra, rb, rc, c

\* The first rows are those of the first tokens.
LEMMA RowsAtCut ==
    ASSUME NEW c \in Seq(Nat), NEW n \in 0..Len(c)
    PROVE  SubSeq(RowsAt(c, 0), 1, n) = RowsAt(SubSeq(c, 1, n), 0)
<1> DEFINE rows == RowsAt(c, 0)
           first == SubSeq(c, 1, n)
           cut == SubSeq(rows, 1, n)
           short == RowsAt(first, 0)
<1>1. Len(c) \in Nat /\ n \in Nat /\ n <= Len(c)
  OBVIOUS
<1>2. first \in Seq(Nat) /\ Len(first) = n /\ \A k \in 1..n : first[k] = c[k]
  BY <1>1
<1>3. rows \in Seq(RowType) /\ Len(rows) = Len(c) /\ \A k \in 1..Len(c) : rows[k] = Row(c[k], 0 + k - 1)
  BY RowsAtType
<1> HIDE DEF rows, first
<1>4. cut \in Seq(RowType) /\ Len(cut) = n /\ \A k \in 1..n : cut[k] = rows[k]
  BY <1>1, <1>3
<1>5. short \in Seq(RowType) /\ Len(short) = Len(first) /\ \A k \in 1..Len(first) : short[k] = Row(first[k], 0 + k - 1)
  BY <1>2, RowsAtType
<1> HIDE DEF cut, short
<1>6. \A k \in 1..Len(cut) : cut[k] = short[k]
  <2> SUFFICES ASSUME NEW k \in 1..n PROVE cut[k] = short[k]
    BY <1>4
  <2>1. cut[k] = Row(c[k], 0 + k - 1)
    BY <1>1, <1>3, <1>4
  <2>2. short[k] = Row(c[k], 0 + k - 1)
    BY <1>2, <1>5
  <2> QED BY <2>1, <2>2
<1>7. cut = short
  BY <1>2, <1>4, <1>5, <1>6, SeqEqual
<1> QED BY <1>7 DEF cut, short, rows, first

\* What is before the last of the tokens given.
LEMMA PastOf ==
    ASSUME NEW before \in Seq(Nat), NEW tokens \in Seq(Nat), NEW given, given = before \o tokens
    PROVE  /\ given \in Seq(Nat) /\ Len(tokens) <= Len(given) /\ Len(given) - Len(tokens) = Len(before)
           /\ SubSeq(given, 1, Len(given) - Len(tokens)) = before
<1>1. /\ given \in Seq(Nat) /\ Len(given) = Len(before) + Len(tokens) /\ Len(before) \in Nat /\ Len(tokens) \in Nat
      /\ \A n \in 1..Len(before) : given[n] = before[n]
  OBVIOUS
<1>2. Len(given) - Len(tokens) = Len(before) /\ Len(tokens) <= Len(given)
  BY <1>1
<1> DEFINE cut == SubSeq(given, 1, Len(before))
<1>3. cut \in Seq(Nat) /\ Len(cut) = Len(before) /\ \A n \in 1..Len(before) : cut[n] = given[n]
  BY <1>1
<1> HIDE DEF cut
<1>4. cut = before
  BY <1>1, <1>3, SeqEqual
<1> QED BY <1>1, <1>2, <1>4 DEF cut

------------------------------------------------------------------------------
(* A walk begins *)

\* The types of a walk after the step.
LEMMA WalkAfter ==
    ASSUME TypeInv', walk' # NoWalk
    PROVE  /\ walk'.sessions \in Seq(Sessions) /\ walk'.tokens \in Seq(Seq(Nat)) /\ walk'.offsets \in Seq(Nat)
           /\ walk'.views \in Seq(ViewType) /\ walk'.layer \in Nat /\ walk'.turn \in 1..Len(walk'.sessions)
           /\ Len(walk'.sessions) \in {1, 2} /\ Len(walk'.tokens) = Len(walk'.sessions)
           /\ \A i \in 1..Len(walk'.sessions) : walk'.tokens[i] \in Seq(Nat) /\ walk'.sessions[i] \in Sessions
<1>1. walk' \in WalkType /\ Stands(walk)'
  <2>1. WalksType' /\ Control'
    BY DEF TypeInv
  <2> QED BY <2>1 DEF WalksType, Control, WalkType, ViewType
<1>2. /\ walk'.sessions \in Seq(Sessions) /\ walk'.tokens \in Seq(Seq(Nat)) /\ walk'.offsets \in Seq(Nat)
      /\ walk'.views \in Seq(ViewType) /\ walk'.layer \in Nat
  BY <1>1 DEF WalkType
<1>3. Len(walk'.sessions) \in {1, 2} /\ Len(walk'.tokens) = Len(walk'.sessions) /\ walk'.turn \in 1..Len(walk'.sessions)
  BY <1>1 DEF Stands
<1>4. ASSUME NEW i \in 1..Len(walk'.sessions) PROVE walk'.tokens[i] \in Seq(Nat) /\ walk'.sessions[i] \in Sessions
  BY <1>2, <1>3
<1> QED BY <1>2, <1>3, <1>4

LEMMA FreshContent ==
    ASSUME TypeInv', ContentInv, walk = NoWalk, walk' # NoWalk, walk'.pc \in {"rotate", "load"}, walk'.layer = 1,
           snapshot' = snapshot,
           \A s \in Sessions : s \notin InWalk' =>
               context'[s] = context[s] /\ caches'[s] = caches[s] /\ (s \in suspect => s \in suspect'),
           \A i \in 1..Len(walk'.sessions) : \E before \in Seq(Nat) :
               /\ context'[walk'.sessions[i]] = before \o walk'.tokens[i]
               /\ walk'.sessions[i] \notin suspect' => \A l \in Layers :
                      caches'[walk'.sessions[i]][l].rows = IF walk'.pc = "load" THEN <<>> ELSE RowsAt(before, 0)
               /\ walk'.pc = "load" /\ walk'.sessions[i] \notin suspect' => ~snapshot.doubt /\ before = snapshot.tokens
    PROVE  ContentInv'
<1>1. ASSUME NEW i \in 1..Len(walk'.sessions)
      PROVE  /\ Len(walk'.tokens[i]) <= Len(context'[walk'.sessions[i]])
             /\ context'[walk'.sessions[i]] = Past(i)' \o walk'.tokens[i]
             /\ walk'.sessions[i] \notin suspect' => \A l \in Layers :
                      caches'[walk'.sessions[i]][l].rows = IF walk'.pc = "load" THEN <<>> ELSE RowsAt(Past(i)', 0)
             /\ walk'.pc = "load" /\ walk'.sessions[i] \notin suspect' => ~snapshot.doubt /\ Past(i)' = snapshot.tokens
  <2>1. PICK before \in Seq(Nat) :
               /\ context'[walk'.sessions[i]] = before \o walk'.tokens[i]
               /\ walk'.sessions[i] \notin suspect' => \A l \in Layers :
                      caches'[walk'.sessions[i]][l].rows = IF walk'.pc = "load" THEN <<>> ELSE RowsAt(before, 0)
               /\ walk'.pc = "load" /\ walk'.sessions[i] \notin suspect' => ~snapshot.doubt /\ before = snapshot.tokens
    OBVIOUS
  <2> DEFINE given == context'[walk'.sessions[i]]
             tokens == walk'.tokens[i]
  <2>2. tokens \in Seq(Nat) /\ given = before \o tokens
    BY <2>1, WalkAfter
  <2> HIDE DEF given, tokens
  <2>3. Len(tokens) <= Len(given) /\ SubSeq(given, 1, Len(given) - Len(tokens)) = before
    BY <2>2, PastOf
  <2>4. Past(i)' = before
    BY <2>3 DEF Past, given, tokens
  <2> QED BY <2>1, <2>3, <2>4 DEF given, tokens
<1>2. TokensInv'
  BY <1>1 DEF TokensInv
<1>3. RowsInv'
  <2> SUFFICES ASSUME NEW l \in Layers
               PROVE  /\ \A s \in Sessions \ suspect' : s \notin InWalk' => caches'[s][l].rows = RowsAt(context'[s], 0)
                      /\ \A i \in 1..Len(walk'.sessions) :
                           walk'.sessions[i] \notin suspect' => caches'[walk'.sessions[i]][l].rows = Expected(i, l)'
    BY DEF RowsInv
  <2>1. ASSUME NEW s \in Sessions \ suspect', s \notin InWalk' PROVE caches'[s][l].rows = RowsAt(context'[s], 0)
    <3>1. caches[s][l].rows = RowsAt(context[s], 0)
      BY <2>1 DEF ContentInv, RowsInv
    <3> QED BY <2>1, <3>1
  <2>2. ASSUME NEW i \in 1..Len(walk'.sessions), walk'.sessions[i] \notin suspect'
        PROVE  caches'[walk'.sessions[i]][l].rows = Expected(i, l)'
    <3>1. caches'[walk'.sessions[i]][l].rows = IF walk'.pc = "load" THEN <<>> ELSE RowsAt(Past(i)', 0)
      BY <1>1, <2>2
    <3>2. ~(l < walk'.layer)
      BY DEF Layers
    <3>3. ~Done(i, l)'
      BY <3>2 DEF Done
    <3>4. Expected(i, l)' = IF walk'.pc = "load" THEN <<>> ELSE RowsAt(Past(i)', 0)
      BY <3>2, <3>3 DEF Expected
    <3> QED BY <3>1, <3>4
  <2> QED BY <2>1, <2>2
<1>4. OffsetsInv'
  BY DEF OffsetsInv
<1>5. SnapshotInv'
  BY DEF ContentInv, SnapshotInv
<1>6. LoadInv'
  <2>1. 1 \in 1..Len(walk'.sessions)
    BY WalkAfter
  <2> QED BY <1>1, <2>1 DEF LoadInv, Runner
<1> QED BY <1>2, <1>3, <1>4, <1>5, <1>6 DEF ContentInv

\* A walk of one session, which had been given the tokens before.
LEMMA OneFresh ==
    ASSUME TypeInv', ContentInv, walk = NoWalk, snapshot' = snapshot,
           NEW pc \in {"rotate", "load"}, NEW mode, NEW batch, NEW remember, NEW s \in Sessions, NEW tokens, NEW before \in Seq(Nat),
           walk' = Walk(pc, mode, batch, <<s>>, <<tokens>>, remember),
           \A t \in Sessions : t # s => context'[t] = context[t] /\ caches'[t] = caches[t] /\ (t \in suspect => t \in suspect'),
           context'[s] = before \o tokens,
           s \notin suspect' => \A l \in Layers : caches'[s][l].rows = IF pc = "load" THEN <<>> ELSE RowsAt(before, 0),
           pc = "load" /\ s \notin suspect' => ~snapshot.doubt /\ before = snapshot.tokens
    PROVE  ContentInv'
<1> DEFINE ss == <<s>>
           tt == <<tokens>>
<1>1. Len(ss) = 1 /\ ss[1] = s /\ tt[1] = tokens /\ ToSet(ss) = {s}
  BY DEF ToSet
<1>2. walk' = Walk(pc, mode, batch, ss, tt, remember)
  OBVIOUS
<1> HIDE DEF ss, tt
<1>3. walk' # NoWalk /\ walk'.pc = pc /\ walk'.sessions = ss /\ walk'.tokens = tt /\ walk'.layer = 1 /\ InWalk' = ToSet(ss)
  <2>1. \A w : w = Walk(pc, mode, batch, ss, tt, remember) =>
            w # NoWalk /\ w.pc = pc /\ w.sessions = ss /\ w.tokens = tt /\ w.layer = 1
    BY DEF Walk, NoWalk
  <2> QED BY <1>2, <2>1 DEF InWalk
<1>4. walk'.pc \in {"rotate", "load"}
  BY <1>3
<1>5. \A t \in Sessions : t \notin InWalk' => context'[t] = context[t] /\ caches'[t] = caches[t] /\ (t \in suspect => t \in suspect')
  BY <1>1, <1>3
<1>6. ASSUME NEW i \in 1..Len(walk'.sessions)
      PROVE  /\ context'[walk'.sessions[i]] = before \o walk'.tokens[i]
             /\ walk'.sessions[i] \notin suspect' => \A l \in Layers :
                    caches'[walk'.sessions[i]][l].rows = IF walk'.pc = "load" THEN <<>> ELSE RowsAt(before, 0)
             /\ walk'.pc = "load" /\ walk'.sessions[i] \notin suspect' => ~snapshot.doubt /\ before = snapshot.tokens
  <2>1. i = 1
    BY <1>1, <1>3
  <2> QED BY <1>1, <1>3, <2>1
<1>7. \A i \in 1..Len(walk'.sessions) : \E b \in Seq(Nat) :
             /\ context'[walk'.sessions[i]] = b \o walk'.tokens[i]
             /\ walk'.sessions[i] \notin suspect' => \A l \in Layers :
                    caches'[walk'.sessions[i]][l].rows = IF walk'.pc = "load" THEN <<>> ELSE RowsAt(b, 0)
             /\ walk'.pc = "load" /\ walk'.sessions[i] \notin suspect' => ~snapshot.doubt /\ b = snapshot.tokens
  BY <1>6
<1> QED BY <1>3, <1>4, <1>5, <1>7, FreshContent

\* A session is given tokens after those before, whose rows it has.
Continues(s, tokens, before) ==
    /\ context'[s] = before \o tokens
    /\ s \notin suspect' => \A l \in Layers : caches'[s][l].rows = RowsAt(before, 0)

\* A batch.
LEMMA BatchFresh ==
    ASSUME TypeInv', ContentInv, walk = NoWalk, snapshot' = snapshot,
           NEW mode, NEW batch, NEW remember, NEW sessions, NEW tokens,
           walk' = Walk("rotate", mode, batch, sessions, tokens, remember),
           \A t \in Sessions : t \notin ToSet(sessions) =>
               context'[t] = context[t] /\ caches'[t] = caches[t] /\ (t \in suspect => t \in suspect'),
           \A i \in 1..Len(sessions) : \E before \in Seq(Nat) : Continues(sessions[i], tokens[i], before)
    PROVE  ContentInv'
<1>1. walk' # NoWalk /\ walk'.pc = "rotate" /\ walk'.sessions = sessions /\ walk'.tokens = tokens /\ walk'.layer = 1
      /\ InWalk' = ToSet(sessions)
  <2>1. \A w : w = Walk("rotate", mode, batch, sessions, tokens, remember) =>
            w # NoWalk /\ w.pc = "rotate" /\ w.sessions = sessions /\ w.tokens = tokens /\ w.layer = 1
    BY DEF Walk, NoWalk
  <2> QED BY <2>1 DEF InWalk
<1>2. walk'.pc \in {"rotate", "load"} /\ walk'.pc # "load"
  BY <1>1
<1>3. \A t \in Sessions : t \notin InWalk' => context'[t] = context[t] /\ caches'[t] = caches[t] /\ (t \in suspect => t \in suspect')
  BY <1>1
<1>4. \A i \in 1..Len(walk'.sessions) : \E p \in Seq(Nat) :
             /\ context'[walk'.sessions[i]] = p \o walk'.tokens[i]
             /\ walk'.sessions[i] \notin suspect' => \A l \in Layers :
                    caches'[walk'.sessions[i]][l].rows = IF walk'.pc = "load" THEN <<>> ELSE RowsAt(p, 0)
             /\ walk'.pc = "load" /\ walk'.sessions[i] \notin suspect' => ~snapshot.doubt /\ p = snapshot.tokens
  <2> TAKE i \in 1..Len(walk'.sessions)
  <2>1. PICK p \in Seq(Nat) : Continues(sessions[i], tokens[i], p)
    BY <1>1
  <2> QED BY <1>1, <1>2, <2>1 DEF Continues
<1> QED BY <1>1, <1>2, <1>3, <1>4, FreshContent

LEMMA BeginningsContent ==
    ASSUME TypeInv, TypeInv', ContentInv,
           \/ \E s \in Sessions, prompt \in Prompts, remember \in BOOLEAN :
                 Prefill(s, prompt, remember) \/ PrefillFrom(s, prompt, remember)
           \/ \E s \in Sessions, token \in Generated : Decode(s, token)
           \/ \E sessions \in Batches : \/ \E p, q \in Prompts : PrefillBatch(sessions, <<p, q>>)
                                        \/ \E t, u \in Generated : DecodeBatch(sessions, <<t, u>>)
    PROVE  ContentInv'
<1> USE DEF TypeInv
<1>0. <<>> \in Seq(Nat) /\ RowsAt(<<>>, 0) = <<>>
  BY RowsAtEmpty
<1>1. ASSUME NEW s \in Sessions, NEW prompt \in Prompts, NEW remember \in BOOLEAN, Prefill(s, prompt, remember) PROVE ContentInv'
  <2>1. prompt \in Seq(Nat)
    BY CudaSessionsAssumption
  <2>2. /\ walk' = Walk("rotate", "prefill", FALSE, <<s>>, <<prompt>>, remember)
        /\ walk = NoWalk /\ snapshot' = snapshot /\ context' = [context EXCEPT ![s] = prompt] /\ suspect' = suspect \ {s}
        /\ Clear(s)
    BY <1>1 DEF Prefill, Starts
  <2>3. context'[s] = prompt /\ \A t \in Sessions : t # s => context'[t] = context[t] /\ (t \in suspect => t \in suspect')
    BY <2>2 DEF GivenType
  <2>4. (\A t \in Sessions : t # s => caches'[t] = caches[t]) /\ \A l \in Layers : caches'[s][l].rows = <<>>
    BY <2>2, ClearGives DEF NoKV
  <2> DEFINE none == <<>>
  <2>5. context'[s] = none \o prompt /\ none \in Seq(Nat) /\ RowsAt(none, 0) = <<>>
    BY <1>0, <2>1, <2>3
  <2> HIDE DEF none
  <2>6. /\ \A t \in Sessions : t # s => context'[t] = context[t] /\ caches'[t] = caches[t] /\ (t \in suspect => t \in suspect')
        /\ s \notin suspect' => \A l \in Layers : caches'[s][l].rows = IF "rotate" = "load" THEN <<>> ELSE RowsAt(none, 0)
        /\ "rotate" = "load" /\ s \notin suspect' => ~snapshot.doubt /\ none = snapshot.tokens
    BY <2>3, <2>4, <2>5
  <2> QED BY <2>2, <2>5, <2>6, OneFresh
<1>2. ASSUME NEW s \in Sessions, NEW prompt \in Prompts, NEW remember \in BOOLEAN, PrefillFrom(s, prompt, remember) PROVE ContentInv'
  <2> DEFINE reused == Len(snapshot.tokens)
             rest == SubSeq(prompt, reused + 1, Len(prompt))
  <2>1. prompt \in Seq(Nat) /\ Len(prompt) \in Nat
    BY CudaSessionsAssumption
  <2>2. /\ walk' = Walk("load", "prefill", FALSE, <<s>>, <<rest>>, remember)
        /\ walk = NoWalk /\ snapshot' = snapshot /\ context' = [context EXCEPT ![s] = prompt]
        /\ suspect' = (IF snapshot.doubt THEN suspect \cup {s} ELSE suspect \ {s})
        /\ Clear(s) /\ snapshot # NoSnapshot /\ reused < Len(prompt) /\ IsPrefix(snapshot.tokens, prompt)
    BY <1>2 DEF PrefillFrom, Starts
  <2>3. context'[s] = prompt /\ \A t \in Sessions : t # s => context'[t] = context[t] /\ (t \in suspect => t \in suspect')
    BY <2>2 DEF GivenType
  <2>4. (\A t \in Sessions : t # s => caches'[t] = caches[t]) /\ \A l \in Layers : caches'[s][l].rows = <<>>
    BY <2>2, ClearGives DEF NoKV
  <2>5. snapshot.tokens \in Seq(Nat) /\ reused \in Nat
    BY <2>2 DEF GivenType, SnapshotType
  <2>6. snapshot.tokens = SubSeq(prompt, 1, reused)
    BY <2>1, <2>2, <2>5 DEF IsPrefix
  <2>7. prompt = SubSeq(prompt, 1, reused) \o rest
    <3>1. reused \in 0..Len(prompt)
      BY <2>1, <2>2, <2>5
    <3> HIDE DEF reused
    <3> QED BY <2>1, <3>1, CutConcat
  <2>8. context'[s] = snapshot.tokens \o rest
    BY <2>3, <2>6, <2>7
  <2>9. s \notin suspect' => ~snapshot.doubt
    BY <2>2
  <2> HIDE DEF rest
  <2>10. /\ \A t \in Sessions : t # s => context'[t] = context[t] /\ caches'[t] = caches[t] /\ (t \in suspect => t \in suspect')
         /\ s \notin suspect' => \A l \in Layers : caches'[s][l].rows = IF "load" = "load" THEN <<>> ELSE RowsAt(snapshot.tokens, 0)
         /\ "load" = "load" /\ s \notin suspect' => ~snapshot.doubt /\ snapshot.tokens = snapshot.tokens
    BY <2>3, <2>4, <2>9
  <2>11. /\ walk' = Walk("load", "prefill", FALSE, <<s>>, <<rest>>, remember)
         /\ walk = NoWalk /\ snapshot' = snapshot /\ snapshot.tokens \in Seq(Nat)
    BY <2>2, <2>5
  <2> QED BY <2>8, <2>10, <2>11, OneFresh
<1>3. ASSUME NEW s \in Sessions, NEW token \in Generated, Decode(s, token) PROVE ContentInv'
  <2>1. token \in Nat
    BY CudaSessionsAssumption
  <2>2. /\ walk' = Walk("rotate", "decode", FALSE, <<s>>, <<<<token>>>>, FALSE)
        /\ walk = NoWalk /\ snapshot' = snapshot /\ context' = [context EXCEPT ![s] = Append(context[s], token)] /\ suspect' = suspect
        /\ caches' = caches
    BY <1>3 DEF Decode, Starts, pageVars
  <2> DEFINE one == <<token>>
  <2>3. context[s] \in Seq(Nat) /\ Append(context[s], token) = context[s] \o one
    <3>1. context[s] \in Seq(Nat)
      BY DEF GivenType
    <3> QED BY <2>1, <3>1, AppendIsConcat
  <2>4. /\ context'[s] = context[s] \o one
        /\ \A t \in Sessions : t # s => context'[t] = context[t] /\ caches'[t] = caches[t] /\ (t \in suspect => t \in suspect')
    BY <2>2, <2>3 DEF GivenType
  <2>5. s \notin suspect' => \A l \in Layers : caches'[s][l].rows = RowsAt(context[s], 0)
    BY <2>2 DEF ContentInv, RowsInv
  <2>6. walk' = Walk("rotate", "decode", FALSE, <<s>>, <<one>>, FALSE)
    BY <2>2
  <2> HIDE DEF one
  <2> QED BY <2>2, <2>3, <2>4, <2>5, <2>6, OneFresh
<1>4. ASSUME NEW sessions \in Batches, NEW p \in Prompts, NEW q \in Prompts, PrefillBatch(sessions, <<p, q>>) PROVE ContentInv'
  <2>1. PICK a \in Sessions, b \in Sessions : a # b /\ sessions = <<a, b>>
    BY BatchOf
  <2>2. /\ walk' = Walk("rotate", "prefill", TRUE, <<a, b>>, <<p, q>>, FALSE)
        /\ walk = NoWalk /\ snapshot' = snapshot /\ suspect' = suspect \ ToSet(sessions)
        /\ context' = [s \in Sessions |-> IF s \in ToSet(sessions) THEN Given(sessions, <<p, q>>, s) ELSE context[s]]
        /\ caches' = [s \in Sessions |-> IF s \in ToSet(sessions) THEN [l \in Layers |-> NoKV] ELSE caches[s]]
    BY <1>4, <2>1 DEF PrefillBatch, Starts
  <2>3. p \in Seq(Nat) /\ q \in Seq(Nat)
    BY CudaSessionsAssumption
  <2>4. ToSet(sessions) = {a, b} /\ Given(sessions, <<p, q>>, a) = p /\ Given(sessions, <<p, q>>, b) = q
    BY <2>1, GivenOf
  <2> DEFINE none == <<>>
  <2>5. context'[a] = none \o p /\ context'[b] = none \o q /\ none \in Seq(Nat) /\ RowsAt(none, 0) = <<>>
    BY <1>0, <2>2, <2>3, <2>4
  <2>6. (\A l \in Layers : caches'[a][l].rows = <<>>) /\ \A l \in Layers : caches'[b][l].rows = <<>>
    BY <2>2, <2>4 DEF NoKV
  <2>7. \A t \in Sessions : t # a /\ t # b => context'[t] = context[t] /\ caches'[t] = caches[t] /\ (t \in suspect => t \in suspect')
    BY <2>2, <2>4
  <2> HIDE DEF none
  <2>8. /\ a \notin suspect' => \A l \in Layers : caches'[a][l].rows = RowsAt(none, 0)
        /\ b \notin suspect' => \A l \in Layers : caches'[b][l].rows = RowsAt(none, 0)
    BY <2>5, <2>6
  <2> DEFINE tt == <<p, q>>
  <2>9. walk = NoWalk /\ snapshot' = snapshot /\ walk' = Walk("rotate", "prefill", TRUE, sessions, tt, FALSE)
    BY <2>1, <2>2
  <2>11. tt[1] = p /\ tt[2] = q /\ Len(sessions) = 2 /\ sessions[1] = a /\ sessions[2] = b /\ ToSet(sessions) = {a, b}
    BY <2>1, <2>4
  <2> HIDE DEF tt
  <2>10. a \in Sessions /\ b \in Sessions /\ none \in Seq(Nat) /\ context'[a] = none \o p /\ context'[b] = none \o q
    BY <2>5
  <2>12. ASSUME NEW i \in 1..Len(sessions)
         PROVE  Continues(sessions[i], tt[i], none)
    <3>1. i = 1 \/ i = 2
      <4>1. i \in 1..2
        BY <2>11
      <4> QED BY <4>1
    <3> QED BY <2>8, <2>10, <2>11, <3>1 DEF Continues
  <2>13. \A i \in 1..Len(sessions) : \E before \in Seq(Nat) : Continues(sessions[i], tt[i], before)
    BY <2>10, <2>12
  <2>14. \A t \in Sessions : t \notin ToSet(sessions) =>
               context'[t] = context[t] /\ caches'[t] = caches[t] /\ (t \in suspect => t \in suspect')
    BY <2>7, <2>11
  <2> QED BY <2>9, <2>13, <2>14, BatchFresh
<1>5. ASSUME NEW sessions \in Batches, NEW t \in Generated, NEW u \in Generated, DecodeBatch(sessions, <<t, u>>) PROVE ContentInv'
  <2>1. PICK a \in Sessions, b \in Sessions : a # b /\ sessions = <<a, b>>
    BY BatchOf
  <2>2. /\ walk' = Walk("rotate", "decode", TRUE, <<a, b>>, [i \in DOMAIN <<t, u>> |-> <<<<t, u>>[i]>>], FALSE)
        /\ walk = NoWalk /\ snapshot' = snapshot /\ suspect' = suspect /\ caches' = caches
        /\ context' = [s \in Sessions |-> IF s \in ToSet(sessions) THEN Append(context[s], Given(sessions, <<t, u>>, s)) ELSE context[s]]
    BY <1>5, <2>1 DEF DecodeBatch, Starts, pageVars
  <2> DEFINE one == <<t>>
             two == <<u>>
  <2>3. [i \in DOMAIN <<t, u>> |-> <<<<t, u>>[i]>>] = <<one, two>>
    OBVIOUS
  <2>4. t \in Nat /\ u \in Nat
    BY CudaSessionsAssumption
  <2>5. ToSet(sessions) = {a, b} /\ Given(sessions, <<t, u>>, a) = t /\ Given(sessions, <<t, u>>, b) = u
    BY <2>1, GivenOf
  <2>6. /\ context[a] \in Seq(Nat) /\ Append(context[a], t) = context[a] \o one
        /\ context[b] \in Seq(Nat) /\ Append(context[b], u) = context[b] \o two
    <3>1. context[a] \in Seq(Nat) /\ context[b] \in Seq(Nat)
      BY DEF GivenType
    <3> QED BY <2>4, <3>1, AppendIsConcat
  <2>7. context'[a] = context[a] \o one /\ context'[b] = context[b] \o two
    BY <2>2, <2>5, <2>6
  <2>8. /\ a \notin suspect' => \A l \in Layers : caches'[a][l].rows = RowsAt(context[a], 0)
        /\ b \notin suspect' => \A l \in Layers : caches'[b][l].rows = RowsAt(context[b], 0)
    BY <2>2 DEF ContentInv, RowsInv
  <2>9. \A s \in Sessions : s # a /\ s # b => context'[s] = context[s] /\ caches'[s] = caches[s] /\ (s \in suspect => s \in suspect')
    BY <2>2, <2>5
  <2> DEFINE tt == <<one, two>>
  <2>10. walk' = Walk("rotate", "decode", TRUE, sessions, tt, FALSE)
    BY <2>1, <2>2, <2>3
  <2>13. tt[1] = one /\ tt[2] = two /\ Len(sessions) = 2 /\ sessions[1] = a /\ sessions[2] = b /\ ToSet(sessions) = {a, b}
    BY <2>1, <2>5
  <2> HIDE DEF tt
  <2> HIDE DEF one, two
  <2>11. walk = NoWalk /\ snapshot' = snapshot
    BY <2>2
  <2>12. a \in Sessions /\ b \in Sessions /\ context[a] \in Seq(Nat) /\ context[b] \in Seq(Nat)
    BY <2>6
  <2>14. \A i \in 1..Len(sessions) : \E before \in Seq(Nat) : Continues(sessions[i], tt[i], before)
    <3> TAKE i \in 1..Len(sessions)
    <3>1. i = 1 \/ i = 2
      <4>1. i \in 1..2
        BY <2>13
      <4> QED BY <4>1
    <3>2. CASE i = 1
      BY <2>7, <2>8, <2>12, <2>13, <3>2 DEF Continues
    <3>3. CASE i = 2
      BY <2>7, <2>8, <2>12, <2>13, <3>3 DEF Continues
    <3> QED BY <3>1, <3>2, <3>3
  <2>15. \A s \in Sessions : s \notin ToSet(sessions) =>
               context'[s] = context[s] /\ caches'[s] = caches[s] /\ (s \in suspect => s \in suspect')
    BY <2>9, <2>13
  <2> QED BY <2>10, <2>11, <2>14, <2>15, BatchFresh
<1> QED BY <1>1, <1>2, <1>3, <1>4, <1>5

------------------------------------------------------------------------------
(* A walk goes on and ends *)

\* What a session had been given is a sequence of tokens.
LEMMA PastType ==
    ASSUME TypeInv, TokensInv, walk # NoWalk, NEW i \in 1..Len(walk.sessions)
    PROVE  /\ walk.sessions[i] \in Sessions /\ walk.tokens[i] \in Seq(Nat) /\ Past(i) \in Seq(Nat)
           /\ context[walk.sessions[i]] \in Seq(Nat)
           /\ Len(walk.tokens[i]) \in 0..Len(context[walk.sessions[i]])
           /\ context[walk.sessions[i]] = Past(i) \o walk.tokens[i]
           /\ Len(Past(i)) = Len(context[walk.sessions[i]]) - Len(walk.tokens[i])
<1>1. walk \in WalkType /\ Stands(walk)
  BY WalkSessions DEF TypeInv
<1>2. walk.sessions \in Seq(Sessions) /\ walk.tokens \in Seq(Seq(Nat)) /\ Len(walk.tokens) = Len(walk.sessions)
  BY <1>1 DEF WalkType, Stands
<1>3. walk.sessions[i] \in Sessions /\ walk.tokens[i] \in Seq(Nat)
  BY <1>2
<1> DEFINE given == context[walk.sessions[i]]
           tokens == walk.tokens[i]
<1>4. given \in Seq(Nat) /\ Len(given) \in Nat /\ Len(tokens) \in Nat
  BY <1>3 DEF TypeInv, GivenType
<1>5. Len(tokens) <= Len(given) /\ given = Past(i) \o tokens
  BY DEF TokensInv
<1>6. Past(i) = SubSeq(given, 1, Len(given) - Len(tokens))
  BY DEF Past
<1> HIDE DEF given, tokens
<1>7. Past(i) \in Seq(Nat) /\ Len(Past(i)) = Len(given) - Len(tokens)
  <2> DEFINE n == Len(given) - Len(tokens)
  <2>1. n \in 0..Len(given)
    BY <1>4, <1>5
  <2>2. Past(i) = SubSeq(given, 1, n)
    BY <1>6
  <2> HIDE DEF n
  <2>3. Past(i) \in Seq(Nat) /\ Len(Past(i)) = n
    BY <1>4, <2>1, <2>2
  <2> QED BY <2>3 DEF n
<1> QED BY <1>3, <1>4, <1>5, <1>7 DEF given, tokens

\* A step of a walk that goes on.
LEMMA WalkGoesOn ==
    ASSUME TypeInv, ContentInv, walk # NoWalk, walk' # NoWalk, walk'.sessions = walk.sessions, walk'.tokens = walk.tokens,
           context' = context, snapshot' = snapshot, suspect \subseteq suspect', walk'.pc = "load" => walk.pc = "load",
           \A s \in Sessions, l \in Layers : s \notin InWalk => caches'[s][l].rows = caches[s][l].rows,
           \A i \in 1..Len(walk.sessions), l \in Layers :
               walk.sessions[i] \notin suspect' => caches'[walk.sessions[i]][l].rows = Expected(i, l)',
           walk'.pc \in {"attend", "view", "read", "kernel"} =>
               \A i \in 1..Len(walk.sessions) : walk.sessions[i] \notin suspect' => walk'.offsets[i] = Len(Past(i))
    PROVE  ContentInv'
<1>1. InWalk' = InWalk /\ Runner' = Runner /\ \A i : Past(i)' = Past(i)
  BY DEF InWalk, Runner, Past
<1>2. TokensInv'
  BY <1>1 DEF ContentInv, TokensInv
<1>3. RowsInv'
  <2> SUFFICES ASSUME NEW l \in Layers
               PROVE  /\ \A s \in Sessions \ suspect' : s \notin InWalk' => caches'[s][l].rows = RowsAt(context'[s], 0)
                      /\ \A i \in 1..Len(walk'.sessions) :
                           walk'.sessions[i] \notin suspect' => caches'[walk'.sessions[i]][l].rows = Expected(i, l)'
    BY DEF RowsInv
  <2>1. ASSUME NEW s \in Sessions \ suspect', s \notin InWalk' PROVE caches'[s][l].rows = RowsAt(context'[s], 0)
    BY <1>1, <2>1 DEF ContentInv, RowsInv
  <2> QED BY <2>1
<1>4. OffsetsInv'
  BY <1>1 DEF OffsetsInv
<1>5. SnapshotInv' /\ LoadInv'
  BY <1>1 DEF ContentInv, SnapshotInv, LoadInv
<1> QED BY <1>2, <1>3, <1>4, <1>5 DEF ContentInv

\* The last step of a walk.
LEMMA WalkEnds ==
    ASSUME TypeInv, ContentInv, walk # NoWalk, walk' = NoWalk, context' = context, suspect \subseteq suspect', SnapshotInv',
           \A s \in Sessions, l \in Layers : s \notin InWalk => caches'[s][l].rows = caches[s][l].rows,
           \A i \in 1..Len(walk.sessions), l \in Layers :
               walk.sessions[i] \notin suspect' => caches'[walk.sessions[i]][l].rows = RowsAt(context[walk.sessions[i]], 0)
    PROVE  ContentInv'
<1>1. RowsInv'
  <2> SUFFICES ASSUME NEW l \in Layers, NEW s \in Sessions \ suspect'
               PROVE  caches'[s][l].rows = RowsAt(context'[s], 0)
    BY DEF RowsInv
  <2>1. CASE s \notin InWalk
    BY <2>1 DEF ContentInv, RowsInv
  <2>2. CASE s \in InWalk
    <3>1. PICK i \in 1..Len(walk.sessions) : s = walk.sessions[i]
      BY <2>2, WalkSessions DEF TypeInv
    <3> QED BY <3>1
  <2> QED BY <2>1, <2>2
<1> QED BY <1>1 DEF ContentInv, TokensInv, OffsetsInv, LoadInv

\* A step of a walk, all of whose sessions are in doubt after it.
LEMMA AllInDoubt ==
    ASSUME TypeInv, ContentInv, walk # NoWalk, walk' \in {walk, NoWalk}, context' = context, snapshot' = snapshot,
           suspect' = suspect \cup InWalk,
           \A s \in Sessions, l \in Layers : s \notin InWalk => caches'[s][l].rows = caches[s][l].rows
    PROVE  ContentInv'
<1>1. \A i \in 1..Len(walk.sessions) : walk.sessions[i] \in suspect'
  BY WalkSessions DEF TypeInv
<1>2. SnapshotInv'
  BY DEF ContentInv, SnapshotInv
<1>3. suspect \subseteq suspect'
  OBVIOUS
<1>4. CASE walk' = NoWalk
  BY <1>1, <1>2, <1>3, <1>4, WalkEnds
<1>5. CASE walk' = walk
  BY <1>1, <1>3, <1>5, WalkGoesOn
<1> QED BY <1>4, <1>5

\* An action of a walk that has one session's rows longer, or none.
LEMMA LoadLayerContent == ASSUME TypeInv, ContentInv, LoadLayer PROVE ContentInv'
<1> DEFINE next == walk.layer + 1
<1>1. walk.pc = "load" /\ job = NoJob /\ walk # NoWalk
  BY DEF LoadLayer, At, NoWalk
<1>2. walk \in WalkType /\ Stands(walk) /\ Runner \in Sessions /\ Runner \in InWalk /\ WalksType
  BY <1>1, WalkSessions DEF TypeInv
<1>3. Len(walk.sessions) = 1 /\ snapshot # NoSnapshot /\ walk.layer \in Layers /\ walk.layer \in Nat
  BY <1>1, <1>2 DEF Stands, LoadLayer, WalkType
<1>4. snapshot \in SnapshotType /\ snapshot.rows[walk.layer] \in Seq(RowType)
  BY <1>3 DEF TypeInv, GivenType, SnapshotType
<1>5. Begins(Runner, walk.layer, snapshot.rows[walk.layer])
  BY <1>1 DEF LoadLayer, Begins, WalkOnly
<1>6. \A t \in Sessions, m \in Layers :
         caches'[t][m].rows = IF t = Runner /\ m = walk.layer THEN caches[t][m].rows \o snapshot.rows[walk.layer] ELSE caches[t][m].rows
  BY <1>2, <1>3, <1>4, <1>5, BeginGives DEF TypeInv
<1>7. walk' # NoWalk /\ walk'.sessions = walk.sessions /\ walk'.tokens = walk.tokens /\ walk'.pc = "load" /\ walk'.layer = next
  <2>1. walk' = [walk EXCEPT !.layer = next]
    BY DEF LoadLayer
  <2> QED BY <1>1, <1>2, <2>1 DEF WalkType, NoWalk
<1>8. context' = context /\ snapshot' = snapshot /\ suspect' = suspect
  BY DEF LoadLayer, WalkOnly
<1>9. ASSUME NEW i \in 1..Len(walk.sessions), NEW l \in Layers, walk.sessions[i] \notin suspect'
      PROVE  caches'[walk.sessions[i]][l].rows = Expected(i, l)'
  <2>1. i = 1 /\ walk.sessions[i] = Runner /\ Runner \notin suspect
    BY <1>3, <1>8, <1>9 DEF Runner
  <2>2. caches[Runner][l].rows = IF l < walk.layer THEN RowsAt(Past(1), 0) ELSE <<>>
    BY <1>1, <2>1 DEF ContentInv, RowsInv, Expected
  <2>3. Past(1)' = Past(1)
    BY <1>7, <1>8 DEF Past
  <2>4. Expected(1, l)' = IF l < next THEN RowsAt(Past(1), 0) ELSE <<>>
    BY <1>7, <2>3 DEF Expected
  <2>5. l \in Nat
    BY CudaPagesAssumption DEF Layers
  <2>6. CASE l = walk.layer
    <3>1. ~snapshot.doubt /\ Past(1) = snapshot.tokens
      BY <1>1, <2>1 DEF ContentInv, LoadInv
    <3>2. snapshot.rows[l] = RowsAt(Past(1), 0)
      BY <1>3, <3>1 DEF ContentInv, SnapshotInv
    <3>3. caches[Runner][l].rows = <<>> /\ l < next
      BY <1>3, <2>2, <2>5, <2>6
    <3>4. caches'[Runner][l].rows = <<>> \o snapshot.rows[l]
      BY <1>2, <1>6, <2>6, <3>3
    <3>5. <<>> \o snapshot.rows[l] = snapshot.rows[l]
      BY <1>4, <2>6
    <3> QED BY <2>1, <2>4, <3>2, <3>3, <3>4, <3>5
  <2>7. CASE l # walk.layer
    <3>1. l < next <=> l < walk.layer
      BY <1>3, <2>5, <2>7
    <3> QED BY <1>2, <1>6, <2>1, <2>2, <2>4, <2>7, <3>1
  <2> QED BY <2>6, <2>7
<1>10. \A s \in Sessions, l \in Layers : s \notin InWalk => caches'[s][l].rows = caches[s][l].rows
  BY <1>2, <1>6
<1>11. suspect \subseteq suspect' /\ (walk'.pc = "load" => walk.pc = "load") /\ walk'.pc \notin {"attend", "view", "read", "kernel"}
  BY <1>1, <1>7, <1>8
<1> HIDE DEF next
<1> QED BY <1>1, <1>7, <1>8, <1>9, <1>10, <1>11, WalkGoesOn

LEMMA LoadedContent == ASSUME TypeInv, ContentInv, Loaded PROVE ContentInv'
<1>1. walk.pc = "load" /\ walk # NoWalk
  BY DEF Loaded, At, NoWalk
<1>2. walk \in WalkType /\ Stands(walk)
  BY <1>1, WalkSessions DEF TypeInv
<1>3. walk.layer = NumLayers + 1 /\ NumLayers \in Nat
  BY <1>2, CudaPagesAssumption DEF Stands, Loaded, Layers
<1>4. walk' # NoWalk /\ walk'.sessions = walk.sessions /\ walk'.tokens = walk.tokens /\ walk'.pc = "rotate" /\ walk'.layer = 1
  <2>1. walk' = [walk EXCEPT !.pc = "rotate", !.layer = 1]
    BY DEF Loaded
  <2> QED BY <1>1, <1>2, <2>1 DEF WalkType, NoWalk
<1>5. context' = context /\ snapshot' = snapshot /\ suspect' = suspect /\ caches' = caches
  BY DEF Loaded, WalkOnly, pageVars
<1>6. ASSUME NEW i \in 1..Len(walk.sessions), NEW l \in Layers, walk.sessions[i] \notin suspect'
      PROVE  caches'[walk.sessions[i]][l].rows = Expected(i, l)'
  <2>1. l < walk.layer /\ ~(l < walk'.layer)
    BY <1>3, <1>4 DEF Layers
  <2>2. caches[walk.sessions[i]][l].rows = RowsAt(Past(i), 0)
    BY <1>1, <1>5, <1>6, <2>1 DEF ContentInv, RowsInv, Expected
  <2>3. Past(i)' = Past(i)
    BY <1>4, <1>5 DEF Past
  <2>4. Expected(i, l)' = RowsAt(Past(i), 0)
    BY <1>4, <2>1, <2>3 DEF Expected, Done
  <2> QED BY <1>5, <2>2, <2>4
<1>7. suspect \subseteq suspect' /\ (walk'.pc = "load" => walk.pc = "load") /\ walk'.pc \notin {"attend", "view", "read", "kernel"}
      /\ \A s \in Sessions, l \in Layers : s \notin InWalk => caches'[s][l].rows = caches[s][l].rows
  BY <1>4, <1>5
<1> QED BY <1>1, <1>4, <1>5, <1>6, <1>7, WalkGoesOn

\* A step that appends nothing, after which the sessions not in doubt have
\* done what they had done before.
LEMMA NothingAppended ==
    ASSUME TypeInv, ContentInv, walk # NoWalk, walk' # NoWalk, walk'.sessions = walk.sessions, walk'.tokens = walk.tokens,
           context' = context, snapshot' = snapshot, suspect \subseteq suspect', walk.pc # "load", walk'.pc # "load",
           \A s \in Sessions, l \in Layers : caches'[s][l].rows = caches[s][l].rows,
           \A i \in 1..Len(walk.sessions), l \in Layers : walk.sessions[i] \notin suspect' => (Done(i, l)' <=> Done(i, l)),
           walk'.pc \in {"attend", "view", "read", "kernel"} =>
               \A i \in 1..Len(walk.sessions) : walk.sessions[i] \notin suspect' => walk'.offsets[i] = Len(Past(i))
    PROVE  ContentInv'
<1>1. ASSUME NEW i \in 1..Len(walk.sessions), NEW l \in Layers, walk.sessions[i] \notin suspect'
      PROVE  caches'[walk.sessions[i]][l].rows = Expected(i, l)'
  <2>1. walk.sessions[i] \in Sessions /\ walk.sessions[i] \notin suspect
    BY <1>1, PastType DEF ContentInv
  <2>2. caches[walk.sessions[i]][l].rows = Expected(i, l)
    BY <2>1 DEF ContentInv, RowsInv
  <2>3. Past(i)' = Past(i)
    BY DEF Past
  <2>4. Expected(i, l)' = Expected(i, l)
    BY <1>1, <2>3 DEF Expected
  <2> QED BY <2>1, <2>2, <2>4
<1>2. walk'.pc = "load" => walk.pc = "load"
  OBVIOUS
<1> QED BY <1>1, <1>2, WalkGoesOn

LEMMA RotateContent == ASSUME TypeInv, ContentInv, Rotate PROVE ContentInv'
<1>1. walk.pc = "rotate" /\ walk # NoWalk
  BY DEF Rotate, At, NoWalk
<1>2. walk \in WalkType /\ Stands(walk)
  BY <1>1, WalkSessions DEF TypeInv
<1>3. walk' # NoWalk /\ walk'.sessions = walk.sessions /\ walk'.tokens = walk.tokens /\ walk'.pc = "attend" /\ walk'.layer = walk.layer
      /\ walk'.turn = 1 /\ walk'.offsets = Offsets
  <2>1. walk' = [walk EXCEPT !.pc = "attend", !.offsets = Offsets, !.turn = 1, !.views = <<>>,
                             !.paged = triton /\ walk.batch /\ walk.mode = "decode"]
    BY DEF Rotate
  <2> QED BY <1>1, <1>2, <2>1 DEF WalkType, NoWalk
<1>4. context' = context /\ snapshot' = snapshot /\ suspect' = suspect /\ caches' = caches
  BY DEF Rotate, WalkOnly, pageVars
<1>5. ASSUME NEW i \in 1..Len(walk.sessions), NEW l \in Layers PROVE Done(i, l)' <=> Done(i, l)
  BY <1>1, <1>3 DEF Done
<1>6. ASSUME NEW i \in 1..Len(walk.sessions), walk.sessions[i] \notin suspect' PROVE walk'.offsets[i] = Len(Past(i))
  <2>1. walk.sessions \in Seq(Sessions) /\ walk.layer \in Layers
    BY <1>1, <1>2, CudaPagesAssumption DEF WalkType, Stands, Layers
  <2>2. Offsets[i] = Len(caches[walk.sessions[i]][walk.layer].rows)
    BY <2>1 DEF Offsets, PositionOffset
  <2>3. ~Done(i, walk.layer)
    BY <1>1, <2>1, CudaPagesAssumption DEF Done, Layers
  <2>4. caches[walk.sessions[i]][walk.layer].rows = RowsAt(Past(i), 0)
    BY <1>1, <1>4, <1>6, <2>1, <2>3 DEF ContentInv, RowsInv, Expected
  <2>5. Past(i) \in Seq(Nat)
    BY <1>1, PastType DEF ContentInv
  <2>6. Len(RowsAt(Past(i), 0)) = Len(Past(i))
    <3>1. 0 \in Nat
      OBVIOUS
    <3> QED BY <2>5, <3>1, RowsAtType
  <2> QED BY <1>3, <2>2, <2>4, <2>6
<1> QED BY <1>1, <1>3, <1>4, <1>5, <1>6, NothingAppended

LEMMA AppendRowsContent == ASSUME TypeInv, ContentInv, AppendRows PROVE ContentInv'
<1> DEFINE new == NewRows(walk.turn)
<1>1. walk.pc = "attend" /\ job = NoJob /\ walk # NoWalk
  BY DEF AppendRows, At, NoWalk
<1>2. walk \in WalkType /\ Stands(walk) /\ Session \in Sessions /\ Session \in InWalk /\ walk.turn \in 1..Len(walk.sessions)
      /\ Len(walk.sessions) \in {1, 2}
  BY <1>1, WalkSessions DEF TypeInv
<1>3. walk.layer \in Layers /\ walk.layer \in Nat
  BY <1>1, <1>2, CudaPagesAssumption DEF Stands, Layers, WalkType
<1>4. /\ new = RowsAt(walk.tokens[walk.turn], walk.offsets[walk.turn]) /\ new \in Seq(RowType)
      /\ walk.tokens[walk.turn] \in Seq(Nat)
  BY <1>1, <1>2, NewRowsType DEF TypeInv
<1>5. Begins(Session, walk.layer, new)
  BY <1>1 DEF AppendRows, Begins, WalkOnly
<1> HIDE DEF new
<1>6. \A t \in Sessions, m \in Layers :
         caches'[t][m].rows = IF t = Session /\ m = walk.layer THEN caches[t][m].rows \o new ELSE caches[t][m].rows
  BY <1>2, <1>3, <1>4, <1>5, BeginGives DEF TypeInv
<1>7. walk' # NoWalk /\ walk'.sessions = walk.sessions /\ walk'.tokens = walk.tokens /\ walk'.pc \in {"view", "read"}
      /\ walk'.layer = walk.layer /\ walk'.turn = walk.turn /\ walk'.offsets = walk.offsets
  <2>1. walk' = [walk EXCEPT !.pc = IF walk.paged THEN "view" ELSE "read"]
    BY DEF AppendRows
  <2> QED BY <1>1, <1>2, <2>1 DEF WalkType, NoWalk
<1>8. context' = context /\ snapshot' = snapshot /\ suspect' = suspect
  BY DEF AppendRows, WalkOnly
<1>9. \A i \in 1..Len(walk.sessions) : walk.sessions[i] \notin suspect' => walk'.offsets[i] = Len(Past(i))
  BY <1>1, <1>7, <1>8 DEF ContentInv, OffsetsInv
<1>10. ASSUME NEW i \in 1..Len(walk.sessions), NEW l \in Layers, walk.sessions[i] \notin suspect'
      PROVE  caches'[walk.sessions[i]][l].rows = Expected(i, l)'
  <2>1. walk.sessions[i] \in Sessions /\ walk.sessions[i] \notin suspect /\ Past(i) \in Seq(Nat)
        /\ context[walk.sessions[i]] = Past(i) \o walk.tokens[i]
    BY <1>1, <1>8, <1>10, PastType DEF ContentInv
  <2>2. caches[walk.sessions[i]][l].rows = IF Done(i, l) THEN RowsAt(context[walk.sessions[i]], 0) ELSE RowsAt(Past(i), 0)
    BY <1>1, <2>1 DEF ContentInv, RowsInv, Expected
  <2>3. Past(i)' = Past(i)
    BY <1>7, <1>8 DEF Past
  <2>4. Expected(i, l)' = IF Done(i, l)' THEN RowsAt(context[walk.sessions[i]], 0) ELSE RowsAt(Past(i), 0)
    BY <1>7, <1>8, <2>3 DEF Expected
  <2>5. i \in Nat /\ l \in Nat /\ walk.turn \in Nat
    BY <1>2, CudaPagesAssumption DEF Layers
  <2>6. CASE i = walk.turn /\ l = walk.layer
    <3>1. Done(i, l)' /\ ~Done(i, l)
      BY <1>1, <1>3, <1>7, <2>5, <2>6 DEF Done
    <3>2. walk.sessions[i] = Session
      BY <2>6 DEF Session
    <3>3. caches'[walk.sessions[i]][l].rows = RowsAt(Past(i), 0) \o RowsAt(walk.tokens[i], walk.offsets[i])
      BY <1>4, <1>6, <2>1, <2>2, <2>6, <3>1, <3>2
    <3>4. walk.offsets[i] = Len(Past(i)) /\ walk.tokens[i] \in Seq(Nat)
      BY <1>4, <1>7, <1>9, <1>10, <2>6
    <3>5. RowsAt(Past(i), 0) \o RowsAt(walk.tokens[i], Len(Past(i))) = RowsAt(Past(i) \o walk.tokens[i], 0)
      BY <2>1, <3>4, RowsAtConcat
    <3> QED BY <2>1, <2>4, <3>1, <3>3, <3>4, <3>5
  <2>7. CASE ~(i = walk.turn /\ l = walk.layer)
    <3>1. Done(i, l)' <=> Done(i, l)
      BY <1>1, <1>3, <1>7, <2>5, <2>7 DEF Done
    <3>2. ~(walk.sessions[i] = Session /\ l = walk.layer)
      <4>1. walk.sessions[i] = Session => i = walk.turn
        BY <1>2, <2>5 DEF Stands, Session
      <4> QED BY <2>7, <4>1
    <3> QED BY <1>6, <2>1, <2>2, <2>4, <3>1, <3>2
  <2> QED BY <2>6, <2>7
<1>11. \A s \in Sessions, l \in Layers : s \notin InWalk => caches'[s][l].rows = caches[s][l].rows
  BY <1>2, <1>6
<1>12. suspect \subseteq suspect' /\ (walk'.pc = "load" => walk.pc = "load")
  BY <1>7, <1>8
<1> QED BY <1>1, <1>7, <1>8, <1>9, <1>10, <1>11, <1>12, WalkGoesOn

\* The steps of an append change the rows of no session.
LEMMA AppendStepRows ==
    ASSUME IInv, TypeInv, PagesInv, ExtendPages \/ WritePage \/ EndAppend
    PROVE  \A s \in Sessions, l \in Layers : caches'[s][l].rows = caches[s][l].rows
<1>1. CASE ExtendPages
  BY <1>1, ExtendGives
<1>2. CASE WritePage \/ EndAppend
  BY <1>2 DEF WritePage, EndAppend
<1> QED BY <1>1, <1>2

LEMMA AppendStepContent == ASSUME IInv, TypeInv, PagesInv, ContentInv, Append1 PROVE ContentInv'
<1>1. /\ walk' = walk /\ context' = context /\ suspect' = suspect /\ snapshot' = snapshot
      /\ \A s \in Sessions, l \in Layers : caches'[s][l].rows = caches[s][l].rows
  BY AppendStepRows DEF Append1, sessionVars
<1>2. TokensInv' /\ OffsetsInv' /\ SnapshotInv' /\ LoadInv'
  BY <1>1 DEF ContentInv, TokensInv, OffsetsInv, SnapshotInv, LoadInv, Past, Runner
<1>3. RowsInv'
  <2> SUFFICES ASSUME NEW l \in Layers
               PROVE  /\ \A s \in Sessions \ suspect : walk = NoWalk \/ s \notin InWalk => caches'[s][l].rows = RowsAt(context[s], 0)
                      /\ walk # NoWalk => \A i \in 1..Len(walk.sessions) :
                           walk.sessions[i] \notin suspect => caches'[walk.sessions[i]][l].rows = Expected(i, l)
    <3>1. InWalk' = InWalk /\ \A i, l : Expected(i, l)' = Expected(i, l)
      BY <1>1 DEF InWalk, Expected, Done, Past
    <3> QED BY <1>1, <3>1 DEF RowsInv
  <2>1. \A s \in Sessions \ suspect : walk = NoWalk \/ s \notin InWalk => caches'[s][l].rows = RowsAt(context[s], 0)
    BY <1>1 DEF ContentInv, RowsInv
  <2>2. ASSUME walk # NoWalk, NEW i \in 1..Len(walk.sessions), walk.sessions[i] \notin suspect
        PROVE  caches'[walk.sessions[i]][l].rows = Expected(i, l)
    <3>1. walk.sessions[i] \in Sessions
      BY <2>2, PastType DEF ContentInv
    <3> QED BY <1>1, <2>2, <3>1 DEF ContentInv, RowsInv
  <2> QED BY <2>1, <2>2
<1> QED BY <1>2, <1>3 DEF ContentInv

\* What is remembered at the end of a walk are the rows of its tokens.
LEMMA RememberedExact ==
    ASSUME TypeInv, walk # NoWalk, NEW l \in Layers, caches[Runner][l].rows = RowsAt(context[Runner], 0)
    PROVE  Remembered.rows[l] = RowsAt(context[Runner], 0)
<1> DEFINE given == context[Runner]
           rows == caches[Runner][l].rows
<1>1. given \in Seq(Nat) /\ Len(given) \in Nat
  <2>1. Runner \in Sessions
    BY WalkSessions DEF TypeInv
  <2> QED BY <2>1 DEF TypeInv, GivenType
<1>2. Remembered.rows[l] = SubSeq(rows, 1, Least(Len(given), Len(rows)))
  BY DEF Remembered, SnapshotPrefix
<1> HIDE DEF given
<1>3. rows = RowsAt(given, 0)
  BY DEF given
<1>4. Len(rows) = Len(given) /\ 0 \in Nat
  <2>1. 0 \in Nat
    OBVIOUS
  <2> QED BY <1>1, <1>3, <2>1, RowsAtType
<1> HIDE DEF rows
<1>5. Least(Len(given), Len(rows)) = Len(given)
  BY <1>4 DEF Least
<1>6. SubSeq(rows, 1, Len(given)) = RowsAt(SubSeq(given, 1, Len(given)), 0)
  BY <1>1, <1>3, RowsAtCut
<1>7. SubSeq(given, 1, Len(given)) = given
  BY <1>1
<1>8. Remembered.rows[l] = RowsAt(given, 0)
  BY <1>2, <1>5, <1>6, <1>7
<1> QED BY <1>8 DEF given

LEMMA NextNodeContent ==
    ASSUME TypeInv, ContentInv, walk # NoWalk, NextNode,
           walk.pc = "read" \/ walk.pc = "kernel"
    PROVE  ContentInv'
<1>1. walk \in WalkType /\ Stands(walk) /\ WalksType
  BY WalkSessions DEF TypeInv
<1>2. /\ UNCHANGED pageVars /\ context' = context /\ suspect' = suspect
      /\ \/ /\ ~walk.paged /\ walk.turn < Len(walk.sessions)
            /\ walk' = [walk EXCEPT !.pc = "attend", !.turn = @ + 1]
         \/ /\ walk.paged \/ walk.turn = Len(walk.sessions)
            /\ walk.layer < NumLayers
            /\ walk' = [walk EXCEPT !.pc = "rotate", !.layer = @ + 1]
         \/ /\ walk.paged \/ ~(walk.turn < Len(walk.sessions))
            /\ ~((walk.paged \/ walk.turn = Len(walk.sessions)) /\ walk.layer < NumLayers)
            /\ walk' = NoWalk
      /\ snapshot' = IF walk'.pc = "none" /\ walk.remember THEN Remembered ELSE snapshot
  BY NextNodeCases
<1>3. /\ Len(walk.sessions) \in {1, 2} /\ walk.turn \in 1..Len(walk.sessions) /\ walk.layer \in 1..NumLayers /\ NumLayers \in Nat
      /\ (walk.pc = "read" => ~walk.paged) /\ (walk.pc = "kernel" => walk.paged /\ walk.turn = Len(walk.sessions))
  BY <1>1, CudaPagesAssumption DEF Stands
<1>4. caches' = caches /\ suspect \subseteq suspect' /\ walk.pc # "load"
  BY <1>2 DEF pageVars
<1>5. \A i \in 1..Len(walk.sessions), l \in Layers : i \in Nat /\ l \in 1..NumLayers
  BY DEF Layers
<1>6. CASE /\ ~walk.paged /\ walk.turn < Len(walk.sessions)
           /\ walk' = [walk EXCEPT !.pc = "attend", !.turn = @ + 1]
  <2>1. walk' # NoWalk /\ walk'.sessions = walk.sessions /\ walk'.tokens = walk.tokens /\ walk'.pc = "attend"
        /\ walk'.layer = walk.layer /\ walk'.turn = walk.turn + 1 /\ walk'.offsets = walk.offsets
    BY <1>1, <1>6 DEF WalkType, NoWalk
  <2>2. walk.pc = "read"
    BY <1>3, <1>6
  <2>3. ASSUME NEW i \in 1..Len(walk.sessions), NEW l \in Layers PROVE Done(i, l)' <=> Done(i, l)
    BY <1>3, <1>5, <2>1, <2>2 DEF Done
  <2>4. \A i \in 1..Len(walk.sessions) : walk.sessions[i] \notin suspect' => walk'.offsets[i] = Len(Past(i))
    BY <1>2, <2>1, <2>2 DEF ContentInv, OffsetsInv
  <2>5. snapshot' = snapshot
    BY <1>2, <2>1
  <2>6. walk'.pc # "load" /\ \A s \in Sessions, l \in Layers : caches'[s][l].rows = caches[s][l].rows
    BY <1>4, <2>1
  <2> QED BY <1>2, <1>4, <2>1, <2>3, <2>4, <2>5, <2>6, NothingAppended
<1>7. CASE /\ walk.paged \/ walk.turn = Len(walk.sessions)
           /\ walk.layer < NumLayers
           /\ walk' = [walk EXCEPT !.pc = "rotate", !.layer = @ + 1]
  <2>1. walk' # NoWalk /\ walk'.sessions = walk.sessions /\ walk'.tokens = walk.tokens /\ walk'.pc = "rotate"
        /\ walk'.layer = walk.layer + 1
    BY <1>1, <1>7 DEF WalkType, NoWalk
  <2>2. walk.turn = Len(walk.sessions)
    BY <1>3, <1>7
  <2>3. ASSUME NEW i \in 1..Len(walk.sessions), NEW l \in Layers PROVE Done(i, l)' <=> Done(i, l)
    <3>1. i \in Nat /\ i <= walk.turn /\ walk.turn \in Nat
      BY <1>3, <2>2
    <3>2. Done(i, l) <=> l <= walk.layer
      BY <1>3, <1>5, <3>1 DEF Done
    <3>3. Done(i, l)' <=> l < walk.layer + 1
      BY <2>1 DEF Done
    <3> QED BY <1>3, <1>5, <3>2, <3>3
  <2>5. snapshot' = snapshot
    BY <1>2, <2>1
  <2>6. walk'.pc # "load" /\ walk'.pc \notin {"attend", "view", "read", "kernel"}
        /\ \A s \in Sessions, l \in Layers : caches'[s][l].rows = caches[s][l].rows
    BY <1>4, <2>1
  <2> QED BY <1>2, <1>4, <2>1, <2>3, <2>5, <2>6, NothingAppended
<1>8. CASE /\ walk.paged \/ ~(walk.turn < Len(walk.sessions))
           /\ ~((walk.paged \/ walk.turn = Len(walk.sessions)) /\ walk.layer < NumLayers)
           /\ walk' = NoWalk
  <2>1. walk.turn = Len(walk.sessions) /\ walk.layer = NumLayers
    BY <1>3, <1>8
  <2>2. ASSUME NEW i \in 1..Len(walk.sessions), NEW l \in Layers, walk.sessions[i] \notin suspect
        PROVE  walk.sessions[i] \in Sessions /\ caches[walk.sessions[i]][l].rows = RowsAt(context[walk.sessions[i]], 0)
    <3>1. i \in Nat /\ i <= walk.turn /\ walk.turn \in Nat
      BY <1>3, <2>1
    <3>2. Done(i, l)
      BY <1>3, <1>5, <2>1, <3>1 DEF Done
    <3>3. walk.sessions[i] \in Sessions
      BY PastType DEF ContentInv
    <3> QED BY <1>4, <2>2, <3>2, <3>3 DEF ContentInv, RowsInv, Expected
  <2>3. SnapshotInv'
    <3>1. CASE snapshot' = snapshot
      BY <3>1 DEF ContentInv, SnapshotInv
    <3>2. CASE snapshot' = Remembered
      <4>1. Remembered.doubt = (Runner \in suspect) /\ Remembered.tokens = context[Runner]
        BY DEF Remembered
      <4>2. 1 \in 1..Len(walk.sessions) /\ walk.sessions[1] = Runner
        BY <1>3 DEF Runner
      <4>3. ASSUME ~Remembered.doubt, NEW l \in Layers PROVE Remembered.rows[l] = RowsAt(Remembered.tokens, 0)
        <5>1. caches[Runner][l].rows = RowsAt(context[Runner], 0)
          BY <2>2, <4>1, <4>2, <4>3
        <5> QED BY <4>1, <5>1, RememberedExact
      <4> QED BY <3>2, <4>3 DEF SnapshotInv
    <3> QED BY <1>2, <3>1, <3>2
  <2>4. \A i \in 1..Len(walk.sessions), l \in Layers :
            walk.sessions[i] \notin suspect' => caches'[walk.sessions[i]][l].rows = RowsAt(context[walk.sessions[i]], 0)
    BY <1>2, <1>4, <2>2
  <2>5. \A s \in Sessions, l \in Layers : s \notin InWalk => caches'[s][l].rows = caches[s][l].rows
    BY <1>4
  <2> QED BY <1>2, <1>4, <1>8, <2>3, <2>4, <2>5, WalkEnds
<1> QED BY <1>2, <1>6, <1>7, <1>8

LEMMA FallbackContent ==
    ASSUME TypeInv, ContentInv, walk # NoWalk, Fallback,
           walk.pc = "view" \/ walk.pc = "kernel"
    PROVE  ContentInv'
<1>1. walk \in WalkType /\ Stands(walk)
  BY WalkSessions DEF TypeInv
<1>2. walk' # NoWalk /\ walk'.sessions = walk.sessions /\ walk'.tokens = walk.tokens /\ walk'.pc = "attend"
      /\ walk'.layer = walk.layer /\ walk'.turn = 1 /\ walk'.offsets = walk.offsets
  <2>1. walk' = [walk EXCEPT !.pc = "attend", !.turn = 1, !.paged = FALSE]
    BY DEF Fallback
  <2> QED BY <1>1, <2>1 DEF WalkType, NoWalk
<1>3. /\ context' = context /\ snapshot' = snapshot /\ caches' = caches
      /\ suspect' = suspect \cup {walk.sessions[i] : i \in 1..walk.turn}
  BY DEF Fallback, pageVars
<1>4. /\ Len(walk.sessions) \in {1, 2} /\ walk.turn \in 1..Len(walk.sessions) /\ (walk.pc = "kernel" => walk.turn = Len(walk.sessions))
  BY <1>1 DEF Stands
<1>5. ASSUME NEW i \in 1..Len(walk.sessions), NEW l \in Layers, walk.sessions[i] \notin suspect'
      PROVE  Done(i, l)' <=> Done(i, l)
  <2>1. i \notin 1..walk.turn
    BY <1>3, <1>5
  <2>2. i \in Nat /\ ~(i < walk.turn) /\ i # walk.turn /\ walk.pc # "kernel" /\ ~(i < 1)
    BY <1>4, <2>1
  <2> QED BY <1>2, <2>2 DEF Done
<1>6. \A i \in 1..Len(walk.sessions) : walk.sessions[i] \notin suspect' => walk'.offsets[i] = Len(Past(i))
  BY <1>2, <1>3 DEF ContentInv, OffsetsInv
<1>7. suspect \subseteq suspect' /\ walk.pc # "load" /\ walk'.pc # "load"
      /\ \A s \in Sessions, l \in Layers : caches'[s][l].rows = caches[s][l].rows
  BY <1>2, <1>3
<1> QED BY <1>2, <1>3, <1>5, <1>6, <1>7, NothingAppended

LEMMA TakeViewContent == ASSUME TypeInv, ContentInv, TakeView PROVE ContentInv'
<1>1. walk.pc = "view" /\ walk # NoWalk
  BY DEF TakeView, At, NoWalk
<1>2. CASE Fallback
  BY <1>1, <1>2, FallbackContent
<1>3. CASE ~Fallback
  <2> DEFINE pc == IF walk.turn = Len(walk.sessions) THEN "kernel" ELSE "attend"
             turn == IF walk.turn = Len(walk.sessions) THEN walk.turn ELSE walk.turn + 1
  <2>1. walk \in WalkType /\ Stands(walk)
    BY <1>1, WalkSessions DEF TypeInv
  <2>2. Len(walk.sessions) \in {1, 2} /\ walk.turn \in 1..Len(walk.sessions)
    BY <2>1 DEF Stands
  <2>3. walk' # NoWalk /\ walk'.sessions = walk.sessions /\ walk'.tokens = walk.tokens /\ walk'.pc = pc
        /\ walk'.layer = walk.layer /\ walk'.turn = turn /\ walk'.offsets = walk.offsets
    <3>1. walk' = [walk EXCEPT !.views = Append(@, PagedView(Session, walk.layer)), !.pc = pc, !.turn = turn]
      BY <1>3 DEF TakeView
    <3> QED BY <1>1, <2>1, <3>1 DEF WalkType, NoWalk
  <2>4. context' = context /\ snapshot' = snapshot /\ suspect' = suspect /\ caches' = caches
    BY <1>3 DEF TakeView, WalkOnly, pageVars
  <2>5. ASSUME NEW i \in 1..Len(walk.sessions), NEW l \in Layers PROVE Done(i, l)' <=> Done(i, l)
    <3>1. i \in Nat /\ i <= Len(walk.sessions)
      BY <2>2
    <3>2. CASE walk.turn = Len(walk.sessions)
      BY <1>1, <2>2, <2>3, <3>1, <3>2 DEF Done
    <3>3. CASE walk.turn # Len(walk.sessions)
      BY <1>1, <2>2, <2>3, <3>1, <3>3 DEF Done
    <3> QED BY <3>2, <3>3
  <2>6. \A i \in 1..Len(walk.sessions) : walk.sessions[i] \notin suspect' => walk'.offsets[i] = Len(Past(i))
    BY <1>1, <2>3, <2>4 DEF ContentInv, OffsetsInv
  <2>7. suspect \subseteq suspect' /\ walk.pc # "load" /\ walk'.pc # "load"
        /\ \A s \in Sessions, l \in Layers : caches'[s][l].rows = caches[s][l].rows
    BY <1>1, <2>3, <2>4
  <2> HIDE DEF pc, turn
  <2> QED BY <1>1, <2>3, <2>4, <2>5, <2>6, <2>7, NothingAppended
<1> QED BY <1>2, <1>3

\* The four ways a walk fails.
LEMMA FaultContent == ASSUME TypeInv, ContentInv, MemoryLimit \/ OutOfMemory \/ LoadFails \/ WriteRaises PROVE ContentInv'
<1>1. walk # NoWalk
  BY DEF MemoryLimit, OutOfMemory, LoadFails, WriteRaises, Fault, TypeInv, Control, NoWalk, NoJob
<1>2. walk' \in {walk, NoWalk} /\ context' = context /\ snapshot' = snapshot /\ suspect' = suspect \cup InWalk
  BY DEF MemoryLimit, OutOfMemory, LoadFails, WriteRaises, Fault
<1>3. Runner \in InWalk /\ Runner \in Sessions
  BY <1>1, WalkSessions DEF TypeInv
<1>4. \A s \in Sessions, l \in Layers : s \notin InWalk => caches'[s][l].rows = caches[s][l].rows
  <2>1. CASE Clear(Runner)
    BY <1>3, <2>1, ClearGives DEF TypeInv
  <2>2. CASE caches' = caches
    BY <2>2
  <2> QED BY <2>1, <2>2 DEF MemoryLimit, OutOfMemory, LoadFails, WriteRaises
<1> QED BY <1>1, <1>2, <1>4, AllInDoubt

LEMMA InitContent == Init => ContentInv /\ ViewsInv
<1> SUFFICES ASSUME Init PROVE ContentInv /\ ViewsInv
  OBVIOUS
<1>1. walk = NoWalk /\ snapshot = NoSnapshot /\ context = [s \in Sessions |-> <<>>] /\ caches = [s \in Sessions |-> [l \in Layers |-> NoKV]]
  BY DEF Init, PagesInit
<1>2. RowsInv
  BY <1>1, RowsAtEmpty DEF RowsInv, NoKV
<1> QED BY <1>1, <1>2 DEF ContentInv, TokensInv, OffsetsInv, SnapshotInv, LoadInv, ViewsInv

LEMMA ContentStays == ASSUME IInv, TypeInv, TypeInv', PagesInv, ContentInv, [Next]_vars PROVE ContentInv'
<1>1. CASE \/ \E s \in Sessions, prompt \in Prompts, remember \in BOOLEAN :
                 Prefill(s, prompt, remember) \/ PrefillFrom(s, prompt, remember)
           \/ \E s \in Sessions, token \in Generated : Decode(s, token)
           \/ \E sessions \in Batches : \/ \E p, q \in Prompts : PrefillBatch(sessions, <<p, q>>)
                                        \/ \E t, u \in Generated : DecodeBatch(sessions, <<t, u>>)
  BY <1>1, BeginningsContent
<1>2. CASE LoadLayer \/ Loaded \/ Rotate \/ AppendRows
  BY <1>2, LoadLayerContent, LoadedContent, RotateContent, AppendRowsContent
<1>3. CASE Append1
  BY <1>3, AppendStepContent
<1>4. CASE Read \/ Kernel
  <2>1. walk # NoWalk /\ walk.pc \in {"read", "kernel"} /\ (NextNode \/ (walk.pc = "kernel" /\ Fallback))
    BY <1>4 DEF Read, Kernel, At, NoWalk
  <2> QED BY <2>1, NextNodeContent, FallbackContent
<1>5. CASE TakeView
  BY <1>5, TakeViewContent
<1>6. CASE MemoryLimit \/ OutOfMemory \/ LoadFails \/ WriteRaises
  BY <1>6, FaultContent
<1>7. CASE UNCHANGED vars
  <2>1. /\ walk' = walk /\ context' = context /\ suspect' = suspect /\ snapshot' = snapshot /\ caches' = caches
    BY <1>7 DEF vars, pageVars, sessionVars
  <2>2. InWalk' = InWalk /\ Runner' = Runner /\ \A i : Past(i)' = Past(i)
    BY <2>1 DEF InWalk, Runner, Past
  <2>3. \A i, l : Expected(i, l)' = Expected(i, l)
    BY <2>1, <2>2 DEF Expected, Done
  <2>4. TokensInv' /\ OffsetsInv' /\ SnapshotInv' /\ LoadInv'
    BY <2>1, <2>2 DEF ContentInv, TokensInv, OffsetsInv, SnapshotInv, LoadInv
  <2>5. RowsInv'
    BY <2>1, <2>2, <2>3 DEF ContentInv, RowsInv
  <2> QED BY <2>4, <2>5 DEF ContentInv
<1> QED BY <1>1, <1>2, <1>3, <1>4, <1>5, <1>6, <1>7 DEF Next

------------------------------------------------------------------------------
(* The views of a batch *)

\* A step after which no batch holds views.
LEMMA NoViews ==
    ASSUME walk' # NoWalk => ~walk'.paged \/ walk'.pc \notin {"attend", "view", "kernel"}
    PROVE  ViewsInv'
BY DEF ViewsInv

\* A view stays good as long as the rows and the pages of its session and
\* the slots of the pages are left alone.
LEMMA GoodKept ==
    ASSUME NEW view, NEW cache, NEW slots, Good(view, cache, slots), NEW after, after.rows = cache.rows, after.pages = cache.pages,
           NEW later, \A p \in DOMAIN slots : p \in DOMAIN later /\ later[p] = slots[p]
    PROVE  Good(view, after, later)
<1>1. \A i \in DOMAIN cache.pages : cache.pages[i].id \in DOMAIN slots
  BY DEF Good
<1>2. [i \in DOMAIN cache.pages |-> slots[cache.pages[i].id]] = [i \in DOMAIN cache.pages |-> later[cache.pages[i].id]]
  BY <1>1
<1> QED BY <1>1, <1>2 DEF Good

\* Of at most two sessions, only the first has had its turn.
LEMMA FirstTurn ==
    ASSUME NEW n \in {1, 2}, NEW turn \in 1..n, NEW i \in 1..(turn - 1)
    PROVE  n = 2 /\ turn = 2 /\ i = 1
<1>1. turn = 1 \/ turn = 2
  OBVIOUS
<1> QED BY <1>1

LEMMA ViewsStay == ASSUME IInv, TypeInv, PagesInv, ViewsInv, [Next]_vars PROVE ViewsInv'
<1>0. walk # NoWalk => /\ walk \in WalkType /\ Stands(walk) /\ WalksType
                       /\ Len(walk.sessions) \in {1, 2} /\ walk.turn \in 1..Len(walk.sessions)
  BY WalkSessions DEF TypeInv
<1>2. CASE LoadLayer \/ Loaded
  <2>1. walk # NoWalk /\ walk.pc = "load"
    BY <1>2 DEF LoadLayer, Loaded, At, NoWalk
  <2>2. walk'.pc \in {"load", "rotate"}
    BY <1>0, <1>2, <2>1 DEF LoadLayer, Loaded, WalkType
  <2> QED BY <2>2, NoViews
<1>3. CASE Rotate
  <2>1. walk # NoWalk /\ job = NoJob /\ job' = NoJob
    BY <1>3 DEF Rotate, At, NoWalk, pageVars
  <2>2. walk'.views = <<>> /\ walk'.turn = 1 /\ walk'.pc = "attend"
    BY <1>0, <1>3, <2>1 DEF Rotate, WalkType
  <2>3. Len(walk'.views) = 0
    BY <2>2
  <2> QED BY <2>1, <2>2, <2>3 DEF ViewsInv
<1>4. CASE AppendRows
  <2> DEFINE new == NewRows(walk.turn)
  <2>1. walk.pc = "attend" /\ job = NoJob /\ walk # NoWalk
    BY <1>4 DEF AppendRows, At, NoWalk
  <2>2. Session \in Sessions /\ walk.layer \in Layers /\ \A i \in 1..Len(walk.sessions) : walk.sessions[i] \in Sessions
    <3>1. walk.sessions \in Seq(Sessions) /\ walk.layer \in 1..NumLayers
      BY <1>0, <2>1, CudaPagesAssumption DEF Stands, WalkType
    <3> QED BY <1>0, <2>1, <3>1 DEF Session, Layers
  <2>3. new \in Seq(RowType)
    BY <1>0, <2>1, NewRowsType DEF TypeInv
  <2>4. Begins(Session, walk.layer, new)
    BY <1>4, <2>1 DEF AppendRows, Begins, WalkOnly
  <2> HIDE DEF new
  <2>5. /\ job'.session = Session /\ pools' = pools
        /\ \A t \in Sessions, m \in Layers :
             caches'[t][m].pages = caches[t][m].pages /\ (t # Session => caches'[t][m].rows = caches[t][m].rows)
    BY <2>2, <2>3, <2>4, BeginGives DEF TypeInv
  <2>6. walk' # NoWalk /\ walk'.sessions = walk.sessions /\ walk'.paged = walk.paged /\ walk'.views = walk.views
        /\ walk'.layer = walk.layer /\ walk'.turn = walk.turn /\ walk'.pc = (IF walk.paged THEN "view" ELSE "read")
    <3>1. walk' = [walk EXCEPT !.pc = IF walk.paged THEN "view" ELSE "read"]
      BY <1>4 DEF AppendRows
    <3> QED BY <1>0, <2>1, <3>1 DEF WalkType, NoWalk
  <2>7. CASE walk.paged
    <3>1. /\ Len(walk.views) = walk.turn - 1
          /\ \A i \in 1..Len(walk.views) : Good(walk.views[i], caches[walk.sessions[i]][walk.layer], pools[walk.layer].slots)
      BY <2>1, <2>7 DEF ViewsInv
    <3>2. Session' = Session
      BY <2>6 DEF Session
    <3>3. ASSUME NEW i \in 1..Len(walk.views)
          PROVE  Good(walk.views[i], caches'[walk.sessions[i]][walk.layer], pools'[walk.layer].slots)
      <4> DEFINE s == walk.sessions[i]
                 l == walk.layer
      <4>1. walk.turn = 2 /\ i = 1 /\ Len(walk.sessions) = 2
        <5>1. i \in 1..(walk.turn - 1)
          BY <3>1
        <5> QED BY <1>0, <2>1, <5>1, FirstTurn
      <4>2. s \in Sessions /\ s # Session /\ l \in Layers
        BY <1>0, <2>1, <2>2, <4>1 DEF Stands, Session
      <4>3. Good(walk.views[i], caches[s][l], pools[l].slots)
        BY <3>1
      <4> HIDE DEF s, l
      <4>4. caches'[s][l].rows = caches[s][l].rows /\ caches'[s][l].pages = caches[s][l].pages /\ pools' = pools
        BY <2>5, <4>2
      <4>5. Good(walk.views[i], caches'[s][l], pools'[l].slots)
        BY <4>3, <4>4, GoodKept
      <4> QED BY <4>5 DEF s, l
    <3> QED BY <2>5, <2>6, <2>7, <3>1, <3>2, <3>3 DEF ViewsInv
  <2>8. CASE ~walk.paged
    BY <2>6, <2>8, NoViews
  <2> QED BY <2>7, <2>8
<1>5. CASE Append1
  <2>1. walk' = walk /\ job # NoJob
    <3>1. walk' = walk /\ job.pc \in {"extend", "write"}
      BY <1>5 DEF Append1, sessionVars, ExtendPages, WritePage, EndAppend
    <3> QED BY <3>1 DEF NoJob
  <2>2. CASE walk.paged /\ walk.pc = "view"
    <3>1. walk # NoWalk
      BY <2>2 DEF NoWalk
    <3>2. job.session = Session /\ Len(walk.views) = walk.turn - 1
          /\ \A i \in 1..Len(walk.views) : Good(walk.views[i], caches[walk.sessions[i]][walk.layer], pools[walk.layer].slots)
      BY <2>1, <2>2, <3>1 DEF ViewsInv
    <3>3. walk.sessions \in Seq(Sessions) /\ walk.layer \in Layers
      BY <1>0, <2>2, <3>1, CudaPagesAssumption DEF WalkType, Stands, Layers
    <3>4. ASSUME NEW i \in 1..Len(walk.views) PROVE walk.sessions[i] \in Sessions /\ walk.sessions[i] # Session
      <4>1. walk.turn = 2 /\ i = 1 /\ Len(walk.sessions) = 2
        <5>1. i \in 1..(walk.turn - 1)
          BY <3>2
        <5> QED BY <1>0, <3>1, <5>1, FirstTurn
      <4> QED BY <1>0, <3>1, <3>3, <4>1 DEF Stands, Session
    <3>5. /\ job' # NoJob => job'.session = job.session
          /\ \A t \in Sessions, m \in Layers : t # job.session => caches'[t][m].rows = caches[t][m].rows /\ caches'[t][m].pages = caches[t][m].pages
          /\ \A m \in Layers : \A p \in DOMAIN pools[m].slots :
                p \in DOMAIN pools'[m].slots /\ pools'[m].slots[p] = pools[m].slots[p]
      <4>1. CASE ExtendPages
        BY <4>1, ExtendGives
      <4>2. CASE WritePage
        BY <4>2, WriteGives
      <4>3. CASE EndAppend
        BY <4>3 DEF EndAppend, allocator
      <4> QED BY <1>5, <4>1, <4>2, <4>3 DEF Append1
    <3>6. ASSUME NEW i \in 1..Len(walk.views)
          PROVE  Good(walk.views[i], caches'[walk.sessions[i]][walk.layer], pools'[walk.layer].slots)
      <4> DEFINE s == walk.sessions[i]
                 l == walk.layer
                 view == walk.views[i]
      <4>1. s \in Sessions /\ l \in Layers /\ s # job.session /\ Good(view, caches[s][l], pools[l].slots)
        BY <3>2, <3>3, <3>4
      <4> HIDE DEF s, l, view
      <4>2. caches'[s][l].rows = caches[s][l].rows /\ caches'[s][l].pages = caches[s][l].pages
        BY <3>5, <4>1
      <4>3. \A p \in DOMAIN pools[l].slots : p \in DOMAIN pools'[l].slots /\ pools'[l].slots[p] = pools[l].slots[p]
        BY <3>5, <4>1
      <4>4. Good(view, caches'[s][l], pools'[l].slots)
        BY <4>1, <4>2, <4>3, GoodKept
      <4> QED BY <4>4 DEF s, l, view
    <3> QED BY <2>1, <2>2, <3>2, <3>5, <3>6 DEF ViewsInv, Session
  <2>3. CASE ~(walk.paged /\ walk.pc = "view")
    <3>1. walk # NoWalk /\ walk.pc \in {"load", "view", "read"}
      BY <2>1 DEF TypeInv, Control
    <3> QED BY <2>1, <2>3, <3>1, NoViews
  <2> QED BY <2>2, <2>3
<1>6. CASE Read \/ (Kernel /\ NextNode)
  <2>1. walk # NoWalk /\ NextNode /\ (walk.pc = "read" \/ walk.pc = "kernel")
    BY <1>6 DEF Read, Kernel, At, NoWalk
  <2>2. walk.pc = "read" => ~walk.paged
    BY <1>0, <2>1 DEF Stands
  <2>3. walk.pc = "kernel" => walk.paged
    BY <1>0, <2>1 DEF Stands
  <2>4. CASE walk' = NoWalk
    BY <2>4, NoViews
  <2>5. CASE walk' = [walk EXCEPT !.pc = "rotate", !.layer = @ + 1]
    <3>1. walk'.pc = "rotate"
      BY <1>0, <2>1, <2>5 DEF WalkType
    <3> QED BY <3>1, NoViews
  <2>6. CASE ~walk.paged /\ walk' = [walk EXCEPT !.pc = "attend", !.turn = @ + 1]
    <3>1. walk'.paged = walk.paged
      BY <1>0, <2>1, <2>6 DEF WalkType
    <3> QED BY <2>6, <3>1, NoViews
  <2> QED BY <2>1, <2>4, <2>5, <2>6, NextNodeCases
<1>7. CASE TakeView /\ ~Fallback
  <2> DEFINE pc == IF walk.turn = Len(walk.sessions) THEN "kernel" ELSE "attend"
             turn == IF walk.turn = Len(walk.sessions) THEN walk.turn ELSE walk.turn + 1
             view == PagedView(Session, walk.layer)
             views == Append(walk.views, view)
  <2>1. walk.pc = "view" /\ walk # NoWalk /\ job = NoJob /\ walk.paged
    <3>1. walk.pc = "view" /\ walk # NoWalk /\ job = NoJob
      BY <1>7 DEF TakeView, At, NoWalk
    <3> QED BY <1>0, <3>1 DEF Stands
  <2>2. HasView(Session, walk.layer) /\ UNCHANGED pageVars /\ walk' = [walk EXCEPT !.views = views, !.pc = pc, !.turn = turn]
    BY <1>7 DEF TakeView
  <2>3. walk'.sessions = walk.sessions /\ walk'.pc = pc /\ walk'.layer = walk.layer /\ walk'.turn = turn /\ walk'.views = views
    BY <1>0, <2>1, <2>2 DEF WalkType
  <2>4. /\ Len(walk.views) = walk.turn - 1
        /\ \A i \in 1..Len(walk.views) : Good(walk.views[i], caches[walk.sessions[i]][walk.layer], pools[walk.layer].slots)
    BY <2>1 DEF ViewsInv
  <2>5. walk.views \in Seq(ViewType) /\ walk.turn \in Nat
    BY <1>0, <2>1 DEF WalkType
  <2>6. Good(view, caches[Session][walk.layer], pools[walk.layer].slots)
    BY <2>2 DEF Good, HasView, PagedView
  <2> HIDE DEF view
  <2>7. Len(views) = walk.turn /\ views[walk.turn] = view /\ \A i \in 1..Len(walk.views) : views[i] = walk.views[i]
    BY <2>4, <2>5
  <2>8. Len(views) = IF pc = "kernel" THEN Len(walk.sessions) ELSE turn - 1
    BY <2>5, <2>7
  <2>9. ASSUME NEW i \in 1..Len(views) PROVE Good(views[i], caches[walk.sessions[i]][walk.layer], pools[walk.layer].slots)
    <3>1. CASE i = walk.turn
      BY <2>6, <2>7, <3>1 DEF Session
    <3>2. CASE i # walk.turn
      <4>1. i \in 1..Len(walk.views)
        BY <2>4, <2>5, <2>7, <3>2
      <4> QED BY <2>4, <2>7, <4>1
    <3> QED BY <3>1, <3>2
  <2> HIDE DEF views, pc, turn
  <2>10. job' = NoJob /\ caches' = caches /\ pools' = pools
    BY <2>1, <2>2 DEF pageVars
  <2> QED BY <2>3, <2>8, <2>9, <2>10 DEF ViewsInv
<1>8. CASE Fallback /\ walk # NoWalk
  <2>1. walk'.paged = FALSE
    BY <1>0, <1>8 DEF Fallback, WalkType
  <2> QED BY <2>1, NoViews
<1>9. CASE MemoryLimit
  <2>1. walk' = NoWalk \/ walk' = walk
    BY <1>9 DEF MemoryLimit
  <2>2. job' = NoJob
    BY <1>9 DEF MemoryLimit, At
  <2>3. walk.pc = "rotate" \/ (walk.pc = "attend" /\ walk.turn = 1 /\ walk.views = <<>>)
    BY <1>9 DEF MemoryLimit, At
  <2>4. CASE walk.pc = "attend" /\ walk.turn = 1 /\ walk.views = <<>> /\ walk' = walk
    <3>1. Len(walk'.views) = 0
      BY <2>4
    <3> QED BY <2>2, <2>4, <3>1 DEF ViewsInv
  <2> QED BY <2>1, <2>3, <2>4, NoViews
<1>10. CASE walk' = NoWalk
  BY <1>10, NoViews
<1>11. CASE UNCHANGED vars
  <2>1. walk' = walk /\ job' = job /\ pools' = pools /\ caches' = caches
    BY <1>11 DEF vars, pageVars, sessionVars
  <2> QED BY <2>1 DEF ViewsInv, Session
<1>12. ASSUME \/ \E s \in Sessions, prompt \in Prompts, remember \in BOOLEAN :
                    Prefill(s, prompt, remember) \/ PrefillFrom(s, prompt, remember)
              \/ \E s \in Sessions, token \in Generated : Decode(s, token)
              \/ \E sessions \in Batches : \/ \E p, q \in Prompts : PrefillBatch(sessions, <<p, q>>)
                                           \/ \E t, u \in Generated : DecodeBatch(sessions, <<t, u>>)
       PROVE  ViewsInv'
  <2>1. ASSUME NEW s \in Sessions, NEW prompt \in Prompts, NEW remember \in BOOLEAN, Prefill(s, prompt, remember)
        PROVE  walk'.paged = FALSE
    BY <2>1 DEF Prefill, Starts, Walk
  <2>5. ASSUME NEW s \in Sessions, NEW prompt \in Prompts, NEW remember \in BOOLEAN, PrefillFrom(s, prompt, remember)
        PROVE  walk'.paged = FALSE
    <3>1. \A rest : Walk("load", "prefill", FALSE, <<s>>, <<rest>>, remember).paged = FALSE
      BY DEF Walk
    <3>2. \E rest : walk' = Walk("load", "prefill", FALSE, <<s>>, <<rest>>, remember)
      BY <2>5 DEF PrefillFrom, Starts
    <3> QED BY <3>1, <3>2
  <2>2. ASSUME NEW s \in Sessions, NEW token \in Generated, Decode(s, token) PROVE walk'.paged = FALSE
    BY <2>2 DEF Decode, Starts, Walk
  <2>3. ASSUME NEW sessions \in Batches, NEW tokens, PrefillBatch(sessions, tokens) \/ DecodeBatch(sessions, tokens)
        PROVE  walk'.paged = FALSE
    BY <2>3 DEF PrefillBatch, DecodeBatch, Starts, Walk
  <2>4. walk'.paged = FALSE
    BY <1>12, <2>1, <2>2, <2>3, <2>5
  <2> QED BY <2>4, NoViews
<1>13. (Kernel => (NextNode \/ (Fallback /\ walk # NoWalk))) /\ (TakeView => walk # NoWalk)
  BY DEF Kernel, TakeView, At, NoWalk
<1>14. OutOfMemory \/ LoadFails \/ WriteRaises => walk' = NoWalk
  BY DEF OutOfMemory, LoadFails, WriteRaises
<1> QED BY <1>2, <1>3, <1>4, <1>5, <1>6, <1>7, <1>8, <1>9, <1>10, <1>11, <1>12, <1>13, <1>14 DEF Next

------------------------------------------------------------------------------
(* What a session attends to *)

\* Of the rows of its context, each query sees those up to its own.
LEMMA SeesAll ==
    ASSUME TypeInv, TokensInv, walk # NoWalk, NEW i \in 1..Len(walk.sessions), NEW rows,
           walk.sessions[i] \notin suspect => rows = RowsAt(context[walk.sessions[i]], 0)
    PROVE  Sees(i, rows)
<1> DEFINE given == context[walk.sessions[i]]
           n == Len(walk.tokens[i])
<1>1. given \in Seq(Nat) /\ n \in 0..Len(given)
  BY PastType
<1>2. walk \in WalkType /\ Stands(walk)
  BY WalkSessions DEF TypeInv
<1>3. walk.mode # "prefill" => n = 1
  BY <1>2 DEF WalkType, Stands
<1> SUFFICES ASSUME walk.sessions[i] \notin suspect, NEW j \in 1..n
             PROVE  Visible(rows, j, n) = RowsAt(SubSeq(given, 1, (Len(given) - n) + j), 0)
  BY DEF Sees
<1>4. rows = RowsAt(given, 0)
  OBVIOUS
<1> HIDE DEF given, n
<1>5. Len(rows) = Len(given)
  <2>1. 0 \in Nat
    OBVIOUS
  <2> QED BY <1>1, <1>4, <2>1, RowsAtType
<1> DEFINE k == (Len(given) - n) + j
<1>6. k \in 0..Len(given) /\ Len(given) \in Nat
  BY <1>1
<1>7. CASE walk.mode = "prefill"
  <2>1. Visible(rows, j, n) = SubSeq(rows, 1, k)
    BY <1>5, <1>7 DEF Visible
  <2> HIDE DEF k
  <2>2. SubSeq(RowsAt(given, 0), 1, k) = RowsAt(SubSeq(given, 1, k), 0)
    BY <1>1, <1>6, RowsAtCut
  <2> QED BY <1>4, <2>1, <2>2 DEF k
<1>8. CASE walk.mode # "prefill"
  <2>1. Visible(rows, j, n) = rows
    BY <1>8 DEF Visible
  <2>2. k = Len(given)
    BY <1>1, <1>3, <1>6, <1>8
  <2>3. SubSeq(given, 1, Len(given)) = given
    BY <1>1
  <2> QED BY <1>4, <2>1, <2>2, <2>3
<1> QED BY <1>7, <1>8

LEMMA ReadsContext == ASSUME TypeInv, PagesInv, WrittenInv, ContentInv, At("read") PROVE Sees(walk.turn, Attended)
<1> DEFINE l == walk.layer
<1>1. walk.pc = "read" /\ job = NoJob /\ walk # NoWalk
  BY DEF At, NoWalk
<1>2. Stands(walk) /\ Session \in Sessions /\ walk.turn \in 1..Len(walk.sessions) /\ Len(walk.sessions) \in {1, 2}
  BY <1>1, WalkSessions DEF TypeInv
<1>3. l \in Layers
  BY <1>1, <1>2, CudaPagesAssumption DEF Stands, Layers
<1>4. ASSUME Session \notin suspect PROVE caches[Session][l].rows = RowsAt(context[Session], 0)
  <2>1. Done(walk.turn, l)
    BY <1>1 DEF Done
  <2>2. Expected(walk.turn, l) = RowsAt(context[walk.sessions[walk.turn]], 0)
    BY <1>1, <2>1 DEF Expected
  <2>3. caches[walk.sessions[walk.turn]][l].rows = Expected(walk.turn, l)
    BY <1>1, <1>2, <1>3, <1>4 DEF ContentInv, RowsInv, Session
  <2> QED BY <2>2, <2>3 DEF Session
<1>5. ASSUME Session \notin suspect PROVE Attended = RowsAt(context[Session], 0)
  <2>1. ~Busy(Session, l)
    BY <1>1 DEF Busy
  <2>2. Gathered(pools[l], PagedView(Session, l)) = caches[Session][l].rows
    <3>1. Session \in Sessions \ suspect
      BY <1>2, <1>5
    <3> HIDE DEF l
    <3> QED BY <1>3, <2>1, <3>1, IdleView
  <2> QED BY <1>4, <1>5, <2>2 DEF Attended
<1>6. walk.sessions[walk.turn] \notin suspect => Attended = RowsAt(context[walk.sessions[walk.turn]], 0)
  BY <1>5 DEF Session
<1>7. TokensInv
  BY DEF ContentInv
<1> QED BY <1>1, <1>2, <1>6, <1>7, SeesAll

LEMMA KernelReadsContext ==
    ASSUME TypeInv, PagesInv, WrittenInv, ContentInv, ViewsInv, At("kernel"), NEW i \in DOMAIN walk.views
    PROVE  Sees(i, Gathered(pools[walk.layer], walk.views[i]))
<1> DEFINE l == walk.layer
           s == walk.sessions[i]
           view == walk.views[i]
<1>1. walk.pc = "kernel" /\ job = NoJob /\ walk # NoWalk
  BY DEF At, NoWalk
<1>2. walk \in WalkType /\ Stands(walk)
  BY <1>1, WalkSessions DEF TypeInv
<1>3. l \in Layers /\ walk.paged /\ walk.sessions \in Seq(Sessions) /\ walk.views \in Seq(ViewType)
  BY <1>1, <1>2, CudaPagesAssumption DEF Stands, Layers, WalkType
<1>4. Len(walk.views) = Len(walk.sessions) /\ \A k \in 1..Len(walk.views) : Good(walk.views[k], caches[walk.sessions[k]][l], pools[l].slots)
  BY <1>1, <1>3 DEF ViewsInv
<1>5. i \in 1..Len(walk.sessions) /\ s \in Sessions /\ Good(view, caches[s][l], pools[l].slots)
  BY <1>3, <1>4
<1>6. ASSUME s \notin suspect PROVE caches[s][l].rows = RowsAt(context[s], 0)
  <2>1. Done(i, l)
    BY <1>1 DEF Done
  <2>2. Expected(i, l) = RowsAt(context[s], 0)
    BY <1>1, <2>1 DEF Expected
  <2> QED BY <1>1, <1>3, <1>5, <1>6, <2>2 DEF ContentInv, RowsInv
<1>7. view.length = Len(caches[s][l].rows) /\ view.table = PagedView(s, l).table
  BY <1>5 DEF Good, PagedView
<1>8. ~Busy(s, l)
  BY <1>1 DEF Busy
<1>9. ASSUME s \notin suspect PROVE Gathered(pools[l], view) = RowsAt(context[s], 0)
  <2> HIDE DEF s, l, view
  <2>1. Tiles(caches[s][l].pages, Len(caches[s][l].rows)) /\ \A k \in 1..Len(caches[s][l].pages) : Written(s, l, k)
    BY <1>3, <1>5, <1>8, <1>9, IdlePages
  <2>2. Gathered(pools[l], view) = caches[s][l].rows
    BY <1>3, <1>5, <1>7, <2>1, GatheredExact
  <2> QED BY <1>6, <1>9, <2>2
<1>10. TokensInv
  BY DEF ContentInv
<1> QED BY <1>1, <1>5, <1>9, <1>10, SeesAll

\* Whenever a session attends, alone (Read: the array or the kernel) or in a
\* fused batch (Kernel), every query sees exactly the tokens its session was
\* given before it, each at its position (_attention, _position_offset,
\* run_prefill_batch, _fused_paged_attention).
THEOREM AttendsContextHolds == Spec => []AttendsContext
<1> DEFINE All == IInv /\ TypeInv /\ PagesInv /\ WrittenInv /\ ContentInv /\ ViewsInv
<1>1. Init => All
  BY InitIInv, InitTypes, InitPages, InitWritten, InitContent
<1>2. All /\ [Next]_vars => All'
  <2> SUFFICES ASSUME All, [Next]_vars PROVE All'
    OBVIOUS
  <2>1. IInv' /\ TypeInv' /\ PagesInv' /\ WrittenInv'
    BY Inductive, TypesStay, StepEffects, PagesStay, WrittenStay
  <2> QED BY <2>1, ContentStays, ViewsStay
<1>3. All => AttendsContext
  BY ReadsContext, KernelReadsContext DEF AttendsContext
<1> HIDE DEF All
<1> QED BY <1>1, <1>2, <1>3, PTL DEF Spec
=============================================================================
