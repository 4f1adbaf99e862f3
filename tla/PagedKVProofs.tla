---------------------------- MODULE PagedKVProofs ----------------------------
(***************************************************************************)
(* Theorems about PagedKVCache: the page table, for every page size, every *)
(* set of layers and every sequence of operations.                         *)
(***************************************************************************)
EXTENDS PagedKVCache, SequenceLemmas, FiniteSetTheorems, TLAPS

\* Remainders at and within a page of p tokens.
LEMMA RemainderBounds ==
    ASSUME NEW p \in Nat \ {0}, NEW n \in Nat
    PROVE  n % p \in Nat /\ n % p < p
BY SMT

LEMMA RemainderInPage ==
    ASSUME NEW p \in Nat \ {0}, NEW n \in Nat, NEW m \in Nat, n % p = 0, m < p
    PROVE  (n + m) % p = m
BY SMTT(60)

LEMMA RemainderNextPage ==
    ASSUME NEW p \in Nat \ {0}, NEW n \in Nat, n % p = 0
    PROVE  (n + p) % p = 0
<1> DEFINE q == n \div p
           r == (n + p) % p
           d == (n + p) \div p - q - 1
<1>1. n = p * q /\ n + p = p * ((n + p) \div p) + r /\ q \in Int
  BY SMT
<1>2. r \in 0..(p - 1) /\ d \in Int
  BY SMT
<1>3. p * d + r = 0
  BY <1>1, <1>2, SMT
<1> HIDE DEF d, r, q
<1>4. d > 0 => p * d >= p
  BY <1>2, SMT
<1>5. d < 0 => p * d <= -p
  BY <1>2, SMT
<1>6. p * d \in Int
  BY <1>2
<1>7. d = 0
  BY <1>2, <1>3, <1>4, <1>5, <1>6, SMT
<1>8. r = 0
  BY <1>2, <1>3, <1>7, SMT
<1>9. QED BY <1>8 DEF r

------------------------------------------------------------------------------
(***************************************************************************)
(* The inductive invariant                                                 *)
(***************************************************************************)

\* The types of the page table and of the loops over it.
TableType ==
    /\ tokens \in [Layers -> Nat] /\ pages \in [Layers -> Seq(Page)]
    /\ nextPageId \in Nat
    /\ pc \in {"idle", "extend", "fill", "spill"} /\ todo \in SUBSET Layers
    /\ cur \in Layers /\ cursor \in Nat /\ remaining \in Nat

\* A loop has the tokens from cursor to the end of its layer before it, and the
\* layers load_prefix has not come to are empty.
LoopInv ==
    /\ pc \in {"extend", "fill"} => cursor + remaining = tokens[cur]
    /\ pc = "fill" => \A l \in todo : tokens[l] = 0

\* Pages begin at multiples of the page size.
Aligned(l) == \A k \in DOMAIN pages[l] : pages[l][k].start % PageSize = 0

TableInv ==
    /\ TableType
    /\ LoopInv
    /\ \A l \in Layers : Tiled(l) /\ Aligned(l)

\* Ids are handed out in order.
IdsInv == TableType /\ PageIdsUnique

\* A pass takes at least a token, at most what is left and what fits.
LEMMA TakeBounds ==
    ASSUME TableType, remaining > 0
    PROVE  /\ Take \in Nat \ {0} /\ Take <= remaining
           /\ Take <= PageSize - (cursor % PageSize)
<1>1. PageSize \in Nat \ {0} /\ cursor \in Nat /\ remaining \in Nat
  BY PagedKVAssumption DEF TableType
<1>2. cursor % PageSize \in Nat /\ cursor % PageSize < PageSize
  BY <1>1, RemainderBounds
<1>3. QED BY <1>1, <1>2 DEF Take, Least

\* Where the pages stay and no layer's cursor moves, the tiling stays.
LEMMA TilesStay ==
    ASSUME TableInv, pages' = pages, \A l \in Layers : Reached(l)' = Reached(l)
    PROVE  \A l \in Layers : Tiled(l)' /\ Aligned(l)'
BY DEF TableInv, Tiled, Aligned, EndOf

\* Every step keeps the types of the page table.
LEMMA TableTypeStep ==
    ASSUME TableType, [Next]_vars
    PROVE  TableType'
<1>1. CASE UNCHANGED vars
  BY <1>1 DEF TableType, vars
<1>2. ASSUME NEW l \in Layers, NEW n \in 1..MaxRun, AppendKV(l, n) PROVE TableType'
  BY <1>2, PagedKVAssumption DEF TableType, AppendKV, Goto
<1>3. ASSUME NEW l \in Layers, NEW n \in 1..MaxTokens, LoadLayer(l, n) PROVE TableType'
  BY <1>3, PagedKVAssumption DEF TableType, LoadLayer, Goto
<1>4. ASSUME NEW S \in SUBSET Layers, LoadPrefix(S) PROVE TableType'
  BY <1>4 DEF TableType, LoadPrefix, Reset, Goto
<1>5. ASSUME NEW p \in Policies, EnableSpillover(p) PROVE TableType'
  BY <1>5 DEF TableType, EnableSpillover, Goto, table, loop
<1>6. CASE Clear
  BY <1>6 DEF TableType, Clear, Reset, Goto
<1>7. CASE Extend
  <2>1. Take \in Nat /\ Take <= remaining
    BY <1>7, TakeBounds DEF Extend
  <2>2. cursor' \in Nat /\ remaining' \in Nat
    BY <1>7, <2>1 DEF Extend, TableType
  <2>3. CASE cursor % PageSize = 0 /\ pages' = [pages EXCEPT ![cur] = Append(@, NewPage)]
             /\ nextPageId' = nextPageId + 1
    <3>1. NewPage \in Page
      BY <2>1 DEF NewPage, Page, TableType
    <3>2. pages' \in [Layers -> Seq(Page)] /\ nextPageId' \in Nat
      BY <2>3, <3>1 DEF TableType
    <3>3. QED BY <1>7, <2>2, <3>2 DEF Extend, TableType
  <2>4. CASE pages' = [pages EXCEPT ![cur][Len(pages[cur])].length = @ + Take] /\ UNCHANGED nextPageId
    <3>1. pages' \in [Layers -> Seq(Page)]
      <4> DEFINE s == pages[cur]
                 t == [s EXCEPT ![Len(s)].length = @ + Take]
      <4>1. s \in Seq(Page)
        BY DEF TableType
      <4>2. \A p \in Page : [p EXCEPT !.length = @ + Take] \in Page
        BY <2>1 DEF Page
      <4>3. t \in Seq(Page)
        <5>1. s \in [1..Len(s) -> Page] /\ Len(s) \in Nat
          BY <4>1
        <5>2. t \in [1..Len(s) -> Page]
          BY <4>2, <5>1
        <5>3. QED BY <5>1, <5>2
      <4>4. pages' = [pages EXCEPT ![cur] = t]
        BY <2>4
      <4>5. QED BY <4>3, <4>4 DEF TableType
    <3>2. QED BY <1>7, <2>2, <2>4, <3>1 DEF Extend, TableType
  <2>5. QED BY <1>7, <2>3, <2>4 DEF Extend
<1>8. CASE Appended
  BY <1>8 DEF TableType, Appended, Goto, table, loop
<1>9. CASE Loaded
  BY <1>9 DEF TableType, Loaded, Goto, table, loop
<1>10. CASE Spill
  BY <1>10 DEF TableType, Spill, Goto, table, loop
<1>11. QED
  BY <1>1, <1>2, <1>3, <1>4, <1>5, <1>6, <1>7, <1>8, <1>9, <1>10 DEF Next

\* Every step keeps what the loops know.
LEMMA LoopStep ==
    ASSUME TableType, LoopInv, [Next]_vars
    PROVE  LoopInv'
<1>1. CASE UNCHANGED vars
  BY <1>1 DEF LoopInv, vars
<1>2. ASSUME NEW l \in Layers, NEW n \in 1..MaxRun, AppendKV(l, n) PROVE LoopInv'
  BY <1>2, PagedKVAssumption DEF TableType, LoopInv, AppendKV, Goto
<1>3. ASSUME NEW l \in Layers, NEW n \in 1..MaxTokens, LoadLayer(l, n) PROVE LoopInv'
  BY <1>3, PagedKVAssumption DEF TableType, LoopInv, LoadLayer, Goto
<1>4. ASSUME NEW S \in SUBSET Layers, LoadPrefix(S) PROVE LoopInv'
  BY <1>4 DEF TableType, LoopInv, LoadPrefix, Reset, Goto
<1>5. ASSUME NEW p \in Policies, EnableSpillover(p) PROVE LoopInv'
  BY <1>5 DEF LoopInv, EnableSpillover, Goto, table, loop
<1>6. CASE Clear
  BY <1>6 DEF LoopInv, Clear, Reset, Goto
<1>7. CASE Extend
  <2>1. Take \in Nat
    BY <1>7, TakeBounds DEF Extend
  <2>2. QED BY <1>7, <2>1 DEF Extend, LoopInv, TableType
<1>8. CASE Appended
  BY <1>8 DEF LoopInv, Appended, Goto, table, loop
<1>9. CASE Loaded
  BY <1>9 DEF LoopInv, Loaded, Goto, table, loop
<1>10. CASE Spill
  BY <1>10 DEF LoopInv, Spill, Goto, table, loop
<1>11. QED
  BY <1>1, <1>2, <1>3, <1>4, <1>5, <1>6, <1>7, <1>8, <1>9, <1>10 DEF Next

\* A pass of _extend_pages keeps the tiling, whether it begins a page or lets the
\* last one grow.
LEMMA ExtendTiles ==
    ASSUME TableInv, Extend
    PROVE  \A l \in Layers : Tiled(l)' /\ Aligned(l)'
<1> PICK c \in Layers : c = cur
  BY DEF TableInv, TableType
<1> DEFINE s == pages[c]
           r == cursor % PageSize
<1>1. /\ PageSize \in Nat \ {0} /\ cursor \in Nat /\ remaining \in Nat
      /\ pages \in [Layers -> Seq(Page)] /\ s \in Seq(Page) /\ Len(s) \in Nat
  BY PagedKVAssumption DEF TableInv, TableType
<1>2. r \in Nat /\ r < PageSize /\ Take \in Nat \ {0} /\ Take <= PageSize - r
  BY <1>1, TakeBounds, RemainderBounds DEF TableInv, Extend
<1>3. /\ Reached(c) = cursor /\ Reached(c)' = cursor + Take
      /\ \A l \in Layers \ {c} : Reached(l)' = Reached(l)
  BY <1>1 DEF Reached, Extend
<1>4. ASSUME s # <<>>
      PROVE  /\ Len(s) \in DOMAIN s /\ s[Len(s)] \in Page
             /\ s[Len(s)].start % PageSize = 0
             /\ s[Len(s)].length \in 1..PageSize
             /\ s[Len(s)].start + s[Len(s)].length = cursor
             /\ s[Len(s)].length < PageSize => r = s[Len(s)].length
             /\ s[Len(s)].length = PageSize => r = 0
  <2>1. Len(s) \in DOMAIN s /\ s[Len(s)] \in Page
    BY <1>1, <1>4
  <2>2. /\ s[Len(s)].start % PageSize = 0
        /\ s[Len(s)].length \in 1..PageSize
        /\ s[Len(s)].start + s[Len(s)].length = cursor
    BY <1>1, <1>3, <2>1 DEF TableInv, Tiled, Aligned, EndOf
  <2>3. s[Len(s)].start \in Nat /\ s[Len(s)].length \in Nat
    BY <2>1 DEF Page
  <2>4. s[Len(s)].length < PageSize => r = s[Len(s)].length
    BY <1>1, <2>2, <2>3, RemainderInPage
  <2>5. s[Len(s)].length = PageSize => r = 0
    BY <1>1, <2>2, <2>3, RemainderNextPage
  <2>6. QED BY <2>1, <2>2, <2>4, <2>5
<1>5. ASSUME NEW l \in Layers \ {c} PROVE Tiled(l)' /\ Aligned(l)'
  <2>1. pages'[l] = pages[l]
    BY <1>1 DEF Extend
  <2>2. QED BY <1>3, <2>1 DEF TableInv, Tiled, Aligned, EndOf
<1>6. CASE r = 0 /\ pages' = [pages EXCEPT ![c] = Append(@, NewPage)]
  <2> DEFINE t == Append(s, NewPage)
  <2>1. pages'[c] = t
    BY <1>1, <1>6
  <2>2. /\ Len(t) = Len(s) + 1 /\ DOMAIN t = 1..(Len(s) + 1)
        /\ \A k \in 1..Len(s) : t[k] = s[k]
        /\ t[Len(s) + 1] = NewPage
    BY <1>1
  <2>3. NewPage.start = cursor /\ NewPage.length = Take
    BY DEF NewPage
  <2>4. s # <<>> => s[Len(s)].length = PageSize
    BY <1>1, <1>4, <1>6
  <2>5. s = <<>> => cursor = 0 /\ Len(s) = 0
    BY <1>1, <1>3 DEF TableInv, Tiled
  <2>6. Aligned(c)'
    <3>1. \A k \in 1..Len(s) : s[k].start % PageSize = 0
      BY <1>1 DEF Aligned, TableInv
    <3>2. QED BY <1>1, <1>6, <2>1, <2>2, <2>3, <3>1 DEF Aligned
  <2>7. ASSUME NEW k \in 1..Len(s)
        PROVE  /\ s[k].length \in 1..PageSize
               /\ k = 1 => s[k].start = 0
               /\ k < Len(s) => s[k].length = PageSize /\ s[k + 1].start = EndOf(s[k])
               /\ k = Len(s) => EndOf(s[k]) = cursor
    BY <1>1, <1>3 DEF TableInv, Tiled
  <2>8. ASSUME NEW k \in 1..(Len(s) + 1)
        PROVE  /\ t[k].length \in 1..PageSize
               /\ k = 1 => t[k].start = 0
               /\ k < Len(t) => t[k].length = PageSize /\ t[k + 1].start = EndOf(t[k])
               /\ k = Len(t) => EndOf(t[k]) = cursor + Take
    <3>1. CASE k = Len(s) + 1
      BY <1>1, <1>2, <2>2, <2>3, <2>5, <3>1 DEF EndOf
    <3>2. CASE k = Len(s)
      BY <1>1, <2>2, <2>3, <2>4, <2>7, <3>2 DEF EndOf
    <3>3. CASE k < Len(s)
      BY <1>1, <2>2, <2>7, <3>3 DEF EndOf
    <3>4. QED BY <1>1, <3>1, <3>2, <3>3
  <2>9. Tiled(c)'
    <3>1. t # <<>> /\ cursor + Take # 0
      BY <1>1, <1>2, <2>2
    <3> HIDE DEF t, s, r
    <3>2. QED BY <1>3, <2>1, <2>2, <2>8, <3>1 DEF Tiled, EndOf
  <2>10. QED BY <1>5, <2>6, <2>9
<1>7. CASE r # 0 /\ pages' = [pages EXCEPT ![c][Len(s)].length = @ + Take]
  <2>1. s # <<>>
    <3>1. CASE s = <<>>
      <4>1. cursor = 0
        BY <1>1, <1>3, <3>1 DEF TableInv, Tiled
      <4>2. 0 % PageSize = 0
        BY <1>1, SMT
      <4>3. QED BY <1>7, <4>1, <4>2
    <3>2. QED BY <3>1
  <2> DEFINE n == Len(s)
             t == [s EXCEPT ![n].length = @ + Take]
  <2>2. pages'[c] = t
    BY <1>1, <1>7
  <2>3. /\ n \in 1..n /\ DOMAIN s = 1..n /\ Len(t) = n /\ DOMAIN t = 1..n
        /\ \A k \in 1..n : k # n => t[k] = s[k]
        /\ t[n] = [s[n] EXCEPT !.length = @ + Take]
    <3>1. n \in 1..n /\ s \in [1..n -> Page]
      BY <1>1, <2>1
    <3>2. t \in [1..n -> Page]
      <4>1. \A p \in Page : [p EXCEPT !.length = @ + Take] \in Page
        BY <1>2 DEF Page
      <4>2. QED BY <3>1, <4>1
    <3>3. Len(t) = n
      BY <1>1, <3>2
    <3>4. QED BY <3>1, <3>2, <3>3
  <2>4. s[n] \in Page
    BY <1>1, <2>3
  <2>5. t[n].start = s[n].start /\ t[n].length = s[n].length + Take
    BY <2>3, <2>4 DEF Page
  <2>6. s[n].length = r /\ EndOf(s[n]) = cursor
    BY <1>1, <1>4, <1>7, <2>1 DEF EndOf
  <2>7. t[n].length \in 1..PageSize /\ EndOf(t[n]) = cursor + Take
    <3>1. s[n].start \in Nat /\ s[n].start + r = cursor
      BY <2>4, <2>6 DEF EndOf, Page
    <3>2. t[n].length = r + Take /\ t[n].start = s[n].start
      BY <2>5, <2>6
    <3> HIDE DEF r, t, n, s
    <3>3. r + Take \in 1..PageSize
      BY <1>1, <1>2
    <3>4. t[n].start + t[n].length = cursor + Take
      BY <1>2, <3>1, <3>2
    <3>5. QED BY <3>2, <3>3, <3>4 DEF EndOf
  <2>8. ASSUME NEW k \in 1..n
        PROVE  /\ s[k].length \in 1..PageSize
               /\ k = 1 => s[k].start = 0
               /\ k < n => s[k].length = PageSize /\ s[k + 1].start = EndOf(s[k])
               /\ s[k].start % PageSize = 0
    BY <1>1, <2>3 DEF TableInv, Tiled, Aligned
  <2>9. ASSUME NEW k \in 1..n
        PROVE  /\ t[k].length \in 1..PageSize
               /\ k = 1 => t[k].start = 0
               /\ k < n => t[k].length = PageSize /\ t[k + 1].start = EndOf(t[k])
               /\ k = n => EndOf(t[k]) = cursor + Take
               /\ t[k].start % PageSize = 0
    <3>1. CASE k = n
      BY <2>3, <2>5, <2>7, <2>8, <3>1
    <3>2. CASE k # n
      <4>1. k < n /\ k + 1 \in 1..n
        BY <1>1, <2>3, <3>2
      <4>2. t[k] = s[k] /\ t[k + 1].start = s[k + 1].start
        BY <2>3, <2>5, <3>2, <4>1
      <4>3. QED BY <2>8, <3>2, <4>1, <4>2 DEF EndOf
    <3>3. QED BY <3>1, <3>2
  <2>10. Tiled(c)' /\ Aligned(c)'
    <3>1. t # <<>> /\ cursor + Take # 0
      BY <1>1, <1>2, <2>3
    <3> HIDE DEF t, n, s, r
    <3>2. QED BY <1>3, <2>2, <2>3, <2>9, <3>1 DEF Tiled, Aligned, EndOf
  <2>11. QED BY <1>5, <2>10
<1>8. QED BY <1>1, <1>6, <1>7 DEF Extend

------------------------------------------------------------------------------
(***************************************************************************)
(* The pages tile the tokens                                               *)
(***************************************************************************)

LEMMA TableStep ==
    ASSUME TableInv, [Next]_vars
    PROVE  TableInv'
<1>1. TableType' /\ LoopInv'
  BY TableTypeStep, LoopStep DEF TableInv
<1>2. \A l \in Layers : Tiled(l)' /\ Aligned(l)'
  <2>1. CASE UNCHANGED vars
    BY <2>1, TilesStay DEF vars, Reached
  <2>2. ASSUME NEW l \in Layers, NEW n \in 1..MaxRun, AppendKV(l, n)
        PROVE  \A k \in Layers : Tiled(k)' /\ Aligned(k)'
    BY <2>2, TilesStay DEF AppendKV, Goto, Reached, TableInv, TableType
  <2>3. ASSUME NEW l \in Layers, NEW n \in 1..MaxTokens, LoadLayer(l, n)
        PROVE  \A k \in Layers : Tiled(k)' /\ Aligned(k)'
    <3>1. tokens[l] = 0 /\ cursor = tokens[cur] /\ pc = "fill" /\ pc' = "fill"
      BY <2>3 DEF LoadLayer, Goto, TableInv, TableType, LoopInv
    <3>2. \A k \in Layers : Reached(k)' = Reached(k)
      BY <2>3, <3>1 DEF LoadLayer, Reached, TableInv, TableType
    <3>3. QED BY <2>3, <3>2, TilesStay DEF LoadLayer
  <2>4. ASSUME NEW S \in SUBSET Layers, Reset(S)
        PROVE  \A k \in Layers : Tiled(k)' /\ Aligned(k)'
    BY <2>4 DEF Reset, Tiled, Aligned, Reached
  <2>5. ASSUME NEW p \in Policies, EnableSpillover(p)
        PROVE  \A k \in Layers : Tiled(k)' /\ Aligned(k)'
    BY <2>5, TilesStay DEF EnableSpillover, Goto, table, loop, Reached
  <2>6. CASE Extend
    BY <2>6, ExtendTiles
  <2>7. CASE Appended
    BY <2>7, TilesStay DEF Appended, Goto, table, loop, Reached, TableInv, TableType, LoopInv
  <2>8. CASE Loaded
    BY <2>8, TilesStay DEF Loaded, Goto, table, loop, Reached, TableInv, TableType, LoopInv
  <2>9. CASE Spill
    BY <2>9, TilesStay DEF Spill, Goto, table, loop, Reached
  <2>10. QED
    BY <2>1, <2>2, <2>3, <2>4, <2>5, <2>6, <2>7, <2>8, <2>9 DEF Next, Clear, LoadPrefix
<1>3. QED BY <1>1, <1>2 DEF TableInv

LEMMA TableInitially ==
    ASSUME Init
    PROVE  TableInv
<1>1. TableType
  BY DEF Init, TableType
<1>2. LoopInv
  BY DEF Init, LoopInv
<1>3. \A l \in Layers : Tiled(l) /\ Aligned(l)
  BY DEF Init, Tiled, Aligned, Reached
<1>4. QED BY <1>1, <1>2, <1>3 DEF TableInv

\* The page table of every layer tiles the layer's tokens, however long the runs
\* that append and load_prefix were given, and at every pass of _extend_pages.
THEOREM PagesTileHolds == Spec => []PagesTile
<1>1. TableInv => PagesTile
  BY DEF TableInv, PagesTile
<1>2. QED BY <1>1, TableInitially, TableStep, PTL DEF Spec

------------------------------------------------------------------------------
(***************************************************************************)
(* Page ids are unique                                                     *)
(***************************************************************************)

LEMMA IdsStep ==
    ASSUME IdsInv, [Next]_vars
    PROVE  PageIdsUnique'
<1>1. ASSUME pages' = pages, nextPageId' = nextPageId PROVE PageIdsUnique'
  BY <1>1 DEF IdsInv, PageIdsUnique
<1>2. ASSUME NEW S \in SUBSET Layers, Reset(S) PROVE PageIdsUnique'
  BY <1>2 DEF Reset, PageIdsUnique
<1>3. CASE Extend
  <2> PICK c \in Layers : c = cur
    BY DEF IdsInv, TableType
  <2> DEFINE s == pages[c]
             n == Len(s)
  <2>1. pages \in [Layers -> Seq(Page)] /\ s \in Seq(Page) /\ n \in Nat /\ nextPageId \in Nat
    BY DEF IdsInv, TableType
  <2>2. \A l \in Layers \ {c} : pages'[l] = pages[l]
    BY <1>3, <2>1 DEF Extend
  <2>3. CASE pages' = [pages EXCEPT ![c] = Append(s, NewPage)] /\ nextPageId' = nextPageId + 1
    <3>1. /\ DOMAIN pages'[c] = 1..(n + 1) /\ DOMAIN s = 1..n
          /\ \A k \in 1..n : pages'[c][k] = s[k]
          /\ pages'[c][n + 1].id = nextPageId
      BY <2>1, <2>3 DEF NewPage
    <3>2. ASSUME NEW l \in Layers, NEW j \in DOMAIN pages'[l]
          PROVE  \/ l = c /\ j = n + 1 /\ pages'[l][j].id = nextPageId
                 \/ /\ j \in DOMAIN pages[l] /\ pages'[l][j].id = pages[l][j].id
                    /\ pages[l][j].id < nextPageId /\ pages[l][j].id \in Nat
      <4>1. CASE l = c /\ j = n + 1
        BY <3>1, <4>1
      <4>2. CASE ~(l = c /\ j = n + 1)
        <5>1. j \in DOMAIN pages[l] /\ pages'[l][j] = pages[l][j]
          BY <2>1, <2>2, <3>1, <4>2
        <5>2. pages[l][j] \in Page
          BY <2>1, <5>1
        <5>3. QED BY <5>1, <5>2 DEF IdsInv, PageIdsUnique, Page
      <4>3. QED BY <4>1, <4>2
    <3>3. QED BY <2>1, <2>3, <3>2 DEF IdsInv, PageIdsUnique
  <2>4. CASE pages' = [pages EXCEPT ![c][n].length = @ + Take] /\ nextPageId' = nextPageId
    <3>1. /\ DOMAIN pages'[c] = DOMAIN s
          /\ \A k \in DOMAIN s : pages'[c][k].id = s[k].id
      <4>1. pages'[c] = [s EXCEPT ![n].length = @ + Take]
        BY <2>1, <2>4
      <4>2. ASSUME NEW k \in DOMAIN s PROVE pages'[c][k].id = s[k].id
        <5>1. s[k] \in Page
          BY <2>1
        <5>2. QED BY <4>1, <5>1 DEF Page
      <4>3. QED BY <4>1, <4>2
    <3>2. \A l \in Layers : /\ DOMAIN pages'[l] = DOMAIN pages[l]
                            /\ \A k \in DOMAIN pages[l] : pages'[l][k].id = pages[l][k].id
      BY <2>2, <3>1
    <3>3. QED BY <2>4, <3>2 DEF IdsInv, PageIdsUnique
  <2>5. QED BY <1>3, <2>3, <2>4 DEF Extend
<1>4. QED
  BY <1>1, <1>2, <1>3
  DEF Next, vars, AppendKV, LoadLayer, LoadPrefix, Clear, EnableSpillover, Appended, Loaded, Spill, table

\* No two pages of a session ever have the same id, also not pages of different
\* layers: the markers, which name a page by its id, are unambiguous.
THEOREM PageIdsUniqueHolds == Spec => []PageIdsUnique
<1>1. Init => IdsInv
  <2>1. Init => TableType
    BY TableInitially DEF TableInv
  <2>2. Init => \A l \in Layers : pages[l] = <<>>
    BY DEF Init
  <2>3. (\A l \in Layers : pages[l] = <<>>) => PageIdsUnique
    BY DEF PageIdsUnique
  <2>4. QED BY <2>1, <2>2, <2>3 DEF IdsInv
<1>2. IdsInv /\ [Next]_vars => IdsInv'
  BY TableTypeStep, IdsStep DEF IdsInv
<1>3. IdsInv => PageIdsUnique
  BY DEF IdsInv
<1>4. QED BY <1>1, <1>2, <1>3, PTL DEF Spec

------------------------------------------------------------------------------
(***************************************************************************)
(* The order in which the policy spills                                    *)
(***************************************************************************)

\* How many markers of S come before m.
Rank(S, m) == Cardinality({n \in S : ByScore(n, m)})

\* Scores are ordered.
LEMMA ByScoreOrder ==
    ASSUME NEW k \in Marker, NEW m \in Marker, NEW n \in Marker
    PROVE  /\ ~ByScore(m, m)
           /\ ByScore(k, m) /\ ByScore(m, n) => ByScore(k, n)
<1>1. /\ k.start \in Nat /\ k.layer \in Nat /\ m.start \in Nat /\ m.layer \in Nat
      /\ n.start \in Nat /\ n.layer \in Nat
  BY PagedKVAssumption DEF Marker
<1>2. QED BY <1>1 DEF ByScore

\* Ranks are below the number of markers, and a higher score has a higher rank.
LEMMA RankBounds ==
    ASSUME NEW S \in SUBSET Marker, IsFiniteSet(S), NEW m \in S, NEW n \in S
    PROVE  /\ Cardinality(S) \in Nat
           /\ Rank(S, m) \in Nat /\ Rank(S, m) < Cardinality(S)
           /\ ByScore(m, n) => Rank(S, m) < Rank(S, n)
<1> DEFINE M == {k \in S : ByScore(k, m)}
           N == {k \in S : ByScore(k, n)}
<1>1. M \in SUBSET S /\ m \notin M /\ N \in SUBSET S
  BY ByScoreOrder
<1>2. /\ IsFiniteSet(M) /\ Cardinality(M) <= Cardinality(S)
      /\ Cardinality(S) = Cardinality(M) => S = M
  BY <1>1, FS_Subset
<1>3. IsFiniteSet(N)
  BY <1>1, FS_Subset
<1>4. Cardinality(S) \in Nat /\ Cardinality(M) \in Nat /\ Cardinality(N) \in Nat
  BY <1>2, <1>3, FS_CardinalityType
<1>5. ASSUME ByScore(m, n) PROVE Cardinality(M) < Cardinality(N)
  <2>1. M \in SUBSET N /\ m \in N
    BY <1>5, ByScoreOrder
  <2>2. /\ Cardinality(M) <= Cardinality(N)
        /\ Cardinality(N) = Cardinality(M) => N = M
    BY <1>3, <2>1, FS_Subset
  <2> HIDE DEF M, N
  <2>3. QED BY <1>1, <1>4, <2>1, <2>2
<1>6. Rank(S, m) = Cardinality(M) /\ Rank(S, n) = Cardinality(N)
  BY DEF Rank
<1> HIDE DEF M, N
<1>7. Cardinality(M) < Cardinality(S)
  BY <1>1, <1>2, <1>4
<1>8. QED BY <1>4, <1>5, <1>6, <1>7

\* Where any two markers of a finite set have different scores, InOrder lists
\* each of them, and a lower score before a higher.
LEMMA InOrderExact ==
    ASSUME NEW S \in SUBSET Marker, IsFiniteSet(S),
           \A m, n \in S : m # n => ByScore(m, n) \/ ByScore(n, m)
    PROVE  /\ Cardinality(S) \in Nat
           /\ InOrder(S) \in Seq(S) /\ Len(InOrder(S)) = Cardinality(S)
           /\ \A m \in S : \E i \in 1..Cardinality(S) : InOrder(S)[i] = m
           /\ IsInjective(InOrder(S))
           /\ \A i, j \in 1..Cardinality(S) : ByScore(InOrder(S)[i], InOrder(S)[j]) => i < j
<1> DEFINE N == Cardinality(S)
           rank == [m \in S |-> Rank(S, m) + 1]
           t == InOrder(S)
<1>1. N \in Nat
  BY FS_CardinalityType
<1>2. ASSUME NEW m \in S PROVE Rank(S, m) \in Nat /\ Rank(S, m) < N
  BY RankBounds
<1>3. ASSUME NEW m \in S, NEW n \in S, Rank(S, m) = Rank(S, n) PROVE m = n
  <2>1. SUFFICES ASSUME m # n PROVE FALSE
    OBVIOUS
  <2>2. Rank(S, m) < Rank(S, n) \/ Rank(S, n) < Rank(S, m)
    BY <2>1, RankBounds
  <2>3. QED BY <1>2, <1>3, <2>2
<1>4. \A i \in 1..N : \E m \in S : Rank(S, m) = i - 1
  <2>1. rank \in [S -> 1..N]
    <3>1. \A m \in S : Rank(S, m) + 1 \in 1..N
      BY <1>1, <1>2
    <3>2. QED BY <3>1
  <2>2. \A m, n \in S : rank[m] = rank[n] => m = n
    BY <1>2, <1>3
  <2>3. rank \in Injection(S, 1..N)
    BY <2>1, <2>2 DEF Injection, IsInjective
  <2>4. IsFiniteSet(1..N) /\ Cardinality(1..N) = N
    BY <1>1, FS_Interval
  <2>5. rank \in Surjection(S, 1..N)
    BY <2>3, <2>4, FS_Injection
  <2>6. \A i \in 1..N : \E m \in S : rank[m] = i
    BY <2>5 DEF Surjection
  <2>7. QED BY <1>1, <1>2, <2>6
<1>5. /\ DOMAIN t = 1..N
      /\ t = [i \in 1..N |-> t[i]]
      /\ \A i \in 1..N : t[i] = CHOOSE m \in S : Rank(S, m) = i - 1
  BY DEF InOrder, Rank
<1> HIDE DEF t, N, rank
<1>6. ASSUME NEW i \in 1..N PROVE t[i] \in S /\ Rank(S, t[i]) = i - 1
  BY <1>4, <1>5
<1>7. t \in Seq(S) /\ Len(t) = N
  <2>1. t \in [1..N -> S]
    BY <1>5, <1>6
  <2>2. QED BY <1>1, <2>1
<1>8. ASSUME NEW m \in S PROVE \E i \in 1..N : t[i] = m
  <2>1. Rank(S, m) + 1 \in 1..N
    BY <1>1, <1>2
  <2>2. t[Rank(S, m) + 1] \in S /\ Rank(S, t[Rank(S, m) + 1]) = Rank(S, m)
    BY <1>2, <1>6, <2>1
  <2>3. t[Rank(S, m) + 1] = m
    BY <1>3, <2>2
  <2>4. QED BY <2>1, <2>3
<1>9. IsInjective(t)
  <2>1. ASSUME NEW i \in 1..N, NEW j \in 1..N, t[i] = t[j] PROVE i = j
    <3>1. i - 1 = j - 1 /\ i \in Int /\ j \in Int
      BY <1>6, <2>1
    <3>2. QED BY <3>1
  <2>2. QED BY <1>5, <2>1 DEF IsInjective
<1>10. ASSUME NEW i \in 1..N, NEW j \in 1..N, ByScore(t[i], t[j]) PROVE i < j
  <2>1. /\ t[i] \in S /\ t[j] \in S
        /\ Rank(S, t[i]) = i - 1 /\ Rank(S, t[j]) = j - 1
    BY <1>6
  <2>2. Rank(S, t[i]) < Rank(S, t[j])
    BY <1>10, <2>1, RankBounds
  <2>3. i \in Int /\ j \in Int /\ i - 1 < j - 1
    BY <2>1, <2>2
  <2>4. QED BY <2>3
<1>11. QED BY <1>1, <1>7, <1>8, <1>9, <1>10 DEF t, N

------------------------------------------------------------------------------
(***************************************************************************)
(* The markers                                                             *)
(***************************************************************************)

\* The pages of a layer begin one after the other.
Rising(l) == \A j, k \in DOMAIN pages[l] : j < k => pages[l][j].start < pages[l][k].start

PolicyType ==
    /\ enabled \in BOOLEAN
    /\ policy \in [limit : Int, model : BOOLEAN, usable : Int, bytes : Nat]

SpillInv ==
    /\ TableInv /\ PageIdsUnique
    /\ \A l \in Layers : Rising(l)
    /\ PolicyType
    /\ spilled \in Seq(Marker)
    /\ MarkersNamePages
    /\ OldestSpilledFirst

\* The marker of a page.
MarkerOf(l, k) == [layer |-> l, id |-> pages[l][k].id, start |-> pages[l][k].start, length |-> pages[l][k].length]

IsCandidate(l, k) == ~IsSpilled(l, pages[l][k].id)

\* The candidates are the markers of the pages without one, one for each, and
\* their scores differ.
LEMMA CandidatesExact ==
    ASSUME SpillInv
    PROVE  /\ \A m : m \in Candidates <=> \E l \in Layers : \E k \in DOMAIN pages[l] :
                                              IsCandidate(l, k) /\ m = MarkerOf(l, k)
           /\ Candidates \in SUBSET Marker
           /\ \A l, m \in Layers : \A j \in DOMAIN pages[l], k \in DOMAIN pages[m] :
                MarkerOf(l, j).id = MarkerOf(m, k).id => l = m /\ j = k
           /\ \A m, n \in Candidates : m # n => ByScore(m, n) \/ ByScore(n, m)
<1>1. \A m : m \in Candidates <=> \E l \in Layers : \E k \in DOMAIN pages[l] :
                                      IsCandidate(l, k) /\ m = MarkerOf(l, k)
  BY DEF Candidates, IsCandidate, MarkerOf
<1>2. ASSUME NEW l \in Layers, NEW k \in DOMAIN pages[l] PROVE MarkerOf(l, k) \in Marker
  <2>1. pages[l] \in Seq(Page)
    BY DEF SpillInv, TableInv, TableType
  <2>2. pages[l][k] \in Page
    BY <2>1
  <2>3. QED BY <2>2 DEF MarkerOf, Marker, Page
<1>3. ASSUME NEW l \in Layers, NEW m \in Layers, NEW j \in DOMAIN pages[l], NEW k \in DOMAIN pages[m],
             MarkerOf(l, j).id = MarkerOf(m, k).id
      PROVE  l = m /\ j = k
  BY <1>3 DEF SpillInv, PageIdsUnique, MarkerOf
<1>4. ASSUME NEW m \in Candidates, NEW n \in Candidates, m # n PROVE ByScore(m, n) \/ ByScore(n, m)
  <2>1. PICK l \in Layers : \E k \in DOMAIN pages[l] : m = MarkerOf(l, k)
    BY <1>1
  <2>2. PICK j \in DOMAIN pages[l] : m = MarkerOf(l, j)
    BY <2>1
  <2>3. PICK i \in Layers : \E k \in DOMAIN pages[i] : n = MarkerOf(i, k)
    BY <1>1
  <2>4. PICK k \in DOMAIN pages[i] : n = MarkerOf(i, k)
    BY <2>3
  <2>5. m \in Marker /\ n \in Marker
    BY <1>2, <2>2, <2>4
  <2>6. m.start \in Nat /\ n.start \in Nat /\ m.layer \in Nat /\ n.layer \in Nat /\ m.layer = l /\ n.layer = i
    BY <2>2, <2>4, <2>5, PagedKVAssumption DEF Marker, MarkerOf
  <2>7. CASE l # i
    BY <2>6, <2>7 DEF ByScore
  <2>8. CASE l = i
    <3>1. j # k /\ j \in Nat /\ k \in Nat
      <4>1. pages[l] \in Seq(Page)
        BY DEF SpillInv, TableInv, TableType
      <4>2. QED BY <1>4, <2>2, <2>4, <2>8, <4>1
    <3>2. m.start < n.start \/ n.start < m.start
      <4>1. m.start = pages[l][j].start /\ n.start = pages[l][k].start
        BY <2>2, <2>4, <2>8 DEF MarkerOf
      <4>2. QED BY <2>8, <3>1, <4>1 DEF SpillInv, Rising
    <3>3. QED BY <3>2 DEF ByScore
  <2>9. QED BY <2>7, <2>8
<1>5. QED BY <1>1, <1>2, <1>3, <1>4

\* Every page has a marker or is a candidate.
LEMMA PagesCounted ==
    ASSUME SpillInv
    PROVE  /\ IsFiniteSet(Candidates) /\ Cardinality(Candidates) \in Nat
           /\ Pages \in Nat /\ Pages <= Len(spilled) + Cardinality(Candidates)
<1> DEFINE Marked == {p \in Positions : IsSpilled(p[1], pages[p[1]][p[2]].id)}
           Free == Positions \ Marked
           table1 == [l \in Layers |-> {l} \X DOMAIN pages[l]]
           mk == [p \in Free |-> MarkerOf(p[1], p[2])]
           at == [j \in 1..Len(spilled) |-> CHOOSE p \in Marked :
                    /\ p[1] = spilled[j].layer /\ pages[p[1]][p[2]].id = spilled[j].id]
<1>1. \A p : p \in Positions <=> /\ p = <<p[1], p[2]>>
                                 /\ p[1] \in Layers /\ p[2] \in DOMAIN pages[p[1]]
  BY DEF Positions
<1>2. IsFiniteSet(Positions)
  <2> DEFINE T == {{l} \X DOMAIN pages[l] : l \in Layers}
  <2>1. table1 \in Surjection(Layers, T)
    BY DEF Surjection
  <2>2. IsFiniteSet(T)
    BY <2>1, FS_Surjection, PagedKVAssumption
  <2>3. ASSUME NEW l \in Layers PROVE IsFiniteSet({l} \X DOMAIN pages[l])
    <3>1. pages[l] \in Seq(Page)
      BY DEF SpillInv, TableInv, TableType
    <3>2. IsFiniteSet(DOMAIN pages[l])
      <4>1. DOMAIN pages[l] = 1..Len(pages[l]) /\ Len(pages[l]) \in Int
        BY <3>1
      <4>2. IsFiniteSet(1..Len(pages[l]))
        BY <4>1, FS_Interval
      <4>3. QED BY <4>1, <4>2
    <3>3. IsFiniteSet({l})
      BY FS_Singleton
    <3>4. QED BY <3>2, <3>3, FS_Product
  <2>4. \A S \in T : IsFiniteSet(S)
    BY <2>3
  <2>5. QED BY <2>2, <2>4, FS_UNION DEF Positions
<1>3. /\ IsFiniteSet(Free) /\ IsFiniteSet(Marked)
      /\ Pages = Cardinality(Marked) + Cardinality(Free)
      /\ Cardinality(Marked) \in Nat /\ Cardinality(Free) \in Nat
  <2>1. Marked \in SUBSET Positions /\ Positions \cap Marked = Marked
    OBVIOUS
  <2>2. IsFiniteSet(Marked)
    BY <1>2, <2>1, FS_Subset
  <2>3. /\ IsFiniteSet(Free)
        /\ Cardinality(Free) = Cardinality(Positions) - Cardinality(Positions \cap Marked)
    BY <1>2, FS_Difference
  <2>4. Cardinality(Positions) \in Nat /\ Cardinality(Marked) \in Nat /\ Cardinality(Free) \in Nat
    BY <1>2, <2>2, <2>3, FS_CardinalityType
  <2>5. Cardinality(Positions \cap Marked) = Cardinality(Marked)
    BY <2>1
  <2> HIDE DEF Marked, Free
  <2>6. QED BY <2>2, <2>3, <2>4, <2>5 DEF Pages
<1>4. mk \in Surjection(Free, Candidates) /\ mk \in Injection(Free, Candidates)
  <2>1. ASSUME NEW p \in Free
        PROVE  /\ p = <<p[1], p[2]>>
               /\ p[1] \in Layers /\ p[2] \in DOMAIN pages[p[1]]
               /\ mk[p] = MarkerOf(p[1], p[2]) /\ mk[p] \in Candidates
    <3>1. p = <<p[1], p[2]>> /\ p[1] \in Layers /\ p[2] \in DOMAIN pages[p[1]]
      BY <1>1
    <3>2. IsCandidate(p[1], p[2])
      BY DEF IsCandidate
    <3>3. MarkerOf(p[1], p[2]) \in Candidates
      BY <3>1, <3>2, CandidatesExact
    <3>4. QED BY <3>1, <3>3
  <2>2. ASSUME NEW m \in Candidates PROVE \E p \in Free : mk[p] = m
    <3>1. PICK l \in Layers : \E k \in DOMAIN pages[l] : IsCandidate(l, k) /\ m = MarkerOf(l, k)
      BY CandidatesExact
    <3>2. PICK k \in DOMAIN pages[l] : IsCandidate(l, k) /\ m = MarkerOf(l, k)
      BY <3>1
    <3>3. <<l, k>> \in Positions
      BY <1>1
    <3>4. <<l, k>> \in Free
      BY <3>2, <3>3 DEF IsCandidate
    <3>5. QED BY <3>2, <3>4
  <2>3. ASSUME NEW p \in Free, NEW q \in Free, mk[p] = mk[q] PROVE p = q
    <3>1. MarkerOf(p[1], p[2]).id = MarkerOf(q[1], q[2]).id
      BY <2>3
    <3>2. p[1] = q[1] /\ p[2] = q[2]
      BY <2>1, <3>1, CandidatesExact
    <3>3. QED BY <2>1, <3>2
  <2>4. mk \in [Free -> Candidates]
    BY <2>1
  <2> HIDE DEF mk
  <2>5. QED BY <2>2, <2>3, <2>4 DEF Surjection, Injection, IsInjective
<1>5. IsFiniteSet(Candidates) /\ Cardinality(Candidates) = Cardinality(Free)
  BY <1>3, <1>4, FS_Surjection
<1>6. Cardinality(Marked) <= Len(spilled) /\ Len(spilled) \in Nat
  <2>1. spilled \in Seq(Marker) /\ Len(spilled) \in Nat /\ DOMAIN spilled = 1..Len(spilled)
    BY DEF SpillInv
  <2>2. ASSUME NEW j \in 1..Len(spilled)
        PROVE  at[j] \in Marked /\ at[j][1] = spilled[j].layer /\ pages[at[j][1]][at[j][2]].id = spilled[j].id
    <3>1. spilled[j].layer \in Layers
      <4>1. spilled[j] \in Marker
        BY <2>1
      <4>2. QED BY <4>1 DEF Marker
    <3>2. PICK k \in DOMAIN pages[spilled[j].layer] : pages[spilled[j].layer][k].id = spilled[j].id
      BY <2>1 DEF SpillInv, MarkersNamePages
    <3> DEFINE p == <<spilled[j].layer, k>>
    <3>3. p \in Positions
      BY <1>1, <3>1
    <3>4. p \in Marked
      BY <2>1, <3>2, <3>3 DEF IsSpilled
    <3>5. \E q \in Marked : q[1] = spilled[j].layer /\ pages[q[1]][q[2]].id = spilled[j].id
      BY <3>2, <3>4
    <3>6. QED BY <3>5
  <2>3. ASSUME NEW p \in Marked PROVE \E j \in 1..Len(spilled) : at[j] = p
    <3>1. PICK j \in DOMAIN spilled : spilled[j].layer = p[1] /\ spilled[j].id = pages[p[1]][p[2]].id
      BY DEF IsSpilled
    <3>2. at[j] \in Positions /\ at[j][1] = p[1] /\ pages[at[j][1]][at[j][2]].id = pages[p[1]][p[2]].id
      BY <2>1, <2>2, <3>1
    <3>3. /\ p = <<p[1], p[2]>> /\ at[j] = <<at[j][1], at[j][2]>>
          /\ p[1] \in Layers /\ p[2] \in DOMAIN pages[p[1]] /\ at[j][2] \in DOMAIN pages[p[1]]
      BY <1>1, <3>2
    <3>4. at[j][2] = p[2]
      <4> HIDE DEF at
      <4>1. \A l \in Layers : \A a, b \in DOMAIN pages[l] : pages[l][a].id = pages[l][b].id => a = b
        BY DEF SpillInv, PageIdsUnique
      <4>2. pages[p[1]][at[j][2]].id = pages[p[1]][p[2]].id
        BY <3>2
      <4>3. QED BY <3>3, <4>1, <4>2
    <3>5. QED BY <2>1, <3>2, <3>3, <3>4
  <2>4. at \in [1..Len(spilled) -> Marked]
    BY <2>2
  <2> HIDE DEF at, Marked
  <2>5. at \in Surjection(1..Len(spilled), Marked)
    BY <2>3, <2>4 DEF Surjection
  <2>6. ExistsSurjection(1..Len(spilled), Marked)
    BY <2>5 DEF ExistsSurjection
  <2>7. QED BY <2>1, <2>6, FS_SurjCardinalityBound
<1> HIDE DEF Marked, Free
<1>7. QED BY <1>3, <1>5, <1>6

\* A pass of _extend_pages keeps the pages, whose last may grow, and adds at most
\* one, with a new id, after all of its layer.
LEMMA ExtendPages ==
    ASSUME SpillInv, Extend, NEW l \in Layers
    PROVE  /\ \A k \in DOMAIN pages[l] : /\ k \in DOMAIN pages'[l]
                                         /\ pages'[l][k].id = pages[l][k].id
                                         /\ pages'[l][k].start = pages[l][k].start
                                         /\ pages'[l][k].length >= pages[l][k].length
           /\ \A k \in DOMAIN pages'[l] : k \notin DOMAIN pages[l] =>
                /\ pages'[l][k].id = nextPageId
                /\ \A j \in DOMAIN pages[l] : j < k /\ pages[l][j].start < pages'[l][k].start
                /\ \A j \in DOMAIN pages'[l] : j \in DOMAIN pages[l] \/ j = k
<1> DEFINE s == pages[cur]
           n == Len(s)
<1>1. /\ TableInv /\ TableType
      /\ pages \in [Layers -> Seq(Page)] /\ cur \in Layers /\ s \in Seq(Page) /\ n \in Nat /\ DOMAIN s = 1..n
      /\ cursor \in Nat /\ Take \in Nat \ {0}
  BY TakeBounds DEF SpillInv, TableInv, TableType, Extend
<1>2. \A k \in DOMAIN pages[l] : /\ pages[l][k] \in Page /\ pages[l][k].length \in Nat
                                 /\ pages[l][k].start \in Nat /\ pages[l][k].length <= pages[l][k].length
  <2>1. \A k \in DOMAIN pages[l] : pages[l][k] \in Page
    BY <1>1
  <2>2. \A p \in Page : p.length \in Nat /\ p.start \in Nat /\ p.length <= p.length
    BY DEF Page
  <2>3. QED BY <2>1, <2>2
<1>3. CASE l # cur
  <2>1. pages'[l] = pages[l]
    BY <1>1, <1>3 DEF Extend
  <2>2. QED BY <1>2, <2>1
<1>4. CASE l = cur /\ pages' = [pages EXCEPT ![cur] = Append(s, NewPage)]
  <2> DEFINE t == Append(s, NewPage)
  <2>1. /\ pages'[l] = t /\ DOMAIN t = 1..(n + 1)
        /\ \A k \in 1..n : t[k] = s[k]
        /\ t[n + 1] = NewPage
    BY <1>1, <1>4
  <2>2. NewPage.id = nextPageId /\ NewPage.start = cursor
    BY DEF NewPage
  <2>3. Reached(cur) = cursor
    BY <1>1 DEF Reached, Extend
  <2>4. ASSUME NEW j \in 1..n PROVE s[j].start < cursor
    <3>1. n \in DOMAIN s /\ s[j] \in Page /\ s[n] \in Page
      BY <1>1
    <3>2. s[n].start + s[n].length = cursor /\ s[n].length \in 1..PageSize
      BY <1>1, <2>3, <3>1 DEF TableInv, Tiled, EndOf
    <3>3. s[j].start \in Nat /\ s[n].start \in Nat
      BY <3>1 DEF Page
    <3>4. PageSize \in Nat
      BY PagedKVAssumption
    <3>5. s[n].start < cursor
      BY <3>2, <3>3, <3>4, <1>1
    <3>6. j < n => s[j].start < s[n].start
      BY <1>1, <3>1 DEF SpillInv, Rising
    <3> HIDE DEF s, n
    <3>7. j \in Nat /\ j <= n /\ n \in Nat
      BY <1>1
    <3>8. s[j].start <= s[n].start
      BY <3>3, <3>6, <3>7
    <3>9. QED BY <1>1, <3>3, <3>5, <3>8
  <2> HIDE DEF t
  <2>5. \A k \in DOMAIN pages[l] : /\ k \in DOMAIN pages'[l] /\ pages'[l][k] = pages[l][k]
    BY <1>1, <1>4, <2>1
  <2>6. ASSUME NEW k \in DOMAIN pages'[l], k \notin DOMAIN pages[l]
        PROVE  /\ pages'[l][k].id = nextPageId
               /\ \A j \in DOMAIN pages[l] : j < k /\ pages[l][j].start < pages'[l][k].start
               /\ \A j \in DOMAIN pages'[l] : j \in DOMAIN pages[l] \/ j = k
    <3>1. k = n + 1
      BY <1>1, <1>4, <2>1, <2>6
    <3>2. pages'[l][k].id = nextPageId /\ pages'[l][k].start = cursor
      BY <2>1, <2>2, <3>1
    <3>3. \A j \in DOMAIN pages[l] : j < k /\ pages[l][j].start < cursor
      BY <1>1, <1>4, <2>4, <3>1
    <3>4. \A j \in DOMAIN pages'[l] : j \in DOMAIN pages[l] \/ j = k
      BY <1>1, <1>4, <2>1, <3>1
    <3>5. QED BY <3>2, <3>3, <3>4
  <2>7. QED BY <1>2, <2>5, <2>6
<1>5. CASE l = cur /\ pages' = [pages EXCEPT ![cur][n].length = @ + Take]
  <2>1. pages'[l] = [s EXCEPT ![n].length = @ + Take]
    BY <1>1, <1>5
  <2>2. DOMAIN pages'[l] = DOMAIN pages[l]
    BY <1>5, <2>1
  <2>3. ASSUME NEW k \in DOMAIN s
        PROVE  /\ pages'[l][k].id = s[k].id /\ pages'[l][k].start = s[k].start
               /\ pages'[l][k].length >= s[k].length
    <3>1. s[k] \in Page
      BY <1>1
    <3>2. CASE k # n
      BY <1>2, <1>5, <2>1, <3>2
    <3>3. CASE k = n
      <4>1. pages'[l][k] = [s[k] EXCEPT !.length = @ + Take]
        BY <2>1, <3>3
      <4>2. \A p \in Page : LET q == [p EXCEPT !.length = @ + Take]
                            IN  q.id = p.id /\ q.start = p.start /\ q.length >= p.length
        BY <1>1 DEF Page
      <4>3. QED BY <3>1, <4>1, <4>2
    <3>4. QED BY <3>2, <3>3
  <2>4. QED BY <1>5, <2>2, <2>3
<1>6. QED BY <1>1, <1>3, <1>4, <1>5 DEF Extend

\* Where the markers stay and the pages are kept, what the markers say is kept.
LEMMA ExtendKeepsMarkers ==
    ASSUME SpillInv, Extend
    PROVE  (\A l \in Layers : Rising(l)') /\ MarkersNamePages' /\ OldestSpilledFirst'
<1>1. /\ spilled' = spilled /\ spilled \in Seq(Marker) /\ nextPageId \in Nat
      /\ pages \in [Layers -> Seq(Page)]
  BY DEF SpillInv, TableInv, TableType, Extend
<1>2. \A j \in DOMAIN spilled : spilled[j] \in Marker /\ spilled[j].layer \in Layers /\ spilled[j].length \in Nat
  <2>1. \A m \in Marker : m.layer \in Layers /\ m.length \in Nat
    BY DEF Marker
  <2>2. QED BY <1>1, <2>1
<1>3. ASSUME NEW l \in Layers PROVE Rising(l)'
  <2>1. ASSUME NEW j \in DOMAIN pages'[l], NEW k \in DOMAIN pages'[l], j < k
        PROVE  pages'[l][j].start < pages'[l][k].start
    <3>1. CASE j \in DOMAIN pages[l] /\ k \in DOMAIN pages[l]
      BY <2>1, <3>1, ExtendPages DEF SpillInv, Rising
    <3>2. CASE j \in DOMAIN pages[l] /\ k \notin DOMAIN pages[l]
      BY <3>2, ExtendPages
    <3>3. CASE j \notin DOMAIN pages[l]
      <4>1. pages'[l] \in Seq(Page)
        BY TableTypeStep DEF SpillInv, TableInv, TableType, Next
      <4>2. j \in Nat /\ k \in Nat
        BY <4>1
      <4>3. k = j \/ k < j
        BY <3>3, ExtendPages
      <4>4. QED BY <2>1, <4>2, <4>3
    <3>4. QED BY <3>1, <3>2, <3>3
  <2>2. QED BY <2>1 DEF Rising
<1>4. MarkersNamePages'
  <2>1. ASSUME NEW j \in DOMAIN spilled
        PROVE  \E k \in DOMAIN pages'[spilled[j].layer] :
                 LET p == pages'[spilled[j].layer][k]
                 IN  p.id = spilled[j].id /\ p.start = spilled[j].start /\ p.length >= spilled[j].length
    <3> DEFINE l == spilled[j].layer
    <3>1. l \in Layers /\ spilled[j].length \in Nat
      BY <1>2
    <3>2. PICK k \in DOMAIN pages[l] : LET p == pages[l][k]
               IN  p.id = spilled[j].id /\ p.start = spilled[j].start /\ p.length >= spilled[j].length
      BY DEF SpillInv, MarkersNamePages
    <3>3. /\ k \in DOMAIN pages'[l] /\ pages'[l][k].id = pages[l][k].id
          /\ pages'[l][k].start = pages[l][k].start /\ pages'[l][k].length >= pages[l][k].length
      BY <3>1, ExtendPages
    <3>4. pages[l][k].length \in Nat /\ pages'[l][k].length \in Nat
      <4>1. pages' \in [Layers -> Seq(Page)]
        BY TableTypeStep DEF SpillInv, TableInv, TableType, Next
      <4>2. pages[l][k] \in Page /\ pages'[l][k] \in Page
        BY <1>1, <3>1, <3>3, <4>1
      <4>3. QED BY <4>2 DEF Page
    <3>5. pages'[l][k].length >= spilled[j].length
      BY <3>1, <3>2, <3>3, <3>4
    <3>6. QED BY <3>2, <3>3, <3>5
  <2>2. QED BY <1>1, <2>1 DEF SpillInv, MarkersNamePages
<1>5. OldestSpilledFirst'
  <2>1. ASSUME NEW l \in Layers, NEW j \in DOMAIN pages'[l], NEW k \in DOMAIN pages'[l], j < k,
               IsSpilled(l, pages'[l][k].id)
        PROVE  IsSpilled(l, pages'[l][j].id)
    <3>1. k \in DOMAIN pages[l]
      <4>1. SUFFICES ASSUME k \notin DOMAIN pages[l] PROVE FALSE
        OBVIOUS
      <4>2. PICK i \in DOMAIN spilled : spilled[i].layer = l /\ spilled[i].id = nextPageId
        BY <2>1, <4>1, ExtendPages DEF IsSpilled
      <4>3. PICK h \in DOMAIN pages[l] : pages[l][h].id = nextPageId
        BY <4>2 DEF SpillInv, MarkersNamePages
      <4>4. nextPageId < nextPageId
        BY <4>3 DEF SpillInv, PageIdsUnique
      <4>5. QED BY <1>1, <4>4
    <3>2. j \in DOMAIN pages[l]
      <4>1. SUFFICES ASSUME j \notin DOMAIN pages[l] PROVE FALSE
        OBVIOUS
      <4>2. k < j
        BY <3>1, <4>1, ExtendPages
      <4>3. j \in Nat /\ k \in Nat
        <5>1. pages'[l] \in Seq(Page)
          BY TableTypeStep DEF SpillInv, TableInv, TableType, Next
        <5>2. QED BY <5>1
      <4>4. QED BY <2>1, <4>2, <4>3
    <3>3. pages'[l][j].id = pages[l][j].id /\ pages'[l][k].id = pages[l][k].id
      BY <3>1, <3>2, ExtendPages
    <3>4. QED BY <2>1, <3>1, <3>2, <3>3 DEF SpillInv, OldestSpilledFirst
  <2>2. \A l, i : IsSpilled(l, i)' <=> IsSpilled(l, i)
    BY <1>1 DEF IsSpilled
  <2>3. QED BY <2>1, <2>2 DEF OldestSpilledFirst
<1>6. QED BY <1>3, <1>4, <1>5

\* The budget is within each of the policy's limits, and at least a page.
LEMMA BudgetBounds ==
    ASSUME PolicyType, NEW p, p = Observed(policy)
    PROVE  /\ p \in [limit : Int, model : BOOLEAN, usable : Int, bytes : Nat]
           /\ ResidentBudget(p) \in Nat \ {0}
           /\ p.limit # NoLimit => ResidentBudget(p) <= AtLeastOne(p.limit)
           /\ p.model /\ p.usable # NoLimit => ResidentBudget(p) <= AtLeastOne(p.usable \div p.bytes)
           /\ AtLeastOne(p.limit) \in Nat \ {0}
           /\ p.model => AtLeastOne(p.usable \div p.bytes) \in Nat \ {0}
<1>1. p \in [limit : Int, model : BOOLEAN, usable : Int, bytes : Nat] /\ (p.model => p.bytes # 0)
  <2>1. PageBytes \in Nat \ {0}
    BY PagedKVAssumption
  <2>2. CASE policy.model /\ policy.bytes = 0
    BY <2>1, <2>2 DEF PolicyType, Observed
  <2>3. CASE ~(policy.model /\ policy.bytes = 0)
    BY <2>3 DEF PolicyType, Observed
  <2>4. QED BY <2>2, <2>3
<1>2. p.limit \in Int /\ p.usable \in Int /\ p.bytes \in Nat /\ p.model \in BOOLEAN
  BY <1>1
<1> DEFINE d == p.usable \div p.bytes
<1>3. p.model => d \in Int
  BY <1>1, <1>2
<1> HIDE DEF d
<1>4. /\ AtLeastOne(p.limit) \in Nat \ {0}
      /\ p.model => AtLeastOne(d) \in Nat \ {0} /\ AtLeastOne(Least(p.limit, d)) \in Nat \ {0}
      /\ p.model => /\ AtLeastOne(Least(p.limit, d)) <= AtLeastOne(p.limit)
                    /\ AtLeastOne(Least(p.limit, d)) <= AtLeastOne(d)
  BY <1>2, <1>3 DEF AtLeastOne, Least
<1>5. ResidentBudget(p) = IF ~p.model \/ p.usable = NoLimit THEN AtLeastOne(p.limit)
                          ELSE IF p.limit = NoLimit THEN AtLeastOne(d)
                          ELSE AtLeastOne(Least(p.limit, d))
  BY <1>1 DEF ResidentBudget, d
<1>6. /\ ResidentBudget(p) \in Nat \ {0}
      /\ p.limit # NoLimit => ResidentBudget(p) <= AtLeastOne(p.limit)
      /\ p.model /\ p.usable # NoLimit => ResidentBudget(p) <= AtLeastOne(d)
  <2>1. CASE ~p.model \/ p.usable = NoLimit
    BY <1>4, <1>5, <2>1
  <2>2. CASE p.model /\ p.usable # NoLimit /\ p.limit = NoLimit
    BY <1>4, <1>5, <2>2
  <2>3. CASE p.model /\ p.usable # NoLimit /\ p.limit # NoLimit
    BY <1>4, <1>5, <2>3
  <2>4. QED BY <1>2, <2>1, <2>2, <2>3
<1>7. QED BY <1>1, <1>4, <1>6 DEF d

\* The policy marks as many candidates as the table has pages too many, or all.
LEMMA SpillChoice ==
    ASSUME SpillInv, Spill
    PROVE  \E n \in 0..Cardinality(Candidates) :
             /\ spilled' = spilled \o SubSeq(InOrder(Candidates), 1, n)
             /\ n = Cardinality(Candidates) \/ n >= Overflow(Observed(policy))
<1> DEFINE o == Overflow(Observed(policy))
           t == InOrder(Candidates)
           N == Cardinality(Candidates)
<1>1. t \in Seq(Candidates) /\ Len(t) = N /\ N \in Nat
  BY CandidatesExact, PagesCounted, InOrderExact
<1>2. o \in Int
  <2>1. ResidentBudget(Observed(policy)) \in Nat
    BY BudgetBounds DEF SpillInv
  <2>2. QED BY <2>1, PagesCounted DEF Overflow
<1>3. spilled' = IF o <= 0 THEN spilled ELSE spilled \o SubSeq(t, 1, Least(o, Len(t)))
  BY DEF Spill
<1> HIDE DEF o, t, N
<1>4. CASE o <= 0
  <2>1. SubSeq(t, 1, 0) = <<>>
    BY <1>1
  <2>2. spilled \o <<>> = spilled
    BY DEF SpillInv
  <2>3. spilled' = spilled \o SubSeq(t, 1, 0)
    BY <1>3, <1>4, <2>1, <2>2
  <2>4. 0 \in 0..N /\ 0 >= o
    BY <1>1, <1>2, <1>4
  <2>5. QED BY <2>3, <2>4 DEF o, t, N
<1>5. CASE ~(o <= 0)
  <2>1. Least(o, N) \in 0..N /\ (Least(o, N) = N \/ Least(o, N) >= o)
    BY <1>1, <1>2, <1>5 DEF Least
  <2>2. spilled' = spilled \o SubSeq(t, 1, Least(o, N))
    BY <1>1, <1>3, <1>5
  <2>3. QED BY <2>1, <2>2 DEF o, t, N
<1>6. QED BY <1>4, <1>5

\* Each marker that is added is a candidate's, and no page gets two; with a page
\* every candidate of a lower score is marked.
LEMMA SpillAdds ==
    ASSUME SpillInv, Spill
    PROVE  /\ spilled' \in Seq(Marker)
           /\ \A j \in DOMAIN spilled : j \in DOMAIN spilled' /\ spilled'[j] = spilled[j]
           /\ \A j \in DOMAIN spilled' : j \in DOMAIN spilled \/ spilled'[j] \in Candidates
           /\ \A j, k \in DOMAIN spilled' : j \notin DOMAIN spilled /\ k \notin DOMAIN spilled /\ j # k
                                               => spilled'[j] # spilled'[k]
           /\ \A k \in DOMAIN spilled' : k \notin DOMAIN spilled =>
                \A m \in Candidates : ByScore(m, spilled'[k]) => \E j \in DOMAIN spilled' : spilled'[j] = m
           /\ Len(spilled') \in Nat /\ Len(spilled') <= Len(spilled) + Cardinality(Candidates)
           /\ \/ Len(spilled') = Len(spilled) + Cardinality(Candidates)
              \/ Len(spilled') >= Len(spilled) + Overflow(Observed(policy))
<1> DEFINE t == InOrder(Candidates)
           N == Cardinality(Candidates)
           o == Overflow(Observed(policy))
<1>1. PICK n \in 0..N : /\ spilled' = spilled \o SubSeq(t, 1, n)
                        /\ n = N \/ n >= o
  BY SpillChoice
<1>2. /\ N \in Nat /\ t \in Seq(Candidates) /\ Len(t) = N
      /\ \A m \in Candidates : \E i \in 1..N : t[i] = m
      /\ IsInjective(t)
      /\ \A i, j \in 1..N : ByScore(t[i], t[j]) => i < j
  BY CandidatesExact, PagesCounted, InOrderExact
<1>3. o \in Int
  <2>1. ResidentBudget(Observed(policy)) \in Nat
    BY BudgetBounds DEF SpillInv
  <2>2. QED BY <2>1, PagesCounted DEF Overflow
<1> DEFINE z == SubSeq(t, 1, n)
           L == Len(spilled)
<1>4. Candidates \in SUBSET Marker /\ spilled \in Seq(Marker) /\ L \in Nat /\ DOMAIN spilled = 1..L
  BY CandidatesExact DEF SpillInv
<1> HIDE DEF t, N, o
<1>5. t \in Seq(Marker) /\ n \in 0..Len(t) /\ n \in Nat
  BY <1>2, <1>4
<1>6. z \in Seq(Marker) /\ Len(z) = n /\ \A i \in 1..n : z[i] = t[i]
  BY <1>5, PrefixElements
<1>7. /\ spilled' \in Seq(Marker) /\ Len(spilled') = L + n /\ DOMAIN spilled' = 1..(L + n)
      /\ \A i \in 1..L : spilled'[i] = spilled[i]
      /\ \A i \in 1..n : spilled'[L + i] = t[i]
  <2> HIDE DEF z
  <2>1. /\ spilled \o z \in Seq(Marker) /\ Len(spilled \o z) = L + n
        /\ \A i \in 1..L : (spilled \o z)[i] = spilled[i]
        /\ \A i \in 1..n : (spilled \o z)[L + i] = z[i]
    <3>1. /\ spilled \o z \in Seq(Marker) /\ Len(spilled \o z) = Len(spilled) + Len(z)
          /\ \A i \in 1..Len(spilled) : (spilled \o z)[i] = spilled[i]
          /\ \A i \in 1..Len(z) : (spilled \o z)[Len(spilled) + i] = z[i]
      <4>1. spilled \in Seq(Marker) /\ z \in Seq(Marker)
        BY <1>4, <1>6
      <4>2. QED BY <4>1, ConcatElements
    <3>2. Len(z) = n
      BY <1>6
    <3>3. QED BY <3>1, <3>2
  <2>2. spilled' = spilled \o z
    BY <1>1 DEF z
  <2>3. QED BY <1>6, <2>1, <2>2
<1>8. ASSUME NEW j \in DOMAIN spilled', j \notin DOMAIN spilled
      PROVE  j - L \in 1..n /\ j - L \in 1..N /\ spilled'[j] = t[j - L] /\ t[j - L] \in Candidates
  <2>1. j \in 1..(L + n) /\ j \notin 1..L
    BY <1>4, <1>7, <1>8
  <2> HIDE DEF L
  <2>2. j - L \in 1..n /\ j - L \in 1..N /\ j = L + (j - L)
    BY <1>2, <1>4, <1>5, <2>1
  <2>3. spilled'[L + (j - L)] = t[j - L]
    BY <1>7, <2>2
  <2>4. QED BY <1>2, <2>2, <2>3
<1>9. \A j \in DOMAIN spilled : j \in DOMAIN spilled' /\ spilled'[j] = spilled[j]
  BY <1>4, <1>5, <1>7
<1>10. ASSUME NEW j \in DOMAIN spilled', NEW k \in DOMAIN spilled',
              j \notin DOMAIN spilled, k \notin DOMAIN spilled, j # k
       PROVE  spilled'[j] # spilled'[k]
  <2>1. spilled'[j] = t[j - L] /\ spilled'[k] = t[k - L] /\ j - L \in 1..N /\ k - L \in 1..N
    BY <1>8, <1>10
  <2>2. j - L # k - L
    BY <1>4, <1>7, <1>10
  <2>3. QED BY <1>2, <2>1, <2>2 DEF IsInjective
<1>11. ASSUME NEW k \in DOMAIN spilled', k \notin DOMAIN spilled, NEW m \in Candidates, ByScore(m, spilled'[k])
       PROVE  \E j \in DOMAIN spilled' : spilled'[j] = m
  <2>1. spilled'[k] = t[k - L] /\ k - L \in 1..n /\ k - L \in 1..N
    BY <1>8, <1>11
  <2>2. PICK i \in 1..N : t[i] = m
    BY <1>2
  <2>3. i < k - L
    BY <1>2, <1>11, <2>1, <2>2
  <2> HIDE DEF L
  <2>4. i \in 1..n /\ L + i \in 1..(L + n)
    BY <1>2, <1>4, <1>5, <2>1, <2>3
  <2>5. QED BY <1>7, <2>2, <2>4
<1>12. /\ Len(spilled') \in Nat /\ Len(spilled') <= L + N
       /\ Len(spilled') = L + N \/ Len(spilled') >= L + o
  <2>1. Len(spilled') = L + n /\ L \in Nat /\ N \in Nat /\ n \in Nat /\ n <= N /\ o \in Int
    BY <1>2, <1>3, <1>4, <1>5, <1>7
  <2> HIDE DEF L
  <2>2. QED BY <1>1, <2>1
<1>13. QED BY <1>7, <1>8, <1>9, <1>10, <1>11, <1>12 DEF N, o

LEMMA SpillKeepsMarkers ==
    ASSUME SpillInv, Spill
    PROVE  MarkersNamePages' /\ OldestSpilledFirst'
<1>1. pages' = pages
  BY DEF Spill, table
<1>2. /\ \A j \in DOMAIN spilled : j \in DOMAIN spilled' /\ spilled'[j] = spilled[j]
      /\ \A j \in DOMAIN spilled' : j \in DOMAIN spilled \/ spilled'[j] \in Candidates
  BY SpillAdds
<1>3. ASSUME NEW m \in Candidates
      PROVE  \E l \in Layers : \E k \in DOMAIN pages[l] : m = MarkerOf(l, k) /\ IsCandidate(l, k)
  BY CandidatesExact
<1>4. \A l, i : IsSpilled(l, i) => IsSpilled(l, i)'
  BY <1>2 DEF IsSpilled
<1>5. ASSUME NEW j \in DOMAIN spilled'
      PROVE  \E k \in DOMAIN pages[spilled'[j].layer] :
               LET p == pages[spilled'[j].layer][k]
               IN  p.id = spilled'[j].id /\ p.start = spilled'[j].start /\ p.length >= spilled'[j].length
  <2>1. CASE j \in DOMAIN spilled
    <3>1. spilled'[j] = spilled[j]
      BY <1>2, <2>1
    <3>2. \E k \in DOMAIN pages[spilled[j].layer] :
               LET p == pages[spilled[j].layer][k]
               IN  p.id = spilled[j].id /\ p.start = spilled[j].start /\ p.length >= spilled[j].length
      BY <2>1 DEF SpillInv, MarkersNamePages
    <3>3. QED BY <3>1, <3>2
  <2>2. CASE spilled'[j] \in Candidates
    <3>1. PICK l \in Layers : \E k \in DOMAIN pages[l] : spilled'[j] = MarkerOf(l, k) /\ IsCandidate(l, k)
      BY <1>3, <2>2
    <3>2. PICK k \in DOMAIN pages[l] : spilled'[j] = MarkerOf(l, k)
      BY <3>1
    <3>3. pages[l][k].length >= pages[l][k].length
      <4>1. pages[l] \in Seq(Page)
        BY DEF SpillInv, TableInv, TableType
      <4>2. pages[l][k] \in Page
        BY <4>1
      <4>3. pages[l][k].length \in Nat
        BY <4>2 DEF Page
      <4>4. QED BY <4>3
    <3>4. /\ spilled'[j].layer = l /\ spilled'[j].id = pages[l][k].id
          /\ spilled'[j].start = pages[l][k].start /\ spilled'[j].length = pages[l][k].length
      BY <3>2 DEF MarkerOf
    <3>5. QED BY <3>3, <3>4
  <2>3. QED BY <1>2, <2>1, <2>2
\* a new marker has an id that no marker had
<1>6. ASSUME NEW j \in DOMAIN spilled, NEW m \in Candidates PROVE spilled[j].id # m.id
  <2>1. PICK l \in Layers : \E k \in DOMAIN pages[l] : m = MarkerOf(l, k) /\ IsCandidate(l, k)
    BY <1>3
  <2>2. PICK k \in DOMAIN pages[l] : m = MarkerOf(l, k) /\ IsCandidate(l, k)
    BY <2>1
  <2>3. spilled[j].layer \in Layers
    <3>1. spilled[j] \in Marker
      BY DEF SpillInv
    <3>2. QED BY <3>1 DEF Marker
  <2>4. PICK i \in DOMAIN pages[spilled[j].layer] : pages[spilled[j].layer][i].id = spilled[j].id
    BY DEF SpillInv, MarkersNamePages
  <2>5. SUFFICES ASSUME spilled[j].id = m.id PROVE FALSE
    OBVIOUS
  <2>6. pages[spilled[j].layer][i].id = pages[l][k].id
    BY <2>2, <2>4, <2>5 DEF MarkerOf
  <2>7. spilled[j].layer = l
    BY <2>3, <2>6 DEF SpillInv, PageIdsUnique
  <2>8. IsSpilled(l, pages[l][k].id)
    BY <2>4, <2>6, <2>7 DEF IsSpilled
  <2>9. QED BY <2>2, <2>8 DEF IsCandidate
<1>7. ASSUME NEW m \in Candidates, NEW n \in Candidates, m # n PROVE m.id # n.id
  <2>1. PICK l \in Layers : \E k \in DOMAIN pages[l] : m = MarkerOf(l, k) /\ IsCandidate(l, k)
    BY <1>3
  <2>2. PICK j \in DOMAIN pages[l] : m = MarkerOf(l, j)
    BY <2>1
  <2>3. PICK h \in Layers : \E k \in DOMAIN pages[h] : n = MarkerOf(h, k) /\ IsCandidate(h, k)
    BY <1>3
  <2>4. PICK k \in DOMAIN pages[h] : n = MarkerOf(h, k)
    BY <2>3
  <2>5. QED BY <1>7, <2>2, <2>4, CandidatesExact
<1>8. ASSUME NEW j \in DOMAIN spilled', NEW k \in DOMAIN spilled', k # j PROVE spilled'[k].id # spilled'[j].id
  <2>1. CASE j \in DOMAIN spilled /\ k \in DOMAIN spilled
    BY <1>2, <1>8, <2>1 DEF SpillInv, MarkersNamePages
  <2>2. CASE j \in DOMAIN spilled /\ k \notin DOMAIN spilled
    BY <1>2, <1>6, <2>2
  <2>3. CASE j \notin DOMAIN spilled /\ k \in DOMAIN spilled
    BY <1>2, <1>6, <2>3
  <2>4. CASE j \notin DOMAIN spilled /\ k \notin DOMAIN spilled
    <3>1. spilled'[j] # spilled'[k]
      BY <1>8, <2>4, SpillAdds
    <3>2. QED BY <1>2, <1>7, <2>4, <3>1
  <2>5. QED BY <2>1, <2>2, <2>3, <2>4
<1>9. MarkersNamePages'
  BY <1>1, <1>5, <1>8 DEF MarkersNamePages
<1>10. ASSUME NEW l \in Layers, NEW j \in DOMAIN pages[l], NEW k \in DOMAIN pages[l], j < k,
              IsSpilled(l, pages[l][k].id)'
       PROVE  IsSpilled(l, pages[l][j].id)'
  <2>1. PICK i \in DOMAIN spilled' : spilled'[i].layer = l /\ spilled'[i].id = pages'[l][k].id
    BY <1>10 DEF IsSpilled
  <2>2. CASE i \in DOMAIN spilled
    <3>1. IsSpilled(l, pages[l][k].id)
      BY <1>1, <1>2, <2>1, <2>2 DEF IsSpilled
    <3>2. IsSpilled(l, pages[l][j].id)
      BY <1>10, <3>1 DEF SpillInv, OldestSpilledFirst
    <3>3. QED BY <1>1, <1>4, <3>2
  <2>3. CASE i \notin DOMAIN spilled /\ IsCandidate(l, j)
    <3> DEFINE m == MarkerOf(l, j)
               q == spilled'[i]
    <3>1. q \in Candidates
      BY <1>2, <2>3
    <3>2. PICK h \in Layers : \E p \in DOMAIN pages[h] : q = MarkerOf(h, p) /\ IsCandidate(h, p)
      BY <1>3, <3>1
    <3>3. PICK p \in DOMAIN pages[h] : q = MarkerOf(h, p)
      BY <3>2
    <3>4. MarkerOf(h, p).id = MarkerOf(l, k).id
      <4>1. MarkerOf(l, k).id = pages[l][k].id
        BY DEF MarkerOf
      <4>2. QED BY <1>1, <2>1, <3>3, <4>1
    <3>5. q = MarkerOf(l, k)
      BY <3>3, <3>4, CandidatesExact
    <3>6. m.start < q.start
      BY <1>10, <3>5 DEF MarkerOf, SpillInv, Rising
    <3>7. m \in Candidates
      BY <2>3, CandidatesExact
    <3>8. PICK h2 \in DOMAIN spilled' : spilled'[h2] = m
      BY <2>3, <3>6, <3>7, SpillAdds DEF ByScore
    <3>9. spilled'[h2].layer = l /\ spilled'[h2].id = pages'[l][j].id
      BY <1>1, <3>8 DEF MarkerOf
    <3>10. QED BY <3>9 DEF IsSpilled
  <2>4. CASE ~IsCandidate(l, j)
    BY <1>1, <1>4, <2>4 DEF IsCandidate
  <2>5. QED BY <2>2, <2>3, <2>4
<1>11. OldestSpilledFirst'
  BY <1>1, <1>10 DEF OldestSpilledFirst
<1>12. QED BY <1>9, <1>11

LEMMA SpillInvStep ==
    ASSUME SpillInv, [Next]_vars
    PROVE  SpillInv'
<1>1. TableInv' /\ PageIdsUnique'
  BY TableStep, IdsStep DEF SpillInv, IdsInv, TableInv
<1>2. PolicyType'
  <2>1. CASE UNCHANGED <<enabled, policy>>
    BY <2>1 DEF SpillInv, PolicyType
  <2>2. ASSUME NEW p \in Policies, EnableSpillover(p) PROVE PolicyType'
    BY <2>2, PagedKVAssumption DEF EnableSpillover, PolicyType
  <2>3. CASE Spill
    <3>1. enabled' = enabled /\ policy' = Observed(policy)
      BY <2>3 DEF Spill
    <3>2. QED BY <3>1, BudgetBounds DEF SpillInv, PolicyType
  <2>4. QED
    BY <2>1, <2>2, <2>3
    DEF Next, vars, AppendKV, LoadLayer, LoadPrefix, Clear, Reset, Extend, Appended, Loaded
<1>3. (\A l \in Layers : Rising(l)') /\ spilled' \in Seq(Marker) /\ MarkersNamePages' /\ OldestSpilledFirst'
  <2>1. CASE pages' = pages /\ spilled' = spilled
    BY <2>1 DEF SpillInv, Rising, MarkersNamePages, OldestSpilledFirst, IsSpilled
  <2>2. ASSUME NEW S \in SUBSET Layers, Reset(S)
        PROVE  (\A l \in Layers : Rising(l)') /\ spilled' \in Seq(Marker) /\ MarkersNamePages' /\ OldestSpilledFirst'
    BY <2>2 DEF Reset, Rising, MarkersNamePages, OldestSpilledFirst
  <2>3. CASE Extend
    BY <2>3, ExtendKeepsMarkers DEF Extend, SpillInv
  <2>4. CASE Spill
    <3>1. \A l \in Layers : Rising(l)'
      BY <2>4 DEF Spill, table, SpillInv, Rising
    <3>2. QED BY <2>4, <3>1, SpillKeepsMarkers, SpillAdds
  <2>5. QED
    BY <2>1, <2>2, <2>3, <2>4
    DEF Next, vars, AppendKV, LoadLayer, LoadPrefix, Clear, EnableSpillover, Appended, Loaded, table
<1>4. QED BY <1>1, <1>2, <1>3 DEF SpillInv

LEMMA SpillInitially ==
    ASSUME Init
    PROVE  SpillInv
<1>1. TableInv
  BY TableInitially
<1>2. PageIdsUnique /\ \A l \in Layers : Rising(l)
  BY DEF Init, PageIdsUnique, Rising
<1>3. PolicyType
  <2>1. NoLimit \in Int
    BY DEF NoLimit
  <2>2. enabled = FALSE /\ policy = [limit |-> NoLimit, model |-> FALSE, usable |-> NoLimit, bytes |-> 0]
    BY DEF Init, NoPolicy
  <2>3. QED BY <2>1, <2>2 DEF PolicyType
<1>4. spilled \in Seq(Marker) /\ MarkersNamePages /\ OldestSpilledFirst
  BY DEF Init, MarkersNamePages, OldestSpilledFirst
<1>5. QED BY <1>1, <1>2, <1>3, <1>4 DEF SpillInv

\* Every variable holds a value of the kind the code gives it.
THEOREM TypeCorrect == Spec => []TypeOK
<1>1. SpillInv => TypeOK
  BY DEF SpillInv, TableInv, TableType, PolicyType, TypeOK
<1>2. QED BY <1>1, SpillInitially, SpillInvStep, PTL DEF Spec

\* Whatever is appended, restored or spilled, a marker in spilled_pages names a
\* page of the table, and no page has two.
THEOREM MarkersNamePagesHolds == Spec => []MarkersNamePages
<1>1. SpillInv => MarkersNamePages
  BY DEF SpillInv
<1>2. QED BY <1>1, SpillInitially, SpillInvStep, PTL DEF Spec

\* The policy never spills a page of a layer before the older ones.
THEOREM OldestSpilledFirstHolds == Spec => []OldestSpilledFirst
<1>1. SpillInv => OldestSpilledFirst
  BY DEF SpillInv
<1>2. QED BY <1>1, SpillInitially, SpillInvStep, PTL DEF Spec

\* After the policy was applied there are no more resident pages than either of
\* its limits allows.
THEOREM BudgetKeptHolds == Spec => BudgetKept
<1> DEFINE Within == pc = "spill" => /\ Resident' <= AtLeastOne(policy'.limit) \/ policy'.limit = NoLimit
                                     /\ policy'.model /\ policy'.usable # NoLimit =>
                                          Resident' <= AtLeastOne(policy'.usable \div policy'.bytes)
<1>1. ASSUME SpillInv, Next PROVE Within
  <2>1. SUFFICES ASSUME pc = "spill" PROVE Within
    OBVIOUS
  <2>2. Spill
    BY <1>1, <2>1
    DEF Next, AppendKV, LoadLayer, LoadPrefix, Clear, EnableSpillover, Extend, Appended, Loaded, Goto
  <2> DEFINE b == ResidentBudget(Observed(policy))
             N == Cardinality(Candidates)
  <2>3. policy' = Observed(policy)
    BY <2>2 DEF Spill
  <2>4. /\ b \in Nat \ {0}
        /\ policy'.limit # NoLimit => b <= AtLeastOne(policy'.limit)
        /\ policy'.model /\ policy'.usable # NoLimit => b <= AtLeastOne(policy'.usable \div policy'.bytes)
        /\ AtLeastOne(policy'.limit) \in Nat \ {0}
        /\ policy'.model => AtLeastOne(policy'.usable \div policy'.bytes) \in Nat \ {0}
    BY <1>1, <2>3, BudgetBounds DEF SpillInv
  <2>5. N \in Nat /\ Pages \in Nat /\ Pages <= Len(spilled) + N /\ Len(spilled) \in Nat
    BY <1>1, PagesCounted DEF SpillInv
  <2>6. /\ Len(spilled') \in Nat
        /\ Len(spilled') = Len(spilled) + N \/ Len(spilled') >= Len(spilled) + (Pages - b)
    BY <1>1, <2>2, SpillAdds DEF Overflow
  <2>7. Resident' = Pages - Len(spilled')
    <3>1. pages' = pages
      BY <2>2 DEF Spill, table
    <3>2. Positions' = Positions
      BY <3>1 DEF Positions
    <3>3. QED BY <3>2 DEF Resident, Pages
  <2> HIDE DEF b, N
  <2>8. Resident' <= b /\ Resident' \in Int
    BY <2>4, <2>5, <2>6, <2>7
  <2>9. QED BY <2>4, <2>8
<1>2. SpillInv /\ [Next]_vars => [Within]_vars
  BY <1>1
<1>3. [][Within]_vars => BudgetKept
  BY DEF BudgetKept
<1> HIDE DEF Within
<1>4. QED BY <1>2, <1>3, SpillInitially, SpillInvStep, PTL DEF Spec

=============================================================================
