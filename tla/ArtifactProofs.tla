--------------------------- MODULE ArtifactProofs ---------------------------
(***************************************************************************)
(* What a compiled program reads at run time lies where it should and is   *)
(* what was written: the buffers of the activation arena (MemoryPlan, and  *)
(* Compile for a finished graph), the schedule, and the weights of a model *)
(* (Weights).                                                              *)
(*                                                                         *)
(* The arena.  LiveBuffersApart is not inductive: that a block is free     *)
(* again says nothing of the buffer that had it.  IInv adds that free and  *)
(* active blocks are pairwise apart, and that a buffer which is not active *)
(* any more ended before every event to come.                              *)
(*                                                                         *)
(* Finished graphs.  The events are made node by node, so that they are in *)
(* the order of their starts; Tracked says that events and buffers are of  *)
(* values of the graph being planned.  Graph.validate leaves one producer  *)
(* for each name, and so the lifetime of its buffer covers its uses.       *)
(* ScheduleInv follows the schedule through the last passes: the kernels   *)
(* are there when it is made.                                              *)
(*                                                                         *)
(* The weights.  First what packing is for one row: rounding is off by a   *)
(* half at most, the scale reaches across the row, clipping takes off no   *)
(* more than rounding put on, and the nibbles of a byte return, on the CPU *)
(* and on the GPU.  Then the store: StoreInv says how the dense, packed    *)
(* and GPU copies of a name belong together, whichever call made them, and *)
(* ShardsInv where the values of a directory of .npz files come from.      *)
(***************************************************************************)
EXTENDS Compile, Weights, SequenceTheorems, WellFoundedInduction, FiniteSetTheorems, TLAPS

\* A non-empty set of naturals has a least one: the induction that the lemmas below are proved by.
LEMMA LeastNatural ==
    ASSUME NEW S, S \subseteq Nat, S # {}
    PROVE  \E n \in S : \A m \in S : n <= m
<1>1. PICK n \in S : \A m \in S : ~(<<m, n>> \in OpToRel(<, Nat))
  BY NatLessThanWellFounded, WFMin
<1>2. \A m \in S : ~(m < n)
  BY <1>1 DEF OpToRel
<1> QED BY <1>2

------------------------------------------------------------------------------
(* The activation arena *)

Region(b) == b.offset \in Nat /\ b.size \in Nat /\ b.size > 0 /\ b.offset + b.size <= arena

Typed ==
    /\ todo \in Seq(Event) /\ Sorted(todo)
    /\ arena \in Nat
    /\ active \subseteq buffers
    /\ \A b \in buffers : Region(b) /\ b.start \in Nat /\ b.end \in Nat
    /\ \A f \in free : Region(f)

BlocksApart ==
    /\ \A f, g \in free : f # g => Apart(f, g)
    /\ \A a, b \in active : a # b => Apart(a, b)
    /\ \A a \in active, f \in free : Apart(a, f)

Expired ==
    todo # <<>> => \A b \in buffers : /\ b.start <= Head(todo).start
                                      /\ b \notin active => b.end < Head(todo).start

IInv == Typed /\ BlocksApart /\ Expired /\ LiveBuffersApart

------------------------------------------------------------------------------
\* The head of a sorted sequence of events, and what is left of it.
LEMMA EventsLeft ==
    ASSUME NEW s \in Seq(Event), Sorted(s), s # <<>>
    PROVE  /\ Head(s) \in Event
           /\ Tail(s) \in Seq(Event) /\ Sorted(Tail(s))
           /\ Tail(s) # <<>> => Head(s).start <= Head(Tail(s)).start
<1>1. Head(s) \in Event /\ Tail(s) \in Seq(Event) /\ Head(s) = s[1] /\ Len(s) \in Nat /\ Len(s) >= 1
  OBVIOUS
<1>2. Sorted(Tail(s))
  <2> SUFFICES ASSUME NEW i \in DOMAIN Tail(s), NEW j \in DOMAIN Tail(s), i <= j
               PROVE  Tail(s)[i].start <= Tail(s)[j].start
    BY DEF Sorted
  <2>1. i + 1 \in DOMAIN s /\ j + 1 \in DOMAIN s /\ i + 1 <= j + 1
    OBVIOUS
  <2>2. Tail(s)[i] = s[i + 1] /\ Tail(s)[j] = s[j + 1]
    OBVIOUS
  <2> QED BY <2>1, <2>2 DEF Sorted
<1>3. ASSUME Tail(s) # <<>> PROVE Head(s).start <= Head(Tail(s)).start
  <2>1. Head(Tail(s)) = s[2] /\ 1 \in DOMAIN s /\ 2 \in DOMAIN s
    BY <1>3
  <2> QED BY <1>1, <2>1 DEF Sorted
<1> QED BY <1>1, <1>2, <1>3

\* What an event may use again is apart from itself and from what stays active.
LEMMA ReusableApart ==
    ASSUME Typed, BlocksApart, NEW e \in Event
    PROVE  /\ \A f \in Reusable(e) : Region(f)
           /\ \A f, g \in Reusable(e) : f # g => Apart(f, g)
           /\ \A f \in Reusable(e), a \in active \ Ended(e) : Apart(a, f)
<1> USE DEF Typed, BlocksApart
<1>1. ASSUME NEW b \in active
      PROVE  /\ Block(b, e).offset = b.offset /\ Block(b, e).size = b.size
             /\ Region(b) /\ Region(Block(b, e))
  BY DEF Block, Region
<1>2. \A f \in Reusable(e) : f \in free \/ \E b \in Ended(e) : f = Block(b, e)
  BY DEF Reusable
<1>3. Ended(e) \subseteq active
  BY DEF Ended
<1>4. \A f \in Reusable(e) : Region(f)
  BY <1>1, <1>2, <1>3
<1>5. ASSUME NEW f \in Reusable(e), NEW g \in Reusable(e), f # g
      PROVE  Apart(f, g)
  <2>1. CASE f \in free /\ g \in free
    BY <2>1, <1>5
  <2>2. CASE f \in free /\ g \notin free
    <3>1. PICK b \in Ended(e) : g = Block(b, e)
      BY <1>2, <2>2
    <3>2. Apart(b, f) /\ Region(b) /\ Region(f)
      BY <1>1, <1>3, <2>2
    <3> QED BY <1>1, <1>3, <3>1, <3>2 DEF Apart, Region
  <2>3. CASE f \notin free /\ g \in free
    <3>1. PICK b \in Ended(e) : f = Block(b, e)
      BY <1>2, <2>3
    <3>2. Apart(b, g) /\ Region(b) /\ Region(g)
      BY <1>1, <1>3, <2>3
    <3> QED BY <1>1, <1>3, <3>1, <3>2 DEF Apart, Region
  <2>4. CASE f \notin free /\ g \notin free
    <3>1. PICK b \in Ended(e) : f = Block(b, e)
      BY <1>2, <2>4
    <3>2. PICK c \in Ended(e) : g = Block(c, e)
      BY <1>2, <2>4
    <3>3. b # c
      BY <1>5, <3>1, <3>2
    <3>4. Apart(b, c)
      BY <1>3, <3>3
    <3> QED BY <1>1, <1>3, <3>1, <3>2, <3>4 DEF Apart
  <2> QED BY <2>1, <2>2, <2>3, <2>4
<1>6. ASSUME NEW f \in Reusable(e), NEW a \in active \ Ended(e)
      PROVE  Apart(a, f)
  <2>1. CASE f \in free
    BY <2>1
  <2>2. CASE f \notin free
    <3>1. PICK b \in Ended(e) : f = Block(b, e)
      BY <1>2, <2>2
    <3>2. Apart(a, b)
      BY <1>3, <3>1
    <3> QED BY <1>1, <1>3, <3>1, <3>2 DEF Apart
  <2> QED BY <2>1, <2>2
<1> QED BY <1>4, <1>5, <1>6

\* A buffer that the head of todo lives together with is still active after it.
LEMMA StillActive ==
    ASSUME Expired, todo # <<>>, NEW b \in buffers, Head(todo).start <= b.end,
           NEW c, c = Head(todo).start, c \in Nat, b.end \in Nat
    PROVE  b \in active \ Ended(Head(todo))
BY DEF Expired, Ended

------------------------------------------------------------------------------
\* One event: whatever offset it gets, if the bytes there are apart from the
\* blocks that stay, the invariant is kept.
LEMMA PlaceKeeps ==
    ASSUME IInv, todo # <<>>,
           NEW offset \in Nat,
           Place(Head(todo), offset), todo' = Tail(todo),
           arena' \in Nat, arena <= arena', offset + Head(todo).size <= arena',
           free' \subseteq Reusable(Head(todo)),
           \A a \in active \ Ended(Head(todo)) : Apart(a, Placed(Head(todo), offset)),
           \A f \in free' : Apart(Placed(Head(todo), offset), f)
    PROVE  IInv'
<1> PICK e : e = Head(todo)
  OBVIOUS
<1> PICK n : n = Placed(e, offset)
  OBVIOUS
<1> DEFINE S == active \ Ended(e)
<1>1. /\ e \in Event /\ Tail(todo) \in Seq(Event) /\ Sorted(Tail(todo))
      /\ Tail(todo) # <<>> => e.start <= Head(Tail(todo)).start
  BY EventsLeft DEF IInv, Typed
<1>2. /\ e.start \in Nat /\ e.end \in Nat /\ e.size \in Nat /\ e.size > 0
      /\ Tail(todo) # <<>> => Head(Tail(todo)).start \in Nat
  <2>1. Tail(todo) # <<>> => Head(Tail(todo)) \in Event
    BY <1>1
  <2>2. \A v \in Event : v.start \in Nat /\ v.end \in Nat /\ v.size \in Nat /\ v.size > 0
    BY DEF Event
  <2> QED BY <1>1, <2>1, <2>2
<1>3. /\ n.offset = offset /\ n.size = e.size /\ n.start = e.start /\ n.end = e.end
      /\ active' = S \cup {n} /\ buffers' = buffers \cup {n}
  BY DEF Place, Placed
<1>4. /\ \A f \in Reusable(e) : Region(f)
      /\ \A f, g \in Reusable(e) : f # g => Apart(f, g)
      /\ \A f \in Reusable(e), a \in S : Apart(a, f)
  BY <1>1, ReusableApart DEF IInv
<1>5. Typed'
  <2>1. \A b \in buffers : Region(b)' /\ b.start \in Nat /\ b.end \in Nat
    BY DEF IInv, Typed, Region
  <2>2. Region(n)' /\ n.start \in Nat /\ n.end \in Nat
    BY <1>2, <1>3 DEF Region
  <2>3. \A f \in free' : Region(f)'
    BY <1>4 DEF IInv, Typed, Region
  <2>4. active \subseteq buffers
    BY DEF IInv, Typed
  <2> QED BY <1>1, <1>3, <2>1, <2>2, <2>3, <2>4 DEF Typed, Sorted
<1>6. \A a \in S : Apart(a, n) /\ Apart(n, a)
  BY DEF Apart
<1>7. BlocksApart'
  <2>1. \A f, g \in free' : f # g => Apart(f, g)
    BY <1>4
  <2>2. \A a, b \in active' : a # b => Apart(a, b)
    BY <1>3, <1>6 DEF IInv, BlocksApart
  <2>3. \A a \in active', f \in free' : Apart(a, f)
    BY <1>3, <1>4
  <2> QED BY <2>1, <2>2, <2>3 DEF BlocksApart, Apart
<1>8. Expired'
  <2> SUFFICES ASSUME Tail(todo) # <<>>, NEW b \in buffers \cup {n}
               PROVE  /\ b.start <= Head(Tail(todo)).start
                      /\ b \notin active' => b.end < Head(Tail(todo)).start
    BY <1>3 DEF Expired
  <2>1. CASE b = n
    BY <1>1, <1>2, <1>3, <2>1
  <2>2. CASE b \in buffers
    <3>1. b.start \in Nat /\ b.end \in Nat /\ b.start <= e.start
      BY <2>2 DEF IInv, Typed, Expired
    <3>2. b \notin active' => b.end < e.start
      BY <1>3, <2>2 DEF IInv, Expired, Ended
    <3>3. e.start <= Head(Tail(todo)).start /\ Head(Tail(todo)).start \in Nat /\ e.start \in Nat
      BY <1>1, <1>2
    <3> QED BY <3>1, <3>2, <3>3
  <2> QED BY <2>1, <2>2
<1>9. LiveBuffersApart'
  <2>1. ASSUME NEW b \in buffers, LiveTogether(b, n) \/ LiveTogether(n, b)
        PROVE  Apart(b, n) /\ Apart(n, b)
    <3>1. n.start <= b.end /\ b.end \in Nat
      BY <2>1 DEF LiveTogether, IInv, Typed
    <3>2. b \in S
      BY <1>2, <1>3, <3>1, StillActive DEF IInv
    <3> QED BY <1>6, <3>2
  <2>2. \A a, b \in buffers' : a # b /\ LiveTogether(a, b) => Apart(a, b)
    BY <1>3, <2>1 DEF IInv, LiveBuffersApart
  <2>3. \A b \in buffers' : b.offset + b.size <= arena'
    BY <1>5 DEF Typed, Region
  <2> QED BY <2>2, <2>3 DEF LiveBuffersApart, Apart, LiveTogether
<1> QED BY <1>5, <1>7, <1>8, <1>9 DEF IInv

\* A block is used again.
LEMMA ReuseKeeps == IInv /\ Reuse => IInv'
<1> SUFFICES ASSUME IInv, Reuse PROVE IInv'
  OBVIOUS
<1> DEFINE e == Head(todo)
<1>1. e \in Event /\ e.size \in Nat
  BY EventsLeft DEF IInv, Typed, Reuse, Event
<1>2. PICK f \in Fits(e) : free' = Reusable(e) \ {f} /\ Place(e, f.offset)
  BY DEF Reuse
<1>3. f \in Reusable(e) /\ f.size >= e.size
  BY DEF Fits
<1>4. /\ \A g \in Reusable(e) : Region(g)
      /\ \A g, h \in Reusable(e) : g # h => Apart(g, h)
      /\ \A g \in Reusable(e), a \in active \ Ended(e) : Apart(a, g)
  BY <1>1, ReusableApart DEF IInv
<1>5. f.offset \in Nat /\ f.size \in Nat /\ f.offset + f.size <= arena /\ arena \in Nat
  BY <1>3, <1>4 DEF Region, IInv, Typed
<1> DEFINE n == Placed(e, f.offset)
<1>6. n.offset = f.offset /\ n.size = e.size
  BY DEF Placed
<1>7. ASSUME NEW a \in active \ Ended(e) PROVE Apart(a, n)
  <2>1. Apart(a, f) /\ Region(a)
    BY <1>3, <1>4 DEF IInv, Typed
  <2> QED BY <1>1, <1>3, <1>5, <1>6, <2>1 DEF Apart, Region
<1>8. ASSUME NEW g \in free' PROVE Apart(n, g)
  <2>1. Apart(f, g) /\ Region(g)
    BY <1>2, <1>3, <1>4
  <2> QED BY <1>1, <1>3, <1>5, <1>6, <2>1 DEF Apart, Region
<1>9. arena' = arena /\ todo' = Tail(todo) /\ todo # <<>>
  BY DEF Reuse
<1>10. free' \subseteq Reusable(e) /\ f.offset + e.size <= arena'
  BY <1>1, <1>2, <1>3, <1>5, <1>9
<1> QED BY <1>2, <1>5, <1>7, <1>8, <1>9, <1>10, PlaceKeeps

\* The arena grows: what is placed at its old end is apart from everything.
LEMMA ExtendKeeps == IInv /\ Extend => IInv'
<1> SUFFICES ASSUME IInv, Extend PROVE IInv'
  OBVIOUS
<1> DEFINE e == Head(todo)
           n == Placed(e, arena)
<1>1. e \in Event /\ e.size \in Nat /\ arena \in Nat
  BY EventsLeft DEF IInv, Typed, Extend, Event
<1>2. Aligned(e.size) \in Nat /\ Aligned(e.size) >= e.size
  BY <1>1 DEF Aligned, Alignment
<1>3. arena' = arena + Aligned(e.size)
  BY DEF Extend
<1>4. n.offset = arena /\ n.size = e.size
  BY DEF Placed
<1>5. \A f \in Reusable(e) : Region(f)
  BY <1>1, ReusableApart DEF IInv
<1>6. \A a \in active : Region(a)
  BY DEF IInv, Typed
<1>7. (\A a \in active \ Ended(e) : Apart(a, n)) /\ \A f \in Reusable(e) : Apart(n, f)
  BY <1>4, <1>5, <1>6 DEF Apart, Region
<1>8. arena' \in Nat /\ arena <= arena' /\ arena + e.size <= arena'
  BY <1>1, <1>2, <1>3
<1> QED BY <1>1, <1>7, <1>8, PlaceKeeps DEF Extend

\* MemoryPlanning: whatever the values of a graph are, and however long they
\* live, two that are alive together have buffers apart, inside the arena.
THEOREM PlanSafe == PlanSpec => []LiveBuffersApart
<1>1. PlanInit => IInv
  BY DEF PlanInit, PlanEmpty, IInv, Typed, BlocksApart, Expired, LiveBuffersApart
<1>2. IInv /\ [PlanNext]_planVars => IInv'
  <2> SUFFICES ASSUME IInv, [PlanNext]_planVars PROVE IInv'
    OBVIOUS
  <2>1. CASE Reuse
    BY <2>1, ReuseKeeps
  <2>2. CASE Extend
    BY <2>2, ExtendKeeps
  <2>3. CASE UNCHANGED planVars
    BY <2>3 DEF planVars, IInv, Typed, BlocksApart, Expired, LiveBuffersApart, Region, Apart, LiveTogether
  <2> QED BY <2>1, <2>2, <2>3 DEF PlanNext
<1>3. IInv => LiveBuffersApart
  BY DEF IInv
<1> QED BY <1>1, <1>2, <1>3, PTL DEF PlanSpec

------------------------------------------------------------------------------
(* Lists: their largest position, and lists put one after the other *)

\* Positions of a list have a largest one, and Max is it.
LEMMA MaxOfPositions ==
    ASSUME NEW n \in Nat, NEW S, S \subseteq 1..n, S # {}
    PROVE  Max(S) \in S /\ \A x \in S : x <= Max(S)
<1> DEFINE Bounds == {m \in Nat : \A x \in S : x <= m}
<1>1. Bounds \subseteq Nat /\ n \in Bounds
  OBVIOUS
<1>2. PICK m \in Bounds : \A k \in Bounds : m <= k
  BY <1>1, LeastNatural
<1>3. m \in Nat /\ \A x \in S : x \in Nat /\ x >= 1 /\ x <= m
  BY <1>2
<1>4. m \in S
  <2> SUFFICES ASSUME m \notin S PROVE FALSE
    OBVIOUS
  <2>1. m >= 1
    <3>1. PICK x \in S : TRUE
      OBVIOUS
    <3> QED BY <1>3, <3>1
  <2>2. \A x \in S : x <= m - 1
    BY <1>3
  <2>3. m - 1 \in Bounds
    BY <1>3, <2>1, <2>2
  <2> QED BY <1>2, <1>3, <2>3
<1>5. \E x \in S : \A y \in S : x >= y
  BY <1>3, <1>4
<1> HIDE DEF Bounds
<1> QED BY <1>3, <1>5 DEF Max

\* Lists one after the other: what is at a position of the whole is in one of the parts,
\* and the parts are in order.
InParts(q, n, f, from) ==
    /\ from \in [1..Len(f) -> 1..n]
    /\ \A k \in 1..Len(f) : \E l \in 1..Len(q[from[k]]) : f[k] = q[from[k]][l]
    /\ \A k, l \in 1..Len(f) : k <= l => from[k] <= from[l]

From(from, f, i) == \A k \in 1..Len(f) : from[k] <= i

LEMMA PartsAppended ==
    ASSUME NEW S, NEW n \in Nat, NEW q \in [1..n -> Seq(S)], NEW i \in 1..n, NEW f \in Seq(S), NEW from,
           InParts(q, n, f, from), From(from, f, i - 1)
    PROVE  \E whole : InParts(q, n, f \o q[i], whole) /\ From(whole, f \o q[i], i)
<1> DEFINE whole == [k \in 1..Len(f \o q[i]) |-> IF k <= Len(f) THEN from[k] ELSE i]
<1>1. /\ Len(f) \in Nat /\ q[i] \in Seq(S) /\ Len(q[i]) \in Nat /\ f \o q[i] \in Seq(S)
      /\ Len(f \o q[i]) = Len(f) + Len(q[i])
  OBVIOUS
<1>2. from \in [1..Len(f) -> 1..n] /\ \A k \in 1..Len(f) : from[k] \in 1..n /\ from[k] <= i - 1
  BY DEF InParts, From
<1>3. ASSUME NEW k \in 1..Len(f \o q[i]) PROVE whole[k] \in 1..n /\ whole[k] <= i
  <2>1. CASE k <= Len(f)
    <3>1. k \in 1..Len(f) /\ whole[k] = from[k]
      BY <1>1, <2>1
    <3> QED BY <1>2, <3>1
  <2>2. CASE ~(k <= Len(f))
    BY <2>2
  <2> QED BY <2>1, <2>2
<1>4. ASSUME NEW k \in 1..Len(f \o q[i])
      PROVE  \E l \in 1..Len(q[whole[k]]) : (f \o q[i])[k] = q[whole[k]][l]
  <2>1. CASE k <= Len(f)
    <3>1. k \in 1..Len(f) /\ whole[k] = from[k] /\ (f \o q[i])[k] = f[k]
      BY <1>1, <2>1
    <3> QED BY <3>1 DEF InParts
  <2>2. CASE ~(k <= Len(f))
    <3>1. whole[k] = i /\ k - Len(f) \in 1..Len(q[i]) /\ (f \o q[i])[k] = q[i][k - Len(f)]
      BY <1>1, <2>2
    <3> QED BY <3>1
  <2> QED BY <2>1, <2>2
<1>5. ASSUME NEW k \in 1..Len(f \o q[i]), NEW l \in 1..Len(f \o q[i]), k <= l PROVE whole[k] <= whole[l]
  <2>1. CASE l <= Len(f)
    <3>1. k \in 1..Len(f) /\ l \in 1..Len(f) /\ whole[k] = from[k] /\ whole[l] = from[l]
      BY <1>1, <1>5, <2>1
    <3> QED BY <1>5, <3>1 DEF InParts
  <2>2. CASE ~(l <= Len(f))
    <3>1. whole[l] = i
      BY <2>2
    <3> QED BY <1>3, <3>1
  <2> QED BY <2>1, <2>2
<1>6. whole \in [1..Len(f \o q[i]) -> 1..n]
  BY <1>3
<1> HIDE DEF whole
<1>7. InParts(q, n, f \o q[i], whole)
  BY <1>4, <1>5, <1>6 DEF InParts
<1>8. From(whole, f \o q[i], i)
  BY <1>3 DEF From
<1> QED BY <1>7, <1>8

Flattens(q, n, f) == f = [i \in 1..n |-> IF i = 1 THEN q[i] ELSE f[i - 1] \o q[i]]

\* The recursion of FlattenSeq has a solution, as far as any position.
LEMMA FlattenSolved ==
    ASSUME NEW S, NEW n \in Nat, NEW q \in [1..n -> Seq(S)]
    PROVE  \E f : Flattens(q, n, f)
<1> DEFINE Upto(m) == \E f \in [1..m -> Seq(S)] : \A i \in 1..m : f[i] = IF i = 1 THEN q[i] ELSE f[i - 1] \o q[i]
           Not == {m \in Nat : m <= n /\ ~Upto(m)}
<1>1. Not = {}
  <2> SUFFICES ASSUME Not # {} PROVE FALSE
    OBVIOUS
  <2>1. PICK m \in Not : \A k \in Not : m <= k
    BY LeastNatural
  <2>2. m \in Nat /\ m <= n /\ ~Upto(m)
    OBVIOUS
  <2>3. m # 0
    <3>1. Upto(0)
      <4>1. \A i \in 1..0 : FALSE
        OBVIOUS
      <4>2. [i \in 1..0 |-> q[i]] \in [1..0 -> Seq(S)]
        BY <4>1
      <4>3. PICK f \in [1..0 -> Seq(S)] : TRUE
        BY <4>2
      <4> QED BY <4>1, <4>3
    <3> QED BY <2>2, <3>1
  <2>4. m - 1 \in Nat /\ m - 1 <= n /\ ~(m <= m - 1)
    BY <2>2, <2>3
  <2>5. Upto(m - 1)
    BY <2>1, <2>4
  <2>6. PICK f \in [1..(m - 1) -> Seq(S)] :
            \A i \in 1..(m - 1) : f[i] = IF i = 1 THEN q[i] ELSE f[i - 1] \o q[i]
    BY <2>5
  <2> DEFINE last == IF m = 1 THEN q[m] ELSE f[m - 1] \o q[m]
             g == [i \in 1..m |-> IF i = m THEN last ELSE f[i]]
  <2> HIDE DEF Not
  <2>7. last \in Seq(S)
    <3>1. q[m] \in Seq(S)
      BY <2>2, <2>3
    <3>2. m # 1 => f[m - 1] \in Seq(S)
      <4>1. m # 1 => m - 1 \in 1..(m - 1)
        BY <2>2, <2>3
      <4> QED BY <4>1
    <3> QED BY <3>1, <3>2
  <2>8. g \in [1..m -> Seq(S)]
    <3> HIDE DEF last
    <3>1. \A i \in 1..m : i # m => i \in 1..(m - 1)
      BY <2>2
    <3> QED BY <2>7, <3>1
  <2>9. ASSUME NEW i \in 1..m PROVE g[i] = IF i = 1 THEN q[i] ELSE g[i - 1] \o q[i]
    <3>1. CASE i = m
      <4>1. i # 1 => i - 1 \in 1..m /\ i - 1 # m /\ g[i - 1] = f[i - 1]
        BY <2>2, <3>1
      <4>2. g[i] = last
        BY <3>1
      <4> HIDE DEF g
      <4> QED BY <3>1, <4>1, <4>2
    <3>2. CASE i # m
      <4>1. i \in 1..(m - 1) /\ g[i] = f[i]
        BY <2>2, <3>2
      <4>2. i # 1 => i - 1 \in 1..m /\ i - 1 # m /\ g[i - 1] = f[i - 1]
        BY <2>2, <3>2
      <4> HIDE DEF g
      <4> QED BY <2>6, <4>1, <4>2
    <3> QED BY <3>1, <3>2
  <2>10. Upto(m)
    <3> HIDE DEF g
    <3> QED BY <2>8, <2>9
  <2> QED BY <2>2, <2>10
<1>2. Upto(n)
  <2> HIDE DEF Upto
  <2>1. n \in Not \/ Upto(n)
    OBVIOUS
  <2> QED BY <1>1, <2>1
<1>3. PICK f \in [1..n -> Seq(S)] : \A i \in 1..n : f[i] = IF i = 1 THEN q[i] ELSE f[i - 1] \o q[i]
  BY <1>2
<1>4. f = [i \in 1..n |-> IF i = 1 THEN q[i] ELSE f[i - 1] \o q[i]]
  BY <1>3
<1> QED BY <1>4 DEF Flattens

LEMMA FlattenParts ==
    ASSUME NEW S, NEW n \in Nat, NEW q \in [1..n -> Seq(S)]
    PROVE  FlattenSeq(q) \in Seq(S) /\ \E from : InParts(q, n, FlattenSeq(q), from)
<1> DEFINE Split(f, i) == \E from : InParts(q, n, f, from) /\ From(from, f, i)
           Good(f, i) == f[i] \in Seq(S) /\ Split(f[i], i)
<1>1. q \in Seq(Seq(S)) /\ Len(q) = n
  OBVIOUS
<1>2. CASE n = 0
  <2>1. q = <<>> /\ FlattenSeq(q) = q
    BY <1>1, <1>2 DEF FlattenSeq
  <2>2. FlattenSeq(q) \in Seq(S) /\ Len(FlattenSeq(q)) = 0
    <3>1. <<>> \in Seq(S) /\ Len(<<>>) = 0
      OBVIOUS
    <3> QED BY <2>1, <3>1
  <2>3. InParts(q, n, FlattenSeq(q), [k \in 1..0 |-> k])
    BY <2>2 DEF InParts
  <2> QED BY <2>2, <2>3
<1>3. CASE n # 0
  <2>1. n \in 1..n /\ Len(q) # 0
    BY <1>1, <1>3
  <2>2. FlattenSeq(q) = (CHOOSE f : Flattens(q, n, f))[n]
    BY <1>1, <2>1 DEF FlattenSeq, Flattens
  <2>3. PICK f : f = CHOOSE g : Flattens(q, n, g)
    OBVIOUS
  <2>4. Flattens(q, n, f)
    BY <2>3, FlattenSolved
  <2>5. \A i \in 1..n : f[i] = IF i = 1 THEN q[i] ELSE f[i - 1] \o q[i]
    BY <2>4 DEF Flattens
  <2> DEFINE Bad == {m \in Nat : m \in 1..n /\ ~Good(f, m)}
  <2>6. Bad = {}
    <3> SUFFICES ASSUME Bad # {} PROVE FALSE
      OBVIOUS
    <3>1. PICK m \in Bad : \A k \in Bad : m <= k
      BY LeastNatural
    <3>2. m \in 1..n /\ ~Good(f, m) /\ q[m] \in Seq(S)
      OBVIOUS
    <3>0. m \in 1..n
      BY <3>2
    <3>3. CASE m = 1
      <4>1. PICK empty \in Seq(S) : empty = <<>> /\ Len(empty) = 0
        <5>1. <<>> \in Seq(S) /\ Len(<<>>) = 0
          OBVIOUS
        <5> QED BY <5>1
      <4>2. PICK from : InParts(q, n, empty, from) /\ From(from, empty, m - 1)
        <5>1. InParts(q, n, empty, [k \in 1..0 |-> k]) /\ \A k \in 1..Len(empty) : FALSE
          BY <4>1 DEF InParts
        <5> QED BY <5>1 DEF From
      <4>3. empty \o q[m] = q[m]
        BY <3>2, <4>1
      <4>4. \E whole : InParts(q, n, empty \o q[m], whole) /\ From(whole, empty \o q[m], m)
        BY <3>0, <4>2, PartsAppended
      <4>5. f[m] = q[m]
        BY <2>5, <3>2, <3>3
      <4> QED BY <3>2, <4>3, <4>4, <4>5
    <3>4. CASE m # 1
      <4>1. m - 1 \in 1..n /\ m - 1 \in Nat /\ ~(m <= m - 1)
        BY <3>2, <3>4
      <4>2. Good(f, m - 1)
        BY <3>1, <4>1
      <4>3. PICK before \in Seq(S) : before = f[m - 1]
        BY <4>2
      <4>4. PICK from : InParts(q, n, before, from) /\ From(from, before, m - 1)
        BY <4>2, <4>3
      <4>6. \E whole : InParts(q, n, before \o q[m], whole) /\ From(whole, before \o q[m], m)
        BY <3>0, <4>4, PartsAppended
      <4>7. f[m] = before \o q[m]
        BY <2>5, <3>2, <3>4, <4>3
      <4>8. before \o q[m] \in Seq(S)
        BY <3>2
      <4> QED BY <3>2, <4>6, <4>7, <4>8
    <3> QED BY <3>3, <3>4
  <2>7. Good(f, n)
    <3>1. n \in Bad \/ Good(f, n)
      BY <2>1
    <3> QED BY <2>6, <3>1
  <2> QED BY <2>2, <2>3, <2>7
<1> QED BY <1>2, <1>3

------------------------------------------------------------------------------
(* The events of a graph *)

SizesKnown(g, ctx) == \A v \in DOMAIN g.values : SizeOf(g, ctx, v) \subseteq Nat

LEMMA GraphShape ==
    ASSUME NEW g, IsGraph(g)
    PROVE  /\ Len(g.nodes) \in Nat /\ DOMAIN g.nodes = 1..Len(g.nodes)
           /\ \A i \in DOMAIN g.nodes : /\ g.nodes[i].ins \in Seq(Int \X STRING)
                                        /\ g.nodes[i].outs \in Seq(Int \X STRING)
<1>1. g.nodes \in Seq({g.nodes[i] : i \in DOMAIN g.nodes}) /\ \A i \in DOMAIN g.nodes : IsNode(g.nodes[i])
  BY DEF IsGraph
<1>2. PICK S : g.nodes \in Seq(S)
  BY <1>1
<1> QED BY <1>1, <1>2 DEF IsNode

LEMMA ContainsConcat ==
    ASSUME NEW S, NEW a \in Seq(S), NEW b \in Seq(S), NEW v
    PROVE  Contains(a \o b, v) <=> Contains(a, v) \/ Contains(b, v)
<1>1. /\ Len(a) \in Nat /\ Len(b) \in Nat /\ a \o b \in Seq(S) /\ Len(a \o b) = Len(a) + Len(b)
      /\ \A i \in 1..Len(a) : (a \o b)[i] = a[i]
      /\ \A i \in 1..Len(b) : (a \o b)[Len(a) + i] = b[i]
  OBVIOUS
<1>2. ASSUME Contains(a \o b, v) PROVE Contains(a, v) \/ Contains(b, v)
  <2>1. PICK i \in 1..Len(a \o b) : (a \o b)[i] = v
    BY <1>2 DEF Contains
  <2>2. CASE i <= Len(a)
    <3>1. i \in 1..Len(a) /\ a[i] = v
      BY <1>1, <2>1, <2>2
    <3> QED BY <3>1 DEF Contains
  <2>3. CASE ~(i <= Len(a))
    <3>1. i - Len(a) \in 1..Len(b) /\ Len(a) + (i - Len(a)) = i
      BY <1>1, <2>1, <2>3
    <3>2. b[i - Len(a)] = v
      BY <1>1, <2>1, <3>1
    <3> QED BY <3>1, <3>2 DEF Contains
  <2> QED BY <2>2, <2>3
<1>3. ASSUME Contains(a, v) PROVE Contains(a \o b, v)
  <2>1. PICK i \in 1..Len(a) : a[i] = v
    BY <1>3 DEF Contains
  <2>2. i \in 1..Len(a \o b)
    BY <1>1, <2>1
  <2> QED BY <1>1, <2>1, <2>2 DEF Contains
<1>4. ASSUME Contains(b, v) PROVE Contains(a \o b, v)
  <2>1. PICK i \in 1..Len(b) : b[i] = v
    BY <1>4 DEF Contains
  <2>2. Len(a) + i \in 1..Len(a \o b)
    BY <1>1, <2>1
  <2> QED BY <1>1, <2>1, <2>2 DEF Contains
<1> QED BY <1>2, <1>3, <1>4

LEMMA ProducerProduces ==
    ASSUME NEW g, IsGraph(g), NEW v, NEW i \in Producer(g.nodes, v)
    PROVE  i \in DOMAIN g.nodes /\ Contains(g.nodes[i].outs, v)
<1> DEFINE Makers == {j \in DOMAIN g.nodes : Contains(g.nodes[j].outs, v)}
<1>1. Makers # {} /\ i = Max(Makers)
  BY DEF Producer
<1>2. Len(g.nodes) \in Nat /\ Makers \subseteq 1..Len(g.nodes)
  BY GraphShape
<1>3. i \in Makers
  BY <1>1, <1>2, MaxOfPositions
<1> QED BY <1>3

Mentions(g, v) == {i \in DOMAIN g.nodes : Contains(g.nodes[i].ins \o g.nodes[i].outs, v)}

LEMMA LastUseIsLast ==
    ASSUME NEW g, IsGraph(g), NEW v, Mentions(g, v) # {}
    PROVE  LastUse(g, v) \in Nat /\ \A i \in Mentions(g, v) : i <= LastUse(g, v)
<1>1. Len(g.nodes) \in Nat /\ Mentions(g, v) \subseteq 1..Len(g.nodes)
  BY GraphShape DEF Mentions
<1>2. LastUse(g, v) = Max(Mentions(g, v))
  BY DEF LastUse, Mentions
<1>3. Max(Mentions(g, v)) \in Mentions(g, v) /\ \A i \in Mentions(g, v) : i <= Max(Mentions(g, v))
  BY <1>1, MaxOfPositions
<1> QED BY <1>1, <1>2, <1>3

LEMMA MentionedWhere ==
    ASSUME NEW g, IsGraph(g), NEW v, NEW i \in DOMAIN g.nodes
    PROVE  i \in Mentions(g, v) <=> Contains(g.nodes[i].ins, v) \/ Contains(g.nodes[i].outs, v)
<1>1. g.nodes[i].ins \in Seq(Int \X STRING) /\ g.nodes[i].outs \in Seq(Int \X STRING)
  BY GraphShape
<1>2. PICK S : S = Int \X STRING
  OBVIOUS
<1>3. PICK a \in Seq(S), b \in Seq(S) : a = g.nodes[i].ins /\ b = g.nodes[i].outs
  BY <1>1, <1>2
<1>4. Contains(a \o b, v) <=> Contains(a, v) \/ Contains(b, v)
  BY ContainsConcat
<1> QED BY <1>3, <1>4 DEF Mentions

\* An event stands for a value that node i is the last to produce.
FromNode(g, e, i) == /\ e.start = i /\ i \in Producer(g.nodes, e.value)
                     /\ e.end = LastUse(g, e.value)

LEMMA NodeEventsTyped ==
    ASSUME NEW g, NEW ctx, IsGraph(g), SizesKnown(g, ctx), NEW i \in DOMAIN g.nodes
    PROVE  /\ NodeEvents(g, ctx, i) \in Seq(Event)
           /\ \A k \in 1..Len(NodeEvents(g, ctx, i)) : FromNode(g, NodeEvents(g, ctx, i)[k], i)
<1> DEFINE Good == {e \in Event : FromNode(g, e, i)}
           Part(v) == IF Planned(g, ctx, i, v) THEN <<PlanEvent(g, ctx, i, v)>> ELSE <<>>
<1>1. PICK outs \in Seq(Int \X STRING) : outs = g.nodes[i].outs
  BY GraphShape
<1>2. Len(outs) \in Nat /\ DOMAIN outs = 1..Len(outs)
  OBVIOUS
<1>3. i \in Nat
  BY GraphShape
<1>4. ASSUME NEW k \in 1..Len(outs), Planned(g, ctx, i, outs[k]) PROVE PlanEvent(g, ctx, i, outs[k]) \in Good
  <2>1. PICK v \in Int \X STRING : v = outs[k]
    BY <1>1
  <2>2. i \in Producer(g.nodes, v) /\ SizeOf(g, ctx, v) # {}
    BY <1>4, <2>1 DEF Planned
  <2>3. Contains(g.nodes[i].outs, v)
    BY <2>2, ProducerProduces
  <2>4. LastUse(g, v) \in Nat
    BY <2>3, MentionedWhere, LastUseIsLast
  <2>5. SizeOf(g, ctx, v) \subseteq Nat \ {0}
    <3>1. v \in DOMAIN g.values
      BY <2>2 DEF SizeOf, Lookup
    <3>2. 0 \notin SizeOf(g, ctx, v)
      BY DEF SizeOf
    <3> QED BY <3>1, <3>2 DEF SizesKnown
  <2>6. PICK size \in Nat \ {0} : size = CHOOSE n \in SizeOf(g, ctx, v) : TRUE
    BY <2>2, <2>5
  <2>7. PICK e : e = PlanEvent(g, ctx, i, v)
    OBVIOUS
  <2>8. e = [value |-> v, start |-> i, end |-> LastUse(g, v), size |-> size]
    BY <2>6, <2>7 DEF PlanEvent
  <2>9. e \in Event
    BY <1>3, <2>4, <2>8 DEF Event
  <2>10. FromNode(g, e, i)
    BY <2>2, <2>8 DEF FromNode
  <2> QED BY <2>1, <2>7, <2>9, <2>10
<1>5. PICK parts \in [1..Len(outs) -> Seq(Good)] : parts = [k \in 1..Len(outs) |-> Part(outs[k])]
  <2>1. ASSUME NEW k \in 1..Len(outs) PROVE Part(outs[k]) \in Seq(Good)
    <3> HIDE DEF Good
    <3>1. CASE Planned(g, ctx, i, outs[k])
      <4>1. PICK e \in Good : e = PlanEvent(g, ctx, i, outs[k])
        BY <1>4, <3>1
      <4>2. <<e>> \in Seq(Good)
        OBVIOUS
      <4> QED BY <3>1, <4>1, <4>2
    <3>2. CASE ~Planned(g, ctx, i, outs[k])
      <4>1. <<>> \in Seq(Good)
        OBVIOUS
      <4> QED BY <3>2, <4>1
    <3> QED BY <3>1, <3>2
  <2> HIDE DEF Good, Part
  <2> QED BY <2>1
<1>6. NodeEvents(g, ctx, i) = FlattenSeq(parts)
  BY <1>1, <1>2, <1>5 DEF NodeEvents
<1> HIDE DEF Good
<1>7. FlattenSeq(parts) \in Seq(Good)
  BY <1>2, FlattenParts
<1>8. PICK f \in Seq(Good) : f = NodeEvents(g, ctx, i)
  BY <1>6, <1>7
<1> USE DEF Good
<1>9. Good \subseteq Event /\ \A k \in 1..Len(f) : f[k] \in Good
  OBVIOUS
<1>10. \A k \in 1..Len(f) : f[k] \in Event /\ FromNode(g, f[k], i)
  BY <1>9
<1>11. f \in Seq(Event)
  <2> HIDE DEF Good
  <2>1. Len(f) \in Nat /\ f \in [1..Len(f) -> Event]
    BY <1>10
  <2> QED BY <2>1
<1> QED BY <1>8, <1>10, <1>11

LEMMA PlanEventsTyped ==
    ASSUME NEW g, NEW ctx, IsGraph(g), SizesKnown(g, ctx)
    PROVE  /\ PlanEvents(g, ctx) \in Seq(Event) /\ Sorted(PlanEvents(g, ctx))
           /\ \A k \in DOMAIN PlanEvents(g, ctx) : \E i \in DOMAIN g.nodes : FromNode(g, PlanEvents(g, ctx)[k], i)
<1>1. PICK n \in Nat : DOMAIN g.nodes = 1..n
  BY GraphShape
<1>2. PICK parts \in [1..n -> Seq(Event)] : parts = [i \in 1..n |-> NodeEvents(g, ctx, i)]
  <2>1. \A i \in 1..n : NodeEvents(g, ctx, i) \in Seq(Event)
    BY <1>1, NodeEventsTyped
  <2> QED BY <2>1
<1>3. PlanEvents(g, ctx) = FlattenSeq(parts)
  BY <1>1, <1>2 DEF PlanEvents
<1>4. FlattenSeq(parts) \in Seq(Event) /\ \E from : InParts(parts, n, FlattenSeq(parts), from)
  BY FlattenParts
<1>5. PICK f \in Seq(Event) : f = PlanEvents(g, ctx) /\ \E from : InParts(parts, n, f, from)
  BY <1>3, <1>4
<1>6. PICK from : InParts(parts, n, f, from)
  BY <1>5
<1>7. Len(f) \in Nat /\ DOMAIN f = 1..Len(f)
  OBVIOUS
<1>8. \A k \in 1..Len(f) : from[k] \in 1..n /\ FromNode(g, f[k], from[k])
  <2> SUFFICES ASSUME NEW k \in 1..Len(f) PROVE from[k] \in 1..n /\ FromNode(g, f[k], from[k])
    OBVIOUS
  <2>1. from[k] \in 1..n /\ \E l \in 1..Len(parts[from[k]]) : f[k] = parts[from[k]][l]
    BY <1>6 DEF InParts
  <2>2. PICK i \in 1..n : i = from[k]
    BY <2>1
  <2>3. parts[i] = NodeEvents(g, ctx, i)
    BY <1>2
  <2>4. PICK l \in 1..Len(NodeEvents(g, ctx, i)) : f[k] = NodeEvents(g, ctx, i)[l]
    BY <2>1, <2>2, <2>3
  <2>5. FromNode(g, NodeEvents(g, ctx, i)[l], i)
    BY <1>1, NodeEventsTyped
  <2> QED BY <2>1, <2>2, <2>4, <2>5
<1>9. \A k, l \in 1..Len(f) : k <= l => f[k].start <= f[l].start
  BY <1>6, <1>8 DEF InParts, FromNode
<1>10. Sorted(f)
  BY <1>7, <1>9 DEF Sorted
<1> QED BY <1>1, <1>5, <1>7, <1>8, <1>10

------------------------------------------------------------------------------
(* A finished graph and its plan *)

\* What a node reads or produces, and what is read later, is mentioned there.
LEMMA AliveMentioned ==
    ASSUME NEW g, IsGraph(g), NEW i \in DOMAIN g.nodes, NEW v \in Alive(g, i)
    PROVE  /\ \E j \in DOMAIN g.nodes : j <= i /\ Contains(g.nodes[j].outs, v)
           /\ \E j \in Mentions(g, v) : i <= j
<1>1. PICK n \in Nat : n = Len(g.nodes) /\ DOMAIN g.nodes = 1..n
  BY GraphShape
<1>2. PICK S : g.nodes \in Seq(S)
  BY DEF IsGraph
<1>3. PICK before : before = SubSeq(g.nodes, 1, i)
  OBVIOUS
<1>4. DOMAIN before = 1..i /\ \A j \in 1..i : j \in DOMAIN g.nodes /\ before[j] = g.nodes[j]
  BY <1>1, <1>2, <1>3
<1>5. PICK j \in DOMAIN before : v \in ToSet(before[j].outs)
  BY <1>3 DEF Alive, Outs
<1>6. j \in DOMAIN g.nodes /\ j <= i /\ before[j] = g.nodes[j]
  BY <1>1, <1>4, <1>5
<1>7. Contains(g.nodes[j].outs, v)
  <2>1. PICK outs \in Seq(Int \X STRING) : outs = g.nodes[j].outs
    BY <1>6, GraphShape
  <2>2. v \in {outs[k] : k \in DOMAIN outs} /\ DOMAIN outs = 1..Len(outs)
    BY <1>5, <1>6, <2>1 DEF ToSet
  <2> QED BY <2>1, <2>2 DEF Contains
<1>8. \E k \in Mentions(g, v) : i <= k
  <2>1. CASE Contains(g.nodes[i].outs, v)
    <3>1. i \in Mentions(g, v) /\ i <= i
      BY <1>1, <2>1, MentionedWhere
    <3> QED BY <3>1
  <2>2. CASE \E k \in i..Len(g.nodes) : Contains(g.nodes[k].ins, v)
    <3>1. PICK k \in i..n : Contains(g.nodes[k].ins, v)
      BY <1>1, <2>2
    <3>2. k \in DOMAIN g.nodes /\ i <= k
      BY <1>1, <3>1
    <3> QED BY <3>1, <3>2, MentionedWhere
  <2> QED BY <2>1, <2>2 DEF Alive
<1> QED BY <1>6, <1>7, <1>8

\* In a valid graph no value has two producers.
LEMMA ProducedOnce ==
    ASSUME NEW g, IsGraph(g), Valid(g), NEW v, NEW i \in DOMAIN g.nodes, NEW j \in DOMAIN g.nodes,
           Contains(g.nodes[i].outs, v), Contains(g.nodes[j].outs, v)
    PROVE  ~(i < j)
<1> SUFFICES ASSUME i < j PROVE FALSE
  OBVIOUS
<1>1. PICK n \in Nat : n = Len(g.nodes) /\ DOMAIN g.nodes = 1..n
  BY GraphShape
<1>2. PICK S : g.nodes \in Seq(S)
  BY DEF IsGraph
<1>3. PICK before : before = SubSeq(g.nodes, 1, j - 1)
  OBVIOUS
<1>4. i \in DOMAIN before /\ before[i] = g.nodes[i]
  BY <1>1, <1>2, <1>3
<1>5. ASSUME NEW k \in DOMAIN g.nodes, Contains(g.nodes[k].outs, v) PROVE v \in ToSet(g.nodes[k].outs)
  <2>1. PICK outs \in Seq(Int \X STRING) : outs = g.nodes[k].outs
    BY GraphShape
  <2>2. DOMAIN outs = 1..Len(outs) /\ \E l \in 1..Len(outs) : outs[l] = v
    BY <1>5, <2>1 DEF Contains
  <2> QED BY <2>1, <2>2 DEF ToSet
<1>6. v \in Outs(before)
  BY <1>4, <1>5 DEF Outs
<1>7. ToSet(g.nodes[j].outs) \cap Outs(before) = {}
  BY <1>3 DEF Valid
<1> QED BY <1>5, <1>6, <1>7

LEMMA BufferCoversLife ==
    ASSUME NEW g, IsGraph(g), Valid(g), NEW i \in DOMAIN g.nodes, NEW b, NEW s \in DOMAIN g.nodes,
           FromNode(g, b, s), b.value \in Alive(g, i)
    PROVE  b.start \in Nat /\ b.end \in Nat /\ b.start <= i /\ i <= b.end
<1>1. DOMAIN g.nodes \subseteq Nat
  BY GraphShape
<1>2. PICK v : v = b.value
  OBVIOUS
<1>3. PICK j \in DOMAIN g.nodes : j <= i /\ Contains(g.nodes[j].outs, v)
  BY <1>2, AliveMentioned
<1>4. b.start = s /\ s \in Producer(g.nodes, v) /\ b.end = LastUse(g, v)
  BY <1>2 DEF FromNode
<1>5. Contains(g.nodes[s].outs, v)
  BY <1>4, ProducerProduces
<1>6. ~(j < s)
  BY <1>3, <1>5, ProducedOnce
<1>7. PICK k \in Mentions(g, v) : i <= k
  BY <1>2, AliveMentioned
<1>8. LastUse(g, v) \in Nat /\ k <= LastUse(g, v)
  BY <1>7, LastUseIsLast
<1>9. i \in Nat /\ j \in Nat /\ s \in Nat /\ k \in Nat
  BY <1>1, <1>7 DEF Mentions
<1> QED BY <1>3, <1>4, <1>6, <1>7, <1>8, <1>9

\* What one finished graph must keep: PlanHoldsGraph of each.
PlanHolds(g) ==
    \A i \in DOMAIN g.nodes :
        LET plan == g.attrs.memory_plan
            held == {b \in plan.buffers : b.value \in Alive(g, i)}
        IN \A a, b \in held : /\ a.offset + a.size <= plan.arena_bytes
                              /\ a # b => Apart(a, b)

LEMMA PlanForGraph ==
    ASSUME NEW g, IsGraph(g), Valid(g), LiveBuffersApart, NEW h, h.nodes = g.nodes,
           h.attrs.memory_plan.buffers = buffers, h.attrs.memory_plan.arena_bytes = arena,
           \A b \in buffers : \E s \in DOMAIN g.nodes : FromNode(g, b, s)
    PROVE  PlanHolds(h)
<1>0. \A b \in buffers : b.offset + b.size <= arena
  BY DEF LiveBuffersApart
<1> SUFFICES ASSUME NEW i \in DOMAIN g.nodes, NEW a \in buffers, NEW b \in buffers, a # b,
                    a.value \in Alive(g, i), b.value \in Alive(g, i)
             PROVE  Apart(a, b)
  BY <1>0 DEF PlanHolds, Alive
<1>1. a.start \in Nat /\ a.end \in Nat /\ a.start <= i /\ i <= a.end
  BY BufferCoversLife
<1>2. b.start \in Nat /\ b.end \in Nat /\ b.start <= i /\ i <= b.end
  BY BufferCoversLife
<1>3. i \in Nat
  BY GraphShape
<1>4. LiveTogether(a, b)
  BY <1>1, <1>2, <1>3 DEF LiveTogether
<1> QED BY <1>4 DEF LiveBuffersApart

------------------------------------------------------------------------------
(* The memory plan of every finished graph *)

\* The planner's invariant, and that events and buffers are values of the graph being planned.
Tracked == pc = "plan" =>
    /\ \A k \in DOMAIN todo : \E s \in DOMAIN graph.nodes : FromNode(graph, todo[k], s)
    /\ \A b \in buffers : \E s \in DOMAIN graph.nodes : FromNode(graph, b, s)

PlanInv == IInv /\ Tracked /\ PlanHoldsGraph

LEMMA PlanInvInit == Init => PlanInv
<1> SUFFICES ASSUME Init PROVE PlanInv
  OBVIOUS
<1>1. todo = <<>> /\ PlanEmpty /\ pc = "import" /\ graphs = <<>>
  BY DEF Init
<1>2. IInv
  <2>1. todo \in Seq(Event) /\ Sorted(todo)
    <3>1. <<>> \in Seq(Event) /\ DOMAIN <<>> = {}
      OBVIOUS
    <3> QED BY <1>1, <3>1 DEF Sorted
  <2> QED BY <1>1, <2>1 DEF PlanEmpty, IInv, Typed, BlocksApart, Expired, LiveBuffersApart
<1>3. DOMAIN graphs = {}
  BY <1>1
<1> QED BY <1>1, <1>2, <1>3 DEF PlanInv, Tracked, PlanHoldsGraph

LEMMA PlanUnchanged == IInv /\ UNCHANGED planVars => IInv'
BY DEF planVars, IInv, Typed, Region, BlocksApart, Expired, LiveBuffersApart

LEMMA PlanStep ==
    ASSUME IInv, Tracked, PlanValue
    PROVE  IInv' /\ Tracked'
<1>1. IInv'
  BY ReuseKeeps, ExtendKeeps DEF PlanValue, PlanNext
<1>2. pc = "plan" /\ UNCHANGED <<pc, graph>> /\ todo # <<>> /\ todo' = Tail(todo) /\ todo \in Seq(Event)
  BY DEF PlanValue, PlanNext, Reuse, Extend, compileVars, IInv, Typed
<1>3. PICK offset : buffers' = buffers \cup {Placed(Head(todo), offset)}
  BY DEF PlanValue, PlanNext, Reuse, Extend, Place
<1>4. 1 \in DOMAIN todo /\ Head(todo) = todo[1] /\ \A k \in DOMAIN todo' : k + 1 \in DOMAIN todo /\ todo'[k] = todo[k + 1]
  BY <1>2
<1>5. \A k \in DOMAIN todo' : \E s \in DOMAIN graph.nodes : FromNode(graph, todo'[k], s)
  BY <1>2, <1>4 DEF Tracked
<1>6. PICK s \in DOMAIN graph.nodes : FromNode(graph, Head(todo), s)
  BY <1>2, <1>4 DEF Tracked
<1>7. FromNode(graph, Placed(Head(todo), offset), s)
  BY <1>6 DEF FromNode, Placed
<1>8. \A b \in buffers' : \E r \in DOMAIN graph.nodes : FromNode(graph, b, r)
  BY <1>2, <1>3, <1>7 DEF Tracked
<1>9. graph' = graph
  BY <1>2
<1>10. Tracked'
  BY <1>5, <1>8, <1>9 DEF Tracked, FromNode
<1> QED BY <1>1, <1>10

LEMMA PlanStarts ==
    ASSUME TypeOK, StartPlanning
    PROVE  IInv' /\ Tracked'
<1>1. IsGraph(graph) /\ SizesKnown(graph, Context)
  BY DEF StartPlanning, TypeOK, Compiling, SizesKnown
<1>2. PICK g, ctx : g = graph /\ ctx = Context
  OBVIOUS
<1>3. PICK events : events = PlanEvents(g, ctx)
  OBVIOUS
<1>4. /\ events \in Seq(Event) /\ Sorted(events)
      /\ \A k \in DOMAIN events : \E i \in DOMAIN g.nodes : FromNode(g, events[k], i)
  BY <1>1, <1>2, <1>3, PlanEventsTyped
<1>5. todo' = events /\ free' = {} /\ active' = {} /\ buffers' = {} /\ arena' = 0 /\ graph' = g
  BY <1>2, <1>3 DEF StartPlanning
<1>6. IInv'
  BY <1>4, <1>5 DEF IInv, Typed, BlocksApart, Expired, LiveBuffersApart, Sorted
<1>7. Tracked'
  BY <1>4, <1>5 DEF Tracked, FromNode
<1> QED BY <1>6, <1>7

\* FinishMode sets the plan beside what the graph has.
LEMMA PlanFinishes ==
    ASSUME TypeOK, PlanInv, FinishMode
    PROVE  PlanHoldsGraph'
<1>1. IsGraph(graph) /\ pc = "plan"
  BY DEF FinishMode, TypeOK, Compiling
<1>2. PICK plan : plan = [memory_plan |-> [arena_bytes |-> arena, buffers |-> buffers]]
  OBVIOUS
<1>3. PICK planned : planned = [graph EXCEPT !.attrs = Updated(@, plan)]
  OBVIOUS
<1>4. DOMAIN graph = {"mode", "target", "inputs", "outputs", "nodes", "values", "weights", "constants", "attrs"}
  BY <1>1 DEF IsGraph, EmptyGraph
<1>5. planned.nodes = graph.nodes /\ planned.attrs.memory_plan.buffers = buffers
      /\ planned.attrs.memory_plan.arena_bytes = arena
  <2>1. planned.nodes = graph.nodes /\ planned.attrs = Updated(graph.attrs, plan)
    BY <1>3, <1>4
  <2>2. "memory_plan" \in DOMAIN plan /\ plan["memory_plan"].buffers = buffers
       /\ plan["memory_plan"].arena_bytes = arena
    BY <1>2
  <2>3. Updated(graph.attrs, plan)["memory_plan"] = plan["memory_plan"]
    BY <2>2 DEF Updated
  <2> QED BY <2>1, <2>2, <2>3
<1>6. graphs' = graphs \/ (Valid(graph) /\ graphs' = Updated(graphs, [mode \in {Mode} |-> planned]))
  BY <1>2, <1>3 DEF FinishMode
<1>7. \A m \in DOMAIN graphs : PlanHolds(graphs[m])
  BY DEF PlanInv, PlanHoldsGraph, PlanHolds
<1>8. CASE graphs' = graphs
  <2>1. \A m \in DOMAIN graphs' : PlanHolds(graphs'[m])
    BY <1>7, <1>8
  <2> QED BY <2>1 DEF PlanHoldsGraph, PlanHolds, Alive, Outs
<1>9. CASE Valid(graph) /\ graphs' = Updated(graphs, [mode \in {Mode} |-> planned])
  <2>1. PlanHolds(planned)
    BY <1>1, <1>5, <1>9, PlanForGraph DEF PlanInv, IInv, Tracked
  <2>2. \A m \in DOMAIN graphs' : graphs'[m] = planned \/ (m \in DOMAIN graphs /\ graphs'[m] = graphs[m])
    BY <1>9 DEF Updated
  <2>3. \A m \in DOMAIN graphs' : PlanHolds(graphs'[m])
    BY <1>7, <2>1, <2>2
  <2> QED BY <2>3 DEF PlanHoldsGraph, PlanHolds, Alive, Outs
<1> QED BY <1>6, <1>8, <1>9

LEMMA PlanInvNext == TypeOK /\ PlanInv /\ [Next]_vars => PlanInv'
<1> SUFFICES ASSUME TypeOK, PlanInv, [Next]_vars PROVE PlanInv'
  OBVIOUS
<1>1. IInv /\ Tracked /\ PlanHoldsGraph
  BY DEF PlanInv
<1>2. ASSUME graphs' = graphs PROVE PlanHoldsGraph'
  <2>1. \A m \in DOMAIN graphs : PlanHolds(graphs[m])
    BY <1>1 DEF PlanHoldsGraph, PlanHolds
  <2>2. \A m \in DOMAIN graphs' : PlanHolds(graphs'[m])
    BY <1>2, <2>1
  <2> QED BY <2>2 DEF PlanHoldsGraph, PlanHolds, Alive, Outs
<1>3. CASE StartPlanning
  BY <1>2, <1>3, PlanStarts DEF PlanInv, StartPlanning
<1>4. CASE PlanValue
  BY <1>1, <1>2, <1>4, PlanStep DEF PlanInv, PlanValue, compileVars
<1>5. CASE FinishMode
  <2>1. IInv'
    BY <1>1, <1>5, PlanUnchanged DEF FinishMode
  <2>2. Tracked'
    BY <1>5 DEF FinishMode, Tracked
  <2> QED BY <1>5, <2>1, <2>2, PlanFinishes DEF PlanInv
<1>6. CASE Import \/ CloneForMode \/ RunPass \/ SaveBundle
  <2>1. IInv' /\ graphs' = graphs /\ pc' # "plan"
    BY <1>1, <1>6, PlanUnchanged DEF Import, CloneForMode, RunPass, SaveBundle
  <2> QED BY <1>2, <2>1 DEF PlanInv, Tracked
<1>7. CASE UNCHANGED vars
  <2>1. IInv' /\ graphs' = graphs
    BY <1>1, <1>7, PlanUnchanged DEF vars, compileVars
  <2>2. Tracked'
    BY <1>1, <1>7 DEF vars, compileVars, planVars, Tracked, FromNode
  <2> QED BY <1>2, <2>1, <2>2 DEF PlanInv
<1> QED BY <1>3, <1>4, <1>5, <1>6, <1>7 DEF Next

\* MemoryPlanning and Graph.validate: while a node of a finished graph runs, whatever is still
\* to be read, and what it produces, lies in bytes of its own, as long as the passes keep to
\* the types of Graph.
THEOREM PlanHoldsGraphHolds == Spec /\ []TypeOK => [](PlanHoldsGraph /\ LiveBuffersApart)
<1>1. Init => PlanInv
  BY PlanInvInit
<1>2. TypeOK /\ PlanInv /\ [Next]_vars => PlanInv'
  BY PlanInvNext
<1>3. PlanInv => PlanHoldsGraph /\ LiveBuffersApart
  BY DEF PlanInv, IInv
<1> QED BY <1>1, <1>2, <1>3, PTL DEF Spec

------------------------------------------------------------------------------
(* The schedule of every finished graph *)

Kernelled(g) == \A i \in DOMAIN g.nodes : /\ "kernel" \in DOMAIN g.nodes[i].attrs
                                          /\ g.nodes[i].attrs["kernel"] = <<BackEnd, g.nodes[i].op>>

\* What one finished graph must keep: ScheduleExact of each.
Follows(g) ==
    LET schedule == g.attrs.execution_schedule
    IN /\ Len(schedule) = Len(g.nodes)
       /\ \A i \in DOMAIN g.nodes : /\ <<schedule[i].op, schedule[i].ins, schedule[i].outs>>
                                       = <<g.nodes[i].op, g.nodes[i].ins, g.nodes[i].outs>>
                                    /\ schedule[i].kernel = <<BackEnd, g.nodes[i].op>>

Scheduled(g) == "execution_schedule" \in DOMAIN g.attrs /\ Follows(g)

\* Kernels are there when the schedule is made, and the schedule from then on.
ScheduleInv ==
    /\ ScheduleExact
    /\ pc = "pass" => step \in 1..14
    /\ pc = "pass" /\ step = 13 => Kernelled(graph)
    /\ (pc = "pass" /\ step = 14) \/ pc = "plan" => Scheduled(graph)

LEMMA GraphFields ==
    ASSUME NEW g, IsGraph(g)
    PROVE  /\ DOMAIN g = {"mode", "target", "inputs", "outputs", "nodes", "values", "weights", "constants", "attrs"}
           /\ \A i \in DOMAIN g.nodes : DOMAIN g.nodes[i] = {"op", "ins", "outs", "attrs", "name"}
BY DEF IsGraph, EmptyGraph, IsNode

\* The node keeps what it is, and gets attributes.
LEMMA WithKeeps ==
    ASSUME NEW node, DOMAIN node = {"op", "ins", "outs", "attrs", "name"}, NEW attrs
    PROVE  LET with == With(node, attrs)
           IN /\ with.op = node.op /\ with.ins = node.ins /\ with.outs = node.outs
              /\ DOMAIN with.attrs = DOMAIN node.attrs \cup DOMAIN attrs
              /\ \A key \in DOMAIN attrs : with.attrs[key] = attrs[key]
BY DEF With, Updated

LEMMA SelectionKernels ==
    ASSUME NEW g, IsGraph(g), NEW ctx, ctx.target = options.target
    PROVE  Kernelled(KernelSelection(g, ctx))
<1> DEFINE select(node) == With(node, [kernel |-> <<BackEnd, node.op>>])
<1>1. "nodes" \in DOMAIN g
  BY GraphFields
<1>2. KernelSelection(g, ctx).nodes = [i \in DOMAIN g.nodes |-> select(g.nodes[i])]
  BY <1>1 DEF KernelSelection, Map, BackEnd
<1>3. ASSUME NEW i \in DOMAIN g.nodes
      PROVE  /\ select(g.nodes[i]).op = g.nodes[i].op /\ "kernel" \in DOMAIN select(g.nodes[i]).attrs
             /\ select(g.nodes[i]).attrs["kernel"] = <<BackEnd, g.nodes[i].op>>
  <2>1. PICK node : node = g.nodes[i] /\ DOMAIN node = {"op", "ins", "outs", "attrs", "name"}
    BY GraphFields
  <2>2. PICK attrs : attrs = [kernel |-> <<BackEnd, node.op>>]
    OBVIOUS
  <2>3. "kernel" \in DOMAIN attrs /\ attrs["kernel"] = <<BackEnd, node.op>>
    BY <2>2
  <2>4. PICK with : with = With(node, attrs)
    OBVIOUS
  <2>5. with.op = node.op /\ "kernel" \in DOMAIN with.attrs /\ with.attrs["kernel"] = attrs["kernel"]
    BY <2>1, <2>3, <2>4, WithKeeps
  <2> QED BY <2>1, <2>2, <2>3, <2>4, <2>5
<1> HIDE DEF select
<1> QED BY <1>2, <1>3 DEF Kernelled

LEMMA PlanningSchedules ==
    ASSUME NEW g, IsGraph(g), Kernelled(g), NEW ctx
    PROVE  Scheduled(ExecutionPlanning(g, ctx))
<1> DEFINE entry(i) == [step |-> i, op |-> g.nodes[i].op, kernel |-> Attr(g.nodes[i], "kernel", <<"none", "unassigned">>),
                        ins |-> g.nodes[i].ins, outs |-> g.nodes[i].outs,
                        bytes |-> EstimatedBytes(g, g.nodes[i], ctx), flops |-> EstimatedFlops(g, g.nodes[i], ctx)]
           indexed(i) == With(g.nodes[i], [schedule_index |-> i])
<1>1. PICK n \in Nat : n = Len(g.nodes) /\ DOMAIN g.nodes = 1..n
  BY GraphShape
<1>2. "nodes" \in DOMAIN g /\ "attrs" \in DOMAIN g
  BY GraphFields
<1>3. PICK h : h = ExecutionPlanning(g, ctx)
  OBVIOUS
<1>4. PICK schedule : schedule = [i \in 1..n |-> entry(i)]
  OBVIOUS
<1>5. PICK nodes : nodes = [i \in 1..n |-> indexed(i)]
  OBVIOUS
<1>6. h.nodes = nodes /\ h.attrs = Updated(g.attrs, [execution_schedule |-> schedule])
  BY <1>1, <1>2, <1>3, <1>4, <1>5 DEF ExecutionPlanning
<1>7. "execution_schedule" \in DOMAIN h.attrs /\ h.attrs.execution_schedule = schedule
  BY <1>6 DEF Updated
<1>8. Len(schedule) = n /\ Len(nodes) = n /\ DOMAIN nodes = 1..n
  <2> HIDE DEF entry, indexed
  <2>1. schedule \in [1..n -> {entry(i) : i \in 1..n}] /\ nodes \in [1..n -> {indexed(i) : i \in 1..n}]
    BY <1>4, <1>5
  <2> QED BY <2>1
<1>9. ASSUME NEW i \in 1..n
      PROVE  /\ <<schedule[i].op, schedule[i].ins, schedule[i].outs>> = <<nodes[i].op, nodes[i].ins, nodes[i].outs>>
             /\ schedule[i].kernel = <<BackEnd, nodes[i].op>>
  <2>1. PICK node : node = g.nodes[i] /\ DOMAIN node = {"op", "ins", "outs", "attrs", "name"}
    BY <1>1, GraphFields
  <2>2. PICK attrs : attrs = [schedule_index |-> i]
    OBVIOUS
  <2>3. With(node, attrs).op = node.op /\ With(node, attrs).ins = node.ins /\ With(node, attrs).outs = node.outs
    BY <2>1, WithKeeps
  <2>4. nodes[i] = With(node, attrs)
    BY <1>5, <2>1, <2>2
  <2>5. Attr(node, "kernel", <<"none", "unassigned">>) = <<BackEnd, node.op>>
    BY <1>1, <2>1 DEF Kernelled, Attr, Get
  <2>6. /\ schedule[i].op = node.op /\ schedule[i].ins = node.ins /\ schedule[i].outs = node.outs
        /\ schedule[i].kernel = <<BackEnd, node.op>>
    BY <1>4, <2>1, <2>5
  <2> QED BY <2>3, <2>4, <2>6
<1> HIDE DEF entry, indexed
<1> QED BY <1>1, <1>3, <1>6, <1>7, <1>8, <1>9 DEF Scheduled, Follows

LEMMA PassKeepsSchedule ==
    ASSUME TypeOK, ScheduleInv, RunPass
    PROVE  ScheduleInv'
<1>1. /\ pc = "pass" /\ step \in 1..13 /\ step' = step + 1 /\ UNCHANGED <<graphs, options>> /\ IsGraph(graph)
  <2>1. Len(Pipeline) = 14
    BY DEF Pipeline
  <2> QED BY <2>1 DEF RunPass, ScheduleInv, TypeOK, Compiling
<1>2. pc' \in {"pass", "failed"}
  BY DEF RunPass
<1>3. ASSUME step = 12, pc' = "pass" PROVE Kernelled(graph')
  <2>1. Pipeline[step] = "kernel_selection"
    BY <1>3 DEF Pipeline
  <2>2. graph' = KernelSelection(graph, Context)
    BY <1>3, <2>1 DEF RunPass, Apply
  <2>3. Context.target = options.target
    BY DEF Context
  <2> QED BY <1>1, <2>2, <2>3, SelectionKernels
<1>4. ASSUME step = 13, pc' = "pass" PROVE Scheduled(graph')
  <2>1. Pipeline[step] = "execution_planning"
    BY <1>4 DEF Pipeline
  <2>2. graph' = ExecutionPlanning(graph, Context)
    BY <1>4, <2>1 DEF RunPass, Apply
  <2> QED BY <1>1, <1>4, <2>2, PlanningSchedules DEF ScheduleInv
<1>5. BackEnd' = BackEnd
  BY <1>1 DEF BackEnd
<1>6. ScheduleExact'
  BY <1>1, <1>5 DEF ScheduleInv, ScheduleExact
<1>7. pc' = "pass" => /\ step' \in 1..14
                      /\ step' = 13 => Kernelled(graph')
                      /\ step' = 14 => Scheduled(graph')
  BY <1>1, <1>3, <1>4
<1> QED BY <1>2, <1>5, <1>6, <1>7 DEF ScheduleInv, Kernelled, Scheduled, Follows

LEMMA FinishKeepsSchedule ==
    ASSUME TypeOK, ScheduleInv, FinishMode
    PROVE  ScheduleInv'
<1>1. IsGraph(graph) /\ Scheduled(graph) /\ UNCHANGED options
  BY DEF FinishMode, TypeOK, Compiling, ScheduleInv
<1>2. PICK plan : plan = [memory_plan |-> [arena_bytes |-> arena, buffers |-> buffers]]
  OBVIOUS
<1>3. PICK planned : planned = [graph EXCEPT !.attrs = Updated(@, plan)]
  OBVIOUS
<1>4. planned.nodes = graph.nodes /\ planned.attrs = Updated(graph.attrs, plan)
  BY <1>1, <1>3, GraphFields
<1>5. graphs' = graphs \/ graphs' = Updated(graphs, [mode \in {Mode} |-> planned])
  BY <1>2, <1>3 DEF FinishMode
<1>6. \A m \in DOMAIN graphs' : graphs'[m] = planned \/ (m \in DOMAIN graphs /\ graphs'[m] = graphs[m])
  BY <1>5 DEF Updated
<1>7. pc' \notin {"pass", "plan"}
  BY DEF FinishMode
<1>8. Follows(planned)
  <2>1. DOMAIN plan = {"memory_plan"}
    BY <1>2
  <2>2. planned.attrs["execution_schedule"] = graph.attrs["execution_schedule"]
    BY <1>1, <1>4, <2>1 DEF Scheduled, Updated
  <2> QED BY <1>1, <1>4, <2>2 DEF Scheduled, Follows
<1>9. \A m \in DOMAIN graphs : Follows(graphs[m])
  BY DEF ScheduleInv, ScheduleExact, Follows
<1>10. \A m \in DOMAIN graphs' : Follows(graphs'[m])
  BY <1>6, <1>8, <1>9
<1>11. BackEnd' = BackEnd
  BY <1>1 DEF BackEnd
<1>12. ScheduleExact'
  BY <1>10, <1>11 DEF ScheduleExact, Follows
<1> QED BY <1>7, <1>12 DEF ScheduleInv

LEMMA ScheduleInvNext == TypeOK /\ ScheduleInv /\ [Next]_vars => ScheduleInv'
<1> SUFFICES ASSUME TypeOK, ScheduleInv, [Next]_vars PROVE ScheduleInv'
  OBVIOUS
<1>1. ASSUME UNCHANGED <<graphs, options>> PROVE ScheduleExact'
  BY <1>1 DEF ScheduleInv, ScheduleExact, BackEnd
<1>2. CASE RunPass
  BY <1>2, PassKeepsSchedule
<1>3. CASE FinishMode
  BY <1>3, FinishKeepsSchedule
<1>4. CASE Import \/ SaveBundle
  BY <1>1, <1>4 DEF Import, SaveBundle, ScheduleInv
<1>5. CASE CloneForMode
  BY <1>1, <1>5 DEF CloneForMode, ScheduleInv
<1>6. CASE StartPlanning
  <2>1. UNCHANGED <<graph, graphs, options>> /\ Scheduled(graph) /\ pc' = "plan"
    <3>1. Len(Pipeline) = 14
      BY DEF Pipeline
    <3> QED BY <1>6, <3>1 DEF StartPlanning, ScheduleInv
  <2> QED BY <1>1, <2>1 DEF ScheduleInv, Scheduled, Follows, BackEnd
<1>7. CASE PlanValue \/ UNCHANGED vars
  <2>1. UNCHANGED <<graph, graphs, options, pc, step>>
    BY <1>7 DEF PlanValue, compileVars, vars
  <2> QED BY <1>1, <2>1 DEF ScheduleInv, Kernelled, Scheduled, Follows, BackEnd
<1> QED BY <1>2, <1>3, <1>4, <1>5, <1>6, <1>7 DEF Next

\* KernelSelection and ExecutionPlanning: the schedule of every finished graph is its nodes in
\* order, each with the kernel of its operation, as long as the passes keep to the types of Graph.
THEOREM ScheduleExactHolds == Spec /\ []TypeOK => []ScheduleExact
<1>1. Init => ScheduleInv
  BY DEF Init, ScheduleInv, ScheduleExact
<1>2. TypeOK /\ ScheduleInv /\ [Next]_vars => ScheduleInv'
  BY ScheduleInvNext
<1>3. ScheduleInv => ScheduleExact
  BY DEF ScheduleInv
<1> QED BY <1>1, <1>2, <1>3, PTL DEF Spec

------------------------------------------------------------------------------
(* Weights *)

LEMMA TotalOrder == \A x, y \in Int : x <= x /\ (x <= y \/ y <= x)
  OBVIOUS

LEMMA Transitive == \A x, y, z \in Int : x <= y /\ y <= z => x <= z
  OBVIOUS

LEMMA WiderSequence ==
    ASSUME NEW S, NEW T, S \subseteq T, NEW q \in Seq(S)
    PROVE  q \in Seq(T)
<1>1. Len(q) \in Nat /\ q \in [1..Len(q) -> S]
  OBVIOUS
<1>2. q \in [1..Len(q) -> T]
  BY <1>1
<1> QED BY <1>1, <1>2

\* A finite row has a least and a greatest value: the first n of it have, for every n.
LEMMA RowBounds ==
    ASSUME NEW row \in Seq(Int), row # <<>>
    PROVE  /\ Lowest(row) \in Int /\ Spread(row) \in Nat
           /\ \A i \in DOMAIN row : row[i] \in Int /\ Lowest(row) <= row[i] /\ row[i] <= Lowest(row) + Spread(row)
<1> DEFINE Bounded(n) == \E i, j \in 1..n : \A k \in 1..n : row[i] <= row[k] /\ row[k] <= row[j]
           Unbounded == {n \in Nat : n \in 1..Len(row) /\ ~Bounded(n)}
<1>1. /\ Len(row) \in Nat /\ Len(row) >= 1 /\ DOMAIN row = 1..Len(row)
      /\ \A i \in 1..Len(row) : row[i] \in Int
  OBVIOUS
<1>2. Unbounded = {}
  <2> SUFFICES ASSUME Unbounded # {} PROVE FALSE
    OBVIOUS
  <2>1. PICK n \in Unbounded : \A m \in Unbounded : n <= m
    BY LeastNatural
  <2>2. n \in 1..Len(row) /\ ~Bounded(n) /\ n \in Nat
    OBVIOUS
  <2>3. n # 1
    <3>1. ASSUME n = 1 PROVE Bounded(n)
      <4>1. \A k \in 1..n : k = 1
        BY <3>1
      <4>2. 1 \in 1..n /\ row[1] <= row[1]
        BY <1>1, <2>2, <3>1
      <4> QED BY <4>1, <4>2
    <3> QED BY <2>2, <3>1
  <2>4. n - 1 \in Nat /\ n - 1 \in 1..Len(row) /\ ~(n <= n - 1)
    BY <1>1, <2>2, <2>3
  <2>5. Bounded(n - 1)
    BY <2>1, <2>4
  <2>6. PICK i, j \in 1..(n - 1) : \A k \in 1..(n - 1) : row[i] <= row[k] /\ row[k] <= row[j]
    BY <2>5
  <2> HIDE DEF Unbounded
  <2>7. i \in 1..Len(row) /\ j \in 1..Len(row) /\ i \in 1..n /\ j \in 1..n /\ n \in 1..n
    BY <1>1, <2>2, <2>6
  <2>8. row[i] \in Int /\ row[j] \in Int /\ row[n] \in Int
    BY <1>1, <2>2, <2>7
  <2>9. PICK a \in 1..n : row[a] \in Int /\ row[a] <= row[i] /\ row[a] <= row[n]
    BY <2>7, <2>8, TotalOrder
  <2>10. PICK b \in 1..n : row[b] \in Int /\ row[j] <= row[b] /\ row[n] <= row[b]
    BY <2>7, <2>8, TotalOrder
  <2>11. ASSUME NEW k \in 1..n PROVE row[a] <= row[k] /\ row[k] <= row[b]
    <3>1. CASE k = n
      BY <2>9, <2>10, <3>1
    <3>2. CASE k # n
      <4>1. k \in 1..(n - 1) /\ k \in 1..Len(row)
        BY <1>1, <2>2, <3>2
      <4>2. row[i] <= row[k] /\ row[k] <= row[j] /\ row[k] \in Int
        BY <1>1, <2>6, <4>1
      <4> QED BY <2>8, <2>9, <2>10, <4>2, Transitive
    <3> QED BY <3>1, <3>2
  <2>12. Bounded(n)
    BY <2>11
  <2> QED BY <2>2, <2>12
<1>3. Len(row) \in 1..Len(row)
  BY <1>1
<1>4. PICK low, high \in 1..Len(row) : \A k \in 1..Len(row) : row[low] <= row[k] /\ row[k] <= row[high]
  BY <1>1, <1>2, <1>3
<1>5. ToSet(row) = {row[k] : k \in 1..Len(row)}
  BY <1>1 DEF ToSet
<1>6. Min(ToSet(row)) = row[low]
  <2>1. row[low] \in ToSet(row) /\ \A y \in ToSet(row) : row[low] <= y
    BY <1>4, <1>5
  <2>2. ASSUME NEW x \in ToSet(row), \A y \in ToSet(row) : x <= y PROVE x = row[low]
    <3>1. x \in Int /\ row[low] \in Int
      BY <1>1, <1>4, <1>5
    <3>2. x <= row[low] /\ row[low] <= x
      BY <2>1, <2>2
    <3> QED BY <3>1, <3>2
  <2> QED BY <2>1, <2>2 DEF Min
<1>7. Max(ToSet(row)) = row[high]
  <2>1. row[high] \in ToSet(row) /\ \A y \in ToSet(row) : row[high] >= y
    <3>1. \A k \in 1..Len(row) : row[high] >= row[k]
      BY <1>1, <1>4
    <3> QED BY <1>5, <3>1
  <2>2. ASSUME NEW x \in ToSet(row), \A y \in ToSet(row) : x >= y PROVE x = row[high]
    <3>1. x \in Int /\ row[high] \in Int
      BY <1>1, <1>4, <1>5
    <3>2. x >= row[high] /\ row[high] >= x
      BY <2>1, <2>2
    <3> QED BY <3>1, <3>2
  <2> QED BY <2>1, <2>2 DEF Max
<1>8. row[low] \in Int /\ row[high] \in Int /\ row[low] <= row[high]
  BY <1>1, <1>4
<1>9. Lowest(row) = row[low] /\ Spread(row) = row[high] - row[low]
  BY <1>6, <1>7 DEF Lowest, Spread
<1>10. Lowest(row) \in Int /\ Spread(row) \in Nat /\ Lowest(row) + Spread(row) = row[high]
  BY <1>8, <1>9
<1>11. ASSUME NEW i \in DOMAIN row
       PROVE  row[i] \in Int /\ Lowest(row) <= row[i] /\ row[i] <= Lowest(row) + Spread(row)
  BY <1>1, <1>4, <1>9, <1>10
<1> QED BY <1>10, <1>11

LEMMA SchemeLargest ==
    ASSUME NEW bits \in {4, 8}
    PROVE  Largest(bits) = IF bits = 4 THEN 15 ELSE 255
<1>1. 2^4 - 1 = 15
  OBVIOUS
<1>2. 2^8 - 1 = 255
  OBVIOUS
<1> QED BY <1>1, <1>2 DEF Largest

\* Rounding moves a fraction by at most a half.
LEMMA RoundedNear ==
    ASSUME NEW n \in Int, NEW d \in Nat \ {0}
    PROVE  /\ Rounded(n, d) \in Int
           /\ Rounded(n, d) * d \in Int
           /\ 2 * (Rounded(n, d) * d) - 2 * n <= d
           /\ 2 * n - 2 * (Rounded(n, d) * d) <= d
<1>1. PICK q \in Int, r \in 0..(d - 1) : q = n \div d /\ r = n % d /\ n = q * d + r
  OBVIOUS
<1>2. q * d \in Int /\ (q + 1) * d = q * d + d
  OBVIOUS
<1>3. Rounded(n, d) = IF 2 * r < d \/ (2 * r = d /\ q % 2 = 0) THEN q ELSE q + 1
  BY <1>1 DEF Rounded
<1>4. PICK p \in Int : p = q * d
  BY <1>2
<1>5. n = p + r /\ (q + 1) * d = p + d
  BY <1>1, <1>2, <1>4
<1>6. CASE Rounded(n, d) = q /\ 2 * r <= d
  BY <1>4, <1>5, <1>6
<1>7. CASE Rounded(n, d) = q + 1 /\ d <= 2 * r
  <2>1. Rounded(n, d) * d = p + d
    BY <1>5, <1>7
  <2> QED BY <1>5, <1>7, <2>1
<1> QED BY <1>3, <1>6, <1>7

\* The scale of a row is positive, and its largest integer reaches across the row.
LEMMA ScaleReaches ==
    ASSUME NEW row \in Seq(Int), row # <<>>, NEW bits \in {4, 8}
    PROVE  /\ Scale(row, bits).num \in Nat \ {0} /\ Scale(row, bits).den \in Nat \ {0}
           /\ Spread(row) * Scale(row, bits).den <= Largest(bits) * Scale(row, bits).num
<1>1. PICK s \in Nat : s = Spread(row)
  BY RowBounds
<1>2. PICK l \in {15, 255} : l = Largest(bits)
  BY SchemeLargest
<1>3. PICK e \in Nat \ {0} : e = EpsInverse
  BY QuantizationAssumption
<1>4. Scale(row, bits) = IF s * e >= l THEN [num |-> s, den |-> l] ELSE [num |-> 1, den |-> e]
  BY <1>1, <1>2, <1>3 DEF Scale
<1>5. CASE s * e >= l
  <2>1. s # 0
    BY <1>5
  <2>2. Scale(row, bits).num = s /\ Scale(row, bits).den = l
    BY <1>4, <1>5
  <2>3. s * l <= l * s
    OBVIOUS
  <2> QED BY <1>1, <1>2, <2>1, <2>2, <2>3
<1>6. CASE ~(s * e >= l)
  <2>1. Scale(row, bits).num = 1 /\ Scale(row, bits).den = e
    BY <1>4, <1>6
  <2>2. s * e \in Nat /\ s * e <= l * 1
    BY <1>6
  <2> QED BY <1>1, <1>2, <1>3, <2>1, <2>2
<1> QED BY <1>5, <1>6

------------------------------------------------------------------------------
(* A row, packed and unpacked *)

QuantizedSeq(q, bits) == q \in Seq(0..(IF bits = 4 THEN 15 ELSE 255))

\* What clipping does to a value near the range it is clipped to.
LEMMA ClipRange ==
    ASSUME NEW x \in Int, NEW high \in Nat
    PROVE  Clip(x, 0, high) \in 0..high
BY DEF Clip

\* A value of the row before it is clipped: m stands for the integer it is rounded
\* to, z for the zero point; v and low are the value and the least one of the row in
\* steps, reach is the length of the row.
LEMMA ClippedNear ==
    ASSUME NEW N \in Nat \ {0}, NEW L \in Nat, NEW m \in Int, NEW A \in Int, NEW mN \in Int, NEW LN \in Int,
           mN = m * N, LN = L * N,
           2 * mN - 2 * A <= N, 2 * A - 2 * mN <= N,
           -N <= 2 * A, 2 * A <= 2 * LN + N
    PROVE  /\ 2 * (Clip(m, 0, L) * N) - 2 * A <= N
           /\ 2 * A - 2 * (Clip(m, 0, L) * N) <= N
<1>1. CASE m < 0
  <2>1. Clip(m, 0, L) = 0
    BY <1>1 DEF Clip
  <2>2. m * N <= -N
    <3>1. PICK k \in Nat : m = -1 - k
      <4>1. -1 - m \in Nat /\ m = -1 - (-1 - m)
        BY <1>1
      <4> QED BY <4>1
    <3>2. m * N = -N - k * N
      BY <3>1
    <3>3. k * N \in Nat
      OBVIOUS
    <3> QED BY <3>2, <3>3
  <2>3. 0 * N = 0
    OBVIOUS
  <2> QED BY <2>1, <2>2, <2>3
<1>2. CASE m > L
  <2>1. Clip(m, 0, L) = L
    BY <1>2 DEF Clip
  <2>2. m * N >= L * N + N
    <3>1. PICK k \in Nat : m = L + 1 + k
      <4>1. m - L - 1 \in Nat /\ m = L + 1 + (m - L - 1)
        BY <1>2
      <4> QED BY <4>1
    <3>2. m * N = L * N + N + k * N
      BY <3>1
    <3>3. k * N \in Nat /\ L * N \in Nat
      OBVIOUS
    <3> QED BY <3>2, <3>3
  <2> QED BY <2>1, <2>2
<1>3. CASE m >= 0 /\ m <= L
  <2>1. Clip(m, 0, L) = m
    BY <1>3 DEF Clip
  <2> QED BY <2>1
<1> QED BY <1>1, <1>2, <1>3

\* The integers of a row, whatever its zero point: a row of bytes, or of half bytes.
LEMMA QuantizedTyped ==
    ASSUME NEW row \in Seq(Int), row # <<>>, NEW bits \in {4, 8}
    PROVE  /\ Zero(row, bits) \in Int
           /\ QuantizedSeq(Quantized(row, bits), bits) /\ Len(Quantized(row, bits)) = Len(row)
<1>1. PICK N, D \in Nat \ {0} : N = Scale(row, bits).num /\ D = Scale(row, bits).den
  BY ScaleReaches
<1>2. Zero(row, bits) \in Int
  <2>1. PICK low \in Int : low = Lowest(row)
    BY RowBounds
  <2>2. PICK n \in Int : n = -low * D
    OBVIOUS
  <2>3. ExactZero(row, bits) = Rounded(n, N)
    BY <1>1, <2>1, <2>2 DEF ExactZero
  <2>4. Rounded(n, N) \in Int
    BY RoundedNear
  <2> QED BY <2>3, <2>4, QuantizationAssumption DEF Zero, ToInt32
<1>3. PICK z \in Int : z = Zero(row, bits)
  BY <1>2
<1>4. PICK L \in {15, 255} : L = Largest(bits) /\ L = IF bits = 4 THEN 15 ELSE 255
  BY SchemeLargest
<1>5. Quantized(row, bits) = [i \in DOMAIN row |-> Clip(Rounded(row[i] * D + z * N, N), 0, L)]
  BY <1>1, <1>3, <1>4 DEF Quantized
<1>6. ASSUME NEW i \in 1..Len(row) PROVE Clip(Rounded(row[i] * D + z * N, N), 0, L) \in 0..L
  <2>1. PICK n \in Int : n = row[i] * D + z * N
    OBVIOUS
  <2>2. PICK m \in Int : m = Rounded(n, N)
    BY RoundedNear
  <2>3. L \in Nat
    OBVIOUS
  <2>4. Clip(m, 0, L) \in 0..L
    BY <2>3 DEF Clip
  <2> QED BY <2>1, <2>2, <2>4
<1>7. Quantized(row, bits) \in [1..Len(row) -> 0..L]
  BY <1>5, <1>6
<1> QED BY <1>2, <1>4, <1>7 DEF QuantizedSeq

\* Every value comes back within half a step of its scale, unless the zero point overflows.
LEMMA HalfStep ==
    ASSUME NEW row \in Seq(Int), row # <<>>, NEW bits \in {4, 8}, NEW i \in DOMAIN row,
           ExactZero(row, bits) \in (-ZeroLimit)..(ZeroLimit - 1)
    PROVE  LET off == (Quantized(row, bits)[i] - Zero(row, bits)) * Scale(row, bits).num - row[i] * Scale(row, bits).den
           IN off \in Int /\ 2 * off <= Scale(row, bits).num /\ -(2 * off) <= Scale(row, bits).num
<1>1. PICK N, D \in Nat \ {0} : N = Scale(row, bits).num /\ D = Scale(row, bits).den
  BY ScaleReaches
<1>2. PICK low \in Int, s \in Nat : low = Lowest(row) /\ s = Spread(row)
  BY RowBounds
<1>3. PICK x \in Int : x = row[i] /\ low <= x /\ x <= low + s
  BY <1>2, RowBounds
<1>4. PICK L \in Nat : L = Largest(bits)
  BY SchemeLargest
<1>5. PICK z \in Int : z = Rounded(-low * D, N) /\ z = Zero(row, bits)
  <2>1. -low * D \in Int
    OBVIOUS
  <2>2. Rounded(-low * D, N) \in Int
    BY <2>1, RoundedNear
  <2>3. Zero(row, bits) = ExactZero(row, bits)
    BY DEF Zero, ToInt32
  <2> QED BY <1>1, <1>2, <2>2, <2>3 DEF ExactZero
<1>6. PICK lowD, xD, zN, sD, LN \in Int : lowD = low * D /\ xD = x * D /\ zN = z * N /\ sD = s * D /\ LN = L * N
  OBVIOUS
<1>7. lowD <= xD /\ xD <= lowD + sD
  <2>1. PICK a, b \in Nat : x = low + a /\ low + s = x + b
    <3>1. x - low \in Nat /\ low + s - x \in Nat /\ x = low + (x - low) /\ low + s = x + (low + s - x)
      BY <1>3
    <3> QED BY <3>1
  <2>2. x * D = low * D + a * D /\ low * D + s * D = x * D + b * D
    <3>1. (low + a) * D = low * D + a * D /\ (low + s) * D = low * D + s * D /\ (x + b) * D = x * D + b * D
      OBVIOUS
    <3> QED BY <2>1, <3>1
  <2>3. a * D \in Nat /\ b * D \in Nat
    OBVIOUS
  <2>4. PICK aD, bD \in Nat : aD = a * D /\ bD = b * D
    BY <2>3
  <2>5. xD = lowD + aD /\ lowD + sD = xD + bD
    BY <1>6, <2>2, <2>4
  <2> QED BY <2>5
<1>8. sD <= LN
  BY <1>1, <1>2, <1>4, <1>6, ScaleReaches
<1>9. 2 * zN + 2 * lowD <= N /\ -(2 * zN) - 2 * lowD <= N
  <2>1. -low * D = -lowD
    BY <1>6
  <2>2. z = Rounded(-lowD, N) /\ -lowD \in Int
    BY <1>5, <2>1
  <2>3. 2 * (z * N) - 2 * (-lowD) <= N /\ 2 * (-lowD) - 2 * (z * N) <= N
    BY <2>2, RoundedNear
  <2> QED BY <1>6, <2>3
<1>10. PICK A \in Int : A = xD + zN
  OBVIOUS
<1>11. -N <= 2 * A /\ 2 * A <= 2 * LN + N
  BY <1>7, <1>8, <1>9, <1>10
<1>12. PICK m \in Int : m = Rounded(A, N)
  BY RoundedNear
<1>13. PICK mN \in Int : mN = m * N
  OBVIOUS
<1>14. 2 * mN - 2 * A <= N /\ 2 * A - 2 * mN <= N
  BY <1>12, <1>13, RoundedNear
<1>15. PICK q \in Int : q = Clip(m, 0, L)
  BY DEF Clip
<1>16. 2 * (q * N) - 2 * A <= N /\ 2 * A - 2 * (q * N) <= N
  BY <1>6, <1>11, <1>13, <1>14, <1>15, ClippedNear
<1>17. PICK qN \in Int : qN = q * N
  OBVIOUS
<1>18. Quantized(row, bits)[i] = q
  <2>1. Quantized(row, bits)[i] = Clip(Rounded(x * D + z * N, N), 0, L)
    BY <1>1, <1>3, <1>4, <1>5 DEF Quantized
  <2> QED BY <1>6, <1>10, <1>12, <1>15, <2>1
<1>19. (q - z) * N - x * D = qN - zN - xD
  <2>1. (q - z) * N = q * N - z * N
    OBVIOUS
  <2> QED BY <1>6, <1>17, <2>1
<1>20. PICK off \in Int : off = qN - zN - xD
  OBVIOUS
<1>21. 2 * off <= N /\ -(2 * off) <= N
  BY <1>10, <1>16, <1>17, <1>20
<1>22. (Quantized(row, bits)[i] - Zero(row, bits)) * Scale(row, bits).num - row[i] * Scale(row, bits).den = off
  BY <1>1, <1>3, <1>5, <1>18, <1>19, <1>20
<1> QED BY <1>1, <1>21, <1>22

------------------------------------------------------------------------------
(* Two integers to a byte *)

\* What the columns of a row are, given its bytes: the low half of a byte comes first.
Nibble(bytesOf, i) == IF i % 2 = 1 THEN bytesOf[(i + 1) \div 2] % 16 ELSE bytesOf[i \div 2] \div 16

LEMMA HalvesOfByte ==
    ASSUME NEW low \in 0..15, NEW high \in 0..15
    PROVE  (low + 16 * high) % 16 = low /\ (low + 16 * high) \div 16 = high
OBVIOUS

\* What is packed comes out again, the padding of an odd row aside.
LEMMA PackedReturns ==
    ASSUME NEW q \in Seq(0..15)
    PROVE  /\ PackInt4(q) \in Seq(Int)
           /\ Len(PackInt4(q)) = (Len(q) + 1) \div 2
           /\ \A i \in 1..Len(q) : Nibble(PackInt4(q), i) = q[i]
<1> DEFINE Value(i) == IF i <= Len(q) THEN q[i] ELSE 0
           n == (Len(q) + 1) \div 2
<1>1. Len(q) \in Nat /\ n \in Nat /\ 2 * n >= Len(q) /\ 2 * n <= Len(q) + 1
  OBVIOUS
<1>2. \A i \in Nat \ {0} : Value(i) \in 0..15
  OBVIOUS
<1>3. PackInt4(q) = [j \in 1..n |-> Value(2 * j - 1) + 16 * Value(2 * j)]
  BY DEF PackInt4
<1> HIDE DEF Value, n
<1>4. ASSUME NEW j \in 1..n PROVE 2 * j - 1 \in Nat \ {0} /\ 2 * j \in Nat \ {0}
  BY <1>1, <1>4
<1>5. ASSUME NEW j \in 1..n PROVE Value(2 * j - 1) + 16 * Value(2 * j) \in Int
  <2>1. PICK low, high \in 0..15 : low = Value(2 * j - 1) /\ high = Value(2 * j)
    BY <1>2, <1>4
  <2>2. low + 16 * high \in Int
    OBVIOUS
  <2> QED BY <2>1, <2>2
<1>6. ASSUME NEW j \in 1..n
      PROVE  PackInt4(q)[j] % 16 = Value(2 * j - 1) /\ PackInt4(q)[j] \div 16 = Value(2 * j)
  <2>1. PICK low, high \in 0..15 : low = Value(2 * j - 1) /\ high = Value(2 * j)
    BY <1>2, <1>4
  <2>2. PackInt4(q)[j] = low + 16 * high
    BY <1>3, <2>1
  <2>3. (low + 16 * high) % 16 = low /\ (low + 16 * high) \div 16 = high
    BY HalvesOfByte
  <2> QED BY <2>1, <2>2, <2>3
<1>7. ASSUME NEW i \in 1..Len(q) PROVE Nibble(PackInt4(q), i) = q[i]
  <2>1. Value(i) = q[i]
    BY <1>1 DEF Value
  <2>2. CASE i % 2 = 1
    <3>1. (i + 1) \div 2 \in 1..n /\ 2 * ((i + 1) \div 2) - 1 = i
      BY <1>1, <2>2
    <3> QED BY <1>6, <2>1, <2>2, <3>1 DEF Nibble
  <2>3. CASE i % 2 # 1
    <3>1. i \div 2 \in 1..n /\ 2 * (i \div 2) = i
      BY <1>1, <2>3
    <3> QED BY <1>6, <2>1, <2>3, <3>1 DEF Nibble
  <2> QED BY <2>2, <2>3
<1>8. PackInt4(q) \in [1..n -> Int]
  BY <1>3, <1>5
<1>9. PackInt4(q) \in Seq(Int) /\ Len(PackInt4(q)) = n
  BY <1>1, <1>8
<1> QED BY <1>7, <1>9 DEF n

Pairs(n, low, high) == [j \in 1..n |-> <<low[j], high[j]>>]
Halves(n, low, high) == low \in [1..n -> Int] /\ high \in [1..n -> Int]
Interleaved(n, low, high, flat) ==
    \A i \in 1..(2 * n) : flat[i] = IF i % 2 = 1 THEN low[(i + 1) \div 2] ELSE high[i \div 2]

\* Pairs one after the other: the recursion of FlattenSeq has one solution, and this is it.
LEMMA FlattenedPairs ==
    ASSUME NEW n \in Nat, NEW low, NEW high, Halves(n, low, high), NEW flat,
           flat = FlattenSeq(Pairs(n, low, high))
    PROVE  Interleaved(n, low, high, flat)
<1> USE DEF Halves
<1> DEFINE pairs == [j \in 1..n |-> <<low[j], high[j]>>]
           Column(i) == IF i % 2 = 1 THEN low[(i + 1) \div 2] ELSE high[i \div 2]
           Front1(k) == [i \in 1..(2 * k) |-> Column(i)]
           Solves(f) == f = [i \in 1..Len(pairs) |-> IF i = 1 THEN pairs[i] ELSE f[i - 1] \o pairs[i]]
           solution == [k \in 1..n |-> Front1(k)]
<1>1. pairs \in Seq(Seq(Int)) /\ Len(pairs) = n
  <2>1. \A j \in 1..n : <<low[j], high[j]>> \in Seq(Int)
    OBVIOUS
  <2> QED BY <2>1
<1>2. ASSUME NEW i \in 1..(2 * n) PROVE Column(i) \in Int
  <2>1. CASE i % 2 = 1
    <3>1. (i + 1) \div 2 \in 1..n
      BY <2>1
    <3> QED BY <2>1, <3>1
  <2>2. CASE i % 2 # 1
    <3>1. i \div 2 \in 1..n
      BY <2>2
    <3> QED BY <2>2, <3>1
  <2> QED BY <2>1, <2>2
<1>3. ASSUME NEW k \in 1..n PROVE Column(2 * k - 1) = low[k] /\ Column(2 * k) = high[k]
  <2>1. (2 * k - 1) % 2 = 1 /\ (2 * k - 1 + 1) \div 2 = k /\ (2 * k) % 2 # 1 /\ (2 * k) \div 2 = k
    OBVIOUS
  <2> QED BY <2>1
<1> HIDE DEF Column
<1>4. ASSUME NEW k \in 1..n PROVE Front1(k) \in Seq(Int) /\ Len(Front1(k)) = 2 * k
  <2>1. 2 * k \in Nat /\ \A i \in 1..(2 * k) : i \in 1..(2 * n)
    BY <1>4
  <2>2. Front1(k) \in [1..(2 * k) -> Int]
    BY <1>2, <2>1
  <2> QED BY <2>1, <2>2
<1>5. Front1(1) = <<low[1], high[1]>> \/ n = 0
  <2> SUFFICES ASSUME n # 0 PROVE Front1(1) = <<low[1], high[1]>>
    OBVIOUS
  <2>1. 1 \in 1..n
    OBVIOUS
  <2>2. Column(1) = low[1] /\ Column(2) = high[1]
    BY <1>3, <2>1
  <2>3. Front1(1)[1] = low[1] /\ Front1(1)[2] = high[1]
    BY <2>2
  <2> HIDE DEF Front1
  <2>4. Front1(1) \in Seq(Int) /\ Len(Front1(1)) = 2 * 1
    BY <1>4, <2>1
  <2> QED BY <2>3, <2>4
<1>6. ASSUME NEW k \in 2..n PROVE Front1(k) = Front1(k - 1) \o <<low[k], high[k]>>
  <2>1. k \in 1..n /\ k - 1 \in 1..n /\ 2 * (k - 1) \in Nat /\ 2 * k = 2 * (k - 1) + 2
    OBVIOUS
  <2>2. low[k] \in Int /\ high[k] \in Int
    BY <2>1
  <2>3. PICK a \in Seq(Int) : a = Front1(k - 1) /\ Len(a) = 2 * (k - 1)
    BY <1>4, <2>1
  <2>4. PICK c \in Seq(Int) : c = Front1(k) /\ Len(c) = 2 * k
    BY <1>4, <2>1
  <2>5. \A i \in 1..(2 * (k - 1)) : a[i] = c[i]
    BY <2>1, <2>3, <2>4
  <2>6. c[2 * k - 1] = low[k] /\ c[2 * k] = high[k]
    BY <1>3, <2>1, <2>4
  <2>7. c = a \o <<low[k], high[k]>>
    <3>1. PICK x, y \in Int : x = low[k] /\ y = high[k]
      BY <2>2
    <3> SUFFICES c = a \o <<x, y>>
      BY <3>1
    <3>2. a \o <<x, y>> \in Seq(Int) /\ Len(a \o <<x, y>>) = Len(c)
      BY <2>1, <2>3, <2>4
    <3>3. ASSUME NEW i \in 1..Len(c) PROVE c[i] = (a \o <<x, y>>)[i]
      <4>1. CASE i \in 1..(2 * (k - 1))
        <5>1. (a \o <<x, y>>)[i] = a[i]
          BY <2>3, <4>1
        <5> QED BY <2>5, <4>1, <5>1
      <4>2. CASE i = 2 * k - 1
        <5>1. i = Len(a) + 1
          BY <2>3, <4>2
        <5>2. (a \o <<x, y>>)[i] = x
          BY <5>1
        <5> QED BY <2>6, <3>1, <4>2, <5>2
      <4>3. CASE i = 2 * k
        <5>1. i = Len(a) + 2
          BY <2>3, <4>3
        <5>2. (a \o <<x, y>>)[i] = y
          BY <5>1
        <5> QED BY <2>6, <3>1, <4>3, <5>2
      <4>4. i \in 1..(2 * (k - 1)) \/ i = 2 * k - 1 \/ i = 2 * k
        BY <2>4
      <4> QED BY <4>1, <4>2, <4>3, <4>4
    <3>4. PICK d \in Seq(Int) : d = a \o <<x, y>>
      BY <3>2
    <3>5. Len(d) = Len(c) /\ \A i \in 1..Len(c) : c[i] = d[i]
      BY <3>2, <3>3, <3>4
    <3>6. c = d
      BY <2>4, <3>5, SeqEqual
    <3> QED BY <3>4, <3>6
  <2> QED BY <2>3, <2>4, <2>7
<1> HIDE DEF Front1
<1>7. Solves(solution)
  <2>1. ASSUME NEW i \in 1..n PROVE solution[i] = IF i = 1 THEN pairs[i] ELSE solution[i - 1] \o pairs[i]
    <3>1. CASE i = 1
      BY <1>5, <3>1
    <3>2. CASE i # 1
      <4>1. i \in 2..n /\ i - 1 \in 1..n
        BY <3>2
      <4> QED BY <1>6, <3>2, <4>1
    <3> QED BY <3>1, <3>2
  <2> QED BY <1>1, <2>1
<1>8. ASSUME NEW f, Solves(f), NEW k \in 1..n PROVE f[k] = solution[k]
  <2> HIDE DEF Solves, solution
  <2> DEFINE Differ == {m \in Nat : m \in 1..n /\ f[m] # solution[m]}
  <2>0. k \in Differ \/ f[k] = solution[k]
    OBVIOUS
  <2> SUFFICES ASSUME Differ # {} PROVE FALSE
    BY <2>0
  <2>1. PICK m \in Differ : \A l \in Differ : m <= l
    BY LeastNatural
  <2>2. m \in 1..n /\ f[m] # solution[m]
    OBVIOUS
  <2>3. /\ f[m] = IF m = 1 THEN pairs[m] ELSE f[m - 1] \o pairs[m]
        /\ solution[m] = IF m = 1 THEN pairs[m] ELSE solution[m - 1] \o pairs[m]
    BY <1>1, <1>7, <1>8, <2>2 DEF Solves
  <2>4. CASE m = 1
    BY <2>2, <2>3, <2>4
  <2>5. CASE m # 1
    <3>1. m - 1 \in 1..n /\ m - 1 \in Nat /\ ~(m <= m - 1)
      BY <2>2, <2>5
    <3>2. f[m - 1] = solution[m - 1]
      BY <2>1, <3>1
    <3> QED BY <2>2, <2>3, <2>5, <3>2
  <2> QED BY <2>4, <2>5
<1> USE DEF Pairs, Interleaved
<1>9. CASE n = 0
  BY <1>9
<1>10. CASE n # 0
  <2>1. n \in 1..n /\ Len(pairs) # 0
    BY <1>1, <1>10
  <2>2. FlattenSeq(pairs) = (CHOOSE f : Solves(f))[Len(pairs)]
    BY <2>1 DEF FlattenSeq
  <2>3. Solves(CHOOSE f : Solves(f))
    <3> HIDE DEF Solves
    <3> QED BY <1>7
  <2>4. FlattenSeq(pairs) = solution[n]
    BY <1>1, <1>8, <2>1, <2>2, <2>3
  <2>5. FlattenSeq(pairs) = [i \in 1..(2 * n) |-> Column(i)]
    BY <2>1, <2>4 DEF Front1
  <2> QED BY <2>5 DEF Column
<1> QED BY <1>9, <1>10

------------------------------------------------------------------------------
(* A packed row and a packed matrix *)

\* The integers a packed row has for its columns.
Columns(p) == IF p.bits = 4 THEN [i \in 1..p.cols |-> Nibble(p.bytes, i)] ELSE p.bytes

\* What a row was quantized to is what comes out of its bytes.
LEMMA RowReturns ==
    ASSUME NEW row \in Seq(Int), row # <<>>, NEW bits \in {4, 8}
    PROVE  \A i \in 1..Len(row) : Columns(PackRow(row, bits))[i] = Quantized(row, bits)[i]
<1>1. PICK q : q = Quantized(row, bits)
  OBVIOUS
<1>2. QuantizedSeq(q, bits) /\ Len(q) = Len(row)
  BY <1>1, QuantizedTyped
<1>3. CASE bits = 4
  <2>1. q \in Seq(0..15)
    BY <1>2, <1>3 DEF QuantizedSeq
  <2>2. Columns(PackRow(row, bits)) = [i \in 1..Len(row) |-> Nibble(PackInt4(q), i)]
    BY <1>1, <1>3 DEF Columns, PackRow
  <2>3. \A i \in 1..Len(q) : Nibble(PackInt4(q), i) = q[i]
    BY <2>1, PackedReturns
  <2> QED BY <1>1, <1>2, <2>2, <2>3
<1>4. CASE bits = 8
  BY <1>4 DEF Columns, PackRow
<1> QED BY <1>3, <1>4

\* The CPU's way of unpacking a row takes the columns of its bytes, and the GPU's does.
LEMMA CpuColumns ==
    ASSUME NEW m, NEW r \in DOMAIN m
    PROVE  Dequantized(m)[r] = [nums |-> [i \in 1..m[r].cols |-> (Columns(m[r])[i] - m[r].zero) * m[r].scale.num],
                                den |-> m[r].scale.den]
<1>1. CASE m[r].bits = 4
  <2>1. UnpackInt4(m[r].bytes, m[r].cols) = Columns(m[r])
    BY <1>1 DEF UnpackInt4, Columns, Nibble
  <2> QED BY <1>1, <2>1 DEF Dequantized, Restored
<1>2. CASE m[r].bits # 4
  <2>1. Columns(m[r]) = m[r].bytes
    BY <1>2 DEF Columns
  <2> QED BY <1>2, <2>1 DEF Dequantized, Restored
<1> QED BY <1>1, <1>2

LEMMA GpuColumns ==
    ASSUME NEW m, NEW r \in DOMAIN m, m[r].bytes \in Seq(Int), m[r].cols \in Nat, m[r].cols <= 2 * Len(m[r].bytes)
    PROVE  CudaDequantized(m)[r] = Dequantized(m)[r]
<1>1. CASE m[r].bits = 4
  <2>1. PICK n \in Nat, c \in Nat : n = Len(m[r].bytes) /\ c = m[r].cols /\ c <= 2 * n
    OBVIOUS
  <2>2. PICK b : b = m[r].bytes /\ b \in [1..n -> Int]
    BY <2>1
  <2>3. PICK low, high : low = [j \in 1..n |-> b[j] % 16] /\ high = [j \in 1..n |-> b[j] \div 16]
    OBVIOUS
  <2>4. low \in [1..n -> Int] /\ high \in [1..n -> Int]
    BY <2>2, <2>3
  <2>5. PICK flat : flat = FlattenSeq(Pairs(n, low, high))
    OBVIOUS
  <2>6. Interleaved(n, low, high, flat)
    <3>1. Halves(n, low, high)
      BY <2>4 DEF Halves
    <3> QED BY <2>5, <3>1, FlattenedPairs
  <2>7. ASSUME NEW i \in 1..c PROVE flat[i] = Nibble(b, i)
    <3>1. i \in 1..(2 * n)
      BY <2>1
    <3>2. CASE i % 2 = 1
      <4>1. (i + 1) \div 2 \in 1..n
        BY <3>1, <3>2
      <4> QED BY <2>3, <2>6, <3>1, <3>2, <4>1 DEF Nibble, Interleaved
    <3>3. CASE i % 2 # 1
      <4>1. i \div 2 \in 1..n
        BY <3>1, <3>3
      <4> QED BY <2>3, <2>6, <3>1, <3>3, <4>1 DEF Nibble, Interleaved
    <3> QED BY <3>2, <3>3
  <2>8. [j \in DOMAIN b |-> <<b[j] % 16, b[j] \div 16>>] = Pairs(n, low, high)
    BY <2>2, <2>3 DEF Pairs
  <2>9. CudaDequantized(m)[r] = Restored(m[r], flat)
    BY <1>1, <2>2, <2>5, <2>8 DEF CudaDequantized
  <2>10. Restored(m[r], flat) = [nums |-> [i \in 1..c |-> (flat[i] - m[r].zero) * m[r].scale.num], den |-> m[r].scale.den]
    BY <2>1 DEF Restored
  <2>11. Columns(m[r]) = [i \in 1..c |-> Nibble(b, i)]
    BY <1>1, <2>1, <2>2 DEF Columns
  <2>12. Dequantized(m)[r] = [nums |-> [i \in 1..c |-> (Columns(m[r])[i] - m[r].zero) * m[r].scale.num], den |-> m[r].scale.den]
    BY <2>1, CpuColumns
  <2>13. [i \in 1..c |-> (flat[i] - m[r].zero) * m[r].scale.num] = [i \in 1..c |-> (Columns(m[r])[i] - m[r].zero) * m[r].scale.num]
    BY <2>7, <2>11
  <2> QED BY <2>9, <2>10, <2>12, <2>13
<1>2. CASE m[r].bits # 4
  BY <1>2 DEF CudaDequantized, Dequantized
<1> QED BY <1>1, <1>2

\* A matrix whose rows are sequences of numbers.
Matrix(rows) == \A r \in DOMAIN rows : rows[r] \in Seq(Int) /\ rows[r] # <<>>

\* The GPU unpacks what the CPU does.
LEMMA SameUnpacked ==
    ASSUME NEW rows, Matrix(rows), NEW bits \in {4, 8}
    PROVE  CudaDequantized(Pack(rows, bits)) = Dequantized(Pack(rows, bits))
<1>1. PICK m : m = Pack(rows, bits)
  OBVIOUS
<1>2. DOMAIN m = DOMAIN rows /\ \A r \in DOMAIN rows : m[r] = PackRow(rows[r], bits)
  BY <1>1 DEF Pack
<1>3. ASSUME NEW r \in DOMAIN m PROVE CudaDequantized(m)[r] = Dequantized(m)[r]
  <2>1. PICK row \in Seq(Int) : row = rows[r] /\ row # <<>>
    BY <1>2 DEF Matrix
  <2>2. PICK q : q = Quantized(row, bits) /\ QuantizedSeq(q, bits) /\ Len(q) = Len(row)
    BY <2>1, QuantizedTyped
  <2>3. m[r] = PackRow(row, bits)
    BY <1>2, <2>1
  <2>4. m[r].cols = Len(row) /\ Len(row) \in Nat
    BY <2>1, <2>3 DEF PackRow
  <2>5. m[r].bytes \in Seq(Int) /\ Len(row) <= 2 * Len(m[r].bytes)
    <3>1. CASE bits = 4
      <4>1. q \in Seq(0..15)
        BY <2>2, <3>1 DEF QuantizedSeq
      <4>2. m[r].bytes = PackInt4(q)
        BY <2>2, <2>3, <3>1 DEF PackRow
      <4>3. PackInt4(q) \in Seq(Int) /\ Len(PackInt4(q)) = (Len(q) + 1) \div 2
        BY <4>1, PackedReturns
      <4>4. Len(row) <= 2 * ((Len(row) + 1) \div 2)
        BY <2>4
      <4> QED BY <2>2, <4>2, <4>3, <4>4
    <3>2. CASE bits = 8
      <4>1. m[r].bytes = q
        BY <2>2, <2>3, <3>2 DEF PackRow
      <4>2. q \in Seq(Int)
        <5>1. q \in Seq(0..255)
          BY <2>2, <3>2 DEF QuantizedSeq
        <5>2. 0..255 \subseteq Int
          OBVIOUS
        <5> QED BY <5>1, <5>2, WiderSequence
      <4>3. Len(row) <= 2 * Len(row)
        BY <2>4
      <4> QED BY <2>2, <4>1, <4>2, <4>3
    <3> QED BY <3>1, <3>2
  <2> QED BY <2>4, <2>5, GpuColumns
<1>4. /\ CudaDequantized(m) = [r \in DOMAIN m |-> CudaDequantized(m)[r]]
      /\ Dequantized(m) = [r \in DOMAIN m |-> Dequantized(m)[r]]
  BY DEF CudaDequantized, Dequantized
<1> QED BY <1>1, <1>3, <1>4

\* Every value of a packed matrix comes back within half a step.
LEMMA MatrixHalfStep ==
    ASSUME NEW rows, Matrix(rows), NEW bits \in {4, 8}, NEW r \in DOMAIN rows,
           ExactZero(rows[r], bits) \in (-ZeroLimit)..(ZeroLimit - 1), NEW i \in DOMAIN rows[r]
    PROVE  LET back == Dequantized(Pack(rows, bits))[r]
               off == back.nums[i] - rows[r][i] * back.den
           IN 2 * (IF off < 0 THEN -off ELSE off) <= Pack(rows, bits)[r].scale.num
<1> DEFINE m == Pack(rows, bits)
<1>1. DOMAIN m = DOMAIN rows /\ m[r] = PackRow(rows[r], bits)
  BY DEF Pack
<1> HIDE DEF m
<1>2. PICK row \in Seq(Int) : row = rows[r] /\ row # <<>> /\ i \in 1..Len(row)
  BY DEF Matrix
<1>3. m[r].cols = Len(row) /\ m[r].zero = Zero(row, bits) /\ m[r].scale = Scale(row, bits)
  BY <1>1, <1>2 DEF PackRow
<1>4. Columns(m[r])[i] = Quantized(row, bits)[i]
  BY <1>1, <1>2, RowReturns
<1>5. /\ Dequantized(m)[r].nums[i] = (Quantized(row, bits)[i] - Zero(row, bits)) * Scale(row, bits).num
      /\ Dequantized(m)[r].den = Scale(row, bits).den
  <2>1. r \in DOMAIN m
    BY <1>1
  <2>2. Dequantized(m)[r] = [nums |-> [k \in 1..m[r].cols |-> (Columns(m[r])[k] - m[r].zero) * m[r].scale.num],
                             den |-> m[r].scale.den]
    BY <2>1, CpuColumns
  <2> QED BY <1>2, <1>3, <1>4, <2>2
<1>6. PICK off : off = (Quantized(row, bits)[i] - Zero(row, bits)) * Scale(row, bits).num - row[i] * Scale(row, bits).den
  OBVIOUS
<1>7. off \in Int /\ 2 * off <= Scale(row, bits).num /\ -(2 * off) <= Scale(row, bits).num
  BY <1>2, <1>6, HalfStep
<1>8. Scale(row, bits).num \in Nat
  BY <1>2, ScaleReaches
<1>9. 2 * (IF off < 0 THEN -off ELSE off) <= Scale(row, bits).num
  BY <1>7, <1>8
<1>10. m[r].scale.num = Scale(row, bits).num
  BY <1>3
<1> QED BY <1>2, <1>5, <1>6, <1>9, <1>10 DEF m

------------------------------------------------------------------------------
(* The store *)

Names == {t.name : t \in Written}

\* The reader has a matrix for the name: which it is once the directory is read.
ReadsMatrix(name) == source.kind = "gguf" => stage = "open" /\ Len(directory[Max(Entries(name))].dims) = 2
ReadsOther(name) == source.kind = "gguf" /\ stage = "open" /\ Len(directory[Max(Entries(name))].dims) # 2

CallGiven == wanted # NoCall => /\ wanted.op \in {"get", "get_quantized"} /\ wanted.name \in Names
                                /\ (wanted.op = "get_quantized" => quant # "none")

\* What the caches have to do with each other: a weight in both forms is one weight, a
\* dense one that is not packed cannot be, and the copies are copies.
StoreInv ==
    /\ CallGiven
    /\ \A name \in DOMAIN packed : name \in Names /\ quant # "none" /\ ReadsMatrix(name)
    /\ \A name \in DOMAIN dense : IF name \in DOMAIN packed THEN dense[name] = Dequantized(packed[name])
                                  ELSE quant = "none" \/ ReadsOther(name)
    /\ \A name \in DOMAIN cudaDense : name \in DOMAIN dense /\ cudaDense[name] = dense[name]
    /\ \A name \in DOMAIN cudaPacked : name \in DOMAIN packed /\ cudaPacked[name] = packed[name]

LEMMA PutDomain ==
    ASSUME NEW cache, NEW name, NEW value
    PROVE  /\ DOMAIN Put(cache, name, value) = DOMAIN cache \cup {name}
           /\ Put(cache, name, value)[name] = value
           /\ \A key \in DOMAIN cache : key # name => Put(cache, name, value)[key] = cache[key]
BY DEF Put

\* What a file has for a name is a matrix or not, whenever it is read.
LEMMA LoadedDims ==
    ASSUME NEW name, NEW t \in Loaded(name)
    PROVE  (t.ndim = 2 /\ ReadsMatrix(name)) \/ (t.ndim # 2 /\ ReadsOther(name))
<1>1. CASE source.kind # "gguf"
  <2>1. PICK f : t = [ndim |-> 2, rows |-> source.shards[f][name]]
    BY <1>1 DEF Loaded
  <2> QED BY <1>1, <2>1 DEF ReadsMatrix
<1>2. CASE source.kind = "gguf"
  <2>1. stage = "open" /\ t \in ReadTensor(name)
    BY <1>2 DEF Loaded
  <2>2. PICK e : e = directory[Max(Entries(name))]
    OBVIOUS
  <2>3. t.ndim = Len(e.dims)
    BY <2>1, <2>2 DEF ReadTensor
  <2> QED BY <1>2, <2>1, <2>2, <2>3 DEF ReadsMatrix, ReadsOther
<1> QED BY <1>1, <1>2

\* An open file stays open, and its directory is what it is.
LEMMA ReaderStays ==
    ASSUME WeightsNext
    PROVE  /\ UNCHANGED <<bytes, source, quant>>
           /\ source.kind = "gguf" /\ stage = "open" => stage' = "open" /\ directory' = directory /\ data' = data
<1>1. CASE \E call \in Calls : Ask(call)
  BY <1>1 DEF Ask, readerVars
<1>2. CASE ReadDirectory
  BY <1>2 DEF ReadDirectory, Parse, ReadHeader, NextPair, PairsDone, NextTensor, OpenData
<1>3. CASE Answer
  BY <1>3 DEF Answer, readerVars
<1>4. CASE Refuse
  BY <1>4 DEF Refuse, readerVars
<1> QED BY <1>1, <1>2, <1>3, <1>4 DEF WeightsNext

LEMMA DimsStay ==
    ASSUME WeightsNext, NEW name
    PROVE  /\ ReadsMatrix(name) => ReadsMatrix(name)'
           /\ ReadsOther(name) => ReadsOther(name)'
<1>1. UNCHANGED source /\ (source.kind = "gguf" /\ stage = "open" => stage' = "open" /\ directory' = directory)
  BY ReaderStays
<1>2. CASE directory' = directory
  <2>1. Entries(name)' = Entries(name)
    BY <1>2 DEF Entries
  <2>2. Max(Entries(name))' = Max(Entries(name))
    BY <2>1
  <2>3. directory[Max(Entries(name))]' = directory[Max(Entries(name))]
    BY <1>2, <2>2
  <2> QED BY <1>1, <2>3 DEF ReadsMatrix, ReadsOther
<1>3. CASE directory' # directory
  BY <1>1, <1>3 DEF ReadsMatrix, ReadsOther
<1> QED BY <1>2, <1>3

LEMMA NamesStay == UNCHANGED source => Names' = Names
BY DEF Names, Written

\* A call that is answered: what it adds, in the terms of the invariant.
Extended(old, new, name) ==
    /\ DOMAIN old \subseteq DOMAIN new /\ DOMAIN new \subseteq DOMAIN old \cup {name}
    /\ \A key \in DOMAIN old : new[key] = old[key]

LEMMA AnswerAdds ==
    ASSUME StoreInv, Answer
    PROVE  /\ Extended(dense, dense', wanted.name) /\ Extended(packed, packed', wanted.name)
           /\ wanted.name \in DOMAIN packed' \ DOMAIN packed => quant # "none" /\ ReadsMatrix(wanted.name)
           /\ \A name \in DOMAIN dense' : IF name \in DOMAIN packed' THEN dense'[name] = Dequantized(packed'[name])
                                          ELSE quant = "none" \/ ReadsOther(name)
           /\ wanted.op = "get" => wanted.name \in DOMAIN dense'
           /\ wanted.op # "get" => wanted.name \in DOMAIN packed'
<1> DEFINE name == wanted.name
<1>1. wanted.op \in {"get", "get_quantized"} /\ (wanted.op = "get_quantized" => quant # "none")
  BY DEF Answer, StoreInv, CallGiven
<1>2. CASE Held(wanted) /\ UNCHANGED <<npz, dense, packed>>
  BY <1>2 DEF Held, StoreInv, Extended
<1>3. CASE ~Held(wanted) /\ \E t \in Usable : IF wanted.op = "get" THEN GetFrom(name, t) ELSE GetQuantizedFrom(name, t)
  <2>1. PICK t \in Usable : IF wanted.op = "get" THEN GetFrom(name, t) ELSE GetQuantizedFrom(name, t)
    BY <1>3
  <2>2. t \in Loaded(name) /\ (wanted.op # "get" => t.ndim = 2)
    BY <2>1 DEF Usable
  <2>3. (t.ndim = 2 /\ ReadsMatrix(name)) \/ (t.ndim # 2 /\ ReadsOther(name))
    BY <2>2, LoadedDims
  <2>4. PICK v : v = PackValue(name, t.rows) /\ (name \in DOMAIN packed => v = packed[name])
    BY DEF PackValue
  <2>5. CASE wanted.op = "get" /\ quant # "none" /\ t.ndim = 2
    <3>1. packed' = Put(packed, name, v) /\ dense' = Put(dense, name, Dequantized(v))
      BY <2>1, <2>4, <2>5 DEF GetFrom
    <3>2. name \notin DOMAIN dense
      BY <1>3, <2>5 DEF Held
    <3>3. Extended(dense, dense', name) /\ name \in DOMAIN dense' /\ dense'[name] = Dequantized(v)
      BY <3>1, <3>2 DEF Put, Extended
    <3>4. Extended(packed, packed', name) /\ name \in DOMAIN packed' /\ packed'[name] = v
      BY <2>4, <3>1 DEF Put, Extended
    <3>5. ASSUME NEW key \in DOMAIN dense'
          PROVE  IF key \in DOMAIN packed' THEN dense'[key] = Dequantized(packed'[key])
                 ELSE quant = "none" \/ ReadsOther(key)
      <4>1. CASE key = name
        BY <3>3, <3>4, <4>1
      <4>2. CASE key # name
        <5>1. key \in DOMAIN dense /\ dense'[key] = dense[key] /\ (key \in DOMAIN packed' => key \in DOMAIN packed /\ packed'[key] = packed[key])
          BY <3>3, <3>4, <3>5, <4>2 DEF Extended
        <5>2. key \in DOMAIN packed => key \in DOMAIN packed'
          BY <3>4 DEF Extended
        <5>3. IF key \in DOMAIN packed THEN dense[key] = Dequantized(packed[key]) ELSE quant = "none" \/ ReadsOther(key)
          BY <5>1 DEF StoreInv
        <5> QED BY <5>1, <5>2, <5>3
      <4> QED BY <4>1, <4>2
    <3> QED BY <2>3, <2>5, <3>3, <3>4, <3>5
  <2>6. CASE wanted.op = "get" /\ ~(quant # "none" /\ t.ndim = 2)
    <3>1. packed' = packed /\ dense' = Put(dense, name, Exact(t.rows))
      BY <2>1, <2>6 DEF GetFrom
    <3>2. name \notin DOMAIN dense
      BY <1>3, <2>6 DEF Held
    <3>3. Extended(dense, dense', name) /\ name \in DOMAIN dense'
      BY <3>1, <3>2 DEF Put, Extended
    <3>4. Extended(packed, packed', name)
      BY <3>1 DEF Extended
    <3>5. name \notin DOMAIN packed /\ (quant = "none" \/ ReadsOther(name))
      BY <2>3, <2>6 DEF StoreInv, ReadsMatrix, ReadsOther
    <3>6. \A key \in DOMAIN dense' : IF key \in DOMAIN packed' THEN dense'[key] = Dequantized(packed'[key])
                                     ELSE quant = "none" \/ ReadsOther(key)
      BY <3>1, <3>3, <3>5 DEF StoreInv, Extended
    <3> QED BY <2>6, <3>1, <3>3, <3>4, <3>6
  <2>7. CASE wanted.op # "get"
    <3>1. packed' = Put(packed, name, v) /\ dense' = dense
      BY <2>1, <2>4, <2>7 DEF GetQuantizedFrom
    <3>2. name \notin DOMAIN packed /\ quant # "none" /\ ReadsMatrix(name)
      BY <1>1, <1>3, <2>2, <2>3, <2>7 DEF Held
    <3>3. Extended(packed, packed', name) /\ name \in DOMAIN packed'
      BY <3>1, <3>2 DEF Put, Extended
    <3>4. Extended(dense, dense', name)
      BY <3>1 DEF Extended
    <3>5. name \notin DOMAIN dense
      BY <3>2 DEF StoreInv, ReadsMatrix, ReadsOther
    <3>6. \A key \in DOMAIN dense' : IF key \in DOMAIN packed' THEN dense'[key] = Dequantized(packed'[key])
                                     ELSE quant = "none" \/ ReadsOther(key)
      BY <3>1, <3>3, <3>5 DEF StoreInv, Extended
    <3> QED BY <2>7, <3>2, <3>3, <3>4, <3>6
  <2> QED BY <2>5, <2>6, <2>7
<1> QED BY <1>2, <1>3 DEF Answer

\* The copies on the GPU are what the store has after the call.
LEMMA CopiesAdded ==
    ASSUME StoreInv, Answer
    PROVE  /\ \A name \in DOMAIN cudaDense' : name \in DOMAIN dense' /\ cudaDense'[name] = dense'[name]
           /\ \A name \in DOMAIN cudaPacked' : name \in DOMAIN packed' /\ cudaPacked'[name] = packed'[name]
<1>1. /\ Extended(dense, dense', wanted.name) /\ Extended(packed, packed', wanted.name)
      /\ wanted.op = "get" => wanted.name \in DOMAIN dense'
      /\ wanted.op # "get" => wanted.name \in DOMAIN packed'
  BY AnswerAdds
<1>2. /\ \A name \in DOMAIN cudaDense : name \in DOMAIN dense' /\ cudaDense[name] = dense'[name]
      /\ \A name \in DOMAIN cudaPacked : name \in DOMAIN packed' /\ cudaPacked[name] = packed'[name]
  BY <1>1 DEF StoreInv, Extended
<1>3. \/ UNCHANGED cudaDense
      \/ wanted.op = "get" /\ cudaDense' = Put(cudaDense, wanted.name, dense'[wanted.name])
  BY DEF Answer, Copied
<1>4. \/ UNCHANGED cudaPacked
      \/ wanted.op # "get" /\ cudaPacked' = Put(cudaPacked, wanted.name, packed'[wanted.name])
  BY DEF Answer, Copied
<1>5. \A name \in DOMAIN cudaDense' : name \in DOMAIN dense' /\ cudaDense'[name] = dense'[name]
  BY <1>1, <1>2, <1>3 DEF Put
<1>6. \A name \in DOMAIN cudaPacked' : name \in DOMAIN packed' /\ cudaPacked'[name] = packed'[name]
  BY <1>1, <1>2, <1>4 DEF Put
<1> QED BY <1>5, <1>6

LEMMA StoreInit == WeightsInit => StoreInv
BY DEF WeightsInit, StoreInv, CallGiven

LEMMA StoreNext == StoreInv /\ [WeightsNext]_weightVars => StoreInv'
<1> SUFFICES ASSUME StoreInv, [WeightsNext]_weightVars PROVE StoreInv'
  OBVIOUS
<1>1. CASE UNCHANGED weightVars
  <2>1. UNCHANGED <<wanted, quant, source, packed, dense, cudaDense, cudaPacked, stage, directory>>
    BY <1>1 DEF weightVars, caches, readerVars
  <2>2. Names' = Names
    BY <2>1, NamesStay
  <2>3. \A name : Entries(name)' = Entries(name)
    BY <2>1 DEF Entries
  <2>4. ASSUME NEW name PROVE (ReadsMatrix(name) => ReadsMatrix(name)') /\ (ReadsOther(name) => ReadsOther(name)')
    <3>1. Max(Entries(name))' = Max(Entries(name))
      BY <2>3
    <3>2. directory[Max(Entries(name))]' = directory[Max(Entries(name))]
      BY <2>1, <3>1
    <3> QED BY <2>1, <3>2 DEF ReadsMatrix, ReadsOther
  <2> QED BY <2>1, <2>2, <2>4 DEF StoreInv, CallGiven
<1>2. CASE WeightsNext
  <2>1. UNCHANGED <<source, quant>>
    BY <1>2, ReaderStays
  <2>2. Names' = Names
    BY <2>1, NamesStay
  <2>3. \A name : (ReadsMatrix(name) => ReadsMatrix(name)') /\ (ReadsOther(name) => ReadsOther(name)')
    BY <1>2, DimsStay
  <2>4. CallGiven'
    <3>1. CASE \E call \in Calls : Ask(call)
      <4>1. PICK call \in Calls : Ask(call)
        BY <3>1
      <4>2. wanted' = call /\ (call.op = "get_quantized" => quant # "none")
        BY <4>1 DEF Ask, Asked
      <4>3. call.op \in {"get", "get_quantized"} /\ call.name \in Names
        BY DEF Calls, Names
      <4> QED BY <2>1, <2>2, <4>2, <4>3 DEF CallGiven
    <3>2. CASE ReadDirectory
      BY <2>1, <2>2, <3>2 DEF ReadDirectory, StoreInv, CallGiven
    <3>3. CASE Answer
      BY <3>3 DEF Answer, CallGiven
    <3>4. CASE Refuse
      BY <3>4 DEF Refuse, CallGiven
    <3> QED BY <1>2, <3>1, <3>2, <3>3, <3>4 DEF WeightsNext
  <2>5. CASE UNCHANGED <<packed, dense, cudaDense, cudaPacked>>
    BY <2>1, <2>2, <2>3, <2>4, <2>5 DEF StoreInv
  <2>6. CASE Answer
    <3>1. /\ Extended(packed, packed', wanted.name)
          /\ wanted.name \in DOMAIN packed' \ DOMAIN packed => quant # "none" /\ ReadsMatrix(wanted.name)
          /\ \A name \in DOMAIN dense' : IF name \in DOMAIN packed' THEN dense'[name] = Dequantized(packed'[name])
                                         ELSE quant = "none" \/ ReadsOther(name)
      BY <2>6, AnswerAdds
    <3>2. wanted.name \in Names
      BY <2>6 DEF Answer, StoreInv, CallGiven
    <3>3. \A name \in DOMAIN packed' : name \in Names' /\ quant' # "none" /\ ReadsMatrix(name)'
      BY <2>1, <2>2, <2>3, <3>1, <3>2 DEF StoreInv, Extended
    <3>4. \A name \in DOMAIN dense' : IF name \in DOMAIN packed' THEN dense'[name] = Dequantized(packed'[name])
                                      ELSE quant' = "none" \/ ReadsOther(name)'
      BY <2>1, <2>3, <3>1
    <3> QED BY <2>4, <2>6, <3>3, <3>4, CopiesAdded DEF StoreInv
  <2> QED BY <1>2, <2>5, <2>6 DEF WeightsNext, Ask, ReadDirectory, Refuse, caches
<1> QED BY <1>1, <1>2

------------------------------------------------------------------------------
(* The theorems *)

\* What a source has are matrices of numbers, and vectors as matrices of one row.
RowsGiven == \A t \in Written : Matrix(RowsOf(t))

LEMMA PackingScheme == Packing \in {4, 8}
<1>1. Bits(quant) \in {{4}, {8}, {}}
  BY DEF Bits
<1> QED BY <1>1 DEF Packing

LEMMA WeightsRight ==
    ASSUME StoreInv, RowsGiven, ReadsWhatWasWritten
    PROVE  OneWeight /\ RowsRoundTrip
<1>1. PICK bits \in {4, 8} : bits = Packing
  BY PackingScheme
<1>2. ASSUME NEW name \in DOMAIN packed
      PROVE  \E t \in Written : t.name = name /\ Matrix(RowsOf(t)) /\ packed[name] = Pack(RowsOf(t), bits)
  BY <1>1, <1>2 DEF StoreInv, Names, RowsGiven, ReadsWhatWasWritten
<1>3. ASSUME NEW name \in DOMAIN packed PROVE CudaDequantized(packed[name]) = Dequantized(packed[name])
  <2>1. PICK rows : Matrix(rows) /\ packed[name] = Pack(rows, bits)
    BY <1>2
  <2> QED BY <2>1, SameUnpacked
<1>4. OneWeight
  BY <1>3 DEF OneWeight, StoreInv
<1>5. RowsRoundTrip
  <2> SUFFICES ASSUME NEW t \in Written, t.name \in DOMAIN packed, NEW r \in DOMAIN RowsOf(t),
                      ExactZero(RowsOf(t)[r], packed[t.name][r].bits) \in (-ZeroLimit)..(ZeroLimit - 1),
                      NEW i \in DOMAIN RowsOf(t)[r]
               PROVE  LET back == Dequantized(packed[t.name])[r]
                          off == back.nums[i] - RowsOf(t)[r][i] * back.den
                      IN 2 * (IF off < 0 THEN -off ELSE off) <= packed[t.name][r].scale.num
    BY DEF RowsRoundTrip
  <2>1. PICK rows : rows = RowsOf(t) /\ Matrix(rows)
    BY DEF RowsGiven
  <2>2. packed[t.name] = Pack(rows, bits)
    BY <1>1, <2>1 DEF ReadsWhatWasWritten
  <2>3. packed[t.name][r].bits = bits
    BY <2>1, <2>2 DEF Pack, PackRow
  <2>4. r \in DOMAIN rows /\ i \in DOMAIN rows[r] /\ ExactZero(rows[r], bits) \in (-ZeroLimit)..(ZeroLimit - 1)
    BY <2>1, <2>3
  <2>5. LET back == Dequantized(Pack(rows, bits))[r]
            off == back.nums[i] - rows[r][i] * back.den
        IN 2 * (IF off < 0 THEN -off ELSE off) <= Pack(rows, bits)[r].scale.num
    BY <2>1, <2>4, MatrixHalfStep
  <2> QED BY <2>1, <2>2, <2>5
<1> QED BY <1>4, <1>5

LEMMA RowsStay == RowsGiven /\ [WeightsNext]_weightVars => RowsGiven'
<1> SUFFICES ASSUME RowsGiven, UNCHANGED source PROVE RowsGiven'
  BY ReaderStays DEF weightVars
<1>1. Written' = Written
  BY DEF Written
<1>2. ASSUME NEW t \in Written PROVE RowsOf(t)' = RowsOf(t)
  BY DEF RowsOf
<1> QED BY <1>1, <1>2 DEF RowsGiven

\* One weight (WeightStore and CudaWeightStore): as far as the file is read right, the CPU
\* multiplies by what the GPU unpacks for itself, whatever is asked for first.
THEOREM OneWeightHolds == WeightsSpec /\ RowsGiven => [](ReadsWhatWasWritten => OneWeight)
<1>1. WeightsInit => StoreInv
  BY StoreInit
<1>2. StoreInv /\ [WeightsNext]_weightVars => StoreInv'
  BY StoreNext
<1>3. RowsGiven /\ [WeightsNext]_weightVars => RowsGiven'
  BY RowsStay
<1>4. StoreInv /\ RowsGiven => (ReadsWhatWasWritten => OneWeight)
  BY WeightsRight
<1> QED BY <1>1, <1>2, <1>3, <1>4, PTL DEF WeightsSpec

\* Packing and unpacking (pack_quantized_weight, dequantize_packed_weight): no value of any
\* row comes back further off than half a step of its scale.
THEOREM RowsRoundTripHolds == WeightsSpec /\ RowsGiven => [](ReadsWhatWasWritten => RowsRoundTrip)
<1>1. WeightsInit => StoreInv
  BY StoreInit
<1>2. StoreInv /\ [WeightsNext]_weightVars => StoreInv'
  BY StoreNext
<1>3. RowsGiven /\ [WeightsNext]_weightVars => RowsGiven'
  BY RowsStay
<1>4. StoreInv /\ RowsGiven => (ReadsWhatWasWritten => RowsRoundTrip)
  BY WeightsRight
<1> QED BY <1>1, <1>2, <1>3, <1>4, PTL DEF WeightsSpec

------------------------------------------------------------------------------
(* A directory of .npz files is read without an importer of its own, and so right. *)

\* Finitely many files, no key in two of them.
Directory ==
    /\ source.kind = "dir" /\ IsFiniteSet(DOMAIN source.shards)
    /\ \A f, g \in DOMAIN source.shards : f # g => DOMAIN source.shards[f] \cap DOMAIN source.shards[g] = {}

\* What is cached is what the only file read has; what was refused is in another one.
ShardsInv ==
    /\ Directory /\ CallGiven
    /\ npz = {} \/ \E f \in DOMAIN source.shards : npz = {f}
    /\ \A f \in DOMAIN source.shards : \A key \in DOMAIN source.shards[f] :
         /\ key \in DOMAIN packed => packed[key] = Pack(source.shards[f][key], Packing)
         /\ key \in DOMAIN dense \ DOMAIN packed => dense[key] = Exact(source.shards[f][key])
    /\ \A name \in refused : \E f, g \in DOMAIN source.shards : f # g /\ name \in DOMAIN source.shards[g]

LEMMA WrittenInDirectory ==
    ASSUME Directory
    PROVE  \A t \in Written : /\ t.file \in DOMAIN source.shards /\ t.name \in DOMAIN source.shards[t.file]
                              /\ t.rows = source.shards[t.file][t.name]
<1> TAKE t \in Written
<1>1. PICK f \in DOMAIN source.shards : \E key \in DOMAIN source.shards[f] :
          t = [name |-> key, file |-> f, rows |-> source.shards[f][key]]
  BY DEF Written, Directory
<1> QED BY <1>1

LEMMA TensorFound ==
    ASSUME Directory, NEW name \in Names
    PROVE  /\ TensorOf(name).file \in DOMAIN source.shards
           /\ name \in DOMAIN source.shards[TensorOf(name).file]
<1>1. \E t \in Written : t.name = name
  BY DEF Names
<1>2. TensorOf(name) \in Written /\ TensorOf(name).name = name
  BY <1>1 DEF TensorOf
<1> QED BY <1>2, WrittenInDirectory

\* The file a call reads, and what it finds in it.
LEMMA ShardRead ==
    ASSUME ShardsInv, NEW name \in Names
    PROVE  \E f \in DOMAIN source.shards :
             /\ Kept(name) = {f}
             /\ \A t \in Loaded(name) : t.ndim = 2 /\ name \in DOMAIN source.shards[f] /\ t.rows = source.shards[f][name]
             /\ name \in DOMAIN source.shards[f] => \E t \in Loaded(name) : t.ndim = 2
<1>1. source.kind # "gguf" /\ Directory
  BY DEF ShardsInv, Directory
<1>2. CASE npz = {}
  <2>1. PICK f \in DOMAIN source.shards : f = TensorOf(name).file
    BY <1>1, TensorFound
  <2>2. Kept(name) = {f}
    BY <1>1, <1>2, <2>1 DEF Kept
  <2>3. Loaded(name) = {[ndim |-> 2, rows |-> source.shards[h][name]] : h \in {g \in {f} : name \in DOMAIN source.shards[g]}}
    BY <1>1, <1>2, <2>1 DEF Loaded
  <2>5. \A t \in Loaded(name) : t.ndim = 2 /\ name \in DOMAIN source.shards[f] /\ t.rows = source.shards[f][name]
    BY <2>3
  <2>6. ASSUME name \in DOMAIN source.shards[f] PROVE \E t \in Loaded(name) : t.ndim = 2
    <3>1. [ndim |-> 2, rows |-> source.shards[f][name]] \in Loaded(name)
      BY <2>3, <2>6
    <3> QED BY <3>1
  <2> QED BY <2>2, <2>5, <2>6
<1>3. CASE npz # {}
  <2>1. PICK f \in DOMAIN source.shards : npz = {f}
    BY <1>3 DEF ShardsInv
  <2>2. (CHOOSE g \in npz : TRUE) = f
    BY <2>1
  <2>3. Kept(name) = {f}
    BY <1>1, <1>3, <2>1 DEF Kept
  <2>4. Loaded(name) = {[ndim |-> 2, rows |-> source.shards[h][name]] : h \in {g \in {f} : name \in DOMAIN source.shards[g]}}
    BY <1>1, <1>3, <2>2 DEF Loaded
  <2>5. \A t \in Loaded(name) : t.ndim = 2 /\ name \in DOMAIN source.shards[f] /\ t.rows = source.shards[f][name]
    BY <2>4
  <2>6. ASSUME name \in DOMAIN source.shards[f] PROVE \E t \in Loaded(name) : t.ndim = 2
    <3>1. [ndim |-> 2, rows |-> source.shards[f][name]] \in Loaded(name)
      BY <2>4, <2>6
    <3> QED BY <3>1
  <2> QED BY <2>3, <2>5, <2>6
<1> QED BY <1>2, <1>3

LEMMA ShardsRight ==
    ASSUME ShardsInv
    PROVE  ReadsWhatWasWritten
<1>1. source.kind # "gguf" /\ Directory
  BY DEF ShardsInv, Directory
<1>2. ASSUME NEW t \in Written
      PROVE  /\ t.name \in DOMAIN packed => packed[t.name] = Pack(RowsOf(t), Packing)
             /\ t.name \in DOMAIN dense \ DOMAIN packed => dense[t.name] = Exact(RowsOf(t))
  <2>1. t.file \in DOMAIN source.shards /\ t.name \in DOMAIN source.shards[t.file] /\ RowsOf(t) = source.shards[t.file][t.name]
    BY <1>1, WrittenInDirectory DEF RowsOf
  <2> QED BY <2>1 DEF ShardsInv
<1>3. ASSUME NEW name \in refused PROVE ~Readable(TensorOf(name))
  <2>1. PICK f, g \in DOMAIN source.shards : f # g
    BY <1>3 DEF ShardsInv
  <2>2. IsFiniteSet(DOMAIN source.shards)
    BY <1>1 DEF Directory
  <2>3. Cardinality(DOMAIN source.shards) # 1
    BY <2>1, <2>2, FS_Singleton
  <2> QED BY <1>1, <2>3 DEF Readable
<1> QED BY <1>1, <1>2, <1>3 DEF ReadsWhatWasWritten

LEMMA ShardsInit == WeightsInit /\ Directory => ShardsInv
BY DEF WeightsInit, ShardsInv, CallGiven

LEMMA ShardsNext == StoreInv /\ StoreInv' /\ ShardsInv /\ [WeightsNext]_weightVars => ShardsInv'
<1> SUFFICES ASSUME StoreInv, StoreInv', ShardsInv, [WeightsNext]_weightVars PROVE ShardsInv'
  OBVIOUS
<1>1. UNCHANGED <<source, quant>>
  BY ReaderStays DEF weightVars
<1>2. Directory' /\ CallGiven' /\ Packing' = Packing
  BY <1>1 DEF StoreInv, ShardsInv, Directory, Packing
<1>3. CASE UNCHANGED <<npz, dense, packed, refused>>
  BY <1>1, <1>2, <1>3 DEF ShardsInv
<1>4. ASSUME wanted # NoCall
      PROVE  wanted.name \in Names /\ wanted.op \in {"get", "get_quantized"} /\ (wanted.op = "get_quantized" => quant # "none")
  BY <1>4 DEF StoreInv, CallGiven
<1>5. CASE Answer
  <2> DEFINE name == wanted.name
  <2>1. wanted # NoCall /\ refused' = refused
    BY <1>5 DEF Answer
  <2>2. name \in Names
    BY <1>4, <2>1
  <2>3. CASE ~Held(wanted) /\ npz' = Kept(name)
             /\ \E t \in Usable : IF wanted.op = "get" THEN GetFrom(name, t) ELSE GetQuantizedFrom(name, t)
    <3>1. PICK t \in Usable : IF wanted.op = "get" THEN GetFrom(name, t) ELSE GetQuantizedFrom(name, t)
      BY <2>3
    <3>2. PICK f \in DOMAIN source.shards :
              /\ Kept(name) = {f} /\ t.ndim = 2 /\ name \in DOMAIN source.shards[f] /\ t.rows = source.shards[f][name]
      <4>1. t \in Loaded(name)
        BY DEF Usable
      <4> QED BY <2>2, <4>1, ShardRead
    <3>3. npz' = {f}
      BY <2>3, <3>2
    <3>4. PICK rows : rows = source.shards[f][name]
      OBVIOUS
    <3>5. PackValue(name, t.rows) = Pack(rows, Packing)
      BY <3>2, <3>4 DEF PackValue, ShardsInv
    <3>6. \/ packed' = Put(packed, name, Pack(rows, Packing))
          \/ packed' = packed /\ (name \in DOMAIN packed \/ dense' = Put(dense, name, Exact(rows)))
      BY <3>1, <3>2, <3>4, <3>5 DEF GetFrom, GetQuantizedFrom
    <3>7. Extended(dense, dense', name) /\ Extended(packed, packed', name)
      BY <1>5, AnswerAdds
    <3>8. ASSUME NEW g \in DOMAIN source.shards, NEW key \in DOMAIN source.shards[g]
          PROVE  /\ key \in DOMAIN packed' => packed'[key] = Pack(source.shards[g][key], Packing)
                 /\ key \in DOMAIN dense' \ DOMAIN packed' => dense'[key] = Exact(source.shards[g][key])
      <4>1. CASE key = name
        <5>1. g = f
          BY <3>2, <3>8, <4>1 DEF ShardsInv, Directory
        <5>2. key \in DOMAIN packed => packed[key] = Pack(source.shards[g][key], Packing)
          BY <3>8 DEF ShardsInv
        <5> QED BY <3>4, <3>6, <4>1, <5>1, <5>2 DEF Put
      <4>2. CASE key # name
        <5>1. /\ key \in DOMAIN packed' => key \in DOMAIN packed /\ packed'[key] = packed[key]
              /\ key \in DOMAIN packed => key \in DOMAIN packed'
              /\ key \in DOMAIN dense' => key \in DOMAIN dense /\ dense'[key] = dense[key]
          BY <3>7, <4>2 DEF Extended
        <5>2. /\ key \in DOMAIN packed => packed[key] = Pack(source.shards[g][key], Packing)
              /\ key \in DOMAIN dense \ DOMAIN packed => dense[key] = Exact(source.shards[g][key])
          BY <3>8 DEF ShardsInv
        <5> QED BY <5>1, <5>2
      <4> QED BY <4>1, <4>2
    <3>9. \A missing \in refused : \E g, h \in DOMAIN source.shards : g # h /\ missing \in DOMAIN source.shards[h]
      BY DEF ShardsInv
    <3> QED BY <1>1, <1>2, <2>1, <3>3, <3>8, <3>9 DEF ShardsInv
  <2> QED BY <1>3, <1>5, <2>1, <2>3 DEF Answer
<1>6. CASE Refuse
  <2> DEFINE name == wanted.name
  <2>1. /\ wanted # NoCall /\ npz' = Kept(name) /\ refused' = refused \cup {name} /\ UNCHANGED <<dense, packed>>
        /\ Usable = {}
    BY <1>6 DEF Refuse
  <2>2. name \in Names
    BY <1>4, <2>1
  <2>3. PICK f \in DOMAIN source.shards :
            Kept(name) = {f} /\ (name \in DOMAIN source.shards[f] => \E t \in Loaded(name) : t.ndim = 2)
    BY <2>2, ShardRead
  <2>4. name \notin DOMAIN source.shards[f]
    BY <2>1, <2>3 DEF Usable
  <2>5. PICK g \in DOMAIN source.shards : name \in DOMAIN source.shards[g]
    BY <2>2, TensorFound DEF ShardsInv
  <2>6. f # g
    BY <2>4, <2>5
  <2>7. \A missing \in refused' : \E h, k \in DOMAIN source.shards : h # k /\ missing \in DOMAIN source.shards[k]
    BY <2>1, <2>5, <2>6 DEF ShardsInv
  <2>8. \A h \in DOMAIN source.shards : \A key \in DOMAIN source.shards[h] :
          /\ key \in DOMAIN packed' => packed'[key] = Pack(source.shards[h][key], Packing)
          /\ key \in DOMAIN dense' \ DOMAIN packed' => dense'[key] = Exact(source.shards[h][key])
    BY <2>1 DEF ShardsInv
  <2> QED BY <1>1, <1>2, <2>1, <2>3, <2>7, <2>8 DEF ShardsInv
<1>7. CASE UNCHANGED weightVars
  BY <1>3, <1>7 DEF weightVars, caches
<1> QED BY <1>3, <1>5, <1>6, <1>7 DEF WeightsNext, Ask, ReadDirectory, caches

\* A directory of .npz files (WeightStore._load_by_key): every weight held is the one in its file,
\* packed or not, and one is refused only where there is a second file.
THEOREM DirectoryRead == WeightsSpec /\ Directory => []ReadsWhatWasWritten
<1>1. WeightsInit => StoreInv
  BY StoreInit
<1>2. StoreInv /\ [WeightsNext]_weightVars => StoreInv'
  BY StoreNext
<1>3. WeightsInit /\ Directory => ShardsInv
  BY ShardsInit
<1>4. StoreInv /\ StoreInv' /\ ShardsInv /\ [WeightsNext]_weightVars => ShardsInv'
  BY ShardsNext
<1>5. ShardsInv => ReadsWhatWasWritten
  BY ShardsRight
<1> QED BY <1>1, <1>2, <1>3, <1>4, <1>5, PTL DEF WeightsSpec

\* A directory of .npz files: the CPU's matrix, the packed one and the GPU's are one weight, and a
\* packed value is within half a step of the one in the file.
THEOREM DirectoryRoundTrips == WeightsSpec /\ Directory /\ RowsGiven => [](OneWeight /\ RowsRoundTrip)
BY DirectoryRead, OneWeightHolds, RowsRoundTripHolds, PTL

=============================================================================
