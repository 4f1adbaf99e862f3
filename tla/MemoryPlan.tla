----------------------------- MODULE MemoryPlan -----------------------------
(***************************************************************************)
(* The allocator inside MemoryPlanning (cacheir/passes/transformer.py):    *)
(* the values a graph computes, in the order of the nodes that produce     *)
(* them, each put at an offset of one activation arena.  A block is used   *)
(* again once the last use of its value is past.  One step is one pass of  *)
(* the loop over the events.                                               *)
(*                                                                         *)
(* Abstracted: the lists (a free block says when it was freed, a buffer    *)
(* how many events were left, which is the order the code has them in) and *)
(* the value's type (an event has its size).                               *)
(***************************************************************************)
EXTENDS Integers, Sequences

VARIABLES
    todo,      \* the events the loop has not reached
    free,      \* the blocks that may be used again
    active,    \* the buffers whose blocks are not free yet
    buffers,   \* every buffer planned so far
    arena      \* high_watermark

planVars == <<todo, free, active, buffers, arena>>

Alignment == 64
Aligned(n) == ((n + Alignment - 1) \div Alignment) * Alignment

Event == [value : Int \X STRING, start : Nat, end : Nat, size : Nat \ {0}]
Sorted(events) == \A i, j \in DOMAIN events : i <= j => events[i].start <= events[j].start

\* Mutant: a buffer is given up at the node that reads it last
EndedEarly(event) == {b \in active : b.end <= event.start}

Ended(event) == {b \in active : b.end < event.start}

Block(b, event) == [offset |-> b.offset, size |-> b.size, freed |-> event.start, left |-> b.left]
Reusable(event) == free \cup {Block(b, event) : b \in Ended(event)}

\* free.sort is stable: by size, then in the order of freeing and of placing.
Before(f, g) == \/ f.size < g.size
                \/ f.size = g.size /\ (f.freed < g.freed \/ (f.freed = g.freed /\ f.left > g.left))
Fits(event) == {f \in Reusable(event) :
                    /\ f.size >= event.size
                    /\ \A g \in Reusable(event) : g.size >= event.size => g = f \/ Before(f, g)}

\* The block has the size of its new value: the rest of a larger one is not used again.
Placed(event, offset) == [value |-> event.value, start |-> event.start, end |-> event.end,
                          size |-> event.size, offset |-> offset, left |-> Len(todo)]

Place(event, offset) ==
    /\ active' = (active \ Ended(event)) \cup {Placed(event, offset)}
    /\ buffers' = buffers \cup {Placed(event, offset)}

Reuse ==
    /\ todo # <<>>
    /\ \E f \in Fits(Head(todo)) :
         /\ free' = Reusable(Head(todo)) \ {f}
         /\ Place(Head(todo), f.offset)
    /\ todo' = Tail(todo)
    /\ UNCHANGED arena

Extend ==
    /\ todo # <<>>
    /\ Fits(Head(todo)) = {}
    /\ free' = Reusable(Head(todo))
    /\ Place(Head(todo), arena)
    /\ arena' = arena + Aligned(Head(todo).size)
    /\ todo' = Tail(todo)

PlanEmpty == free = {} /\ active = {} /\ buffers = {} /\ arena = 0
PlanInit == PlanEmpty /\ todo \in Seq(Event) /\ Sorted(todo)
PlanNext == Reuse \/ Extend
PlanSpec == PlanInit /\ [][PlanNext]_planVars

------------------------------------------------------------------------------
Apart(a, b) == a.offset + a.size <= b.offset \/ b.offset + b.size <= a.offset
LiveTogether(a, b) == a.start <= b.end /\ b.start <= a.end

\* Two values that are alive at one node never share a byte of the arena, and
\* every buffer lies inside it: what MemoryPlanning's reuse of blocks must keep.
LiveBuffersApart ==
    /\ \A a, b \in buffers : a # b /\ LiveTogether(a, b) => Apart(a, b)
    /\ \A b \in buffers : b.offset + b.size <= arena
=============================================================================
