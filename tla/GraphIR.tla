------------------------------ MODULE GraphIR ------------------------------
(***************************************************************************)
(* The graph IR (cacheir/ir.py): tensor types, nodes, graphs, the lookups  *)
(* that passes make in them and Graph.validate.                            *)
(*                                                                         *)
(* A value is <<layer, name>>, layer -1 when it belongs to none.  A        *)
(* dimension is a number or a symbol; symbols are negative.  An absent     *)
(* type or producer (None) is the empty set, a present one a singleton.    *)
(* Attributes are a function from their names, as far as a pass or the     *)
(* runtime reads them.  Text forms and diffs are left out.                 *)
(***************************************************************************)
EXTENDS Integers, Sequences, FiniteSets, SequencesExt, FiniteSetsExt, Functions, TLC

Batch == -1  SeqDim == -2  CacheSeq == -3  Hidden == -4  Unknown == -5

\* DTYPE_SIZES, in half bytes: an int4 is half of one.
HalfBytes == [bool |-> 2, int4 |-> 1, int8 |-> 2, uint8 |-> 2, int32 |-> 8, int64 |-> 16,
              float16 |-> 4, bfloat16 |-> 4, float32 |-> 8, float64 |-> 16]

TensorType(shape, dtype) == [shape |-> shape, dtype |-> dtype, layout |-> "row_major"]
NoAttrs == <<>>

Node(op, ins, outs, attrs, name) == [op |-> op, ins |-> ins, outs |-> outs, attrs |-> attrs, name |-> name]

\* dict.get, also for the attributes of a node.
Lookup(f, key) == IF key \in DOMAIN f THEN {f[key]} ELSE {}
Get(f, key, default) == IF key \in DOMAIN f THEN f[key] ELSE default
Attr(node, key, default) == Get(node.attrs, key, default)

\* dict.update
Updated(f, new) == [key \in DOMAIN f \cup DOMAIN new |-> IF key \in DOMAIN new THEN new[key] ELSE f[key]]
With(node, attrs) == [node EXCEPT !.attrs = Updated(@, attrs)]

Numel(type, symbols) ==
    IF \E i \in DOMAIN type.shape : type.shape[i] < 0 /\ type.shape[i] \notin DOMAIN symbols THEN {}
    ELSE {FoldLeft(LAMBDA n, d : n * IF d < 0 THEN symbols[d] ELSE d, 1, type.shape)}

\* nbytes: half bytes rounded up.
Bytes(type, symbols) ==
    IF type.dtype \notin DOMAIN HalfBytes THEN {}
    ELSE {(n * HalfBytes[type.dtype] + 1) \div 2 : n \in Numel(type, symbols)}

------------------------------------------------------------------------------
(* Graphs *)

NoFunction == <<>>
EmptyGraph == [mode |-> "logical", target |-> "generic", inputs |-> NoFunction, outputs |-> <<>>, nodes |-> <<>>,
               values |-> NoFunction, weights |-> NoFunction, constants |-> NoFunction, attrs |-> NoFunction]

AddInput(g, v, type) == [g EXCEPT !.inputs = (v :> type) @@ @, !.values = (v :> type) @@ @]
AddWeight(g, v, type, spec) == [g EXCEPT !.weights = (v :> spec) @@ @, !.values = (v :> type) @@ @]
AddConstant(g, v, constant, type) == [g EXCEPT !.constants = (v :> constant) @@ @, !.values = (v :> type) @@ @]

\* add_node; types has a type for each output, or none at all.
AddNode(g, node, types) ==
    LET typed == 1..(IF Len(types) < Len(node.outs) THEN Len(types) ELSE Len(node.outs))
    IN [g EXCEPT !.nodes = Append(@, node),
                 !.values = [v \in {node.outs[i] : i \in typed} |->
                                types[Max({i \in typed : node.outs[i] = v})]] @@ @]

\* producer_map: the last node that has v among its outputs.
Producer(nodes, v) ==
    LET At == {i \in DOMAIN nodes : Contains(nodes[i].outs, v)}
    IN IF At = {} THEN {} ELSE {Max(At)}

\* consumer_map: a node for every time it reads v.
Consumers(nodes, v) ==
    FlattenSeq([i \in DOMAIN nodes |-> [n \in DOMAIN SelectSeq(nodes[i].ins, LAMBDA u : u = v) |-> i]])

Known(g) == DOMAIN g.inputs \cup DOMAIN g.weights \cup DOMAIN g.constants
Outs(nodes) == UNION {ToSet(nodes[i].outs) : i \in DOMAIN nodes}

\* validate: every value is defined once, before its uses.
Valid(g) ==
    /\ \A i \in DOMAIN g.nodes : LET before == SubSeq(g.nodes, 1, i - 1)
                                 IN /\ ToSet(g.nodes[i].ins) \subseteq Known(g) \cup Outs(before)
                                    /\ ToSet(g.nodes[i].outs) \cap (Known(g) \cup Outs(before)) = {}
                                    /\ IsInjective(g.nodes[i].outs)
    /\ ToSet(g.outputs) \subseteq Known(g) \cup Outs(g.nodes)
=============================================================================
