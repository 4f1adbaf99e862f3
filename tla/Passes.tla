------------------------------- MODULE Passes -------------------------------
(***************************************************************************)
(* The compiler passes (cacheir/passes/transformer.py), each a function of *)
(* a graph and a context, in the order of _pipeline; MemoryPlanning's      *)
(* allocator is in MemoryPlan.                                             *)
(*                                                                         *)
(* Abstracted: remarks and traces; attributes that neither a later pass    *)
(* nor the runtime reads (layouts of activations, cost classes of fused    *)
(* operations); the numbers of the schedule's cost estimates.              *)
(***************************************************************************)
EXTENDS GraphIR

\* CompilerContext.symbols
Symbols(ctx) == Batch :> ctx.max_batch @@ CacheSeq :> ctx.max_seq
                @@ SeqDim :> (IF ctx.mode = "decode" THEN 1 ELSE ctx.max_seq)

Elementwise == {"add", "elementwise_mul", "silu", "sigmoid", "softmax"}
Foldable == {"add", "elementwise_mul", "silu", "sigmoid"}
Attention == {"grouped_query_attention", "paged_attention_prefill", "paged_attention_decode"}
FusedQKV == {"fused_rmsnorm_qkv_rope", "quantized_fused_rmsnorm_qkv_rope"}
FusedMLP == {"fused_swiglu", "quantized_fused_swiglu"}
Matmul == {"matmul", "quantized_matmul"}

------------------------------------------------------------------------------
(* ShapeInference *)

\* Mutant: the features a weight takes in
ProjectedIn(x, w, layout) == [shape |-> Append(Front(x.shape), Last(w.shape)), dtype |-> x.dtype, layout |-> layout]

\* x's leading dimensions and a weight's output features.
Projected(x, w, layout) == [shape |-> Append(Front(x.shape), w.shape[1]), dtype |-> x.dtype, layout |-> layout]

\* A sequence of optional types, one for each output that can be inferred.
InferNode(values, node) ==
    LET In(i) == Lookup(values, node.ins[i])
        Weights(from) == [i \in 1..3 |-> In(from + i - 1)]
        Each(x, ws) == [i \in DOMAIN ws |-> {Projected(t, w, "row_major") : t \in x, w \in ws[i]}]
        Typed(ws) == \A i \in DOMAIN ws : ws[i] # {}
    IN CASE node.op = "token_embedding" ->
              <<{TensorType(Append(ids.shape, emb.shape[2]), emb.dtype) : ids \in In(1),
                 emb \in {t \in In(2) : Len(t.shape) = 2}}>>
         [] node.op \in {"rms_norm"} \cup Attention \cup Elementwise -> <<In(1)>>
         [] node.op \in Matmul -> <<{Projected(x, w, x.layout) : x \in In(1), w \in {t \in In(2) : Len(t.shape) = 2}}>>
         [] node.op = "qkv_projection" -> IF Typed(Weights(2)) THEN Each(In(1), Weights(2)) ELSE <<>>
         [] node.op \in FusedQKV -> IF Typed(Weights(3)) THEN Each(In(1), Weights(3)) ELSE <<>>
         [] node.op = "rope" -> <<In(1), In(2)>>
         [] node.op \in FusedMLP -> Each(In(1), <<In(2)>>)
         [] OTHER -> <<>>

\* Node after node, so that a type inferred is there for those that follow.
ShapeInference(g, ctx) ==
    LET Infer(values, node) ==
            LET types == InferNode(values, node)
                typed == {i \in DOMAIN types \cap DOMAIN node.outs : types[i] # {}}
            IN [v \in {node.outs[i] : i \in typed} |->
                   CHOOSE t \in types[CHOOSE i \in typed : node.outs[i] = v] : TRUE] @@ values
    IN [g EXCEPT !.values = FoldLeft(Infer, g.values, g.nodes)]

------------------------------------------------------------------------------
(* ConstantFolding *)

\* An imported constant is a literal; the folded one has the shape of what
\* NumPy makes of the literals, whatever type the graph declares: a scalar.
FoldsConstants(constants, node) ==
    node.op \in Foldable /\ \A i \in DOMAIN node.ins : node.ins[i] \in DOMAIN constants
FoldedValue(constants, node) ==
    [text |-> FALSE, splat |-> TRUE, name |-> node.outs[1], op |-> node.op,
     args |-> [i \in DOMAIN node.ins |-> constants[node.ins[i]]]]

ConstantFolding(g, ctx) ==
    LET Fold(h, node) ==
            IF FoldsConstants(h.constants, node)
            THEN AddConstant(h, node.outs[1], FoldedValue(h.constants, node), TensorType(<<>>, "float32"))
            ELSE [h EXCEPT !.nodes = Append(@, node)]
    IN FoldLeft(Fold, [g EXCEPT !.nodes = <<>>], g.nodes)

\* A literal that is a list does not convert to a number: the pass raises.
Unfoldable(g, ctx) ==
    LET constants == ConstantFolding(g, ctx).constants
    IN \E i \in DOMAIN g.nodes : /\ FoldsConstants(constants, g.nodes[i])
                                  /\ \E j \in DOMAIN g.nodes[i].ins : ~constants[g.nodes[i].ins[j]].splat

------------------------------------------------------------------------------
(* Fusions: a set of [at, doomed, fused], where the nodes at the doomed     *)
(* positions go and the fused node enters before position at.               *)

Fused(at, nodes, fused) == [at |-> at, doomed |-> nodes, fused |-> fused]

Rewrite(g, fusions) ==
    LET Entering(i) == SetToSeq({f.fused : f \in {x \in fusions : x.at = i}})
        Kept(i) == IF \E f \in fusions : i \in f.doomed THEN <<>> ELSE <<g.nodes[i]>>
    IN [g EXCEPT !.nodes = FlattenSeq([i \in DOMAIN g.nodes |-> Entering(i) \o Kept(i)])]

\* QKVProjectionFusion groups by layer and input; the last projection of a
\* kind stands for its group, and nodes are removed by name.
QKVGroup(nodes, layer, hidden) ==
    [p \in {"q", "k", "v"} |->
        {i \in DOMAIN nodes : /\ nodes[i].op = "matmul" /\ Attr(nodes[i], "projection", "none") = p
                              /\ Attr(nodes[i], "layer", -1) = layer /\ nodes[i].ins[1] = hidden}]

Projections(nodes, layer, hidden) ==
    [p \in {"q", "k", "v"} |-> nodes[Max(QKVGroup(nodes, layer, hidden)[p])]]

\* Mutant: keys and values in the wrong order
FusedOutsSwapped(part) == <<part["q"].outs[1], part["v"].outs[1], part["k"].outs[1]>>

\* Mutant: the lists of names nested, where they should be joined.
FusedOutsNested(part) == <<part["q"].outs, part["k"].outs, part["v"].outs>>

FusedOuts(part) == <<part["q"].outs[1], part["k"].outs[1], part["v"].outs[1]>>

QKVFusion(nodes, layer, hidden) ==
    LET group == QKVGroup(nodes, layer, hidden)
        part == Projections(nodes, layer, hidden)
    IN Fused(Min({Max(group[p]) : p \in DOMAIN group}),
             {i \in DOMAIN nodes : \E p \in DOMAIN part : nodes[i].name = part[p].name},
             Node("qkv_projection", <<hidden, part["q"].ins[2], part["k"].ins[2], part["v"].ins[2]>>,
                  FusedOuts(part), [layer |-> layer], <<layer, "qkv_proj">>))

QKVProjectionFusion(g, ctx) ==
    LET keys == {<<Attr(g.nodes[i], "layer", -1), g.nodes[i].ins[1]>> :
                    i \in {j \in DOMAIN g.nodes : Attr(g.nodes[j], "projection", "none") \in {"q", "k", "v"}}}
        complete == {k \in keys : \A p \in {"q", "k", "v"} : QKVGroup(g.nodes, k[1], k[2])[p] # {}}
    IN Rewrite(g, {QKVFusion(g.nodes, k[1], k[2]) : k \in complete})

\* A norm read by the projection alone, and the first rope that reads its q
\* and k, which nothing else reads.
NormQKVRope(nodes) ==
    LET ReadBy(v) == Consumers(nodes, v)
        Norms(qkv) == {i \in Producer(nodes, qkv.ins[1]) : nodes[i].op = "rms_norm"}
        Ropes(qkv) == SelectSeq(ReadBy(qkv.outs[1]), LAMBDA i :
                          nodes[i].op = "rope" /\ SubSeq(nodes[i].ins, 1, 2) = SubSeq(qkv.outs, 1, 2))
        Private(qkv) == /\ Len(ReadBy(qkv.ins[1])) = 1
                        /\ ToSet(ReadBy(qkv.outs[1]) \o ReadBy(qkv.outs[2])) = {Head(Ropes(qkv))}
    IN UNION {Norms(nodes[i]) \X {i} \X {Head(Ropes(nodes[i]))} :
                 i \in {j \in DOMAIN nodes : /\ nodes[j].op = "qkv_projection"
                                             /\ Ropes(nodes[j]) # <<>> /\ Private(nodes[j])}}

RMSNormQKVRoPEFusion(g, ctx) ==
    LET Fuse(norm, qkv, rope, layer) ==
            Node("fused_rmsnorm_qkv_rope",
                 <<norm.ins[1], norm.ins[2], qkv.ins[2], qkv.ins[3], qkv.ins[4]>>,
                 <<rope.outs[1], rope.outs[2], qkv.outs[3]>>,
                 [layer |-> layer, eps |-> Attr(norm, "eps", 6), head_dim |-> Attr(rope, "head_dim", 0),
                  rope_theta |-> Attr(rope, "rope_theta", 10000)],
                 <<layer, "fused_rmsnorm_qkv_rope">>)
    IN Rewrite(g, {Fused(Min({t[1], t[2], t[3]}), {t[1], t[2], t[3]},
                         Fuse(g.nodes[t[1]], g.nodes[t[2]], g.nodes[t[3]], Attr(g.nodes[t[2]], "layer", -1))) :
                      t \in NormQKVRope(g.nodes)})

\* silu(gate(x)) * up(x), on either side of the product; gate and silu are read once.
SwiGLU(nodes) ==
    LET Silu(v) == {i \in Producer(nodes, v) : nodes[i].op = "silu"}
        Sides(mul) == IF Silu(mul.ins[1]) # {} THEN mul.ins ELSE <<mul.ins[2], mul.ins[1]>>
        Gates(mul) == UNION {Producer(nodes, nodes[i].ins[1]) : i \in Silu(Sides(mul)[1])}
        Match(i) == Gates(nodes[i]) \X Producer(nodes, Sides(nodes[i])[2]) \X Silu(Sides(nodes[i])[1]) \X {i}
    IN {t \in UNION {Match(i) : i \in {j \in DOMAIN nodes : nodes[j].op = "elementwise_mul"}} :
           LET gate == nodes[t[1]]  up == nodes[t[2]]  silu == nodes[t[3]]
           IN /\ gate.op = "matmul" /\ Attr(gate, "projection", "none") = "gate"
              /\ up.op = "matmul" /\ Attr(up, "projection", "none") = "up"
              /\ gate.ins[1] = up.ins[1]
              /\ Len(Consumers(nodes, gate.outs[1])) = 1
              /\ Len(Consumers(nodes, silu.outs[1])) = 1}

SwiGLUFusion(g, ctx) ==
    LET Fuse(gate, up, mul) ==
            LET layer == Attr(gate, "layer", Attr(up, "layer", -1))
            IN Node("fused_swiglu", <<gate.ins[1], gate.ins[2], up.ins[2]>>, mul.outs,
                    [layer |-> layer], <<layer, "fused_swiglu">>)
    IN Rewrite(g, {Fused(Min(ToSet(t)), ToSet(t), Fuse(g.nodes[t[1]], g.nodes[t[2]], g.nodes[t[4]])) :
                      t \in SwiGLU(g.nodes)})

------------------------------------------------------------------------------
(* Lowering *)

Map(g, F(_)) == [g EXCEPT !.nodes = [i \in DOMAIN @ |-> F(@[i])]]

PrefillDecodeSpecialization(g, ctx) ==
    LET Specialize(node) ==
            IF node.op # "grouped_query_attention" THEN node
            ELSE [node EXCEPT !.op = IF ctx.mode = "decode" THEN "paged_attention_decode" ELSE "paged_attention_prefill"]
    IN [Map(g, Specialize) EXCEPT !.mode = ctx.mode, !.target = ctx.target]

LayoutConversion(g, ctx) ==
    LET layout == IF ctx.target = "cpu" THEN "row_major_out_in" ELSE "tensorcore_interleaved"
        Convert(node) == IF node.op \notin Matmul \cup FusedQKV \cup FusedMLP \cup {"qkv_projection"} THEN node
                         ELSE With(node, [weight_layout |-> layout])
    IN Map(g, Convert)

\* A projection that was not fused with its norm and rope keeps its dense form.
QuantizationAwareLowering(g, ctx) ==
    LET lowered == [matmul |-> "quantized_matmul", fused_swiglu |-> "quantized_fused_swiglu",
                    fused_rmsnorm_qkv_rope |-> "quantized_fused_rmsnorm_qkv_rope"]
        Lower(node) == IF node.op \notin DOMAIN lowered THEN node
                       ELSE With([node EXCEPT !.op = lowered[@]], [quant |-> ctx.quant])
    IN IF ctx.quant = "none" THEN g ELSE Map(g, Lower)

Needed(needed, node) == needed \cup ToSet(node.ins)

\* From the last node to the first; no importer marks a side effect.
DeadNodeElimination(g, ctx) ==
    LET Keep(node, acc) ==
            IF ToSet(node.outs) \cap acc.needed = {} THEN acc
            ELSE [needed |-> Needed(acc.needed, node), kept |-> <<node>> \o acc.kept]
    IN [g EXCEPT !.nodes = FoldRight(Keep, @, [needed |-> ToSet(g.outputs), kept |-> <<>>]).kept]

\* gpus: the memory of each device, -1 when it is not known.
IsLowVram(gpus) ==
    LET known == {m \in ToSet(gpus) : m >= 0} IN known # {} /\ Max(known) < 8192

HardwareAdaptivePlanning(g, ctx) ==
    LET wide == IF ctx.target \in {"cuda", "triton"} /\ ctx.gpus # <<>> THEN 32 ELSE 16
        hints == [page_size |-> IF ctx.mode = "decode" THEN Min({wide, 16}) ELSE wide,
                  low_vram_mode |-> IsLowVram(ctx.gpus)]
        Cost(node) == CASE node.op \in Matmul -> "compute_bound"
                        [] node.op = "paged_attention_decode" -> "kv_bandwidth_bound"
                        [] node.op = "paged_attention_prefill" -> "mixed_attention"
                        [] OTHER -> Attr(node, "cost_class", "elementwise_or_fused")
        Plan(node) == LET costed == With(node, [cost_class |-> Cost(node)])
                      IN IF node.op \in Attention \ {"grouped_query_attention"} THEN With(costed, hints) ELSE costed
    IN [Map(g, Plan) EXCEPT !.attrs = Updated(@, [execution_hints |-> hints])]

\* A kernel is the operation it implements, on the back end of the target.
KernelSelection(g, ctx) ==
    LET prefix == IF ctx.target \in {"cuda", "triton"} THEN "triton" ELSE "cpu"
        Select(node) == With(node, [kernel |-> <<prefix, node.op>>])
    IN Map(g, Select)

------------------------------------------------------------------------------
(* Plans *)

EstimatedBytes(g, node, ctx) ==
    FoldLeft(LAMBDA n, v : n + SumSet(UNION {Bytes(t, Symbols(ctx)) : t \in Lookup(g.values, v)}), 0, node.ins \o node.outs)

\* A fused MLP counts for nothing.
EstimatedFlops(g, node, ctx) ==
    LET x == g.values[node.ins[1]]
        Size(d) == IF d > 0 THEN d ELSE Get(Symbols(ctx), d, 1)
        weights == CASE node.op = "qkv_projection" -> Tail(node.ins)
                     [] node.op \in FusedQKV -> SubSeq(node.ins, 3, Len(node.ins))
                     [] OTHER -> SubSeq(node.ins, 2, 2)
        Out(v) == SumSet({t.shape[1] : t \in {u \in Lookup(g.values, v) : Len(u.shape) = 2 /\ u.shape[1] > 0}})
    IN IF \/ node.op \notin Matmul \cup FusedQKV \cup {"qkv_projection"}
          \/ Lookup(g.values, node.ins[1]) = {} \/ Len(x.shape) < 2 THEN 0
       ELSE 2 * FoldLeft(LAMBDA n, d : n * Size(d), 1, x.shape) * FoldLeft(LAMBDA n, v : n + Out(v), 0, weights)

ExecutionPlanning(g, ctx) ==
    LET Entry(i) == [step |-> i, op |-> g.nodes[i].op, kernel |-> Attr(g.nodes[i], "kernel", <<"none", "unassigned">>),
                     ins |-> g.nodes[i].ins, outs |-> g.nodes[i].outs,
                     bytes |-> EstimatedBytes(g, g.nodes[i], ctx), flops |-> EstimatedFlops(g, g.nodes[i], ctx)]
    IN [g EXCEPT !.attrs = Updated(@, [execution_schedule |-> [i \in DOMAIN g.nodes |-> Entry(i)]]),
                 !.nodes = [i \in DOMAIN @ |-> With(@[i], [schedule_index |-> i])]]

\* Mutant: a value with several readers is given up after the first
LastUseFirst(g, v) ==
    LET reads == {i \in DOMAIN g.nodes : Contains(g.nodes[i].ins, v)}
    IN IF reads = {} THEN Max(Producer(g.nodes, v)) ELSE Min(reads)

LastUse(g, v) == Max({i \in DOMAIN g.nodes : Contains(g.nodes[i].ins \o g.nodes[i].outs, v)})

\* MemoryPlanning: the values that get a buffer, by the node that produces
\* them (the last one), until the last node that reads them.
SizeOf(g, ctx, v) == (UNION {Bytes(t, Symbols(ctx)) : t \in Lookup(g.values, v)}) \ {0}
Planned(g, ctx, i, v) == i \in Producer(g.nodes, v) /\ ~Contains(g.outputs, v) /\ SizeOf(g, ctx, v) # {}
PlanEvent(g, ctx, i, v) == [value |-> v, start |-> i, end |-> LastUse(g, v),
                            size |-> CHOOSE n \in SizeOf(g, ctx, v) : TRUE]
NodeEvents(g, ctx, i) ==
    LET outs == g.nodes[i].outs
    IN FlattenSeq([k \in DOMAIN outs |-> IF Planned(g, ctx, i, outs[k]) THEN <<PlanEvent(g, ctx, i, outs[k])>> ELSE <<>>])
PlanEvents(g, ctx) == FlattenSeq([i \in DOMAIN g.nodes |-> NodeEvents(g, ctx, i)])
=============================================================================
