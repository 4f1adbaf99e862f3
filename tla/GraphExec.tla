----------------------------- MODULE GraphExec -----------------------------
(***************************************************************************)
(* What the CPU runtime computes when it runs a graph                      *)
(* (cacheir/runtime/cpu.py, Runtime.run and _execute_node), symbolically:  *)
(* a value is a term over the weights and the inputs, with its shape, and  *)
(* a run also leaves the keys and values it appended to the KV cache.      *)
(*                                                                         *)
(* Abstracted: arithmetic (a term names the operation), which of the       *)
(* equivalent kernels computes it, and the tokens cached by earlier runs   *)
(* (a rotation says whether its own layer has appended in this run).       *)
(***************************************************************************)
EXTENDS GraphIR

Term(op, args, nums) == [op |-> op, args |-> args, nums |-> nums, name |-> ""]
Leaf(layer, name) == [op |-> "value", args |-> <<>>, nums |-> <<layer>>, name |-> name]

\* A value: its term, its shape, and whether it is a packed weight or the text of a constant.
Dense(term, shape) == [form |-> "dense", term |-> term, shape |-> shape]
IsDense(x) == x.form = "dense"

\* NumPy's broadcasting of two shapes: the set is empty when they do not fit.
Broadcast(s, t) ==
    LET n == Max({Len(s), Len(t)})
        Dim(r, i) == IF i <= n - Len(r) THEN 1 ELSE r[i - (n - Len(r))]
        Pair(i) == {Dim(s, i), Dim(t, i)}
    IN IF \E i \in 1..n : Cardinality(Pair(i) \ {1}) > 1 THEN {}
       ELSE {[i \in 1..n |-> IF Pair(i) = {1} THEN 1 ELSE CHOOSE d \in Pair(i) \ {1} : TRUE]}

\* _matmul and _quantized_matmul: x times the transpose of a matrix of any form.
MatmulOf(x, w) ==
    IF IsDense(x) /\ w.form # "text" /\ Len(w.shape) = 2 /\ x.shape # <<>> /\ Last(x.shape) = w.shape[2]
    THEN <<Dense(Term("matmul", <<x.term, w.term>>, <<>>), Append(Front(x.shape), w.shape[1]))>> ELSE <<>>

RmsNorm(x, w, eps) ==
    IF IsDense(x) /\ IsDense(w) /\ x.shape # <<>> /\ Broadcast(x.shape, w.shape) = {x.shape}
    THEN <<Dense(Term("rms_norm", <<x.term, w.term>>, <<eps>>), x.shape)>> ELSE <<>>

Binary(op, x, y) ==
    IF ~IsDense(x) \/ ~IsDense(y) THEN <<>>
    ELSE SetToSeq({Dense(Term(op, <<x.term, y.term>>, <<>>), s) : s \in Broadcast(x.shape, y.shape)})

Unary(op, x) == IF IsDense(x) THEN <<Dense(Term(op, <<x.term>>, <<>>), x.shape)>> ELSE <<>>

\* _rope after _position_offset: the offset counts what the layer has cached,
\* which includes this run's tokens when its attention has run already.
Rope(x, node, appends) ==
    LET layer == Attr(node, "layer", 0)
        late == IF \E i \in DOMAIN appends : appends[i].layer = layer THEN 1 ELSE 0
    IN IF IsDense(x) /\ Len(x.shape) = 3
       THEN <<Dense(Term("rope", <<x.term>>, <<layer, Attr(node, "head_dim", 0), Attr(node, "rope_theta", 10000), late>>),
                    x.shape)>>
       ELSE <<>>

\* q, k and v, rotated; used by the fused forms of the projection.
ProjectQKV(x, ws) == FlattenSeq([i \in DOMAIN ws |-> MatmulOf(x, ws[i])])
Rotated(qkv, node, appends) ==
    IF Len(qkv) < 3 THEN <<>> ELSE Rope(qkv[1], node, appends) \o Rope(qkv[2], node, appends) \o <<qkv[3]>>

Attentions == {"grouped_query_attention", "paged_attention_prefill", "paged_attention_decode"}

Attend(x, node, mode) ==
    LET nums == <<Attr(node, "layer", 0), Attr(node, "num_heads", 0), Attr(node, "num_kv_heads", 0),
                  Attr(node, "head_dim", 0)>>
    IN IF \A i \in 1..3 : IsDense(x[i]) /\ Len(x[i].shape) = 3
       THEN <<Dense(Term(mode, <<x[1].term, x[2].term, x[3].term>>, nums), x[1].shape)>> ELSE <<>>

\* _execute_node; an operation the runtime does not implement, or operands it
\* cannot combine, give fewer outputs than the node has: the run raises.
Results(node, x, mode, appends) ==
    LET eps == Attr(node, "eps", 6)
        Bind(r, F(_)) == IF r = <<>> THEN <<>> ELSE F(r[1])
    IN CASE node.op = "token_embedding" ->
              IF IsDense(x[2]) /\ Len(x[2].shape) = 2
              THEN <<Dense(Term("embed", <<x[1].term, x[2].term>>, <<>>), Append(x[1].shape, x[2].shape[2]))>> ELSE <<>>
         [] node.op = "rms_norm" -> RmsNorm(x[1], x[2], eps)
         [] node.op \in {"matmul", "quantized_matmul"} -> MatmulOf(x[1], x[2])
         [] node.op = "qkv_projection" -> ProjectQKV(x[1], Tail(x))
         [] node.op \in {"fused_rmsnorm_qkv_rope", "quantized_fused_rmsnorm_qkv_rope"} ->
              Bind(RmsNorm(x[1], x[2], eps), LAMBDA n : Rotated(ProjectQKV(n, SubSeq(x, 3, 5)), node, appends))
         [] node.op = "rope" -> Rope(x[1], node, appends) \o Rope(x[2], node, appends)
         [] node.op \in Attentions -> Attend(x, node, mode)
         [] node.op \in {"add", "elementwise_mul"} -> Binary(node.op, x[1], x[2])
         [] node.op \in {"silu", "sigmoid", "softmax"} -> Unary(node.op, x[1])
         [] node.op \in {"fused_swiglu", "quantized_fused_swiglu"} ->
              Bind(MatmulOf(x[1], x[2]), LAMBDA gate : Bind(MatmulOf(x[1], x[3]), LAMBDA up :
                  Bind(Unary("silu", gate), LAMBDA act : Binary("elementwise_mul", act, up))))
         [] OTHER -> <<>>

------------------------------------------------------------------------------
(* run *)

\* _quantized_weight_inputs
QuantizedInputs(nodes) ==
    UNION {CASE nodes[i].op = "quantized_matmul" -> ToSet(SubSeq(nodes[i].ins, 2, 2))
             [] nodes[i].op = "quantized_fused_rmsnorm_qkv_rope" -> ToSet(SubSeq(nodes[i].ins, 3, 5))
             [] nodes[i].op = "quantized_fused_swiglu" -> ToSet(SubSeq(nodes[i].ins, 2, 3))
             [] OTHER -> {} : i \in DOMAIN nodes}

\* WeightStore: a matrix of a quantized artifact is packed, and dequantized for
\* a node that does not take it packed.
LoadWeight(g, v, quant) ==
    LET key == g.weights[v].key
        shape == g.values[v].shape
        dense == Leaf(key.layer, key.name)
        stored == IF quant # "none" /\ Len(shape) = 2 THEN Term("dequantized", <<dense>>, <<>>) ELSE dense
    IN [form |-> IF v \in QuantizedInputs(g.nodes) THEN "packed" ELSE "dense", term |-> stored, shape |-> shape]

\* What a walk begins with.  The runtimes give a graph the input input_ids
\* and the weights their store reads, which are not those of an .onnx file; a
\* graph with other inputs or weights means what it computes once it has them.
Environment(g, quant) ==
    [v \in DOMAIN g.weights |-> LoadWeight(g, v, quant)]
    @@ [v \in DOMAIN g.constants |-> [form |-> IF g.constants[v].text THEN "text" ELSE "dense",
                                      term |-> Leaf(-1, "constant"), shape |-> <<>>]]
    @@ [v \in DOMAIN g.inputs |-> Dense(Leaf(v[1], v[2]), g.inputs[v].shape)]

\* A packed weight that is no matrix cannot be loaded (get_quantized raises).
Loads(g) == \A v \in QuantizedInputs(g.nodes) \cap DOMAIN g.weights : Len(g.values[v].shape) = 2

Operands(state, node) == [i \in DOMAIN node.ins |-> state.env[node.ins[i]]]

\* A node's results become its outputs, and an attention appends to the cache.
Advanced(state, node, out) ==
    LET x == Operands(state, node)
        appended == IF node.op \in Attentions
                    THEN <<[layer |-> Attr(node, "layer", 0), k |-> x[2].term, v |-> x[3].term]>> ELSE <<>>
    IN IF ~state.ok \/ Len(out) # Len(node.outs) THEN [state EXCEPT !.ok = FALSE]
       ELSE [state EXCEPT !.env = [v \in ToSet(node.outs) |-> out[CHOOSE i \in DOMAIN out : node.outs[i] = v]] @@ @,
                          !.appends = @ \o appended]

ExecuteNode(state, node, mode) ==
    IF state.ok THEN Advanced(state, node, Results(node, Operands(state, node), mode, state.appends)) ELSE state

\* The state after a run of a graph.
Executed(g, mode, quant) ==
    FoldLeft(LAMBDA state, node : ExecuteNode(state, node, mode),
             [ok |-> Loads(g), env |-> Environment(g, quant), appends |-> <<>>], g.nodes)

\* What a run gives: the first output and the keys and values it cached.
Meaning(g, mode, quant) ==
    LET end == Executed(g, mode, quant)
    IN IF end.ok /\ g.outputs[1] \in DOMAIN end.env
       THEN <<[logits |-> end.env[g.outputs[1]], cached |-> end.appends]>> ELSE <<>>
=============================================================================
