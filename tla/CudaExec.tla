------------------------------ MODULE CudaExec ------------------------------
(***************************************************************************)
(* What the CUDA runtime computes when it runs a graph                     *)
(* (cacheir/runtime/cuda.py, _execute_node and _execute_batch_node), in    *)
(* the terms of GraphExec: the fused operations multiply by one packed     *)
(* weight and split the product.                                           *)
(*                                                                         *)
(* Abstracted: which kernel, plan and type compute a product, and the      *)
(* rows of a batch (CudaSessions has the sessions).                        *)
(***************************************************************************)
EXTENDS GraphExec

\* _packed_weight: the rows of the weights, one weight under the other.
PackedRows(ws) == FlattenSeq([i \in DOMAIN ws |-> [r \in 1..ws[i].shape[1] |-> <<i, r>>]])

\* Mutant: the parts are taken to be of one size
EvenParts(rows, ws) ==
    LET n == Len(rows) \div Len(ws)
    IN [i \in DOMAIN ws |-> SubSeq(rows, (i - 1) * n + 1, i * n)]

\* torch.split: a part for each weight, as long as the weight has rows.
Parts(rows, ws) ==
    LET Before(i) == FoldLeft(LAMBDA n, w : n + w.shape[1], 0, SubSeq(ws, 1, i - 1))
    IN [i \in DOMAIN ws |-> SubSeq(rows, Before(i) + 1, Before(i) + ws[i].shape[1])]

\* The product with a part of the packed weight is the one with a weight if
\* the part is that weight's rows.
PartOf(x, ws, rows) ==
    LET same == {i \in DOMAIN ws : rows = [r \in 1..ws[i].shape[1] |-> <<i, r>>]}
    IN IF same = {} THEN <<Dense(Term("columns", <<x.term>>, rows), Append(Front(x.shape), Len(rows)))>>
       ELSE MatmulOf(x, ws[Min(same)])

\* Packed quantized weights cannot be put together, nor matrices of unequal width.
ProjectPacked(x, ws) ==
    IF \E i \in DOMAIN ws : ~IsDense(ws[i]) \/ Len(ws[i].shape) # 2 \/ ws[i].shape[2] # ws[1].shape[2] THEN <<>>
    ELSE LET parts == Parts(PackedRows(ws), ws)
         IN FlattenSeq([i \in DOMAIN ws |-> PartOf(x, ws, parts[i])])

\* _execute_node
CudaResults(node, x, mode, appends) ==
    LET Normed(F(_)) == LET n == RmsNorm(x[1], x[2], Attr(node, "eps", 6)) IN IF n = <<>> THEN <<>> ELSE F(n[1])
    IN CASE node.op = "fused_rmsnorm_qkv_rope" ->
              Normed(LAMBDA n : Rotated(ProjectPacked(n, SubSeq(x, 3, 5)), node, appends))
         [] node.op = "fused_swiglu" ->
              LET gu == ProjectPacked(x[1], SubSeq(x, 2, 3))
              IN IF Len(gu) < 2 THEN <<>> ELSE Binary("elementwise_mul", Unary("silu", gu[1])[1], gu[2])
         [] OTHER -> Results(node, x, mode, appends)

\* Mutant: the specialized prefill attention is not told from the others
DecodeMode(node) == "decode"

\* _execute_batch_node: the mode of an attention is that of its operation.
BatchMode(node) == IF node.op = "paged_attention_prefill" THEN "prefill" ELSE "decode"

CudaExecuteNode(state, node, mode, batch) ==
    IF state.ok
    THEN Advanced(state, node, CudaResults(node, Operands(state, node), IF batch THEN BatchMode(node) ELSE mode, state.appends))
    ELSE state

\* torch.as_tensor makes a tensor of every constant of a graph before the
\* first node, read or not.  It refuses the text of a StableHLO constant,
\* which np.asarray takes (the CPU runtime binds it).
BindsConstants(g) == \A v \in DOMAIN g.constants : ~g.constants[v].text

\* What run, or a batched walk, gives of a graph.
CudaMeaning(g, mode, quant, batch) ==
    LET end == FoldLeft(LAMBDA state, node : CudaExecuteNode(state, node, mode, batch),
                        [ok |-> Loads(g) /\ BindsConstants(g), env |-> Environment(g, quant), appends |-> <<>>], g.nodes)
    IN IF end.ok /\ g.outputs[1] \in DOMAIN end.env
       THEN <<[logits |-> end.env[g.outputs[1]], cached |-> end.appends]>> ELSE <<>>
=============================================================================
