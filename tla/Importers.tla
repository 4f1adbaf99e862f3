----------------------------- MODULE Importers -----------------------------
(***************************************************************************)
(* The importers (cacheir/importers, cacheir/compiler.py): a model on disk *)
(* becomes a logical graph.  Hugging Face and GGUF models give a decoder   *)
(* of any number of layers; ONNX and StableHLO give the graph they state.  *)
(*                                                                         *)
(* Abstracted: JSON, protobuf and regular expressions (a file is given by  *)
(* what they match in it) and the text of keys (a weight's key is its      *)
(* layer, its Hugging Face name and the format that spells it).            *)
(***************************************************************************)
EXTENDS GraphIR

Global(name) == <<-1, name>>
Key(layer, name) == [layer |-> layer, name |-> name, format |-> "hf"]

------------------------------------------------------------------------------
(* Configurations *)

\* The first of the keys that the dictionary has.
FirstOf(data, keys, default) ==
    LET present == SelectSeq(keys, LAMBDA key : key \in DOMAIN data)
    IN IF present = <<>> THEN default ELSE data[Head(present)]

\* ModelConfig.from_dict; a saved config goes through it as well, and keeps
\* its quantization under a name that is not read.
FromDict(data) ==
    LET heads == FirstOf(data, <<"num_attention_heads", "n_head">>, 0)
    IN [hidden_size |-> data.hidden_size,
        intermediate_size |-> FirstOf(data, <<"intermediate_size", "ffn_hidden_size">>, 4 * data.hidden_size),
        num_layers |-> FirstOf(data, <<"num_layers", "num_hidden_layers", "n_layer">>, 0),
        num_attention_heads |-> heads,
        num_key_value_heads |-> FirstOf(data, <<"num_key_value_heads">>, heads),
        vocab_size |-> data.vocab_size,
        rope_theta |-> FirstOf(data, <<"rope_theta", "rope_freq_base">>, 10000),
        rms_norm_eps |-> FirstOf(data, <<"rms_norm_eps", "layer_norm_epsilon">>, 6),
        dtype |-> FirstOf(data, <<"torch_dtype", "dtype">>, "float32"),
        tie_word_embeddings |-> Get(data, "tie_word_embeddings", FALSE),
        quantization |-> Get(data, "quantization_config", "none")]

\* _config_from_gguf: the architecture's key, or llama's.  Nothing says that
\* the embeddings are tied.
ConfigFromGGUF(meta) ==
    LET Meta(name, default) == Get(meta, <<meta[<<"general", "architecture">>], name>>,
                                   Get(meta, <<"llama", name>>, default))
        hidden == Meta("embedding_length", 1)
        heads == Meta("head_count", 1)
    IN [hidden_size |-> hidden, intermediate_size |-> Meta("feed_forward_length", 4 * hidden),
        num_layers |-> Meta("block_count", 0), num_attention_heads |-> heads,
        num_key_value_heads |-> Meta("head_count_kv", heads),
        vocab_size |-> Meta("vocab_size", Max({1, Get(meta, <<"tokenizer", "tokens">>, 0)})),
        rope_theta |-> Meta("freq_base", 10000), rms_norm_eps |-> Meta("layer_norm_rms_epsilon", 6),
        dtype |-> "float16", tie_word_embeddings |-> FALSE, quantization |-> "gguf"]

HeadDim(config) == config.hidden_size \div config.num_attention_heads
KvDim(config) == config.num_key_value_heads * HeadDim(config)

\* discover_weight_shapes: NPZ files hide safetensors, an index hides shards it does not name.
Discover(dir) ==
    LET shards == IF dir.index = {} THEN dir.safetensors
                  ELSE SelectSeq(dir.safetensors, LAMBDA f : f.name \in dir.index)
        found == IF dir.npz # <<>> THEN dir.npz ELSE shards
        Later(old, f) == [shapes |-> f.tensors @@ old.shapes,
                          files |-> [k \in DOMAIN f.tensors |-> f.name] @@ old.files]
    IN FoldLeft(Later, [shapes |-> NoFunction, files |-> NoFunction], found)

------------------------------------------------------------------------------
(* Decoders *)

\* _gguf_key_map renames every key of a decoder; other formats have no map.
Renamed(key, gguf) == IF gguf THEN [key EXCEPT !.format = "gguf"] ELSE key
LogicalShape(shape) == IF Len(shape) > 1 THEN Reverse(shape) ELSE shape

AddDecoderWeight(g, w, dtype, found, gguf) ==
    LET actual == Renamed(w.key, gguf)
        shape == Get(found.shapes, actual, Get(found.shapes, w.key, w.shape))
    IN AddWeight(g, w.value, TensorType(shape, dtype),
                 [key |-> actual, file |-> Get(found.files, actual, Get(found.files, w.key, "none"))])

Weight(value, key, shape) == [value |-> value, key |-> key, shape |-> shape]

LayerWeights(config, l) ==
    LET h == config.hidden_size
        i == config.intermediate_size
        kv == KvDim(config)
        W(name, shape) == Weight(<<l, name>>, Key(l, name), shape)
    IN <<W("attn_norm_w", <<h>>), W("q_w", <<h, h>>), W("k_w", <<kv, h>>), W("v_w", <<kv, h>>), W("o_w", <<h, h>>),
         W("mlp_norm_w", <<h>>), W("gate_w", <<i, h>>), W("up_w", <<i, h>>), W("down_w", <<h, i>>)>>

DecoderWeights(config) ==
    LET table == <<config.vocab_size, config.hidden_size>>
        tied == IF config.tie_word_embeddings THEN "embed_tokens" ELSE "lm_head"
    IN <<Weight(Global("tok_embeddings"), Key(-1, "embed_tokens"), table),
         Weight(Global("final_norm_w"), Key(-1, "norm"), <<config.hidden_size>>),
         Weight(Global("lm_head_w"), Key(-1, tied), table)>>
       \o FlattenSeq([n \in 1..config.num_layers |-> LayerWeights(config, n - 1)])

HiddenOf(l) == IF l = 0 THEN Global("hidden_0") ELSE <<l - 1, "post_mlp">>

LayerNodes(config, l) ==
    LET V(name) == <<l, name>>
        Op(op, ins, out, attrs) == Node(op, ins, <<V(out)>>, [layer |-> l] @@ attrs, V(out))
        Projected(x, p, out) == Op("matmul", <<V(x), V(p \o "_w")>>, out, [projection |-> p])
        Norm(x, n) == Op("rms_norm", <<x, V(n \o "_w")>>, n, [eps |-> config.rms_norm_eps])
    IN <<Norm(HiddenOf(l), "attn_norm"),
         Projected("attn_norm", "q", "q"), Projected("attn_norm", "k", "k"), Projected("attn_norm", "v", "v"),
         Node("rope", <<V("q"), V("k")>>, <<V("q_rope"), V("k_rope")>>,
              [layer |-> l, head_dim |-> HeadDim(config), rope_theta |-> config.rope_theta], V("rope")),
         Op("grouped_query_attention", <<V("q_rope"), V("k_rope"), V("v")>>, "attn",
            [num_heads |-> config.num_attention_heads, num_kv_heads |-> config.num_key_value_heads,
             head_dim |-> HeadDim(config)]),
         Projected("attn", "o", "attn_out"),
         Op("add", <<HiddenOf(l), V("attn_out")>>, "post_attn", NoAttrs),
         Norm(V("post_attn"), "mlp_norm"),
         Projected("mlp_norm", "gate", "gate"), Projected("mlp_norm", "up", "up"),
         Op("silu", <<V("gate")>>, "gate_act", NoAttrs),
         Op("elementwise_mul", <<V("gate_act"), V("up")>>, "gated", NoAttrs),
         Projected("gated", "down", "down"),
         Op("add", <<V("post_attn"), V("down")>>, "post_mlp", NoAttrs)>>

DecoderNodes(config) ==
    <<Node("token_embedding", <<Global("input_ids"), Global("tok_embeddings")>>, <<Global("hidden_0")>>,
           NoAttrs, Global("embed"))>>
    \o FlattenSeq([n \in 1..config.num_layers |-> LayerNodes(config, n - 1)])
    \o <<Node("rms_norm", <<HiddenOf(config.num_layers), Global("final_norm_w")>>, <<Global("final_hidden")>>,
              [eps |-> config.rms_norm_eps], Global("final_norm")),
         Node("matmul", <<Global("final_hidden"), Global("lm_head_w")>>, <<Global("logits")>>,
              [projection |-> "lm_head"], Global("lm_head"))>>

DecoderGraph(config, found, gguf) ==
    LET Add(g, w) == AddDecoderWeight(g, w, config.dtype, found, gguf)
        start == AddInput(EmptyGraph, Global("input_ids"), TensorType(<<Batch, SeqDim>>, "int64"))
    IN [FoldLeft(Add, start, DecoderWeights(config)) EXCEPT
           !.nodes = DecoderNodes(config), !.outputs = <<Global("logits")>>]

ImportHF(model) == DecoderGraph(FromDict(model.config), Discover(model.dir), FALSE)

\* The files of a GGUF model are not named: the weights are read from the model's path.
ImportGGUF(model) ==
    DecoderGraph(ConfigFromGGUF(model.meta),
                 [shapes |-> [k \in DOMAIN model.tensors |-> LogicalShape(model.tensors[k])], files |-> NoFunction],
                 TRUE)

------------------------------------------------------------------------------
(* ONNX *)

OnnxOps == [MatMul |-> "matmul", Gemm |-> "matmul", Add |-> "add", Mul |-> "elementwise_mul",
            Softmax |-> "softmax", Sigmoid |-> "sigmoid", Silu |-> "silu"]
OnnxType(elem, dims) ==
    TensorType([i \in DOMAIN dims |-> IF dims[i] = 0 THEN Unknown ELSE dims[i]],
               Get(1 :> "float32" @@ 7 :> "int64" @@ 10 :> "float16" @@ 16 :> "bfloat16", elem, "float32"))

ImportOnnx(model) ==
    LET initial == {model.initializers[i].name : i \in DOMAIN model.initializers}
        Input(g, v) == AddInput(g, v.name, OnnxType(v.elem, v.dims))
        Initializer(g, v) == AddWeight(g, v.name, OnnxType(v.elem, v.dims), [key |-> Key(-1, v.name[2]), file |-> "none"])
        Add(g, n) == AddNode(g, Node(Get(OnnxOps, n.type, n.type), n.ins, n.outs, n.attrs, n.name), <<>>)
        inputs == SelectSeq(model.inputs, LAMBDA v : v.name \notin initial)
        declared == FoldLeft(Initializer, FoldLeft(Input, EmptyGraph, inputs), model.initializers)
    IN [FoldLeft(Add, declared, model.nodes) EXCEPT !.outputs = model.outputs]

------------------------------------------------------------------------------
(* StableHLO, one line after another *)

\* A line: what it is ("return", "constant", "op" or "other"), the operation,
\* the values left and right of the equals sign, the tensor types written on
\* it, its braces (opened less closed) and whether it opens a region.
HloOps == [abs |-> "abs", dot_general |-> "matmul", dot |-> "matmul", add |-> "add", broadcast_in_dim |-> "broadcast",
           concatenate |-> "concat", clamp |-> "clamp", compare |-> "compare", convert |-> "cast",
           dynamic_slice |-> "dynamic_slice", negate |-> "negate", multiply |-> "elementwise_mul",
           maximum |-> "maximum", minimum |-> "minimum", exponential |-> "exp", divide |-> "divide", log |-> "log",
           power |-> "pow", reduce |-> "reduce", reshape |-> "reshape", rsqrt |-> "rsqrt", select |-> "select",
           and |-> "logical_and", or |-> "logical_or", slice |-> "slice", sqrt |-> "sqrt", subtract |-> "subtract",
           tanh |-> "tanh", transpose |-> "transpose", logistic |-> "sigmoid"]
DefaultType == TensorType(<<Batch, SeqDim, Hidden>>, "float32")

FirstKnownType(g, names) ==
    LET known == SelectSeq(names, LAMBDA v : v \in DOMAIN g.values)
    IN IF known = <<>> THEN DefaultType ELSE g.values[Head(known)]

\* An operand nobody defined becomes an input of the graph.
DeclareInputs(g, names) ==
    FoldLeft(LAMBDA h, v : IF v \in DOMAIN h.values THEN h ELSE AddInput(h, v, FirstKnownType(h, names)), g, names)

\* _region_window: from a line to the brace that closes it, at most 16 lines.
Window(lines, i) ==
    LET last == Min({Len(lines), i + 15})
        Depth(j) == FoldLeft(LAMBDA n, line : n + line.braces, 0, SubSeq(lines, i, j))
        closing == {j \in i..last : lines[j].closes /\ Depth(j) <= 0}
    IN SubSeq(lines, i, IF closing = {} THEN last ELSE Min(closing))

\* _result_types: the last of the types written there, one for each output.
ResultTypes(types, n) ==
    IF types = <<>> THEN <<>>
    ELSE [k \in 1..n |-> IF Len(types) >= n THEN types[Len(types) - n + k] ELSE Last(types)]

HloOperation(g, lines, i) ==
    LET line == lines[i]
        ins == SelectSeq(line.ins, LAMBDA v : ~Contains(line.outs, v))
        h == DeclareInputs(g, ins)
        written == IF line.op = "reduce" THEN FlattenSeq([j \in DOMAIN Window(lines, i) |-> Window(lines, i)[j].types])
                   ELSE line.types
        found == ResultTypes(written, Len(line.outs))
        types == IF found = <<>> THEN [k \in DOMAIN line.outs |-> FirstKnownType(h, ins)] ELSE found
    IN AddNode(h, Node(HloOps[line.op], ins, line.outs, NoAttrs, <<i, line.op>>), types)

\* One pass of the loop.  An operation that HloOps does not name is skipped,
\* and so its region, if it has one, is read as if it were not nested.
HloLine(acc, lines, i) ==
    LET line == lines[i]
        Seen(g, vs) == [acc EXCEPT !.graph = g, !.seen = @ \o vs]
    IN CASE acc.depth > 0 -> [acc EXCEPT !.depth = @ + line.braces]
         [] acc.depth <= 0 /\ line.kind = "return" -> [acc EXCEPT !.graph.outputs = line.ins]
         [] acc.depth <= 0 /\ line.kind = "constant" ->
              Seen(AddConstant(acc.graph, line.outs[1], [text |-> TRUE, splat |-> line.splat, name |-> line.outs[1]],
                               Last(line.types)), line.outs)
         [] acc.depth <= 0 /\ line.kind = "op" /\ line.op \in DOMAIN HloOps ->
              [Seen(HloOperation(acc.graph, lines, i), line.outs) EXCEPT
                  !.depth = IF line.region THEN @ + line.braces ELSE @]
         [] OTHER -> acc

ImportStableHLO(model) ==
    LET declared == FoldLeft(LAMBDA g, v : AddInput(g, v.name, v.type), EmptyGraph, model.args)
        start == IF model.args = <<>> THEN AddInput(EmptyGraph, Global("arg0"), DefaultType) ELSE declared
        end == FoldLeft(LAMBDA acc, i : HloLine(acc, model.lines, i), [graph |-> start, depth |-> 0, seen |-> <<>>],
                        [i \in DOMAIN model.lines |-> i])
        first == IF model.args = <<>> THEN Global("arg0") ELSE model.args[1].name
    IN [end.graph EXCEPT !.outputs = IF @ # <<>> THEN @ ELSE <<IF end.seen = <<>> THEN first ELSE Last(end.seen)>>]
=============================================================================
