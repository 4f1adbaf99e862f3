------------------------------ MODULE MCCompile ------------------------------
(***************************************************************************)
(* Models for Compile: decoders of zero to two layers in both formats,     *)
(* and small ONNX and StableHLO graphs with the cases that their importers *)
(* and the passes treat on their own.                                      *)
(***************************************************************************)
EXTENDS Compile

(* Decoders *)

NoFiles == [npz |-> <<>>, safetensors |-> <<>>, index |-> {}]
HF(config, dir) == [format |-> "hf", config |-> config, dir |-> dir]
Small == [hidden_size |-> 8, num_hidden_layers |-> 1, num_attention_heads |-> 2, vocab_size |-> 5]

OneLayer == HF([intermediate_size |-> 24, num_key_value_heads |-> 1, torch_dtype |-> "bfloat16"] @@ Small, NoFiles)
TwoLayers == HF([num_hidden_layers |-> 2, tie_word_embeddings |-> TRUE, rope_theta |-> 500] @@ Small, NoFiles)
NoLayers == HF([hidden_size |-> 8, n_layer |-> 0, n_head |-> 2, vocab_size |-> 5], NoFiles)
OddHeads == HF([num_attention_heads |-> 3] @@ Small, NoFiles)

\* A vocabulary that the checkpoint pads: the files know better than the config.
Padded(key) == Key(-1, key) :> <<6, 8>>
Stored == HF(Small, [npz |-> <<>>, index |-> {"a"},
                     safetensors |-> <<[name |-> "a", tensors |-> Padded("embed_tokens")],
                                       [name |-> "b", tensors |-> Padded("lm_head")]>>])
StoredNpz == HF([num_key_value_heads |-> 2] @@ Small,
                [npz |-> <<[name |-> "w", tensors |-> Padded("embed_tokens") @@ Padded("lm_head")]>>,
                 safetensors |-> Stored.dir.safetensors, index |-> {}])

Gguf == [format |-> "gguf",
         meta |-> <<"general", "architecture">> :> "qwen2" @@ <<"qwen2", "embedding_length">> :> 8
                  @@ <<"qwen2", "head_count">> :> 2 @@ <<"llama", "block_count">> :> 1
                  @@ <<"tokenizer", "tokens">> :> 5,
         tensors |-> [Key(-1, "embed_tokens") EXCEPT !.format = "gguf"] :> <<8, 6>>
                     @@ [Key(-1, "lm_head") EXCEPT !.format = "gguf"] :> <<8, 6>>
                     @@ [Key(0, "down_w") EXCEPT !.format = "gguf"] :> <<32, 8>>
                     @@ [Key(0, "gate_w") EXCEPT !.format = "gguf"] :> <<8, 32>>]

------------------------------------------------------------------------------
(* ONNX: a dense layer with a bias before or after it, a dead branch, a
   weight that two products share and one that an addition reads as well *)

V(name) == <<-1, name>>
Tensor(name, dims) == [name |-> V(name), elem |-> 1, dims |-> dims]
Op(type, ins, out) == [type |-> type, ins |-> [i \in DOMAIN ins |-> V(ins[i])], outs |-> <<V(out)>>,
                       attrs |-> NoAttrs, name |-> V(out)]
Onnx(nodes, out) == [format |-> "onnx", inputs |-> <<Tensor("x", <<0, 3, 4>>), Tensor("w", <<4, 4>>)>>,
                     initializers |-> <<Tensor("w", <<4, 4>>), Tensor("b", <<4>>)>>, nodes |-> nodes, outputs |-> <<V(out)>>]

BiasAfter == Onnx(<<Op("MatMul", <<"x", "w">>, "h"), Op("Sigmoid", <<"h">>, "dead"), Op("Add", <<"h", "b">>, "s"),
                    Op("Silu", <<"s">>, "g"), Op("Mul", <<"g", "h">>, "y")>>, "y")
BiasFirst == Onnx(<<Op("MatMul", <<"x", "w">>, "h"), Op("Add", <<"b", "h">>, "s"), Op("MatMul", <<"s", "w">>, "y")>>, "y")
SharedWeight == Onnx(<<Op("MatMul", <<"x", "w">>, "h"), Op("Add", <<"h", "w">>, "y")>>, "y")
VectorProduct == Onnx(<<Op("MatMul", <<"x", "b">>, "y")>>, "y")
UnknownOutput == Onnx(<<Op("Mul", <<"x", "x">>, "h")>>, "missing")

------------------------------------------------------------------------------
(* StableHLO *)

F32(shape) == TensorType(shape, "float32")
Line == [kind |-> "other", op |-> "", ins |-> <<>>, outs |-> <<>>, types |-> <<>>,
         braces |-> 0, closes |-> FALSE, region |-> FALSE, splat |-> TRUE]
Hlo(op, ins, out, type) == [Line EXCEPT !.kind = "op", !.op = op, !.ins = [i \in DOMAIN ins |-> V(ins[i])],
                                        !.outs = <<V(out)>>, !.types = <<type>>]
Const(out, type, splat) == [Line EXCEPT !.kind = "constant", !.outs = <<V(out)>>, !.types = <<type>>, !.splat = splat]
Return(v) == [Line EXCEPT !.kind = "return", !.ins = <<V(v)>>]
Opens(line) == [line EXCEPT !.braces = 1, !.region = TRUE, !.types = <<>>]
Close(types) == [Line EXCEPT !.braces = -1, !.closes = TRUE, !.types = types]
StableHlo(args, lines) == [format |-> "stablehlo", args |-> args, lines |-> lines]
Arg(name, type) == [name |-> V(name), type |-> type]

Square == F32(<<4, 4>>)
\* Constants folded into one, a scalar, and added to an argument.
Folding(splat) == StableHlo(<<Arg("x", Square)>>,
    <<Const("one", Square, TRUE), Const("two", Square, splat), Hlo("add", <<"one", "two">>, "three", Square),
      Hlo("add", <<"x", "three">>, "y", Square), Hlo("logistic", <<"y">>, "z", Square), Return("z")>>)
\* A region is skipped with its lines when its operation is known, and read when it is not.
Region(op) == StableHlo(<<Arg("x", Square), Arg("w", Square)>>,
    <<Hlo("dot_general", <<"x", "w">>, "h", Square), Opens(Hlo(op, <<"h">>, "r", Square)),
      Hlo("add", <<"a", "b">>, "inner", F32(<<>>)), Return("inner"), Close(<<F32(<<4>>)>>),
      Hlo("multiply", <<"h", "h">>, "y", Square), Return("y")>>)
\* No header, no return and no types.
Bare == StableHlo(<<>>, <<[Hlo("add", <<"u", "v">>, "s", Square) EXCEPT !.types = <<>>], Hlo("tanh", <<"s">>, "t", Square)>>)

------------------------------------------------------------------------------
SomeModels == {OneLayer, TwoLayers, NoLayers, OddHeads, Stored, StoredNpz, Gguf,
               BiasAfter, BiasFirst, SharedWeight, VectorProduct, UnknownOutput,
               Folding(TRUE), Folding(FALSE), Region("reduce"), Region("while"), Bare}

Option(modes, target, quant, gpus) ==
    [modes |-> modes, target |-> target, quant |-> quant, gpus |-> gpus, max_batch |-> 2, max_seq |-> 3]
\* Every choice of modes, targets and quantization, some on devices with little memory.
SomeOptions ==
    {Option(modes, target, quant, IF target = "cpu" THEN <<>> ELSE IF quant = "int4" THEN <<6000>> ELSE <<-1, 24000>>)
     : modes \in {<<"prefill", "decode">>, <<"decode", "prefill">>, <<"prefill">>, <<"decode">>},
       target \in {"cpu", "cuda", "triton"}, quant \in {"none", "int4", "int8"}}

=============================================================================
