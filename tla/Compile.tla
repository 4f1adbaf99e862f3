------------------------------ MODULE Compile ------------------------------
(***************************************************************************)
(* compile_model (cacheir/compiler.py): a model is imported, its logical   *)
(* graph is cloned for each mode, goes through the passes one by one (one  *)
(* step each; memory planning takes a step for every value), is validated  *)
(* and packaged, and the artifact may be saved as a bundle                 *)
(* (cacheir/runtime/artifact.py).                                          *)
(***************************************************************************)
EXTENDS Importers, Passes, CudaExec, MemoryPlan

CONSTANTS Models,    \* the models on disk
          Options    \* the arguments of compile_model, and the devices found

ASSUME CompileAssumption ==
    /\ \A m \in Models : m.format \in {"hf", "gguf", "onnx", "stablehlo"}
    /\ \A o \in Options : /\ o.modes \in Seq({"prefill", "decode"}) /\ o.modes # <<>>
                          /\ o.max_batch \in Nat \ {0} /\ o.max_seq \in Nat \ {0}

VARIABLES
    model,      \* the model being compiled
    options,    \* the arguments of the call
    logical,    \* logical_graph
    graph,      \* the graph of the mode that is being compiled
    pc,         \* "import", "clone", "pass", "plan", "package", "compiled", "saved" or "failed"
    step,       \* the next pass of the pipeline
    graphs,     \* the finished graphs, by mode
    traces,     \* the passes traced, by mode
    files       \* passes/*.diff of the bundle: which trace each file holds

compileVars == <<model, options, logical, graph, pc, step, graphs, traces, files>>
vars == <<compileVars, planVars>>

\* Mutant: kernels selected before the operations are lowered
EarlyKernels == <<"shape_inference", "constant_folding", "qkv_projection_fusion", "rmsnorm_qkv_rope_fusion", "swiglu_fusion",
                  "prefill_decode_specialization", "layout_conversion", "kernel_selection", "quantization_aware_lowering",
                  "shape_inference", "dead_node_elimination", "hardware_adaptive_planning", "execution_planning",
                  "static_memory_planning">>

Pipeline == <<"shape_inference", "constant_folding", "qkv_projection_fusion", "rmsnorm_qkv_rope_fusion", "swiglu_fusion",
              "prefill_decode_specialization", "layout_conversion", "quantization_aware_lowering", "shape_inference",
              "dead_node_elimination", "hardware_adaptive_planning", "kernel_selection", "execution_planning",
              "static_memory_planning">>

Mode == options.modes[Cardinality(DOMAIN graphs) + 1]
Context == [mode |-> Mode, target |-> options.target, quant |-> options.quant, gpus |-> options.gpus,
            max_batch |-> options.max_batch, max_seq |-> options.max_seq]

ImportModel(m) ==
    CASE m.format = "hf" -> ImportHF(m)
      [] m.format = "gguf" -> ImportGGUF(m)
      [] m.format = "onnx" -> ImportOnnx(m)
      [] m.format = "stablehlo" -> ImportStableHLO(m)

\* ModelConfig.head_dim raises: no heads, or heads that do not divide the hidden size.
HeadsFit(m) ==
    LET Fit(c) == c.num_attention_heads > 0 /\ c.hidden_size % c.num_attention_heads = 0
    IN /\ m.format = "hf" => Fit(FromDict(m.config))
       /\ m.format = "gguf" => Fit(ConfigFromGGUF(m.meta))

Apply(pass, g, ctx) ==
    CASE pass = "shape_inference" -> ShapeInference(g, ctx)
      [] pass = "constant_folding" -> ConstantFolding(g, ctx)
      [] pass = "qkv_projection_fusion" -> QKVProjectionFusion(g, ctx)
      [] pass = "rmsnorm_qkv_rope_fusion" -> RMSNormQKVRoPEFusion(g, ctx)
      [] pass = "swiglu_fusion" -> SwiGLUFusion(g, ctx)
      [] pass = "prefill_decode_specialization" -> PrefillDecodeSpecialization(g, ctx)
      [] pass = "layout_conversion" -> LayoutConversion(g, ctx)
      [] pass = "quantization_aware_lowering" -> QuantizationAwareLowering(g, ctx)
      [] pass = "dead_node_elimination" -> DeadNodeElimination(g, ctx)
      [] pass = "hardware_adaptive_planning" -> HardwareAdaptivePlanning(g, ctx)
      [] pass = "kernel_selection" -> KernelSelection(g, ctx)
      [] pass = "execution_planning" -> ExecutionPlanning(g, ctx)

------------------------------------------------------------------------------
Init ==
    /\ model \in Models /\ options \in Options
    /\ logical = EmptyGraph /\ graph = EmptyGraph
    /\ pc = "import" /\ step = 1
    /\ graphs = <<>> /\ traces = <<>> /\ files = <<>>
    /\ PlanEmpty /\ todo = <<>>

\* _import_model
Import ==
    /\ pc = "import"
    /\ pc' = IF HeadsFit(model) THEN "clone" ELSE "failed"
    /\ logical' = IF HeadsFit(model) THEN ImportModel(model) ELSE EmptyGraph
    /\ UNCHANGED <<model, options, graph, step, graphs, traces, files, planVars>>

\* A deep copy of the logical graph for the next mode, and the pipeline from its start.
CloneForMode ==
    /\ pc = "clone"
    /\ graph' = [logical EXCEPT !.mode = Mode, !.target = options.target]
    /\ pc' = "pass" /\ step' = 1
    /\ UNCHANGED <<model, options, logical, graphs, traces, files, planVars>>

Traced(pass) == traces' = (Mode :> Append(Get(traces, Mode, <<>>), pass)) @@ traces

RunPass ==
    LET pass == Pipeline[step]
        raises == pass = "constant_folding" /\ Unfoldable(graph, Context)
    IN /\ pc = "pass" /\ step < Len(Pipeline)
       /\ pc' = IF raises THEN "failed" ELSE pc
       /\ graph' = IF raises THEN graph ELSE Apply(pass, graph, Context)
       /\ step' = step + 1
       /\ Traced(pass)
       /\ UNCHANGED <<model, options, logical, graphs, files, planVars>>

\* The last pass: the loop over the events is MemoryPlan's.
StartPlanning ==
    /\ pc = "pass" /\ step = Len(Pipeline)
    /\ pc' = "plan"
    /\ todo' = PlanEvents(graph, Context)
    /\ free' = {} /\ active' = {} /\ buffers' = {} /\ arena' = 0
    /\ UNCHANGED <<model, options, logical, graph, step, graphs, traces, files>>

PlanValue ==
    /\ pc = "plan"
    /\ PlanNext
    /\ UNCHANGED compileVars

\* The plan is set, and PassManager.run validates the graph.
FinishMode ==
    LET planned == [graph EXCEPT !.attrs = Updated(@, [memory_plan |-> [arena_bytes |-> arena, buffers |-> buffers]])]
        finished == Updated(graphs, [mode \in {Mode} |-> planned])
    IN /\ pc = "plan" /\ todo = <<>>
       /\ Traced(Pipeline[step])
       /\ graphs' = IF Valid(graph) THEN finished ELSE graphs
       /\ pc' = CASE ~Valid(graph) -> "failed"
                  [] Valid(graph) /\ DOMAIN finished # ToSet(options.modes) -> "clone"
                  [] OTHER -> "compiled"
       /\ UNCHANGED <<model, options, logical, graph, step, files, planVars>>

\* save_bundle: one file for a mode and the name of a pass, written trace after trace.
SaveBundle ==
    LET Written(mode, pass) == Max({i \in DOMAIN traces[mode] : traces[mode][i] = pass})
    IN /\ pc = "compiled"
       /\ pc' = "saved"
       /\ files' = [f \in {<<m, traces[m][i]>> : m \in DOMAIN graphs, i \in DOMAIN Pipeline} |-> Written(f[1], f[2])]
       /\ UNCHANGED <<model, options, logical, graph, step, graphs, traces, planVars>>

Next == Import \/ CloneForMode \/ RunPass \/ StartPlanning \/ PlanValue \/ FinishMode \/ SaveBundle
Spec == Init /\ [][Next]_vars

------------------------------------------------------------------------------
(* What a compiled graph must keep *)

Compiling == pc \in {"pass", "plan"}

\* The types of Graph and Node (ir.py): whichever importer built it and whatever
\* passes rewrote it, a graph has a list of nodes, each with flat lists of names,
\* and a value whose size is known has a number of bytes.
IsNode(node) == /\ DOMAIN node = {"op", "ins", "outs", "attrs", "name"}
                /\ node.ins \in Seq(Int \X STRING) /\ node.outs \in Seq(Int \X STRING)
IsGraph(g) == /\ DOMAIN g = DOMAIN EmptyGraph
              /\ g.nodes \in Seq({g.nodes[i] : i \in DOMAIN g.nodes})
              /\ \A i \in DOMAIN g.nodes : IsNode(g.nodes[i])
TypeOK == Compiling => /\ IsGraph(graph)
                       /\ \A v \in DOMAIN graph.values : SizeOf(graph, Context, v) \subseteq Nat

\* CompileArtifact.graph: a mode that was not compiled gets the first graph there is.
ArtifactGraph(mode) == IF mode \in DOMAIN graphs THEN graphs[mode] ELSE graphs[options.modes[1]]

\* Every weight that a matmul reads is a matrix that nothing else reads.
\* Quantized lowering packs the weights of matmuls, and the others cannot
\* take them packed, nor can a vector be packed.
OnlyMatrices(g) ==
    \A i \in DOMAIN g.nodes : g.nodes[i].op = "matmul" /\ g.nodes[i].ins[2] \in DOMAIN g.weights =>
        LET w == g.nodes[i].ins[2]
        IN /\ Len(g.values[w].shape) = 2
           /\ \A j \in ToSet(Consumers(g.nodes, w)) : g.nodes[j].op = "matmul" /\ g.nodes[j].ins[1] # w

Means(g, mode) ==
    LET meant == Meaning(logical, mode, options.quant)
    IN meant # <<>> /\ (options.quant = "none" \/ OnlyMatrices(logical)) => Meaning(g, mode, options.quant) = meant

\* After every pass the CPU runtime computes from the graph what it computes
\* from the logical graph: the same output of the same weights, the same keys
\* and values cached in the same order, every rotation by its position.  That
\* holds for the artifact too, also for a mode that was not compiled.
MeaningPreserved ==
    /\ Compiling => Means(graph, Mode)
    /\ pc = "compiled" => \A mode \in {"prefill", "decode"} : Means(ArtifactGraph(mode), mode)

\* The CUDA runtime computes from a finished graph what the CPU runtime
\* does, alone or in a batch (tests/test_runtime.py compares the two).  A
\* batched walk takes the mask from the operation, not from the call: it is
\* held to this in the modes that were compiled.  Excepted is a graph that
\* holds the text of a constant: it runs on the CPU runtime only, also when
\* constant folding has left nothing that reads the text.
RuntimesAgree ==
    pc = "compiled" => \A mode \in {"prefill", "decode"} :
        LET g == ArtifactGraph(mode)
            meant == Meaning(g, mode, options.quant)
        IN meant # <<>> /\ BindsConstants(g) =>
               /\ CudaMeaning(g, mode, options.quant, FALSE) = meant
               /\ mode \in DOMAIN graphs => CudaMeaning(g, mode, options.quant, TRUE) = meant

\* In a graph without an operation that widens its first operand, the type
\* inferred for a value is the shape that the runtime computes.
NoWidening(g, env) ==
    \A i \in DOMAIN g.nodes : g.nodes[i].op \in {"add", "elementwise_mul"} =>
        env[g.nodes[i].outs[1]].shape = env[g.nodes[i].ins[1]].shape
TypesMatchRuntime ==
    LET meant == Executed(logical, Mode, options.quant)
        run == Executed(graph, Mode, options.quant)
    IN Compiling /\ step > 1 /\ meant.ok /\ run.ok /\ NoWidening(logical, meant.env) =>
           \A v \in Outs(graph.nodes) : graph.values[v].shape = run.env[v].shape

\* While a node of a finished graph runs, the values that it or a later node
\* reads, and those it produces, lie in bytes of their own of the arena.
Alive(g, i) ==
    {v \in Outs(SubSeq(g.nodes, 1, i)) : \/ Contains(g.nodes[i].outs, v)
                                         \/ \E j \in i..Len(g.nodes) : Contains(g.nodes[j].ins, v)}
PlanHoldsGraph ==
    \A m \in DOMAIN graphs : \A i \in DOMAIN graphs[m].nodes :
        LET plan == graphs[m].attrs.memory_plan
            held == {b \in plan.buffers : b.value \in Alive(graphs[m], i)}
        IN \A a, b \in held : /\ a.offset + a.size <= plan.arena_bytes
                              /\ a # b => Apart(a, b)

\* The schedule of a finished graph is its nodes, in order, each with the
\* kernel of the operation it has in the end, on the back end of the target.
BackEnd == IF options.target \in {"cuda", "triton"} THEN "triton" ELSE "cpu"
ScheduleExact ==
    \A m \in DOMAIN graphs :
        LET nodes == graphs[m].nodes
            schedule == graphs[m].attrs.execution_schedule
        IN /\ Len(schedule) = Len(nodes)
           /\ \A i \in DOMAIN nodes : /\ <<schedule[i].op, schedule[i].ins, schedule[i].outs>>
                                         = <<nodes[i].op, nodes[i].ins, nodes[i].outs>>
                                      /\ schedule[i].kernel = <<BackEnd, nodes[i].op>>

=============================================================================
