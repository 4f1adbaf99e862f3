------------------------------ MODULE Weights ------------------------------
(***************************************************************************)
(* The weights of a runtime: WeightStore (cacheir/runtime/cpu.py), which   *)
(* reads a weight when it is first asked for, packs it when the model is   *)
(* quantized and keeps both forms, and CudaWeightStore (cuda.py) over it.  *)
(* The weights are in a GGUF file, which may have lost its end, or in the  *)
(* .npz files of a directory.                                              *)
(*                                                                         *)
(* Abstracted: floating-point types, and devices, so that a copy to the    *)
(* GPU is the value itself; .safetensors files (an external library).      *)
(***************************************************************************)
EXTENDS GGUFFile, Quantization

CONSTANTS Sources,   \* what a model path holds: [kind, model] or [kind, shards]
          Quants     \* artifact.quant

VARIABLES
    source,       \* model_path
    quant,        \* quant: "none" for no quantization
    npz,          \* _npz: the files read so far, at most one
    dense,        \* _cache
    packed,       \* _qcache
    cudaDense,    \* CudaWeightStore._cache
    cudaPacked,   \* CudaWeightStore._qcache
    wanted,       \* the call that is under way
    refused       \* ghost: the names a call raised for

caches == <<npz, dense, packed, cudaDense, cudaPacked>>
weightVars == <<bytes, readerVars, source, quant, caches, wanted, refused>>

NoCall == [op |-> "none"]

\* The tensors a source was written from.
Written == IF source.kind = "gguf" THEN ToSet(source.model.tensors)
           ELSE UNION {{[name |-> key, file |-> file, rows |-> source.shards[file][key]]
                        : key \in DOMAIN source.shards[file]} : file \in DOMAIN source.shards}
TensorOf(name) == CHOOSE t \in Written : t.name = name
IsMatrix(t) == IF source.kind = "gguf" THEN Len(t.dims) = 2 ELSE TRUE
RowsOf(t) == IF source.kind = "gguf" THEN Rows(Meant(t), t.dims) ELSE t.rows

Calls == {[op |-> op, name |-> t.name, cuda |-> cuda] : op \in {"get", "get_quantized"}, t \in Written, cuda \in BOOLEAN}

\* A packed weight is asked for by a quantized matmul only.
Asked(call) == call.op = "get_quantized" => quant # "none" /\ IsMatrix(TensorOf(call.name))

WeightsInit ==
    /\ source \in Sources /\ quant \in Quants
    /\ IF source.kind = "gguf"
       THEN LET file == FileOf(source.model) IN \E cut \in 0..Len(file) : bytes = SubSeq(file, 1, cut)
       ELSE bytes = <<>>
    /\ Closed
    /\ npz = {} /\ dense = <<>> /\ packed = <<>> /\ cudaDense = <<>> /\ cudaPacked = <<>>
    /\ wanted = NoCall /\ refused = {}

------------------------------------------------------------------------------
(* WeightStore *)

\* A call that no cache answers; a reader whose file did not parse is made again.
\* Bound: a name that was refused is not asked for again.
Ask(call) ==
    /\ wanted = NoCall /\ Asked(call) /\ call.name \notin refused
    /\ call.name \notin DOMAIN (CASE call.op = "get" /\ call.cuda -> cudaDense [] call.op = "get" /\ ~call.cuda -> dense
                                  [] call.op # "get" /\ call.cuda -> cudaPacked [] OTHER -> packed)
    /\ wanted' = call
    /\ IF stage = "failed" THEN /\ stage' = "closed" /\ cursor' = 0 /\ left' = 0 /\ later' = 0
                                /\ metadata' = <<>> /\ directory' = <<>> /\ data' = 0
       ELSE UNCHANGED readerVars
    /\ UNCHANGED <<bytes, source, quant, caches, refused>>

Held(call) == call.name \in DOMAIN (IF call.op = "get" THEN dense ELSE packed)

\* The reader of a GGUF file is made by the first call that needs it.
ReadDirectory ==
    /\ wanted # NoCall /\ ~Held(wanted) /\ source.kind = "gguf"
    /\ Parse
    /\ UNCHANGED <<source, quant, caches, wanted, refused>>

\* _load_by_key.  The first .npz file that is read stays, whatever file the key is in.
Loaded(name) ==
    LET file == IF npz = {} THEN TensorOf(name).file ELSE CHOOSE f \in npz : TRUE
    IN IF source.kind = "gguf" THEN IF stage = "open" THEN ReadTensor(name) ELSE {}
       ELSE {[ndim |-> 2, rows |-> source.shards[f][name]] : f \in {g \in {file} : name \in DOMAIN source.shards[g]}}
Kept(name) == IF source.kind = "gguf" THEN {} ELSE IF npz = {} THEN {TensorOf(name).file} ELSE npz

\* _pack_value: a name that is no scheme means int8.
Packing == IF Bits(quant) = {} THEN 8 ELSE CHOOSE bits \in Bits(quant) : TRUE
PackValue(name, rows) == IF name \in DOMAIN packed THEN packed[name] ELSE Pack(rows, Packing)
Exact(rows) == [r \in DOMAIN rows |-> [nums |-> rows[r], den |-> 1]]

Put(cache, name, value) == [key \in DOMAIN cache \cup {name} |-> IF key = name THEN value ELSE cache[key]]

\* WeightStore.get of a weight it does not hold, for a tensor read from the file.
GetFrom(name, t) ==
    IF quant # "none" /\ t.ndim = 2
    THEN /\ packed' = Put(packed, name, PackValue(name, t.rows))
         /\ dense' = Put(dense, name, Dequantized(PackValue(name, t.rows)))
    ELSE /\ dense' = Put(dense, name, Exact(t.rows))
         /\ UNCHANGED packed

\* WeightStore.get_quantized likewise.
GetQuantizedFrom(name, t) ==
    /\ packed' = Put(packed, name, PackValue(name, t.rows))
    /\ UNCHANGED dense

Usable == {t \in Loaded(wanted.name) : wanted.op = "get" \/ t.ndim = 2}
ReaderDone == source.kind # "gguf" \/ stage \in {"open", "failed"}

\* CudaWeightStore.get and get_quantized: a copy of what the store answers.
\* Abstracted: the cast of a dense weight to the float type of the runtime.
Copied == IF ~wanted.cuda THEN UNCHANGED <<cudaDense, cudaPacked>>
          ELSE IF wanted.op = "get" THEN /\ cudaDense' = Put(cudaDense, wanted.name, dense'[wanted.name])
                                         /\ UNCHANGED cudaPacked
          ELSE /\ cudaPacked' = Put(cudaPacked, wanted.name, packed'[wanted.name])
               /\ UNCHANGED cudaDense

Answer ==
    /\ wanted # NoCall
    /\ \/ /\ Held(wanted) /\ UNCHANGED <<npz, dense, packed>>
       \/ /\ ~Held(wanted) /\ ReaderDone
          /\ npz' = Kept(wanted.name)
          /\ \E t \in Usable : IF wanted.op = "get" THEN GetFrom(wanted.name, t) ELSE GetQuantizedFrom(wanted.name, t)
    /\ Copied
    /\ wanted' = NoCall
    /\ UNCHANGED <<bytes, readerVars, source, quant, refused>>

Refuse ==
    /\ wanted # NoCall /\ ~Held(wanted) /\ ReaderDone /\ Usable = {}
    /\ npz' = Kept(wanted.name)
    /\ refused' = refused \cup {wanted.name}
    /\ wanted' = NoCall
    /\ UNCHANGED <<bytes, readerVars, source, quant, dense, packed, cudaDense, cudaPacked>>

WeightsNext == (\E call \in Calls : Ask(call)) \/ ReadDirectory \/ Answer \/ Refuse
WeightsSpec == WeightsInit /\ [][WeightsNext]_weightVars

------------------------------------------------------------------------------
(* Properties *)

Whole == source.kind = "gguf" => Len(bytes) = Len(FileOf(source.model))
Readable(t) == IF source.kind = "gguf" THEN TypeInfo[t.type].kind \notin {"reference", "unsupported_reference"}
               ELSE Cardinality(DOMAIN source.shards) = 1

\* A weight that is read is the weight that was written, in its place in the
\* file and in its format, wherever the file ends; and a file that is complete
\* is read to the end, so that a refusal is a truncated file, a format without
\* a decoder or a second .npz file.
ReadsWhatWasWritten ==
    /\ \A t \in Written :
         /\ t.name \in DOMAIN packed => packed[t.name] = Pack(RowsOf(t), Packing)
         /\ t.name \in DOMAIN dense \ DOMAIN packed => dense[t.name] = Exact(RowsOf(t))
    /\ \A name \in refused : Whole => ~Readable(TensorOf(name))
    /\ stage = "open" /\ source.kind = "gguf" =>
         \A i \in DOMAIN source.model.pairs : metadata[source.model.pairs[i].key] = source.model.pairs[i].value

\* One weight: the matrix the CPU multiplies by, the one it keeps packed and the
\* one the GPU unpacks for itself are the same numbers, whichever was asked for first.
OneWeight ==
    /\ \A name \in DOMAIN dense \cap DOMAIN packed : dense[name] = CudaDequantized(packed[name])
    /\ \A name \in DOMAIN cudaPacked : CudaDequantized(cudaPacked[name]) = Dequantized(packed[name])

\* Every value of a packed row is within half a step of the scale of the value
\* it stands for, the ends of the range included, as long as the zero point of
\* the row is an int32.
RowsRoundTrip ==
    \A t \in {u \in Written : u.name \in DOMAIN packed} : \A r \in DOMAIN RowsOf(t) :
        LET row == RowsOf(t)[r]
            p == packed[t.name][r]
            back == Dequantized(packed[t.name])[r]
        IN ExactZero(row, p.bits) \in (-ZeroLimit)..(ZeroLimit - 1) =>
             \A i \in DOMAIN row : LET off == back.nums[i] - row[i] * back.den
                                   IN 2 * (IF off < 0 THEN -off ELSE off) <= p.scale.num
=============================================================================
