------------------------------ MODULE GGUFFile ------------------------------
(***************************************************************************)
(* Reading a GGUF file (cacheir/importers/gguf.py): the header, the        *)
(* metadata and the directory of tensors, one step for each entry, then    *)
(* tensors by name, decoded from their blocks.  The file may end anywhere. *)
(*                                                                         *)
(* A byte is a byte of a field: it has the field's value, its place in it  *)
(* and the field's width, so that a field read from the wrong place or     *)
(* with the wrong width is told from one read right.                       *)
(*                                                                         *)
(* Abstracted: floating-point formats (a field has an integer), text       *)
(* decoding, and the formats left to the optional gguf package, which is   *)
(* taken to be missing.                                                    *)
(***************************************************************************)
EXTENDS Integers, Sequences, SequencesExt, FiniteSetsExt

VARIABLES
    bytes,      \* the file
    stage,      \* "closed", "pairs", "directory", "open" or "failed"
    cursor,     \* handle.tell()
    left,       \* entries of the table that are still to be read
    later,      \* tensor_count
    metadata,   \* the pairs read
    directory,  \* the tensors read, in the order of the file
    data        \* data_offset

readerVars == <<stage, cursor, left, later, metadata, directory, data>>

Closed == /\ stage = "closed" /\ cursor = 0 /\ left = 0 /\ later = 0
          /\ metadata = <<>> /\ directory = <<>> /\ data = 0

------------------------------------------------------------------------------
(* The format, as its writers have it *)

Field(value, width) == [k \in 1..width |-> [value |-> value, at |-> k, width |-> width]]
Text(string) == Field(Len(string), 8) \o Field(string, Len(string))
Skip(n) == [k \in 1..n |-> [value |-> 0, at |-> 0, width |-> 0]]

\* Metadata types: 8 is a string, 9 an array.
WidthOf(type) == CASE type \in {0, 1, 7} -> 1 [] type \in {2, 3} -> 2 [] type \in {4, 5, 6} -> 4 [] OTHER -> 8
Scalar(type, value) == IF type = 8 THEN Text(value) ELSE Field(value, WidthOf(type))
ValueBytes(v) ==
    IF v.type = 9 THEN Field(9, 4) \o Field(v.of, 4) \o Field(Len(v.value), 8)
                       \o FlattenSeq([i \in DOMAIN v.value |-> Scalar(v.of, v.value[i])])
    ELSE Field(v.type, 4) \o Scalar(v.type, v.value)

\* _GGML_TYPE_INFO: the size of a block and the bytes it takes.
Info(kind, size, width) == [kind |-> kind, size |-> size, width |-> width]
TypeInfo ==
    (0 :> Info("dense", 1, 4)) @@ (1 :> Info("dense", 1, 2)) @@ (2 :> Info("q4_0", 32, 18))
    @@ (3 :> Info("q4_1", 32, 20)) @@ (6 :> Info("q5_0", 32, 22)) @@ (7 :> Info("q5_1", 32, 24))
    @@ (8 :> Info("q8_0", 32, 34)) @@ (9 :> Info("q8_1", 32, 40)) @@ (10 :> Info("reference", 256, 84))
    @@ (15 :> Info("unsupported_reference", 256, 292)) @@ (24 :> Info("dense", 1, 1)) @@ (28 :> Info("dense", 1, 8))
    @@ (30 :> Info("bf16", 1, 2))

\* A block: a scale, with a minimum or the sum of the block in some formats,
\* the fifth bits as a mask, then nibbles, value j with value j + 16, or bytes.
Nibbles(q) == FlattenSeq([j \in 1..16 |-> Field((q[j] % 16) + 16 * (q[j + 16] % 16), 1)])
FifthBits(q) == Field([j \in 1..32 |-> (q[j] \div 16) % 2], 4)
BlockBytes(kind, b) ==
    CASE kind = "q4_0" -> Field(b.scale, 2) \o Nibbles([j \in 1..32 |-> b.q[j] + 8])
      [] kind = "q4_1" -> Field(b.scale, 2) \o Field(b.min, 2) \o Nibbles(b.q)
      [] kind = "q5_0" -> LET q == [j \in 1..32 |-> b.q[j] + 16] IN Field(b.scale, 2) \o FifthBits(q) \o Nibbles(q)
      [] kind = "q5_1" -> Field(b.scale, 2) \o Field(b.min, 2) \o FifthBits(b.q) \o Nibbles(b.q)
      [] kind = "q8_0" -> Field(b.scale, 2) \o FlattenSeq([j \in 1..32 |-> Field(b.q[j], 1)])
      [] kind = "q8_1" -> Field(b.scale, 4) \o Field(0, 4) \o FlattenSeq([j \in 1..32 |-> Field(b.q[j], 1)])

\* The blocks of a tensor; a dense value is a block of its own.
TensorBytes(t) ==
    LET info == TypeInfo[t.type]
    IN FlattenSeq([i \in DOMAIN t.blocks |-> IF info.size = 1 THEN Field(t.blocks[i], info.width)
                                             ELSE BlockBytes(info.kind, t.blocks[i])])

Meant(t) ==
    FlattenSeq([i \in DOMAIN t.blocks |->
        LET b == t.blocks[i]
        IN IF TypeInfo[t.type].size = 1 THEN <<b>>
           ELSE [j \in 1..32 |-> b.q[j] * b.scale + (IF TypeInfo[t.type].kind \in {"q4_1", "q5_1"} THEN b.min ELSE 0)]])

UpTo(n, alignment) == ((n + alignment - 1) \div alignment) * alignment
Aligned32(seq, alignment) == seq \o Skip(UpTo(Len(seq), alignment) - Len(seq))

\* The file of a model: what it has is a sequence of pairs and one of tensors.
FileOf(m) ==
    LET Before(i) == FoldLeft(LAMBDA n, t : n + UpTo(Len(TensorBytes(t)), m.alignment), 0, SubSeq(m.tensors, 1, i - 1))
        Entry(i) == Text(m.tensors[i].name) \o Field(Len(m.tensors[i].dims), 4)
                    \o FlattenSeq([d \in DOMAIN m.tensors[i].dims |-> Field(m.tensors[i].dims[d], 8)])
                    \o Field(m.tensors[i].type, 4) \o Field(Before(i), 8)
        header == Field("GGUF", 4) \o Field(3, 4) \o Field(Len(m.tensors), 8) \o Field(Len(m.pairs), 8)
                  \o FlattenSeq([i \in DOMAIN m.pairs |-> Text(m.pairs[i].key) \o ValueBytes(m.pairs[i])])
                  \o FlattenSeq([i \in DOMAIN m.tensors |-> Entry(i)])
    IN Aligned32(header, m.alignment)
       \o FlattenSeq([i \in DOMAIN m.tensors |-> Aligned32(TensorBytes(m.tensors[i]), m.alignment)])

------------------------------------------------------------------------------
(* Reading: the set of what is read and of the cursor after it, empty when it raises *)

\* _read_exact, and struct.unpack of one field.
Unpack(at, width) ==
    LET window == SubSeq(bytes, at + 1, at + width)
    IN IF at + width <= Len(bytes) /\ \A k \in 1..width : window[k].at = k /\ window[k].width = width
       THEN {[value |-> window[1].value, at |-> at + width]} ELSE {}

ReadString(at) == UNION {Unpack(size.at, size.value) : size \in Unpack(at, 8)}

\* _scalar; arrays do not nest.
ReadScalar(at, type) ==
    CASE type = 8 -> ReadString(at)
      [] type \in 0..12 \ {8, 9} -> Unpack(at, WidthOf(type))
      [] OTHER -> {}

\* n readings one after the other.
Repeated(n, at, Read(_)) ==
    FoldLeft(LAMBDA done, i : UNION {{[value |-> Append(d.value, r.value), at |-> r.at] : r \in Read(d.at)} : d \in done},
             {[value |-> <<>>, at |-> at]}, [i \in 1..n |-> i])

\* _value
ReadValue(at) ==
    UNION {IF type.value # 9 THEN ReadScalar(type.at, type.value)
           ELSE UNION {UNION {Repeated(length.value, length.at, LAMBDA c : ReadScalar(c, of.value))
                              : length \in Unpack(of.at, 8)} : of \in Unpack(type.at, 4)}
           : type \in Unpack(at, 4)}

ReadPair(at) ==
    UNION {{[value |-> <<key.value, v.value>>, at |-> v.at] : v \in ReadValue(key.at)} : key \in ReadString(at)}

\* An entry of the directory.
ReadTensorInfo(at) ==
    UNION {UNION {UNION {UNION {
        {[value |-> [name |-> name.value, dims |-> dims.value, type |-> type.value, offset |-> offset.value], at |-> offset.at]
         : offset \in Unpack(type.at, 8)} : type \in Unpack(dims.at, 4)}
         : dims \in Repeated(ndim.value, ndim.at, LAMBDA c : Unpack(c, 8))} : ndim \in Unpack(name.at, 4)}
         : name \in ReadString(at)}

Raises(outcomes) ==
    /\ outcomes = {}
    /\ stage' = "failed"
    /\ UNCHANGED <<cursor, left, later, metadata, directory, data>>

\* import_gguf_metadata: the magic, the version and the two counts.
ReadHeader ==
    LET counts == UNION {UNION {{[tensors |-> t.value, pairs |-> p.value, at |-> p.at] : p \in Unpack(t.at, 8)}
                                : t \in Unpack(v.at, 8)}
                         : v \in UNION {Unpack(m.at, 4) : m \in {magic \in Unpack(0, 4) : magic.value = "GGUF"}}}
    IN /\ stage = "closed"
       /\ \/ Raises(counts)
          \/ \E c \in counts :
               /\ stage' = "pairs" /\ cursor' = c.at /\ left' = c.pairs /\ later' = c.tensors
               /\ UNCHANGED <<metadata, directory, data>>

NextPair ==
    /\ stage = "pairs" /\ left > 0
    /\ \/ Raises(ReadPair(cursor))
       \/ \E p \in ReadPair(cursor) :
            /\ metadata' = (p.value[1] :> p.value[2]) @@ metadata
            /\ cursor' = p.at /\ left' = left - 1
            /\ UNCHANGED <<stage, later, directory, data>>

PairsDone ==
    /\ stage = "pairs" /\ left = 0
    /\ stage' = "directory" /\ left' = later
    /\ UNCHANGED <<cursor, later, metadata, directory, data>>

NextTensor ==
    /\ stage = "directory" /\ left > 0
    /\ \/ Raises(ReadTensorInfo(cursor))
       \/ \E t \in ReadTensorInfo(cursor) :
            /\ directory' = Append(directory, t.value)
            /\ cursor' = t.at /\ left' = left - 1
            /\ UNCHANGED <<stage, later, metadata, data>>

FileAlignment == IF "general.alignment" \in DOMAIN metadata THEN metadata["general.alignment"] ELSE 32

\* _align
DataOffset == IF FileAlignment <= 0 THEN cursor ELSE UpTo(cursor, FileAlignment)

OpenData ==
    /\ stage = "directory" /\ left = 0
    /\ stage' = "open" /\ data' = DataOffset
    /\ UNCHANGED <<cursor, left, later, metadata, directory>>

Parse == (ReadHeader \/ NextPair \/ PairsDone \/ NextTensor \/ OpenData) /\ UNCHANGED bytes

------------------------------------------------------------------------------
(* GGUFReader.read_tensor *)

Product(dims) == FoldLeft(LAMBDA n, d : n * d, 1, dims)

\* _byte_count: a count that is no whole number of blocks raises.
ByteCount(count, info) == IF count % info.size = 0 THEN {(count \div info.size) * info.width} ELSE {}

\* The value of the field that begins at a byte of a block.
At(block, k, width) == IF \A i \in 1..width : block[k + i].at = i /\ block[k + i].width = width
                       THEN {block[k + 1].value} ELSE {}

Low(block, k) == [j \in 1..16 |-> block[k + j].value % 16]
High(block, k) == [j \in 1..16 |-> block[k + j].value \div 16]

\* Mutant: the fifth bits of the second half are those of the first
FiveBitsSame(low, high, bits) == [j \in 1..16 |-> low[j] + 16 * bits[j]] \o [j \in 1..16 |-> high[j] + 16 * bits[j]]

\* _q5_values
FiveBits(low, high, bits) == [j \in 1..16 |-> low[j] + 16 * bits[j]] \o [j \in 1..16 |-> high[j] + 16 * bits[j + 16]]

Scaled(q, offset, scale, min) == [j \in DOMAIN q |-> (q[j] - offset) * scale + min]

\* _decode_q4_0 to _decode_q8_1, a block of 32 values each.
Decoded(kind, block) ==
    LET Scales(width) == At(block, 0, width)
        Mins == At(block, 2, 2)
        Bytes(k) == [j \in 1..32 |-> block[k + j].value]
    IN CASE kind = "q8_0" -> {Scaled(Bytes(2), 0, s, 0) : s \in Scales(2)}
         [] kind = "q8_1" -> {Scaled(Bytes(8), 0, s, 0) : s \in Scales(4)}
         [] kind = "q4_0" -> {Scaled(Low(block, 2) \o High(block, 2), 8, s, 0) : s \in Scales(2)}
         [] kind = "q4_1" -> {Scaled(Low(block, 4) \o High(block, 4), 0, s, m) : s \in Scales(2), m \in Mins}
         [] kind = "q5_0" -> {Scaled(FiveBits(Low(block, 6), High(block, 6), b), 16, s, 0) : s \in Scales(2), b \in At(block, 2, 4)}
         [] kind = "q5_1" -> {Scaled(FiveBits(Low(block, 8), High(block, 8), b), 0, s, m)
                              : s \in Scales(2), m \in Mins, b \in At(block, 4, 4)}
         [] OTHER -> {}

\* _decode: dense values are fields, the rest are blocks; what the optional
\* package decodes, and what it does not, raises.
Decode(raw, info) ==
    LET Block(i) == SubSeq(raw, (i - 1) * info.width + 1, i * info.width)
        One(i) == IF info.size = 1 THEN {<<v>> : v \in At(Block(i), 0, info.width)} ELSE Decoded(info.kind, Block(i))
        values == [i \in 1..(Len(raw) \div info.width) |-> One(i)]
    IN IF \E i \in DOMAIN values : values[i] = {} THEN {}
       ELSE {FlattenSeq([i \in DOMAIN values |-> CHOOSE v \in values[i] : TRUE])}

\* Of two tensors with one name the last counts.  Its dimensions are reversed:
\* the first one of the file is the length of a row.
Entries(name) == {i \in DOMAIN directory : directory[i].name = name}
Rows(values, dims) ==
    IF Len(dims) < 2 THEN <<values>>
    ELSE [r \in 1..(Len(values) \div dims[1]) |-> SubSeq(values, (r - 1) * dims[1] + 1, r * dims[1])]

ReadTensor(name) ==
    IF Entries(name) = {} THEN {}
    ELSE LET t == directory[Max(Entries(name))]
             at == data + t.offset
             read == IF t.type \notin DOMAIN TypeInfo THEN {} ELSE ByteCount(Product(t.dims), TypeInfo[t.type])
         IN UNION {IF at + n > Len(bytes) THEN {}
                   ELSE {[ndim |-> Len(t.dims), rows |-> Rows(v, t.dims)] : v \in Decode(SubSeq(bytes, at + 1, at + n), TypeInfo[t.type])} : n \in read}
=============================================================================
