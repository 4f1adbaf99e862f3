----------------------------- MODULE MCWeights -----------------------------
(***************************************************************************)
(* Models for Weights: GGUF files whose tensors have every block format    *)
(* between them, one with an alignment of its own and an array in its      *)
(* metadata, and directories of one and of two .npz files.                 *)
(***************************************************************************)
EXTENDS Weights

Tensor(name, dims, type, blocks) == [name |-> name, dims |-> dims, type |-> type, blocks |-> blocks]
Pair(key, type, value) == [key |-> key, type |-> type, of |-> 8, value |-> value]

\* The values of a block: every integer of its format occurs.
Signed(n) == [j \in 1..32 |-> ((7 * j) % n) - n \div 2]
Unsigned(n) == [j \in 1..32 |-> (7 * j) % n]
Block(scale, q) == [scale |-> scale, q |-> q]
BlockWithMin(scale, min, q) == [scale |-> scale, min |-> min, q |-> q]

\* A vector and a matrix of two rows of three, all dense.
DenseModel == [alignment |-> 8,
               pairs |-> <<Pair("general.alignment", 4, 8), Pair("ids", 9, <<"a", "b">>)>>,
               tensors |-> <<Tensor("norm", <<3>>, 0, <<2, -1, 4>>), Tensor("w", <<3, 2>>, 30, <<5, -3, 0, 1, 2, 9>>)>>]

\* Blocks with a minimum; a format without a decoder.
MinModel == [alignment |-> 32, pairs |-> <<Pair("v", 2, 1)>>,
             tensors |-> <<Tensor("w", <<32, 1>>, 7, <<BlockWithMin(2, -5, Unsigned(32))>>),
                           Tensor("u", <<32, 1>>, 3, <<BlockWithMin(3, 20, Unsigned(16))>>)>>]
SignedModel == [alignment |-> 8, pairs |-> <<Pair("general.alignment", 10, 8)>>,
                tensors |-> <<Tensor("w", <<32, 1>>, 6, <<Block(1, Signed(32))>>),
                              Tensor("u", <<32, 1>>, 2, <<Block(-2, Signed(16))>>)>>]
ByteModel == [alignment |-> 8, pairs |-> <<Pair("general.alignment", 4, 8)>>,
              tensors |-> <<Tensor("w", <<32, 1>>, 8, <<Block(1, Signed(32))>>),
                            Tensor("u", <<32, 1>>, 9, <<Block(2, Signed(16))>>), Tensor("k", <<32, 1>>, 15, <<>>)>>]

\* Rows at the edges of packing: constant, all of one sign, odd, of one value;
\* a row of one large value has a zero point that is no int32.
Edges == "w.npz" :> ("a" :> <<<<0, 0, 0>>, <<1, 1, 1>>, <<7, 9, 12>>, <<-9, -2, -8>>, <<-3, 5, 12>>>>
                     @@ "b" :> <<<<100>>, <<-100>>, <<3>>>>)
Sharded == "w.npz" :> ("a" :> <<<<1, 2>>>>) @@ "x.npz" :> ("b" :> <<<<3, 4>>>>)

File(m) == [kind |-> "gguf", model |-> m]
Directory(shards) == [kind |-> "dir", shards |-> shards]
AllSources == {File(m) : m \in {DenseModel, MinModel, SignedModel, ByteModel}} \cup {Directory(Edges), Directory(Sharded)}
=============================================================================
