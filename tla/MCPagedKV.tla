------------------------------ MODULE MCPagedKV ------------------------------
(***************************************************************************)
(* Values for the constants of PagedKVCache: a limit alone, a cost model   *)
(* with and without a limit, one that knows no memory, and no limit at all.*)
(***************************************************************************)
EXTENDS PagedKVCache

Limited(n) == [limit |-> n, model |-> FALSE, usable |-> NoLimit, bytes |-> 0]
Modelled(n, u, b) == [limit |-> n, model |-> TRUE, usable |-> u, bytes |-> b]

SomePolicies == {Limited(2), Modelled(1, 24, 0), Modelled(3, 16, 8), Modelled(NoLimit, 8, 4), Modelled(2, NoLimit, 8)}

=============================================================================
