------------------------------ MODULE MCServer ------------------------------
(***************************************************************************)
(* Values for the constants of Server: the requests of MCScheduler, posted *)
(* as a batch of two prompts, and one prompt alone or with one that is too *)
(* long.                                                                   *)
(***************************************************************************)
EXTENDS Server

CONSTANTS r1, r2, r3, r4   \* requests
CONSTANTS a, b, c, d      \* request ids

PostIds == r1 :> a @@ r2 :> b @@ r3 :> c @@ r4 :> d
PostPriorities == r1 :> 0 @@ r2 :> 0 @@ r3 :> 0 @@ r4 :> 0
PostLengths == r1 :> 2 @@ r2 :> 1 @@ r3 :> 1 @@ r4 :> 1
PostPrompts == r1 :> 1 @@ r2 :> 1 @@ r3 :> 1 @@ r4 :> 3

ThreePosts == {[batch |-> p, block |-> "no"] : p \in {<<r1, r3>>, <<r2>>, <<r2, r4>>}}
=============================================================================
