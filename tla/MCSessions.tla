------------------------------ MODULE MCSessions ------------------------------
(***************************************************************************)
(* Values for the constants of RuntimeSessions: two or three calls whose   *)
(* prompts extend one another, on sessions of their own or on one.         *)
(***************************************************************************)
EXTENDS RuntimeSessions

CONSTANTS c1, c2, c3, c4 \* calls
CONSTANTS s1, s2, s3     \* sessions
CONSTANTS x, y           \* tokens

\* Two calls on one session and a third of its own; one call after another; forks.
SharedSession == c1 :> s1 @@ c2 :> s1 @@ c3 :> s2
SerialSessions == c1 :> s1 @@ c2 :> s1 @@ c3 :> s2 @@ c4 :> s2
ForkedSessions == c1 :> s1 @@ c2 :> s2 @@ c3 :> s3

\* Forks that swap places together with the calls on them.
ForkSymmetry ==
    {swap @@ [s \in Sessions |-> Session[swap[CHOOSE c \in Calls : Session[c] = s]]] : swap \in Permutations(Calls)}

AllCached == [c \in Calls |-> TRUE]

\* x is a prefix of xy, which is one of xyx; y begins none of them.
NestedPrompts == {<<x>>, <<x, y>>, <<x, y, x>>}
PrefixPrompts == {<<x>>, <<x, y>>}
MixedPrompts == {<<x>>, <<y>>, <<x, y>>}

=============================================================================
