----------------------------- MODULE Generation -----------------------------
(***************************************************************************)
(* What a caller of generate relies on, with no caches at all: the model   *)
(* first sees exactly the prompt, and then one more token at a time, each  *)
(* after all those before it and at the position that follows theirs.      *)
(***************************************************************************)
EXTENDS Naturals, Sequences

CONSTANTS Calls,      \* the generations
          Tokens,     \* token ids
          Prompts     \* the prompts they may be given, as token sequences

VARIABLES prompt,     \* prompt[c]: the prompt of c
          context     \* context[c]: what the model has seen, <<>> before the prefill

vars == <<prompt, context>>

\* tokens at the positions first, first + 1, ...
Placed(tokens, first) == [i \in DOMAIN tokens |-> [tok |-> tokens[i], pos |-> first + i - 1]]

Init == /\ prompt = [c \in Calls |-> <<>>]
        /\ context = [c \in Calls |-> <<>>]

Ask(c, p) ==
    /\ prompt[c] = <<>> /\ p # <<>>
    /\ prompt' = [prompt EXCEPT ![c] = p]
    /\ UNCHANGED context

Read(c) ==
    /\ prompt[c] # <<>> /\ context[c] = <<>>
    /\ context' = [context EXCEPT ![c] = Placed(prompt[c], 0)]
    /\ UNCHANGED prompt

Extend(c, token) ==
    /\ context[c] # <<>>
    /\ context' = [context EXCEPT ![c] = @ \o Placed(<<token>>, Len(@))]
    /\ UNCHANGED prompt

Next == \E c \in Calls : \/ \E p \in Prompts : Ask(c, p)
                         \/ Read(c)
                         \/ \E token \in Tokens : Extend(c, token)

Spec == Init /\ [][Next]_vars

=============================================================================
