---------------------------- MODULE SessionsProofs ----------------------------
(***************************************************************************)
(* What the calls of generate rely on when each has its session to itself: *)
(* the context of a call and the snapshots all calls share are exact, the  *)
(* sessions implement generation without a cache, and calls made one at a  *)
(* time find the longest prefix and never raise.                           *)
(***************************************************************************)
EXTENDS RuntimeSessions, SequenceLemmas

\* Every session is a fork of its own; or else calls are made one at a time.
Forked == \A c, o \in Calls : c # o => Session[c] # Session[o]
Isolated == Serial \/ Forked

Cacheable == [key : Seq(Tokens), value : [Layers -> Seq(Entry)]]
Stopped == {"idle", "done", "failed"}

\* With Serial no two calls run.
OneAtATime == Serial => \A c, o \in Calls : pc[c] \notin Stopped /\ pc[o] \notin Stopped => c = o

\* The tokens the model is to have seen after the current run, and before it.
Context(c) == prompt[c] \o said[c]
Past(c) == SubSeq(Context(c), 1, Len(Context(c)) - Len(input[c]))

Exact(e) == \A l \in Layers : e.value[l] = Placed(e.key, 0)
Holds(c, l, tokens) == kv[Session[c]][l] = Placed(tokens, 0)

\* What a call knows at each point.  During a run the layers before the current
\* one hold the whole context, the others what they held before the run.
CallInv(c) ==
    /\ pc[c] = "idle" => prompt[c] = <<>> /\ said[c] = <<>> /\ best[c] = NoBest
    /\ pc[c] # "idle" => prompt[c] # <<>>
    /\ pc[c] \in LookupPcs \cup {"load", "clear"} \cup PutPcs => said[c] = <<>>
    /\ pc[c] = "search" => \A k \in DOMAIN todo[c] : Exact(todo[c][k])
    /\ pc[c] \in LookupPcs \cup {"load"} => Exact(best[c]) /\ IsPrefix(best[c].key, prompt[c])
    /\ pc[c] = "load" => Len(best[c].key) < Len(prompt[c])
    /\ pc[c] \in RunPcs =>
         /\ layer[c] \in Layers /\ Context(c) = Past(c) \o input[c]
         /\ said[c] # <<>> => Len(input[c]) = 1
         /\ \A l \in Layers : Holds(c, l, IF l < layer[c] THEN Context(c) ELSE Past(c))
    /\ pc[c] = "attend" => offset[c] = Len(Past(c))
    /\ pc[c] \in PutPcs \cup {"next"} => \A l \in Layers : Holds(c, l, Context(c))
    /\ pc[c] \in {"pop", "insert"} => Exact(best[c]) /\ best[c].key = prompt[c]

SessionInv == OneAtATime /\ SnapshotsExact /\ \A c \in Calls : CallInv(c)

\* What a call that runs alone knows of the dictionary: the loop has compared
\* every entry it is past, and what it found is still there.
LookupInv(c) ==
    /\ pc[c] # "failed"
    /\ pc[c] \in {"idle", "search"} => ~disturbed[c]
    /\ pc[c] \in LookupPcs /\ best[c].key # <<>> => Index(best[c].key) # {}
    /\ pc[c] = "touch" => best[c].key # <<>>
    /\ pc[c] \in LookupPcs => \A i \in DOMAIN entries :
         \/ \E k \in DOMAIN todo[c] : todo[c][k] = entries[i]
         \/ IsPrefix(entries[i].key, prompt[c]) => Len(entries[i].key) <= Len(best[c].key)
    /\ pc[c] \in LookupPcs => \A k \in DOMAIN todo[c] : Index(todo[c][k].key) # {}
    /\ pc[c] = "touch" => todo[c] = <<>>
    /\ pc[c] = "pop" => Index(prompt[c]) # {}
    /\ pc[c] = "insert" => Index(prompt[c]) = {}
    /\ pc[c] = "evict" => entries # <<>>

AloneInv == LeastRecentFirst /\ \A c \in Calls : LookupInv(c)

------------------------------------------------------------------------------
(* Keys and values of a sequence of tokens *)

LEMMA PlacedType ==
    ASSUME NEW s \in Seq(Tokens), NEW n \in Nat
    PROVE  /\ Placed(s, n) \in Seq(Entry) /\ Len(Placed(s, n)) = Len(s)
           /\ \A i \in 1..Len(s) : Placed(s, n)[i] = [tok |-> s[i], pos |-> n + i - 1]
<1>1. DOMAIN s = 1..Len(s) /\ Len(s) \in Nat /\ \A i \in 1..Len(s) : s[i] \in Tokens
  OBVIOUS
<1>2. \A i \in 1..Len(s) : [tok |-> s[i], pos |-> n + i - 1] \in Entry
  BY <1>1 DEF Entry
<1>3. Placed(s, n) \in [1..Len(s) -> Entry]
  BY <1>1, <1>2 DEF Placed
<1> QED BY <1>1, <1>3 DEF Placed

LEMMA PlacedFromZero ==
    ASSUME NEW s \in Seq(Tokens)
    PROVE  /\ Placed(s, 0) \in Seq(Entry) /\ Len(Placed(s, 0)) = Len(s)
           /\ \A i \in 1..Len(s) : Placed(s, 0)[i] = [tok |-> s[i], pos |-> i - 1]
<1>1. \A i \in 1..Len(s) : 0 + i - 1 = i - 1
  OBVIOUS
<1> QED BY <1>1, PlacedType

LEMMA PlacedEmpty == Placed(<<>>, 0) = <<>>
BY DEF Placed

\* Running the rest after the part that has been run gives the whole.
LEMMA PlacedConcat ==
    ASSUME NEW s \in Seq(Tokens), NEW z \in Seq(Tokens)
    PROVE  Placed(s, 0) \o Placed(z, Len(s)) = Placed(s \o z, 0)
<1>1. PICK p \in Seq(Entry) : p = Placed(s, 0)
  BY PlacedFromZero
<1>2. Len(p) = Len(s) /\ \A i \in 1..Len(s) : p[i] = [tok |-> s[i], pos |-> i - 1]
  BY <1>1, PlacedFromZero
<1>3. Len(s) \in Nat
  OBVIOUS
<1>4. PICK q \in Seq(Entry) : q = Placed(z, Len(s))
  BY <1>3, PlacedType
<1>5. Len(q) = Len(z) /\ \A i \in 1..Len(z) : q[i] = [tok |-> z[i], pos |-> Len(s) + i - 1]
  BY <1>3, <1>4, PlacedType
<1>6. PICK w \in Seq(Tokens) : w = s \o z
  BY ConcatElements
<1>7. /\ Len(w) = Len(s) + Len(z) /\ Len(z) \in Nat
      /\ \A i \in 1..Len(s) : w[i] = s[i]
      /\ \A i \in 1..Len(z) : w[Len(s) + i] = z[i]
  BY <1>6, ConcatElements
<1>8. PICK r \in Seq(Entry) : r = Placed(w, 0)
  BY PlacedFromZero
<1>9. Len(r) = Len(w) /\ \A i \in 1..Len(w) : r[i] = [tok |-> w[i], pos |-> i - 1]
  BY <1>8, PlacedFromZero
<1>10. PICK x \in Seq(Entry) : x = p \o q
  BY ConcatElements
<1>11. /\ Len(x) = Len(s) + Len(z) /\ \A i \in 1..Len(s) : x[i] = p[i]
       /\ \A i \in 1..Len(z) : x[Len(s) + i] = q[i]
  <2>1. /\ Len(x) = Len(p) + Len(q) /\ \A i \in 1..Len(p) : x[i] = p[i]
        /\ \A i \in 1..Len(q) : x[Len(p) + i] = q[i]
    BY <1>10, ConcatElements
  <2> QED BY <1>2, <1>5, <2>1
<1>12. ASSUME NEW i \in 1..Len(s) PROVE x[i] = r[i]
  <2>1. i \in 1..Len(w)
    BY <1>3, <1>7
  <2> QED BY <1>2, <1>7, <1>9, <1>11, <2>1
<1>13. ASSUME NEW i \in 1..Len(z) PROVE x[Len(s) + i] = r[Len(s) + i]
  <2>1. Len(s) + i \in 1..Len(w)
    BY <1>3, <1>7
  <2>2. r[Len(s) + i] = [tok |-> z[i], pos |-> Len(s) + i - 1]
    <3>1. r[Len(s) + i] = [tok |-> w[Len(s) + i], pos |-> (Len(s) + i) - 1]
      BY <1>9, <2>1
    <3>2. w[Len(s) + i] = z[i]
      BY <1>7
    <3> QED BY <3>1, <3>2
  <2> QED BY <1>5, <1>11, <2>2
<1>14. ASSUME NEW i \in 1..Len(x) PROVE x[i] = r[i]
  <2>1. CASE i <= Len(s)
    <3>1. i \in 1..Len(s)
      BY <1>3, <2>1
    <3> QED BY <1>12, <3>1
  <2>2. CASE i > Len(s)
    <3>1. i - Len(s) \in 1..Len(z) /\ i = Len(s) + (i - Len(s))
      BY <1>3, <1>7, <1>11, <2>2
    <3> QED BY <1>13, <3>1
  <2> QED BY <1>3, <2>1, <2>2
<1>15. x = r
  BY <1>7, <1>9, <1>11, <1>14, SeqEqual
<1> QED BY <1>1, <1>4, <1>6, <1>8, <1>10, <1>15

LEMMA PlacedPrefix ==
    ASSUME NEW s \in Seq(Tokens), NEW n \in 0..Len(s)
    PROVE  SubSeq(Placed(s, 0), 1, n) = Placed(SubSeq(s, 1, n), 0)
<1>1. PICK p \in Seq(Entry) : p = Placed(s, 0)
  BY PlacedFromZero
<1>2. Len(p) = Len(s) /\ \A i \in 1..Len(s) : p[i] = [tok |-> s[i], pos |-> i - 1]
  BY <1>1, PlacedFromZero
<1>3. PICK z \in Seq(Tokens) : z = SubSeq(s, 1, n)
  BY PrefixElements
<1>4. Len(z) = n /\ \A i \in 1..n : z[i] = s[i]
  BY <1>3, PrefixElements
<1>5. PICK q \in Seq(Entry) : q = Placed(z, 0)
  BY PlacedFromZero
<1>6. Len(q) = n /\ \A i \in 1..n : q[i] = [tok |-> z[i], pos |-> i - 1]
  BY <1>4, <1>5, PlacedFromZero
<1>7. PICK r \in Seq(Entry) : r = SubSeq(p, 1, n)
  BY <1>2, PrefixElements
<1>8. Len(r) = n /\ \A i \in 1..n : r[i] = p[i]
  BY <1>2, <1>7, PrefixElements
<1>9. ASSUME NEW i \in 1..n PROVE r[i] = q[i]
  <2>1. i \in 1..Len(s)
    OBVIOUS
  <2> QED BY <1>2, <1>4, <1>6, <1>8, <2>1
<1>10. r = q
  BY <1>6, <1>8, <1>9, SeqEqual
<1> QED BY <1>1, <1>3, <1>5, <1>7, <1>10

LEMMA ConcatFront ==
    ASSUME NEW S, NEW s \in Seq(S), NEW z \in Seq(S)
    PROVE  SubSeq(s \o z, 1, Len(s \o z) - Len(z)) = s
<1>1. PICK w \in Seq(S) : w = s \o z
  BY ConcatElements
<1>2. Len(w) - Len(z) = Len(s) /\ Len(s) \in 0..Len(w) /\ \A i \in 1..Len(s) : w[i] = s[i]
  BY <1>1, ConcatElements
<1>3. /\ SubSeq(w, 1, Len(s)) \in Seq(S) /\ Len(SubSeq(w, 1, Len(s))) = Len(s)
      /\ \A i \in 1..Len(s) : SubSeq(w, 1, Len(s))[i] = w[i]
  BY <1>2, PrefixElements
<1>4. SubSeq(w, 1, Len(s)) = s
  BY <1>2, <1>3, SeqEqual
<1> QED BY <1>1, <1>2, <1>4

------------------------------------------------------------------------------
(* Types *)

\* A run is at one of its layers.
InLayers == \A c \in Calls : pc[c] \in RunPcs => layer[c] \in Layers

LEMMA TypeFacts ==
    ASSUME TypeOK, NEW c \in Calls
    PROVE  /\ entries \in Seq(Cacheable) /\ kv \in [Sessions -> [Layers -> Seq(Entry)]] /\ pc \in [Calls -> Pcs]
           /\ prompt \in [Calls -> Seq(Tokens)] /\ said \in [Calls -> Seq(Tokens)] /\ input \in [Calls -> Seq(Tokens)]
           /\ todo \in [Calls -> Seq(Cacheable)] /\ best \in [Calls -> Cacheable]
           /\ layer \in [Calls -> 0..NumLayers] /\ offset \in [Calls -> Nat] /\ disturbed \in [Calls -> BOOLEAN]
           /\ best[c] \in Cacheable /\ best[c].key \in Seq(Tokens) /\ best[c].value \in [Layers -> Seq(Entry)]
           /\ todo[c] \in Seq(Cacheable) /\ prompt[c] \in Seq(Tokens) /\ said[c] \in Seq(Tokens)
           /\ input[c] \in Seq(Tokens) /\ Session[c] \in Sessions
           /\ NumLayers \in Nat \ {0}
BY SessionsAssumption DEF TypeOK, Cacheable

LEMMA NoBestType == NoBest \in Cacheable /\ NoKV \in [Layers -> Seq(Entry)]
BY DEF NoBest, NoKV, Cacheable

LEMMA InitTypeOK == Init => TypeOK /\ InLayers
<1>1. SUFFICES ASSUME Init PROVE TypeOK /\ InLayers
  OBVIOUS
<1>2. best \in [Calls -> Cacheable] /\ kv \in [Sessions -> [Layers -> Seq(Entry)]]
  BY <1>1, NoBestType DEF Init
<1>3. pc \in [Calls -> Pcs] /\ InLayers
  BY <1>1 DEF Init, InLayers, Pcs, RunPcs
<1>4. layer \in [Calls -> 0..NumLayers] /\ offset \in [Calls -> Nat]
  BY <1>1, SessionsAssumption DEF Init
<1> QED BY <1>1, <1>2, <1>3, <1>4 DEF Init, TypeOK, Cacheable

LEMMA GotoType ==
    ASSUME TypeOK, NEW c \in Calls, NEW from, NEW to \in Pcs, Goto(c, from, to)
    PROVE  pc' \in [Calls -> Pcs]
BY DEF TypeOK, Goto

\* A use of a key keeps pairs of keys.
LEMMA UseType ==
    ASSUME recent \subseteq Seq(Tokens) \X Seq(Tokens), NEW key \in Seq(Tokens), Use(key)
    PROVE  recent' \subseteq Seq(Tokens) \X Seq(Tokens)
BY DEF Use

LEMMA DisturbType ==
    ASSUME TypeOK, Disturb
    PROVE  disturbed' \in [Calls -> BOOLEAN]
<1>1. \A c \in Calls : (disturbed[c] \/ pc[c] = "search") \in BOOLEAN
  OBVIOUS
<1> QED BY <1>1, Zenon DEF Disturb

LEMMA IndexType ==
    ASSUME NEW key, NEW i \in Index(key)
    PROVE  i \in DOMAIN entries /\ entries[i].key = key
BY DEF Index

LEMMA LookupTypeOK ==
    ASSUME TypeOK, InLayers, NEW c \in Calls, (\E p \in Prompts : Begin(c, p)) \/ Search(c) \/ Touch(c)
    PROVE  TypeOK' /\ InLayers'
<1>1. /\ entries \in Seq(Cacheable) /\ todo \in [Calls -> Seq(Cacheable)] /\ best \in [Calls -> Cacheable]
      /\ best[c] \in Cacheable /\ todo[c] \in Seq(Cacheable) /\ best[c].key \in Seq(Tokens)
  BY TypeFacts
<1>2. ASSUME NEW p \in Prompts, Begin(c, p) PROVE TypeOK' /\ InLayers'
  <2>1. pc' \in [Calls -> Pcs] /\ pc'[c] \notin RunPcs
    BY <1>2, GotoType DEF Begin, Goto, Pcs, LookupPcs, RunPcs, TypeOK
  <2>2. p \in Seq(Tokens)
    BY SessionsAssumption
  <2>3. prompt' \in [Calls -> Seq(Tokens)] /\ todo' \in [Calls -> Seq(Cacheable)]
    BY <1>1, <1>2, <2>2 DEF Begin, TypeOK
  <2> QED BY <1>2, <2>1, <2>3 DEF Begin, TypeOK, InLayers, Cacheable, Goto, cacheVars, counters, running
<1>3. ASSUME NEW from, from \notin RunPcs, Fail(c, from) PROVE TypeOK' /\ InLayers'
  <2>1. pc' \in [Calls -> Pcs] /\ pc'[c] \notin RunPcs
    BY <1>3, GotoType DEF Fail, Goto, Pcs, RunPcs, TypeOK
  <2> QED BY <1>3, <2>1 DEF Fail, Goto, TypeOK, InLayers, cacheVars, counters, lookup, running
<1>4. CASE Search(c)
  <2>1. CASE todo[c] # <<>> /\ ~disturbed[c] /\ Goto(c, "search", "search") /\ todo' = [todo EXCEPT ![c] = Tail(@)]
             /\ best' = (IF Better(c, Head(todo[c])) THEN [best EXCEPT ![c] = Head(todo[c])] ELSE best)
             /\ UNCHANGED <<cacheVars, kv, prompt, said, disturbed, running>>
    <3>1. pc' \in [Calls -> Pcs] /\ pc'[c] \notin RunPcs
      BY <2>1, GotoType DEF Goto, Pcs, LookupPcs, RunPcs, TypeOK
    <3>2. Head(todo[c]) \in Cacheable /\ Tail(todo[c]) \in Seq(Cacheable)
      BY <1>1, <2>1
    <3>3. best' \in [Calls -> Cacheable] /\ todo' \in [Calls -> Seq(Cacheable)]
      BY <1>1, <2>1, <3>2
    <3> QED BY <2>1, <3>1, <3>3 DEF Goto, TypeOK, InLayers, Cacheable, cacheVars, counters, running
  <2>2. CASE Goto(c, "search", IF best[c].key = <<>> THEN "clear" ELSE "touch")
             /\ misses' = (IF best[c].key = <<>> THEN misses + 1 ELSE misses)
             /\ disturbed' = [disturbed EXCEPT ![c] = FALSE]
             /\ UNCHANGED <<entries, hits, evictions, recent, kv, prompt, said, lookup, running>>
    <3>1. pc' \in [Calls -> Pcs] /\ pc'[c] \notin RunPcs
      BY <2>2, GotoType DEF Goto, Pcs, LookupPcs, RunPcs, TypeOK
    <3>2. misses' \in Nat /\ disturbed' \in [Calls -> BOOLEAN]
      BY <2>2 DEF TypeOK
    <3> QED BY <2>2, <3>1, <3>2 DEF Goto, TypeOK, InLayers, Cacheable, lookup, running
  <2>3. "search" \notin RunPcs
    BY DEF RunPcs
  <2> QED BY <1>3, <1>4, <2>1, <2>2, <2>3 DEF Search
<1>5. CASE Touch(c)
  <2>1. ASSUME Goto(c, "touch", IF Len(best[c].key) < Len(prompt[c]) THEN "load" ELSE "clear"),
               NEW i \in Index(best[c].key), entries' = MovedToEnd(i), UNCHANGED disturbed \/ Disturb, hits' = hits + 1, Use(best[c].key),
               UNCHANGED <<misses, evictions, kv, prompt, said, lookup, running>>
        PROVE  TypeOK' /\ InLayers'
    <3>1. pc' \in [Calls -> Pcs] /\ pc'[c] \notin RunPcs
      BY <2>1, GotoType DEF Goto, Pcs, RunPcs, TypeOK
    <3>2. i \in DOMAIN entries /\ entries[i] \in Cacheable
      BY <1>1, IndexType
    <3>3. RemoveAt(entries, i) \in Seq(Cacheable)
      BY <1>1, <3>2, RemoveAtType
    <3>4. entries' \in Seq(Cacheable)
      BY <2>1, <3>2, <3>3 DEF MovedToEnd
    <3>5. recent' \subseteq Seq(Tokens) \X Seq(Tokens)
      BY <1>1, <2>1, UseType DEF TypeOK
    <3>6. disturbed' \in [Calls -> BOOLEAN] /\ hits' \in Nat
      <4>1. disturbed \in [Calls -> BOOLEAN] /\ hits \in Nat
        BY DEF TypeOK
      <4>2. Disturb => disturbed' \in [Calls -> BOOLEAN]
        BY DisturbType
      <4> QED BY <2>1, <4>1, <4>2
    <3> QED BY <2>1, <3>1, <3>4, <3>5, <3>6 DEF Goto, TypeOK, InLayers, Cacheable, lookup, running
  <2>2. "touch" \notin RunPcs
    BY DEF RunPcs
  <2> QED BY <1>3, <1>5, <2>1, <2>2 DEF Touch
<1> QED BY <1>2, <1>4, <1>5


LEMMA RunTypeOK ==
    ASSUME TypeOK, InLayers, NEW c \in Calls,
           Load(c) \/ Clear(c) \/ Rope(c) \/ Attend(c) \/ End(c) \/ \E token \in Tokens : Say(c, token)
    PROVE  TypeOK' /\ InLayers'
<1>1. /\ kv \in [Sessions -> [Layers -> Seq(Entry)]] /\ pc \in [Calls -> Pcs]
      /\ best \in [Calls -> Cacheable] /\ best[c].key \in Seq(Tokens) /\ best[c].value \in [Layers -> Seq(Entry)]
      /\ prompt[c] \in Seq(Tokens) /\ said \in [Calls -> Seq(Tokens)] /\ input \in [Calls -> Seq(Tokens)]
      /\ input[c] \in Seq(Tokens) /\ layer \in [Calls -> 0..NumLayers] /\ offset \in [Calls -> Nat]
      /\ NumLayers \in Nat \ {0} /\ Session[c] \in Sessions /\ said[c] \in Seq(Tokens)
  BY TypeFacts
<1>2. 1 \in Layers /\ \A l \in Layers : l \in 0..NumLayers /\ (l < NumLayers => l + 1 \in Layers)
  BY <1>1 DEF Layers
<1>3. \A x \in Seq(Tokens) : StartRun(c, x) => input' \in [Calls -> Seq(Tokens)] /\ layer' \in [Calls -> 0..NumLayers]
                                               /\ layer' = [layer EXCEPT ![c] = 1]
  BY <1>1, <1>2 DEF StartRun
<1>4. best' = [best EXCEPT ![c] = NoBest] => best' \in [Calls -> Cacheable]
  BY <1>1, NoBestType
<1>5. CASE Load(c)
  <2>1. pc' \in [Calls -> Pcs] /\ pc' = [pc EXCEPT ![c] = "rope"]
    BY <1>5, GotoType DEF Load, Goto, Pcs, RunPcs
  <2>2. kv' \in [Sessions -> [Layers -> Seq(Entry)]]
    BY <1>1, <1>5 DEF Load
  <2>3. Rest(c) \in Seq(Tokens)
    BY <1>1 DEF Rest
  <2>4. input' \in [Calls -> Seq(Tokens)] /\ layer' \in [Calls -> 0..NumLayers] /\ layer' = [layer EXCEPT ![c] = 1]
    BY <1>3, <1>5, <2>3 DEF Load
  <2>5. InLayers'
    BY <1>1, <1>2, <2>1, <2>4 DEF InLayers
  <2> QED BY <1>4, <1>5, <2>1, <2>2, <2>4, <2>5 DEF Load, TypeOK, Cacheable, cacheVars, counters
<1>6. CASE Clear(c)
  <2>1. pc' \in [Calls -> Pcs] /\ pc' = [pc EXCEPT ![c] = "rope"]
    BY <1>6, GotoType DEF Clear, Goto, Pcs, RunPcs
  <2>2. kv' \in [Sessions -> [Layers -> Seq(Entry)]]
    BY <1>1, <1>6, NoBestType DEF Clear, Cleared
  <2>3. input' \in [Calls -> Seq(Tokens)] /\ layer' \in [Calls -> 0..NumLayers] /\ layer' = [layer EXCEPT ![c] = 1]
    BY <1>1, <1>3, <1>6 DEF Clear
  <2>4. InLayers'
    BY <1>1, <1>2, <2>1, <2>3 DEF InLayers
  <2> QED BY <1>4, <1>6, <2>1, <2>2, <2>3, <2>4 DEF Clear, TypeOK, Cacheable, cacheVars, counters
<1>7. CASE Rope(c)
  <2>1. pc' \in [Calls -> Pcs] /\ pc[c] = "rope" /\ pc' = [pc EXCEPT ![c] = "attend"]
    BY <1>7, GotoType DEF Rope, Goto, Pcs, RunPcs
  <2>2. layer[c] \in Layers /\ InLayers'
    BY <1>1, <1>7, <2>1 DEF InLayers, RunPcs, Rope
  <2>3. PositionOffset(c) \in Nat
    BY <1>1, <2>2 DEF PositionOffset
  <2>4. offset' \in [Calls -> Nat]
    BY <1>1, <1>7, <2>3 DEF Rope
  <2> QED BY <1>7, <2>1, <2>2, <2>4 DEF Rope, TypeOK, Cacheable, cacheVars, counters, lookup
<1>8. CASE Attend(c)
  <2>1. AfterRun(c) \in Pcs \ RunPcs
    BY DEF AfterRun, Pcs, PutPcs, RunPcs
  <2>2. /\ pc' \in [Calls -> Pcs] /\ pc[c] = "attend"
        /\ pc' = [pc EXCEPT ![c] = IF layer[c] < NumLayers THEN "rope" ELSE AfterRun(c)]
    BY <1>8, <2>1, GotoType DEF Attend, Goto, Pcs, RunPcs
  <2>3. layer[c] \in Layers
    BY <2>2 DEF InLayers, RunPcs
  <2>4. /\ layer' = [layer EXCEPT ![c] = IF layer[c] < NumLayers THEN layer[c] + 1 ELSE 0]
        /\ layer' \in [Calls -> 0..NumLayers]
    BY <1>1, <1>2, <1>8, <2>3 DEF Attend
  <2>5. InLayers'
    <3>1. \A o \in Calls \ {c} : pc'[o] = pc[o] /\ layer'[o] = layer[o]
      BY <1>1, <2>2, <2>4
    <3>2. pc'[c] \in RunPcs => layer'[c] \in Layers
      BY <1>1, <1>2, <2>1, <2>2, <2>3, <2>4
    <3> QED BY <3>1, <3>2 DEF InLayers
  <2>6. Placed(input[c], offset[c]) \in Seq(Entry)
    BY <1>1, PlacedType
  <2>7. kv[Session[c]][layer[c]] \o Placed(input[c], offset[c]) \in Seq(Entry)
    BY <1>1, <2>3, <2>6
  <2>8. kv' \in [Sessions -> [Layers -> Seq(Entry)]]
    BY <1>1, <1>8, <2>3, <2>7 DEF Attend
  <2>9. input' \in [Calls -> Seq(Tokens)] /\ offset' \in [Calls -> Nat]
    BY <1>1, <1>8 DEF Attend
  <2> QED BY <1>8, <2>2, <2>4, <2>5, <2>8, <2>9 DEF Attend, TypeOK, Cacheable, cacheVars, counters, lookup
<1>9. ASSUME NEW token \in Tokens, Say(c, token) PROVE TypeOK' /\ InLayers'
  <2>1. pc' \in [Calls -> Pcs] /\ pc' = [pc EXCEPT ![c] = "rope"]
    BY <1>9, GotoType DEF Say, Goto, Pcs, RunPcs
  <2>2. said' \in [Calls -> Seq(Tokens)] /\ <<token>> \in Seq(Tokens)
    BY <1>1, <1>9 DEF Say
  <2>3. input' \in [Calls -> Seq(Tokens)] /\ layer' \in [Calls -> 0..NumLayers] /\ layer' = [layer EXCEPT ![c] = 1]
    BY <1>3, <1>9, <2>2 DEF Say
  <2>4. InLayers'
    BY <1>1, <1>2, <2>1, <2>3 DEF InLayers
  <2> QED BY <1>9, <2>1, <2>2, <2>3, <2>4 DEF Say, TypeOK, Cacheable, cacheVars, counters, lookup
<1>10. CASE End(c)
  <2>1. pc' \in [Calls -> Pcs] /\ pc' = [pc EXCEPT ![c] = "done"] /\ "done" \notin RunPcs
    BY <1>10, GotoType DEF End, Goto, Pcs, RunPcs
  <2> QED BY <1>1, <1>10, <2>1 DEF End, TypeOK, Cacheable, InLayers, cacheVars, counters, lookup, running
<1> QED BY <1>5, <1>6, <1>7, <1>8, <1>9, <1>10


LEMMA PutTypeOK ==
    ASSUME TypeOK, InLayers, NEW c \in Calls, Remember(c) \/ Pop(c) \/ Insert(c) \/ Full(c) \/ Evict(c)
    PROVE  TypeOK' /\ InLayers'
<1>1. /\ entries \in Seq(Cacheable) /\ kv \in [Sessions -> [Layers -> Seq(Entry)]] /\ pc \in [Calls -> Pcs]
      /\ best \in [Calls -> Cacheable] /\ best[c] \in Cacheable /\ prompt[c] \in Seq(Tokens) /\ Session[c] \in Sessions
  BY TypeFacts
<1>2. disturbed \in [Calls -> BOOLEAN] /\ (Disturb => disturbed' \in [Calls -> BOOLEAN])
  BY DisturbType DEF TypeOK
<1>3. best' = [best EXCEPT ![c] = NoBest] => best' \in [Calls -> Cacheable]
  BY <1>1, NoBestType
<1>4. \A from, to : Goto(c, from, to) /\ to \in Pcs \ RunPcs /\ layer' = layer => pc' \in [Calls -> Pcs] /\ InLayers'
  BY <1>1 DEF Goto, InLayers
<1>5. {"pop", "insert", "full", "evict", "next", "failed"} \subseteq Pcs \ RunPcs
  BY DEF Pcs, PutPcs, RunPcs
<1>6. ASSUME NEW from, Fail(c, from) PROVE TypeOK' /\ InLayers'
  BY <1>4, <1>5, <1>6 DEF Fail, TypeOK, cacheVars, counters, lookup, running
<1>7. CASE Remember(c)
  <2>1. pc' \in [Calls -> Pcs] /\ InLayers'
    BY <1>4, <1>5, <1>7 DEF Remember, running
  <2>2. ASSUME NEW l \in Layers PROVE SubSeq(kv[Session[c]][l], 1, Least(Len(prompt[c]), Len(kv[Session[c]][l]))) \in Seq(Entry)
    <3>1. kv[Session[c]][l] \in Seq(Entry) /\ Len(prompt[c]) \in Nat
      BY <1>1
    <3>2. Len(kv[Session[c]][l]) \in Nat
      BY <3>1
    <3>3. Least(Len(prompt[c]), Len(kv[Session[c]][l])) \in 0..Len(kv[Session[c]][l])
      BY <3>1, <3>2 DEF Least
    <3> QED BY <3>1, <3>3, PrefixElements
  <2>3. Snapshot(c) \in [Layers -> Seq(Entry)]
    BY <2>2 DEF Snapshot
  <2>4. best' \in [Calls -> Cacheable]
    BY <1>1, <1>7, <2>3 DEF Remember, Cacheable
  <2> QED BY <1>7, <2>1, <2>4 DEF Remember, TypeOK, Cacheable, cacheVars, counters, running
<1>8. ASSUME Goto(c, "pop", "insert"), NEW i \in Index(prompt[c]), entries' = RemoveAt(entries, i), Disturb,
             UNCHANGED <<counters, recent, kv, prompt, said, lookup, running>>
      PROVE  TypeOK' /\ InLayers'
  <2>1. pc' \in [Calls -> Pcs] /\ InLayers'
    BY <1>4, <1>5, <1>8 DEF running
  <2>2. entries' \in Seq(Cacheable)
    BY <1>1, <1>8, IndexType, RemoveAtType
  <2> QED BY <1>2, <1>8, <2>1, <2>2 DEF TypeOK, Cacheable, counters, lookup, running
<1>9. CASE Insert(c)
  <2>1. pc' \in [Calls -> Pcs] /\ InLayers'
    BY <1>4, <1>5, <1>9 DEF Insert, running
  <2>2. entries' = [i \in DOMAIN entries |-> IF i \in Index(prompt[c]) THEN best[c] ELSE entries[i]] =>
          entries' \in Seq(Cacheable)
    <3>1. [i \in 1..Len(entries) |-> IF i \in Index(prompt[c]) THEN best[c] ELSE entries[i]] \in Seq(Cacheable)
      BY <1>1
    <3> QED BY <1>1, <3>1
  <2>3. Append(entries, best[c]) \in Seq(Cacheable)
    BY <1>1
  <2>4. entries' \in Seq(Cacheable) /\ disturbed' \in [Calls -> BOOLEAN]
    BY <1>2, <1>9, <2>2, <2>3 DEF Insert
  <2>5. recent' \subseteq Seq(Tokens) \X Seq(Tokens)
    BY <1>1, <1>9, UseType DEF Insert, TypeOK
  <2>6. best' \in [Calls -> Cacheable]
    BY <1>3, <1>9 DEF Insert
  <2> QED BY <1>9, <2>1, <2>4, <2>5, <2>6 DEF Insert, TypeOK, Cacheable, counters, running
<1>10. CASE Full(c)
  BY <1>4, <1>5, <1>10 DEF Full, TypeOK, cacheVars, counters, lookup, running
<1>11. CASE entries # <<>> /\ Goto(c, "evict", "full") /\ entries' = Tail(entries) /\ evictions' = evictions + 1
            /\ Disturb /\ UNCHANGED <<hits, misses, recent, kv, prompt, said, lookup, running>>
  <2>1. pc' \in [Calls -> Pcs] /\ InLayers'
    BY <1>4, <1>5, <1>11 DEF running
  <2>2. entries' \in Seq(Cacheable) /\ evictions' \in Nat
    BY <1>1, <1>11 DEF TypeOK
  <2> QED BY <1>2, <1>11, <2>1, <2>2 DEF TypeOK, Cacheable, lookup, running
<1> QED BY <1>6, <1>7, <1>8, <1>9, <1>10, <1>11 DEF Pop, Evict

LEMMA TypeInductive == TypeOK /\ InLayers /\ [Next]_vars => TypeOK' /\ InLayers'
<1>1. SUFFICES ASSUME TypeOK, InLayers, [Next]_vars PROVE TypeOK' /\ InLayers'
  OBVIOUS
<1>2. CASE UNCHANGED vars
  BY <1>1, <1>2 DEF vars, cacheVars, counters, TypeOK, InLayers
<1>3. ASSUME NEW c \in Calls,
             \/ \E p \in Prompts : Begin(c, p)
             \/ \E token \in Tokens : Say(c, token)
             \/ Step(c)
      PROVE  TypeOK' /\ InLayers'
  BY <1>1, <1>3, LookupTypeOK, RunTypeOK, PutTypeOK DEF Step
<1> QED BY <1>1, <1>2, <1>3 DEF Next

\* Whatever the calls are and however they interleave, every variable of the
\* sessions and of the prefix cache holds a value of the kind the code gives it;
\* in particular no run reads the length of a layer that is not there.
THEOREM TypeCorrect == Spec => []TypeOK
<1>1. Init => TypeOK /\ InLayers
  BY InitTypeOK
<1>2. TypeOK /\ InLayers /\ [Next]_vars => TypeOK' /\ InLayers'
  BY TypeInductive
<1> QED BY <1>1, <1>2, PTL DEF Spec

------------------------------------------------------------------------------
(* What one call leaves to the others *)

Moves(c) == \/ \E p \in Prompts : Begin(c, p)
            \/ \E token \in Tokens : Say(c, token)
            \/ Step(c)

SameCall(o) == /\ pc'[o] = pc[o] /\ prompt'[o] = prompt[o] /\ said'[o] = said[o] /\ todo'[o] = todo[o]
               /\ best'[o] = best[o] /\ input'[o] = input[o] /\ layer'[o] = layer[o] /\ offset'[o] = offset[o]

LEMMA LeavesOthers ==
    ASSUME TypeOK, NEW c \in Calls, Moves(c)
    PROVE  /\ \A o \in Calls \ {c} : SameCall(o)
           /\ \A s \in Sessions \ {Session[c]} : kv'[s] = kv[s]
<1>1. /\ kv \in [Sessions -> [Layers -> Seq(Entry)]] /\ pc \in [Calls -> Pcs]
      /\ prompt \in [Calls -> Seq(Tokens)] /\ said \in [Calls -> Seq(Tokens)] /\ input \in [Calls -> Seq(Tokens)]
      /\ todo \in [Calls -> Seq(Cacheable)] /\ best \in [Calls -> Cacheable]
      /\ layer \in [Calls -> 0..NumLayers] /\ offset \in [Calls -> Nat]
  BY TypeFacts
<1>2. \A from : Fail(c, from) => UNCHANGED kv /\ \A o \in Calls \ {c} : SameCall(o)
  BY <1>1 DEF Fail, Goto, SameCall, lookup, running
<1>3. CASE (\E p \in Prompts : Begin(c, p)) \/ Search(c) \/ Touch(c)
  BY <1>1, <1>2, <1>3 DEF Begin, Search, Touch, Goto, SameCall, lookup, running
<1>4. CASE Load(c) \/ Clear(c) \/ \E token \in Tokens : Say(c, token)
  BY <1>1, <1>4 DEF Load, Clear, Say, StartRun, Goto, SameCall, lookup, running
<1>5. CASE Rope(c) \/ Attend(c) \/ End(c)
  BY <1>1, <1>5 DEF Rope, Attend, End, Goto, SameCall, lookup, running
<1>6. CASE Remember(c) \/ Pop(c) \/ Insert(c) \/ Full(c) \/ Evict(c)
  BY <1>1, <1>2, <1>6 DEF Remember, Pop, Insert, Full, Evict, Goto, SameCall, lookup, running
<1> QED BY <1>3, <1>4, <1>5, <1>6 DEF Moves, Step

\* A call that is not running only begins, and with Serial alone.
LEMMA AloneMoves ==
    ASSUME TypeOK, OneAtATime, NEW c \in Calls, Moves(c)
    PROVE  OneAtATime' /\ (Serial => \A o \in Calls \ {c} : pc[o] \in Stopped)
<1>1. Serial => \A o \in Calls \ {c} : pc[o] \in Stopped
  <2>1. CASE \E p \in Prompts : Begin(c, p)
    BY <2>1 DEF Begin, Stopped
  <2>2. CASE ~\E p \in Prompts : Begin(c, p)
    <3>1. \A from, to : Goto(c, from, to) => pc[c] = from
      BY DEF Goto
    <3>2. pc[c] \notin Stopped
      BY <2>2, <3>1 DEF Moves, Step, Search, Touch, Load, Clear, Rope, Attend, End, Say, Remember, Pop, Insert,
         Full, Evict, Fail, Stopped
    <3> QED BY <3>2 DEF OneAtATime
  <2> QED BY <2>1, <2>2
<1>2. \A o \in Calls \ {c} : pc'[o] = pc[o]
  BY LeavesOthers DEF SameCall
<1> QED BY <1>1, <1>2 DEF OneAtATime

LEMMA OthersKnow ==
    ASSUME TypeOK, Isolated, OneAtATime, NEW c \in Calls, Moves(c), NEW o \in Calls \ {c}, CallInv(o)
    PROVE  CallInv(o)'
<1>1. SameCall(o)
  BY LeavesOthers
<1>2. CASE pc[o] \in Stopped
  BY <1>1, <1>2 DEF CallInv, SameCall, Stopped, LookupPcs, RunPcs, PutPcs
<1>3. CASE pc[o] \notin Stopped
  <2>1. Session[o] \in Sessions \ {Session[c]}
    BY <1>3, AloneMoves, SessionsAssumption DEF Isolated, Forked
  <2>2. kv'[Session[o]] = kv[Session[o]]
    BY <2>1, LeavesOthers
  <2>3. Context(o)' = Context(o) /\ Past(o)' = Past(o)
    BY <1>1 DEF SameCall, Context, Past
  <2> QED BY <1>1, <2>2, <2>3 DEF CallInv, SameCall, Holds, Exact
<1> QED BY <1>2, <1>3

\* The dictionary gains at most an exact snapshot.
LEMMA EntriesExact ==
    ASSUME SnapshotsExact, entries \in Seq(Cacheable), entries' \in Seq(Cacheable), NEW e, Exact(e),
           ToSet(entries') \subseteq ToSet(entries) \cup {e}
    PROVE  SnapshotsExact'
<1>1. ASSUME NEW i \in DOMAIN entries' PROVE Exact(entries'[i])
  <2>1. entries'[i] \in ToSet(entries')
    BY DEF ToSet
  <2>2. CASE entries'[i] = e
    BY <2>2
  <2>3. CASE entries'[i] \in ToSet(entries)
    BY <2>3 DEF ToSet, SnapshotsExact, Exact
  <2> QED BY <2>1, <2>2, <2>3
<1> QED BY <1>1 DEF SnapshotsExact, Exact

LEMMA NoBestExact ==
    /\ Exact(NoBest)
    /\ \A s \in Seq(Tokens) : IsPrefix(<<>>, s)
<1>1. Exact(NoBest)
  BY PlacedEmpty DEF Exact, NoBest, NoKV
<1>2. ASSUME NEW s \in Seq(Tokens) PROVE IsPrefix(<<>>, s)
  BY SubSeqEmpty DEF IsPrefix
<1> QED BY <1>1, <1>2


LEMMA IsPrefixOf ==
    ASSUME NEW s \in Seq(Tokens), NEW z \in Seq(Tokens), IsPrefix(s, z)
    PROVE  Len(s) \in 0..Len(z) /\ s = SubSeq(z, 1, Len(s))
<1>1. SubSeq(s, 1, Len(s)) = s
  BY SubSeqFull
<1>2. Len(s) \in Nat /\ Len(z) \in Nat
  OBVIOUS
<1> QED BY <1>1, <1>2 DEF IsPrefix

------------------------------------------------------------------------------
(* The lookup *)

LEMMA FailKnows ==
    ASSUME TypeOK, SnapshotsExact, NEW c \in Calls, CallInv(c), NEW from, from # "idle", Fail(c, from)
    PROVE  SnapshotsExact' /\ CallInv(c)'
<1>1. /\ UNCHANGED <<entries, prompt>> /\ pc[c] = from /\ pc'[c] = "failed"
  BY DEF Fail, Goto, cacheVars, TypeOK
<1> QED BY <1>1 DEF SnapshotsExact, CallInv, LookupPcs, RunPcs, PutPcs

LEMMA BeginKnows ==
    ASSUME TypeOK, SnapshotsExact, NEW c \in Calls, CallInv(c), NEW p \in Prompts, Begin(c, p)
    PROVE  SnapshotsExact' /\ CallInv(c)'
<1>1. /\ entries' = entries /\ said' = said /\ best' = best /\ pc[c] = "idle" /\ pc'[c] \in {"search", "clear"}
      /\ prompt'[c] = p /\ p \in Seq(Tokens) /\ p # <<>> /\ todo'[c] \in {entries, <<>>}
  BY SessionsAssumption DEF Begin, Goto, TypeOK, cacheVars
<1>2. best[c] = NoBest /\ said[c] = <<>>
  BY <1>1 DEF CallInv
<1>3. \A k \in DOMAIN todo'[c] : Exact(todo'[c][k])
  BY <1>1 DEF SnapshotsExact, Exact
<1>4. Exact(best'[c]) /\ IsPrefix(best'[c].key, prompt'[c])
  BY <1>1, <1>2, NoBestExact DEF NoBest
<1>5. SnapshotsExact'
  BY <1>1 DEF SnapshotsExact
<1> QED BY <1>1, <1>2, <1>3, <1>4, <1>5 DEF CallInv, LookupPcs, RunPcs, PutPcs, Exact

LEMMA SearchKnows ==
    ASSUME TypeOK, SnapshotsExact, NEW c \in Calls, CallInv(c), Search(c)
    PROVE  SnapshotsExact' /\ CallInv(c)'
<1>1. todo \in [Calls -> Seq(Cacheable)] /\ todo[c] \in Seq(Cacheable) /\ best \in [Calls -> Cacheable] /\ pc \in [Calls -> Pcs]
  BY TypeFacts
<1>2. CASE Fail(c, "search")
  BY <1>2, FailKnows
<1>3. CASE ~Fail(c, "search")
  <2>1. pc[c] = "search" /\ pc'[c] \in {"search", "touch", "clear"} /\ UNCHANGED <<entries, prompt, said>>
    BY <1>1, <1>3 DEF Search, Goto, cacheVars
  <2>2. /\ said[c] = <<>> /\ prompt[c] # <<>> /\ Exact(best[c]) /\ IsPrefix(best[c].key, prompt[c])
        /\ \A k \in DOMAIN todo[c] : Exact(todo[c][k])
    BY <2>1 DEF CallInv, LookupPcs
  <2>3. SnapshotsExact'
    BY <2>1 DEF SnapshotsExact
  <2>4. CASE todo[c] # <<>> /\ todo'[c] = Tail(todo[c])
             /\ best'[c] = IF Better(c, Head(todo[c])) THEN Head(todo[c]) ELSE best[c]
    <3>1. Head(todo[c]) = todo[c][1] /\ 1 \in DOMAIN todo[c]
      BY <1>1, <2>4
    <3>2. Exact(best'[c]) /\ IsPrefix(best'[c].key, prompt[c])
      BY <2>2, <2>4, <3>1 DEF Better
    <3>3. \A k \in DOMAIN Tail(todo[c]) : k + 1 \in DOMAIN todo[c] /\ Tail(todo[c])[k] = todo[c][k + 1]
      BY <1>1, <2>4
    <3>4. \A k \in DOMAIN todo'[c] : Exact(todo'[c][k])
      BY <2>2, <2>4, <3>3
    <3> QED BY <2>1, <2>2, <2>3, <3>2, <3>4 DEF CallInv, LookupPcs, RunPcs, PutPcs, Exact
  <2>5. CASE todo' = todo /\ best' = best
    BY <2>1, <2>2, <2>3, <2>5 DEF CallInv, LookupPcs, RunPcs, PutPcs, Exact
  <2> QED BY <1>1, <1>3, <2>4, <2>5 DEF Search, lookup
<1> QED BY <1>2, <1>3

LEMMA MovedToEndElements ==
    ASSUME TypeOK, NEW i \in DOMAIN entries
    PROVE  /\ MovedToEnd(i) \in Seq(Cacheable) /\ Len(MovedToEnd(i)) = Len(entries)
           /\ ToSet(MovedToEnd(i)) = ToSet(entries)
<1>0. entries \in Seq(Cacheable)
  BY DEF TypeOK, Cacheable
<1>1. entries \in Seq(Cacheable) /\ entries[i] \in Cacheable
  BY <1>0
<1>2. RemoveAt(entries, i) \in Seq(Cacheable) /\ Len(RemoveAt(entries, i)) = Len(entries) - 1
  BY <1>1, RemoveAtType
<1>3. ToSet(entries) = {entries[i]} \cup ToSet(RemoveAt(entries, i))
  BY <1>1, ToSetRemoveAt
<1>4. ToSet(MovedToEnd(i)) = ToSet(RemoveAt(entries, i)) \cup {entries[i]}
  BY <1>1, <1>2, ToSetAppend DEF MovedToEnd
<1>5. Len(MovedToEnd(i)) = Len(entries)
  BY <1>1, <1>2 DEF MovedToEnd
<1> QED BY <1>1, <1>2, <1>3, <1>4, <1>5 DEF MovedToEnd

LEMMA TouchKnows ==
    ASSUME TypeOK, SnapshotsExact, NEW c \in Calls, CallInv(c), Touch(c)
    PROVE  SnapshotsExact' /\ CallInv(c)'
<1>1. pc \in [Calls -> Pcs] /\ entries \in Seq(Cacheable)
  BY TypeFacts
<1>2. CASE Fail(c, "touch")
  BY <1>2, FailKnows
<1>3. ASSUME NEW i \in Index(best[c].key), entries' = MovedToEnd(i), UNCHANGED <<prompt, said, lookup>>,
             Goto(c, "touch", IF Len(best[c].key) < Len(prompt[c]) THEN "load" ELSE "clear")
      PROVE  SnapshotsExact' /\ CallInv(c)'
  <2>1. pc[c] = "touch" /\ pc'[c] \in {"load", "clear"} /\ (pc'[c] = "load" => Len(best[c].key) < Len(prompt[c]))
    BY <1>1, <1>3 DEF Goto
  <2>2. said[c] = <<>> /\ prompt[c] # <<>> /\ Exact(best[c]) /\ IsPrefix(best[c].key, prompt[c])
    BY <2>1 DEF CallInv, LookupPcs
  <2>3. SnapshotsExact'
    <3>1. i \in DOMAIN entries
      BY <1>3, IndexType
    <3>2. entries' \in Seq(Cacheable) /\ ToSet(entries') = ToSet(entries)
      BY <1>3, <3>1, MovedToEndElements
    <3> QED BY <1>1, <2>2, <3>2, EntriesExact
  <2> QED BY <1>3, <2>1, <2>2, <2>3 DEF CallInv, LookupPcs, RunPcs, PutPcs, Exact, lookup
<1> QED BY <1>2, <1>3 DEF Touch

------------------------------------------------------------------------------
(* A run *)

LEMMA LoadKnows ==
    ASSUME TypeOK, SnapshotsExact, NEW c \in Calls, CallInv(c), Load(c)
    PROVE  SnapshotsExact' /\ CallInv(c)'
<1>1. /\ kv \in [Sessions -> [Layers -> Seq(Entry)]] /\ pc \in [Calls -> Pcs] /\ Session[c] \in Sessions
      /\ input \in [Calls -> Seq(Tokens)] /\ layer \in [Calls -> 0..NumLayers] /\ NumLayers \in Nat \ {0}
      /\ best[c].key \in Seq(Tokens) /\ prompt[c] \in Seq(Tokens) /\ best[c].value \in [Layers -> Seq(Entry)]
  BY TypeFacts
<1>2. /\ pc[c] = "load" /\ pc'[c] = "rope" /\ UNCHANGED <<entries, prompt, said>>
      /\ kv'[Session[c]] = best[c].value /\ input'[c] = Rest(c) /\ layer'[c] = 1
  BY <1>1 DEF Load, StartRun, Goto, cacheVars
<1>3. /\ said[c] = <<>> /\ prompt[c] # <<>> /\ Exact(best[c])
      /\ IsPrefix(best[c].key, prompt[c]) /\ Len(best[c].key) < Len(prompt[c])
  BY <1>2 DEF CallInv
<1>4. Len(best[c].key) \in 0..Len(prompt[c]) /\ best[c].key = SubSeq(prompt[c], 1, Len(best[c].key))
  BY <1>1, <1>3, IsPrefixOf
<1>5. /\ Rest(c) \in Seq(Tokens) /\ Len(Rest(c)) = Len(prompt[c]) - Len(best[c].key)
      /\ prompt[c] = best[c].key \o Rest(c)
  BY <1>1, <1>4, CutConcat DEF Rest
<1>6. Context(c)' = prompt[c]
  BY <1>1, <1>2, <1>3 DEF Context
<1>7. Past(c)' = best[c].key
  BY <1>1, <1>2, <1>5, <1>6, ConcatFront DEF Past
<1>8. \A l \in Layers : ~(l < 1) /\ 1 \in Layers
  BY <1>1 DEF Layers
<1>9. layer'[c] \in Layers
  BY <1>1, <1>2 DEF Layers
<1>10. \A l \in Layers : kv'[Session[c]][l] = Placed(Past(c)', 0)
  BY <1>2, <1>3, <1>7 DEF Exact
<1>11. \A l \in Layers : kv'[Session[c]][l] = Placed(IF l < layer'[c] THEN Context(c)' ELSE Past(c)', 0)
  BY <1>2, <1>8, <1>10
<1>12. Context(c)' = Past(c)' \o input'[c]
  BY <1>2, <1>5, <1>6, <1>7
<1>13. SnapshotsExact'
  BY <1>2 DEF SnapshotsExact
<1> QED BY <1>2, <1>3, <1>9, <1>11, <1>12, <1>13 DEF CallInv, Holds, LookupPcs, RunPcs, PutPcs

LEMMA ClearKnows ==
    ASSUME TypeOK, SnapshotsExact, NEW c \in Calls, CallInv(c), Clear(c)
    PROVE  SnapshotsExact' /\ CallInv(c)'
<1>1. /\ kv \in [Sessions -> [Layers -> Seq(Entry)]] /\ pc \in [Calls -> Pcs] /\ Session[c] \in Sessions
      /\ input \in [Calls -> Seq(Tokens)] /\ layer \in [Calls -> 0..NumLayers] /\ NumLayers \in Nat \ {0}
      /\ prompt[c] \in Seq(Tokens)
  BY TypeFacts
<1>2. /\ pc[c] = "clear" /\ pc'[c] = "rope" /\ UNCHANGED <<entries, prompt, said>>
      /\ kv'[Session[c]] = NoKV /\ input'[c] = prompt[c] /\ layer'[c] = 1
  BY <1>1 DEF Clear, Cleared, StartRun, Goto, cacheVars
<1>3. said[c] = <<>> /\ prompt[c] # <<>>
  BY <1>2 DEF CallInv
<1>4. Context(c)' = prompt[c]
  BY <1>1, <1>2, <1>3 DEF Context
<1>5. Past(c)' = <<>>
  <2>1. Len(prompt[c]) - Len(prompt[c]) = 0
    BY <1>1
  <2>2. SubSeq(prompt[c], 1, 0) = <<>>
    BY SubSeqEmpty
  <2> QED BY <1>2, <1>4, <2>1, <2>2 DEF Past
<1>6. \A l \in Layers : ~(l < 1)
  BY <1>1 DEF Layers
<1>7. layer'[c] \in Layers
  BY <1>1, <1>2 DEF Layers
<1>8. \A l \in Layers : kv'[Session[c]][l] = Placed(IF l < layer'[c] THEN Context(c)' ELSE Past(c)', 0)
  BY <1>2, <1>5, <1>6, PlacedEmpty DEF NoKV
<1>9. Context(c)' = Past(c)' \o input'[c]
  BY <1>1, <1>2, <1>4, <1>5
<1>10. SnapshotsExact'
  BY <1>2 DEF SnapshotsExact
<1> QED BY <1>2, <1>3, <1>7, <1>8, <1>9, <1>10 DEF CallInv, Holds, LookupPcs, RunPcs, PutPcs

LEMMA ContextType ==
    ASSUME TypeOK, NEW c \in Calls
    PROVE  Context(c) \in Seq(Tokens) /\ Past(c) \in Seq(Tokens)
<1>1. PICK s \in Seq(Tokens) : s = Context(c)
  BY TypeFacts, ConcatElements DEF Context
<1>2. Len(input[c]) \in Nat /\ Len(s) \in Nat
  BY TypeFacts
<1>3. CASE Len(s) - Len(input[c]) \in 0..Len(s)
  BY <1>1, <1>3, PrefixElements DEF Past
<1>4. CASE Len(s) - Len(input[c]) < 1
  <2>1. SubSeq(s, 1, Len(s) - Len(input[c])) = <<>>
    BY <1>2, <1>4, SubSeqEmpty
  <2> QED BY <1>1, <2>1 DEF Past
<1> QED BY <1>1, <1>2, <1>3, <1>4

\* The projection of a layer rotates its keys from the end of what it holds.
LEMMA RopeKnows ==
    ASSUME TypeOK, SnapshotsExact, NEW c \in Calls, CallInv(c), Rope(c)
    PROVE  SnapshotsExact' /\ CallInv(c)'
<1>1. pc \in [Calls -> Pcs] /\ offset \in [Calls -> Nat]
  BY TypeFacts
<1>2. /\ pc[c] = "rope" /\ pc'[c] = "attend" /\ UNCHANGED <<entries, kv, prompt, said, input, layer>>
      /\ offset'[c] = Len(kv[Session[c]][layer[c]])
  BY <1>1 DEF Rope, PositionOffset, Goto, cacheVars
<1>3. /\ layer[c] \in Layers /\ Context(c) = Past(c) \o input[c] /\ prompt[c] # <<>>
      /\ said[c] # <<>> => Len(input[c]) = 1
      /\ \A l \in Layers : Holds(c, l, IF l < layer[c] THEN Context(c) ELSE Past(c))
  BY <1>2 DEF CallInv, RunPcs
<1>4. kv[Session[c]][layer[c]] = Placed(Past(c), 0)
  <2>1. ~(layer[c] < layer[c])
    BY <1>3 DEF Layers
  <2> QED BY <1>3, <2>1 DEF Holds
<1>5. offset'[c] = Len(Past(c))
  BY <1>2, <1>4, ContextType, PlacedFromZero
<1>6. Context(c)' = Context(c) /\ Past(c)' = Past(c)
  BY <1>2 DEF Context, Past
<1>7. SnapshotsExact'
  BY <1>2 DEF SnapshotsExact
<1> QED BY <1>2, <1>3, <1>5, <1>6, <1>7 DEF CallInv, Holds, LookupPcs, RunPcs, PutPcs

\* The attention of a layer gives it the rest of the context.
LEMMA AttendKnows ==
    ASSUME TypeOK, SnapshotsExact, NEW c \in Calls, CallInv(c), Attend(c)
    PROVE  SnapshotsExact' /\ CallInv(c)'
<1>1. /\ pc \in [Calls -> Pcs] /\ kv \in [Sessions -> [Layers -> Seq(Entry)]] /\ Session[c] \in Sessions
      /\ input \in [Calls -> Seq(Tokens)] /\ input[c] \in Seq(Tokens)
      /\ layer \in [Calls -> 0..NumLayers] /\ NumLayers \in Nat \ {0}
  BY TypeFacts
<1>2. /\ pc[c] = "attend" /\ pc'[c] = (IF layer[c] < NumLayers THEN "rope" ELSE AfterRun(c))
      /\ UNCHANGED <<entries, prompt, said>>
      /\ kv' = [kv EXCEPT ![Session[c]][layer[c]] = kv[Session[c]][layer[c]] \o Placed(input[c], offset[c])]
      /\ layer'[c] = (IF layer[c] < NumLayers THEN layer[c] + 1 ELSE 0)
      /\ layer[c] < NumLayers => input' = input
  BY <1>1 DEF Attend, Goto, cacheVars
<1>3. /\ layer[c] \in Layers /\ Context(c) = Past(c) \o input[c] /\ prompt[c] # <<>>
      /\ said[c] # <<>> => Len(input[c]) = 1
      /\ \A l \in Layers : Holds(c, l, IF l < layer[c] THEN Context(c) ELSE Past(c))
      /\ offset[c] = Len(Past(c))
  BY <1>2 DEF CallInv, RunPcs
<1>4. kv[Session[c]][layer[c]] = Placed(Past(c), 0)
  <2>1. ~(layer[c] < layer[c])
    BY <1>3 DEF Layers
  <2> QED BY <1>3, <2>1 DEF Holds
<1>5. Context(c)' = Context(c)
  BY <1>2 DEF Context
<1>6. kv'[Session[c]][layer[c]] = Placed(Context(c), 0)
  <2>1. Placed(Past(c), 0) \o Placed(input[c], Len(Past(c))) = Placed(Past(c) \o input[c], 0)
    BY <1>1, ContextType, PlacedConcat
  <2>2. kv'[Session[c]][layer[c]] = kv[Session[c]][layer[c]] \o Placed(input[c], offset[c])
    BY <1>1, <1>2, <1>3
  <2> QED BY <1>3, <1>4, <2>1, <2>2
<1>7. \A l \in Layers : l # layer[c] => kv'[Session[c]][l] = kv[Session[c]][l]
  BY <1>1, <1>2, <1>3
<1>8. \A l \in Layers : kv'[Session[c]][l] = Placed(IF l <= layer[c] THEN Context(c) ELSE Past(c), 0)
  <2>1. \A l \in Layers : l # layer[c] => (l <= layer[c] <=> l < layer[c])
    BY <1>3 DEF Layers
  <2>2. layer[c] <= layer[c]
    BY <1>3 DEF Layers
  <2> QED BY <1>3, <1>6, <1>7, <2>1, <2>2 DEF Holds
<1>9. SnapshotsExact'
  BY <1>2 DEF SnapshotsExact
<1>10. CASE layer[c] < NumLayers
  <2>1. Past(c)' = Past(c) /\ input'[c] = input[c]
    BY <1>2, <1>10 DEF Past, Context
  <2>2. layer'[c] \in Layers /\ \A l \in Layers : l < layer'[c] <=> l <= layer[c]
    BY <1>1, <1>2, <1>3, <1>10 DEF Layers
  <2>3. pc'[c] = "rope"
    BY <1>2, <1>10
  <2> QED BY <1>2, <1>3, <1>5, <1>8, <1>9, <2>1, <2>2, <2>3 DEF CallInv, Holds, LookupPcs, RunPcs, PutPcs
<1>11. CASE ~(layer[c] < NumLayers)
  <2>1. \A l \in Layers : l <= layer[c]
    BY <1>1, <1>3, <1>11 DEF Layers
  <2>2. pc'[c] = "next" \/ (pc'[c] = "remember" /\ said[c] = <<>>)
    BY <1>2, <1>11 DEF AfterRun
  <2>3. \A l \in Layers : kv'[Session[c]][l] = Placed(Context(c), 0)
    BY <1>8, <2>1
  <2> QED BY <1>2, <1>3, <1>5, <1>9, <2>2, <2>3 DEF CallInv, Holds, LookupPcs, RunPcs, PutPcs
<1> QED BY <1>10, <1>11

\* A token that is yielded is run after everything the call has seen.
LEMMA SayKnows ==
    ASSUME TypeOK, SnapshotsExact, NEW c \in Calls, CallInv(c), NEW token \in Tokens, Say(c, token)
    PROVE  SnapshotsExact' /\ CallInv(c)'
<1>1. /\ pc \in [Calls -> Pcs] /\ said \in [Calls -> Seq(Tokens)] /\ input \in [Calls -> Seq(Tokens)]
      /\ layer \in [Calls -> 0..NumLayers] /\ NumLayers \in Nat \ {0} /\ prompt[c] \in Seq(Tokens) /\ said[c] \in Seq(Tokens)
  BY TypeFacts
<1>2. /\ pc[c] = "next" /\ pc'[c] = "rope" /\ UNCHANGED <<entries, kv, prompt>>
      /\ said'[c] = Append(said[c], token) /\ input'[c] = <<token>> /\ layer'[c] = 1
  BY <1>1 DEF Say, StartRun, Goto, cacheVars
<1>3. prompt[c] # <<>> /\ \A l \in Layers : Holds(c, l, Context(c))
  BY <1>2 DEF CallInv
<1>4. <<token>> \in Seq(Tokens) /\ Len(<<token>>) = 1
  OBVIOUS
<1>5. Context(c)' = Context(c) \o <<token>>
  <2>1. Append(said[c], token) = said[c] \o <<token>>
    BY <1>1, AppendIsConcat
  <2>2. prompt[c] \o (said[c] \o <<token>>) = (prompt[c] \o said[c]) \o <<token>>
    <3>1. \A x, y, z \in Seq(Tokens) : (x \o y) \o z = x \o (y \o z)
      BY ConcatAssociative
    <3> QED BY <1>1, <1>4, <3>1
  <2> QED BY <1>2, <2>1, <2>2 DEF Context
<1>6. Past(c)' = Context(c)
  <2>1. SubSeq(Context(c) \o <<token>>, 1, Len(Context(c) \o <<token>>) - Len(<<token>>)) = Context(c)
    BY <1>4, ContextType, ConcatFront
  <2> QED BY <1>2, <1>5, <2>1 DEF Past
<1>7. layer'[c] \in Layers /\ \A l \in Layers : ~(l < layer'[c])
  BY <1>1, <1>2 DEF Layers
<1>8. SnapshotsExact'
  BY <1>2 DEF SnapshotsExact
<1> QED BY <1>2, <1>3, <1>4, <1>5, <1>6, <1>7, <1>8 DEF CallInv, Holds, LookupPcs, RunPcs, PutPcs

LEMMA EndKnows ==
    ASSUME TypeOK, SnapshotsExact, NEW c \in Calls, CallInv(c), End(c)
    PROVE  SnapshotsExact' /\ CallInv(c)'
<1>1. UNCHANGED <<entries, prompt>> /\ pc[c] = "next" /\ pc'[c] = "done"
  BY DEF End, Goto, cacheVars, TypeOK
<1> QED BY <1>1 DEF SnapshotsExact, CallInv, LookupPcs, RunPcs, PutPcs

------------------------------------------------------------------------------
(* The put *)

\* The snapshot of a prefill is that of its prompt.
LEMMA RememberKnows ==
    ASSUME TypeOK, SnapshotsExact, NEW c \in Calls, CallInv(c), Remember(c)
    PROVE  SnapshotsExact' /\ CallInv(c)'
<1>1. /\ pc \in [Calls -> Pcs] /\ best \in [Calls -> Cacheable] /\ prompt[c] \in Seq(Tokens)
  BY TypeFacts
<1>2. /\ pc[c] = "remember" /\ pc'[c] \in {"pop", "insert"} /\ UNCHANGED <<entries, kv, prompt, said>>
      /\ best'[c] = [key |-> prompt[c], value |-> Snapshot(c)]
  BY <1>1 DEF Remember, Goto, cacheVars
<1>3. said[c] = <<>> /\ prompt[c] # <<>> /\ \A l \in Layers : Holds(c, l, Context(c))
  BY <1>2 DEF CallInv, PutPcs
<1>4. Context(c) = prompt[c]
  BY <1>1, <1>3 DEF Context
<1>5. ASSUME NEW l \in Layers PROVE Snapshot(c)[l] = Placed(prompt[c], 0)
  <2>1. PICK p \in Seq(Entry) : p = Placed(prompt[c], 0) /\ Len(p) = Len(prompt[c])
    BY <1>1, PlacedFromZero
  <2>2. kv[Session[c]][l] = p
    BY <1>3, <1>4, <2>1 DEF Holds
  <2>3. Least(Len(p), Len(p)) = Len(p) /\ SubSeq(p, 1, Len(p)) = p
    BY SubSeqFull DEF Least
  <2> QED BY <2>1, <2>2, <2>3 DEF Snapshot
<1>6. Exact(best[c])' /\ best'[c].key = prompt[c]
  BY <1>2, <1>5 DEF Exact
<1>7. Context(c)' = Context(c)
  BY <1>2 DEF Context
<1>8. SnapshotsExact'
  BY <1>2 DEF SnapshotsExact
<1> QED BY <1>2, <1>3, <1>6, <1>7, <1>8 DEF CallInv, Holds, LookupPcs, RunPcs, PutPcs

LEMMA PopKnows ==
    ASSUME TypeOK, SnapshotsExact, NEW c \in Calls, CallInv(c), Pop(c)
    PROVE  SnapshotsExact' /\ CallInv(c)'
<1>1. pc \in [Calls -> Pcs] /\ entries \in Seq(Cacheable)
  BY TypeFacts
<1>2. CASE Fail(c, "pop")
  BY <1>2, FailKnows
<1>3. ASSUME NEW i \in Index(prompt[c]), entries' = RemoveAt(entries, i), Goto(c, "pop", "insert"),
             UNCHANGED <<kv, prompt, said, lookup>>
      PROVE  SnapshotsExact' /\ CallInv(c)'
  <2>1. pc[c] = "pop" /\ pc'[c] = "insert" /\ best' = best
    BY <1>1, <1>3 DEF Goto, lookup
  <2>2. /\ said[c] = <<>> /\ prompt[c] # <<>> /\ Exact(best[c]) /\ best[c].key = prompt[c]
        /\ \A l \in Layers : Holds(c, l, Context(c))
    BY <2>1 DEF CallInv, PutPcs
  <2>3. SnapshotsExact'
    <3>1. i \in DOMAIN entries
      BY <1>3, IndexType
    <3>2. entries' \in Seq(Cacheable) /\ ToSet(entries') \subseteq ToSet(entries)
      BY <1>1, <1>3, <3>1, RemoveAtType, ToSetRemoveAt
    <3> QED BY <1>1, <2>2, <3>2, EntriesExact
  <2>4. Context(c)' = Context(c)
    BY <1>3 DEF Context
  <2> QED BY <1>3, <2>1, <2>2, <2>3, <2>4 DEF CallInv, Holds, LookupPcs, RunPcs, PutPcs, Exact
<1> QED BY <1>2, <1>3 DEF Pop

LEMMA InsertKnows ==
    ASSUME TypeOK, SnapshotsExact, NEW c \in Calls, CallInv(c), Insert(c)
    PROVE  SnapshotsExact' /\ CallInv(c)'
<1>1. pc \in [Calls -> Pcs] /\ entries \in Seq(Cacheable) /\ best[c] \in Cacheable
  BY TypeFacts
<1>2. pc[c] = "insert" /\ pc'[c] = "full" /\ UNCHANGED <<kv, prompt, said>>
  BY <1>1 DEF Insert, Goto
<1>3. /\ said[c] = <<>> /\ prompt[c] # <<>> /\ Exact(best[c])
      /\ \A l \in Layers : Holds(c, l, Context(c))
  BY <1>2 DEF CallInv, PutPcs
<1>4. CASE entries' = Append(entries, best[c])
  <2>1. entries' \in Seq(Cacheable) /\ ToSet(entries') = ToSet(entries) \cup {best[c]}
    BY <1>1, <1>4, ToSetAppend
  <2>2. SnapshotsExact'
    BY <1>1, <1>3, <2>1, EntriesExact
  <2>3. Context(c)' = Context(c)
    BY <1>2 DEF Context
  <2> QED BY <1>2, <1>3, <2>2, <2>3 DEF CallInv, Holds, LookupPcs, RunPcs, PutPcs
<1>5. CASE entries' = [i \in DOMAIN entries |-> IF i \in Index(prompt[c]) THEN best[c] ELSE entries[i]]
  <2>1. \A i \in DOMAIN entries' : entries'[i] = best[c] \/ (i \in DOMAIN entries /\ entries'[i] = entries[i])
    BY <1>5
  <2>2. SnapshotsExact'
    BY <1>3, <2>1 DEF SnapshotsExact, Exact
  <2>3. Context(c)' = Context(c)
    BY <1>2 DEF Context
  <2> QED BY <1>2, <1>3, <2>2, <2>3 DEF CallInv, Holds, LookupPcs, RunPcs, PutPcs
<1> QED BY <1>4, <1>5 DEF Insert

LEMMA EvictKnows ==
    ASSUME TypeOK, SnapshotsExact, NEW c \in Calls, CallInv(c), Full(c) \/ Evict(c)
    PROVE  SnapshotsExact' /\ CallInv(c)'
<1>2. CASE Fail(c, "evict")
  BY <1>2, FailKnows
<1>3. CASE ~Fail(c, "evict")
  <2>1. pc[c] \in {"full", "evict"} /\ pc'[c] \in {"full", "evict", "next"} /\ UNCHANGED <<kv, prompt, said>>
    BY <1>3, TypeFacts DEF Full, Evict, Goto
  <2>2. said[c] = <<>> /\ prompt[c] # <<>> /\ \A l \in Layers : Holds(c, l, Context(c))
    BY <2>1 DEF CallInv, PutPcs
  <2>3. entries' = entries \/ (entries # <<>> /\ entries' = Tail(entries))
    BY <1>3 DEF Full, Evict, cacheVars
  <2>4. entries \in Seq(Cacheable)
    BY TypeFacts
  <2>5. entries' \in Seq(Cacheable) /\ ToSet(entries') \subseteq ToSet(entries)
    BY <2>3, <2>4, ToSetTail
  <2>6. SnapshotsExact'
    BY <2>4, <2>5, NoBestExact, EntriesExact
  <2>7. Context(c)' = Context(c)
    BY <2>1 DEF Context
  <2> QED BY <2>1, <2>2, <2>6, <2>7 DEF CallInv, Holds, LookupPcs, RunPcs, PutPcs
<1> QED BY <1>2, <1>3

------------------------------------------------------------------------------
(* Exact contexts and snapshots *)

LEMMA InitSessionInv == Init => SessionInv
BY DEF Init, SessionInv, OneAtATime, SnapshotsExact, CallInv, Stopped, LookupPcs, RunPcs, PutPcs

LEMMA SessionInductive ==
    ASSUME Isolated, TypeOK, SessionInv, [Next]_vars
    PROVE  SessionInv'
<1>1. CASE UNCHANGED vars
  <2>1. UNCHANGED <<entries, kv, pc, prompt, said, todo, best, input, layer, offset>>
    BY <1>1 DEF vars, cacheVars
  <2>2. OneAtATime /\ SnapshotsExact /\ \A o \in Calls : CallInv(o)
    BY DEF SessionInv
  <2>3. OneAtATime' /\ SnapshotsExact'
    BY <2>1, <2>2 DEF OneAtATime, SnapshotsExact
  <2>4. ASSUME NEW o \in Calls PROVE CallInv(o)'
    <3>1. CallInv(o) /\ Context(o)' = Context(o) /\ Past(o)' = Past(o)
      BY <2>1, <2>2 DEF Context, Past
    <3> QED BY <2>1, <3>1 DEF CallInv, Exact, Holds
  <2> QED BY <2>3, <2>4 DEF SessionInv
<1>2. ASSUME NEW c \in Calls, Moves(c) PROVE SessionInv'
  <2>1. OneAtATime /\ SnapshotsExact /\ \A o \in Calls : CallInv(o)
    BY DEF SessionInv
  <2>2. SnapshotsExact' /\ CallInv(c)'
    BY <1>2, <2>1, BeginKnows, SearchKnows, TouchKnows, LoadKnows, ClearKnows, RopeKnows, AttendKnows, SayKnows,
       EndKnows, RememberKnows, PopKnows, InsertKnows, EvictKnows DEF Moves, Step
  <2>3. ASSUME NEW o \in Calls \ {c} PROVE CallInv(o)'
    BY <1>2, <2>1, OthersKnow
  <2>4. OneAtATime'
    BY <1>2, <2>1, AloneMoves
  <2> QED BY <2>2, <2>3, <2>4 DEF SessionInv
<1> QED BY <1>1, <1>2 DEF Next, Moves

LEMMA SessionInvariant == Isolated => (Spec => []SessionInv)
<1>1. SUFFICES ASSUME Isolated PROVE Spec => []SessionInv
  OBVIOUS
<1>2. Init => SessionInv
  BY InitSessionInv
<1>3. TypeOK /\ SessionInv /\ [Next]_vars => SessionInv'
  BY <1>1, SessionInductive
<1> QED BY <1>2, <1>3, TypeCorrect, PTL DEF Spec

\* Whatever the calls restore, say, remember and evict, every snapshot of the
\* shared prefix cache is what a full prefill of its key would have computed,
\* in every layer and from position 0 on, when each call has a session to itself:
\* its own fork, or any session one call at a time.
THEOREM SnapshotsExactHolds == Isolated => (Spec => []SnapshotsExact)
<1>1. SessionInv => SnapshotsExact
  BY DEF SessionInv
<1> QED BY <1>1, SessionInvariant, PTL

\* Between two runs the session of such a call holds exactly the prompt and the
\* tokens said, in every layer, restored prefix or not.
THEOREM OwnedContextExactHolds == Isolated => (Spec => []OwnedContextExact)
<1>1. SessionInv => OwnedContextExact
  BY DEF SessionInv, OwnedContextExact, CallInv, Context, Holds
<1> QED BY <1>1, SessionInvariant, PTL

------------------------------------------------------------------------------
(* The order of the dictionary *)

\* The entries of s stand in the order their keys were last used.
Ordered(s) == \A i, j \in DOMAIN s : i <= j <=> <<s[i].key, s[j].key>> \in recent

LEMMA KeysDistinct ==
    ASSUME NEW s \in Seq(Cacheable), Ordered(s), NEW i \in DOMAIN s, NEW j \in DOMAIN s, s[i].key = s[j].key
    PROVE  i = j
<1>1. i \in Nat /\ j \in Nat /\ i <= i
  OBVIOUS
<1>2. <<s[i].key, s[i].key>> \in recent
  BY <1>1 DEF Ordered
<1>3. <<s[i].key, s[j].key>> \in recent /\ <<s[j].key, s[i].key>> \in recent
  BY <1>2
<1>4. i <= j /\ j <= i
  BY <1>3 DEF Ordered
<1> QED BY <1>1, <1>4

LEMMA RemovedOrdered ==
    ASSUME NEW s \in Seq(Cacheable), Ordered(s), NEW k \in DOMAIN s
    PROVE  /\ RemoveAt(s, k) \in Seq(Cacheable) /\ Ordered(RemoveAt(s, k))
           /\ \A i \in DOMAIN RemoveAt(s, k) : RemoveAt(s, k)[i].key # s[k].key
<1>1. PICK z \in Seq(Cacheable) : z = RemoveAt(s, k)
  BY RemoveAtType
<1>2. Len(z) = Len(s) - 1 /\ \A i \in 1..(Len(s) - 1) : z[i] = IF i < k THEN s[i] ELSE s[i + 1]
  BY <1>1, RemoveAtType, RemoveAtElements
<1>3. DOMAIN s = 1..Len(s) /\ Len(s) \in Nat /\ DOMAIN z = 1..(Len(s) - 1)
  BY <1>2
<1> DEFINE at(i) == IF i < k THEN i ELSE i + 1
<1>4. ASSUME NEW i \in DOMAIN z PROVE at(i) \in DOMAIN s /\ at(i) # k /\ z[i] = s[at(i)]
  BY <1>2, <1>3
<1>5. \A i, j \in DOMAIN z : i <= j <=> at(i) <= at(j)
  BY <1>3
<1>6. ASSUME NEW i \in DOMAIN z, NEW j \in DOMAIN z PROVE i <= j <=> <<z[i].key, z[j].key>> \in recent
  <2>1. at(i) <= at(j) <=> <<s[at(i)].key, s[at(j)].key>> \in recent
    BY <1>4 DEF Ordered
  <2> QED BY <1>4, <1>5, <2>1
<1>7. ASSUME NEW i \in DOMAIN z PROVE z[i].key # s[k].key
  BY <1>4, KeysDistinct
<1> QED BY <1>1, <1>6, <1>7 DEF Ordered

LEMMA AppendedOrdered ==
    ASSUME NEW s \in Seq(Cacheable), Ordered(s), NEW e \in Cacheable,
           \A i \in DOMAIN s : s[i].key # e.key, Use(e.key), entries' = Append(s, e)
    PROVE  LeastRecentFirst'
<1>1. PICK z \in Seq(Cacheable) : z = Append(s, e)
  OBVIOUS
<1>2. Len(z) = Len(s) + 1 /\ z[Len(s) + 1] = e /\ \A i \in 1..Len(s) : z[i] = s[i]
  BY <1>1
<1>3. DOMAIN s = 1..Len(s) /\ Len(s) \in Nat /\ DOMAIN z = 1..(Len(s) + 1)
  BY <1>2
<1>4. \A x, y : <<x, y>> \in recent /\ x # e.key => <<x, y>> \in recent' /\ <<x, e.key>> \in recent'
  BY DEF Use
<1>5. \A x, y : <<x, y>> \in recent' /\ y # e.key => <<x, y>> \in recent /\ x # e.key
  BY DEF Use
<1>6. <<e.key, e.key>> \in recent'
  BY DEF Use
<1>7. ASSUME NEW i \in DOMAIN z, NEW j \in DOMAIN z PROVE i <= j <=> <<z[i].key, z[j].key>> \in recent'
  <2>1. CASE i \in DOMAIN s /\ j \in DOMAIN s
    <3>1. z[i] = s[i] /\ z[j] = s[j] /\ s[i].key # e.key /\ s[j].key # e.key
      BY <1>2, <1>3, <2>1
    <3>2. i <= j <=> <<s[i].key, s[j].key>> \in recent
      BY <2>1 DEF Ordered
    <3> QED BY <1>4, <1>5, <3>1, <3>2
  <2>2. CASE i \in DOMAIN s /\ j = Len(s) + 1
    <3>1. z[i] = s[i] /\ z[j] = e /\ s[i].key # e.key /\ i <= j /\ i <= i
      BY <1>2, <1>3, <2>2
    <3>2. <<s[i].key, s[i].key>> \in recent
      BY <2>2, <3>1 DEF Ordered
    <3> QED BY <1>4, <3>1, <3>2
  <2>3. CASE i = Len(s) + 1 /\ j \in DOMAIN s
    <3>1. z[i] = e /\ z[j] = s[j] /\ s[j].key # e.key /\ ~(i <= j)
      BY <1>2, <1>3, <2>3
    <3> QED BY <1>5, <3>1
  <2>4. CASE i = Len(s) + 1 /\ j = Len(s) + 1
    <3>1. z[i] = e /\ z[j] = e /\ i <= j
      BY <1>2, <1>3, <2>4
    <3> QED BY <1>6, <3>1
  <2> QED BY <1>3, <2>1, <2>2, <2>3, <2>4
<1> QED BY <1>1, <1>7 DEF LeastRecentFirst

LEMMA OrderKept ==
    ASSUME TypeOK, Serial, LeastRecentFirst, NEW c \in Calls, CallInv(c), LookupInv(c), Moves(c)
    PROVE  LeastRecentFirst'
<1>1. entries \in Seq(Cacheable) /\ best[c] \in Cacheable /\ Ordered(entries)
  BY TypeFacts DEF Ordered, LeastRecentFirst
<1>2. CASE UNCHANGED <<entries, recent>>
  BY <1>2 DEF LeastRecentFirst
<1>3. ASSUME NEW i \in Index(best[c].key), entries' = MovedToEnd(i), Use(best[c].key) PROVE LeastRecentFirst'
  <2>1. i \in DOMAIN entries /\ entries[i].key = best[c].key /\ entries[i] \in Cacheable
    BY <1>1, <1>3, IndexType
  <2>2. PICK s \in Seq(Cacheable) : s = RemoveAt(entries, i)
    BY <1>1, <2>1, RemovedOrdered
  <2>3. Ordered(s) /\ \A n \in DOMAIN s : s[n].key # entries[i].key
    BY <1>1, <2>1, <2>2, RemovedOrdered
  <2>4. entries' = Append(s, entries[i]) /\ Use(entries[i].key)
    BY <1>3, <2>1, <2>2 DEF MovedToEnd
  <2> QED BY <2>1, <2>3, <2>4, AppendedOrdered
<1>4. ASSUME NEW i \in DOMAIN entries, entries' = RemoveAt(entries, i), UNCHANGED recent PROVE LeastRecentFirst'
  <2>1. PICK s \in Seq(Cacheable) : s = RemoveAt(entries, i) /\ Ordered(s)
    BY <1>1, RemovedOrdered
  <2> QED BY <1>4, <2>1 DEF Ordered, LeastRecentFirst
<1>5. CASE Insert(c)
  <2>1. pc[c] = "insert"
    BY <1>5 DEF Insert, Goto
  <2>2. Index(prompt[c]) = {} /\ best[c].key = prompt[c]
    BY <2>1 DEF LookupInv, CallInv
  <2>3. \A i \in DOMAIN entries : entries[i].key # best[c].key
    BY <2>2 DEF Index
  <2>4. entries' = Append(entries, best[c]) /\ Use(best[c].key)
    BY <1>5, <2>2 DEF Insert
  <2> QED BY <1>1, <2>3, <2>4, AppendedOrdered
<1>6. CASE entries # <<>> /\ entries' = Tail(entries) /\ UNCHANGED recent
  <2>1. 1 \in DOMAIN entries /\ entries' = RemoveAt(entries, 1)
    BY <1>1, <1>6, RemoveAtHead
  <2> QED BY <1>4, <1>6, <2>1
<1>7. CASE Touch(c)
  BY <1>2, <1>3, <1>7 DEF Touch, Fail, cacheVars
<1>8. CASE Pop(c)
  BY <1>2, <1>4, <1>8, IndexType DEF Pop, Fail, cacheVars
<1>9. CASE Evict(c)
  BY <1>2, <1>6, <1>9 DEF Evict, Fail, cacheVars
<1>10. CASE ~(Touch(c) \/ Pop(c) \/ Evict(c) \/ Insert(c))
  <2>1. UNCHANGED <<entries, recent>>
    BY <1>10 DEF Moves, Step, Begin, Search, Load, Clear, Rope, Attend, Say, End, Remember, Full, Fail, cacheVars
  <2> QED BY <1>2, <2>1
<1> QED BY <1>5, <1>7, <1>8, <1>9, <1>10

------------------------------------------------------------------------------
(* A lookup that nobody disturbs *)

LEMMA BeginFinds ==
    ASSUME TypeOK, NEW c \in Calls, CallInv(c), LookupInv(c), NEW p \in Prompts, Begin(c, p)
    PROVE  LookupInv(c)'
<1>1. pc \in [Calls -> Pcs] /\ todo \in [Calls -> Seq(Cacheable)] /\ entries \in Seq(Cacheable)
  BY TypeFacts
<1>2. /\ pc[c] = "idle" /\ UNCHANGED <<entries, best, disturbed>>
      /\ pc'[c] = (IF UseCache[c] THEN "search" ELSE "clear")
      /\ todo'[c] = (IF UseCache[c] THEN entries ELSE <<>>)
  BY <1>1 DEF Begin, Goto, cacheVars
<1>3. best[c].key = <<>> /\ ~disturbed[c]
  BY <1>2 DEF CallInv, LookupInv, NoBest
<1>4. CASE UseCache[c]
  <2>1. pc'[c] = "search" /\ todo'[c] = entries
    BY <1>2, <1>4
  <2>2. \A k \in DOMAIN entries : Index(entries[k].key) # {}
    BY DEF Index
  <2> QED BY <1>2, <1>3, <2>1, <2>2 DEF LookupInv, LookupPcs, Index
<1>5. CASE ~UseCache[c]
  BY <1>2, <1>3, <1>5 DEF LookupInv, LookupPcs
<1> QED BY <1>4, <1>5

\* A step of the loop compares the first of the entries it has yet to see.
LEMMA SearchFinds ==
    ASSUME TypeOK, NEW c \in Calls, CallInv(c), LookupInv(c), Search(c)
    PROVE  LookupInv(c)'
<1>1. /\ pc \in [Calls -> Pcs] /\ todo \in [Calls -> Seq(Cacheable)] /\ todo[c] \in Seq(Cacheable)
      /\ best \in [Calls -> Cacheable] /\ disturbed \in [Calls -> BOOLEAN] /\ entries \in Seq(Cacheable)
      /\ best[c].key \in Seq(Tokens)
  BY TypeFacts
<1>2. pc[c] = "search" /\ ~disturbed[c] /\ UNCHANGED <<entries, prompt>>
  BY DEF Search, Fail, Goto, LookupInv, cacheVars
<1>3. /\ best[c].key # <<>> => Index(best[c].key) # {}
      /\ \A i \in DOMAIN entries :
           \/ \E k \in DOMAIN todo[c] : todo[c][k] = entries[i]
           \/ IsPrefix(entries[i].key, prompt[c]) => Len(entries[i].key) <= Len(best[c].key)
      /\ \A k \in DOMAIN todo[c] : Index(todo[c][k].key) # {}
  BY <1>2 DEF LookupInv, LookupPcs
<1>4. \A key : Index(key)' = Index(key)
  BY <1>2 DEF Index
<1>5. CASE todo[c] # <<>>
  <2>1. /\ pc'[c] = "search" /\ ~disturbed'[c] /\ todo'[c] = Tail(todo[c])
        /\ best'[c] = IF Better(c, Head(todo[c])) THEN Head(todo[c]) ELSE best[c]
    BY <1>1, <1>2, <1>5 DEF Search, Goto
  <2>2. PICK e \in Cacheable : e = Head(todo[c])
    BY <1>1, <1>5, ToSetTail
  <2>3. e = todo[c][1] /\ 1 \in DOMAIN todo[c] /\ Len(e.key) \in Nat /\ Len(best[c].key) \in Nat
    <3>1. e = todo[c][1] /\ 1 \in DOMAIN todo[c]
      BY <1>1, <1>5, <2>2
    <3>2. e.key \in Seq(Tokens)
      BY DEF Cacheable
    <3> QED BY <1>1, <3>1, <3>2
  <2>4. PICK z \in Seq(Cacheable) : z = Tail(todo[c])
    BY <1>1, <1>5, ToSetTail
  <2>5. \A k \in DOMAIN z : k + 1 \in DOMAIN todo[c] /\ z[k] = todo[c][k + 1]
    BY <1>1, <1>5, <2>4
  <2>6. \A k \in DOMAIN todo[c] : k # 1 => k - 1 \in DOMAIN z /\ z[k - 1] = todo[c][k]
    BY <1>1, <1>5, <2>4
  <2>7. /\ best'[c].key # <<>> => Index(best'[c].key) # {}
        /\ \A k \in DOMAIN z : Index(z[k].key) # {}
    BY <1>3, <2>1, <2>2, <2>3, <2>5
  <2>8. /\ Len(best[c].key) <= Len(best'[c].key)
        /\ IsPrefix(e.key, prompt[c]) => Len(e.key) <= Len(best'[c].key)
    <3>1. Better(c, e) <=> Len(e.key) > Len(best[c].key) /\ IsPrefix(e.key, prompt[c])
      BY DEF Better
    <3>2. CASE Better(c, e)
      BY <2>1, <2>2, <2>3, <3>1, <3>2
    <3>3. CASE ~Better(c, e)
      BY <2>1, <2>2, <2>3, <3>1, <3>3
    <3> QED BY <3>2, <3>3
  <2>9. ASSUME NEW i \in DOMAIN entries
        PROVE  \/ \E k \in DOMAIN z : z[k] = entries[i]
               \/ IsPrefix(entries[i].key, prompt[c]) => Len(entries[i].key) <= Len(best'[c].key)
    <3>1. CASE IsPrefix(entries[i].key, prompt[c]) => Len(entries[i].key) <= Len(best[c].key)
      <4>1. entries[i] \in Cacheable
        BY <1>1
      <4>2. Len(entries[i].key) \in Nat
        BY <4>1 DEF Cacheable
      <4>3. Len(best'[c].key) \in Nat
        BY <2>1, <2>2, <2>3
      <4> QED BY <2>3, <2>8, <3>1, <4>2, <4>3
    <3>2. CASE \E k \in DOMAIN todo[c] : todo[c][k] = entries[i]
      <4>1. PICK k \in DOMAIN todo[c] : todo[c][k] = entries[i]
        BY <3>2
      <4>2. CASE k = 1
        BY <2>3, <2>8, <4>1, <4>2
      <4>3. CASE k # 1
        BY <2>6, <4>1, <4>3
      <4> QED BY <4>2, <4>3
    <3> QED BY <1>3, <3>1, <3>2
  <2>10. todo'[c] = z
    BY <2>1, <2>4
  <2> QED BY <1>2, <1>4, <2>1, <2>7, <2>9, <2>10 DEF LookupInv, LookupPcs
<1>6. CASE todo[c] = <<>>
  <2>1. /\ pc'[c] = (IF best[c].key = <<>> THEN "clear" ELSE "touch") /\ UNCHANGED <<todo, best>>
    BY <1>1, <1>6 DEF Search, Goto, lookup
  <2> QED BY <1>2, <1>3, <1>4, <1>6, <2>1 DEF LookupInv, LookupPcs
<1> QED BY <1>5, <1>6

\* What the call found is still there.
LEMMA TouchFinds ==
    ASSUME TypeOK, NEW c \in Calls, LookupInv(c), Touch(c)
    PROVE  LookupInv(c)'
<1>1. pc \in [Calls -> Pcs] /\ pc[c] = "touch"
  BY TypeFacts DEF Touch, Fail, Goto
<1>2. Index(best[c].key) # {}
  BY <1>1 DEF LookupInv, LookupPcs
<1>3. pc'[c] \in {"load", "clear"}
  BY <1>1, <1>2 DEF Touch, Goto
<1> QED BY <1>3 DEF LookupInv, LookupPcs

LEMMA RunFinds ==
    ASSUME TypeOK, NEW c \in Calls,
           Load(c) \/ Clear(c) \/ Rope(c) \/ Attend(c) \/ End(c) \/ \E token \in Tokens : Say(c, token)
    PROVE  LookupInv(c)'
<1>1. pc \in [Calls -> Pcs]
  BY TypeFacts
<1>2. pc'[c] \in {"rope", "attend", "remember", "next", "done"}
  BY <1>1 DEF Load, Clear, Rope, Attend, End, Say, Goto, AfterRun
<1> QED BY <1>2 DEF LookupInv, LookupPcs

\* A put by the only call that is running finds the dictionary as it left it.
LEMMA PutFinds ==
    ASSUME TypeOK, LeastRecentFirst, NEW c \in Calls, LookupInv(c),
           Remember(c) \/ Pop(c) \/ Insert(c) \/ Full(c) \/ Evict(c)
    PROVE  LookupInv(c)'
<1>1. pc \in [Calls -> Pcs] /\ entries \in Seq(Cacheable) /\ Capacity \in Nat \ {0}
  BY TypeFacts, SessionsAssumption
<1>2. CASE Remember(c)
  <2>1. pc'[c] = (IF Index(prompt[c]) # {} THEN "pop" ELSE "insert") /\ UNCHANGED <<entries, prompt>>
    BY <1>1, <1>2 DEF Remember, Cached, Goto, cacheVars
  <2>2. Index(prompt[c])' = Index(prompt[c])
    BY <2>1 DEF Index
  <2> QED BY <2>1, <2>2 DEF LookupInv, LookupPcs
<1>3. CASE Pop(c)
  <2>1. pc[c] = "pop"
    BY <1>3 DEF Pop, Fail, Goto
  <2>2. Index(prompt[c]) # {}
    BY <2>1 DEF LookupInv
  <2>3. PICK i \in Index(prompt[c]) : entries' = RemoveAt(entries, i)
    BY <1>3, <2>2 DEF Pop
  <2>4. pc'[c] = "insert" /\ prompt' = prompt
    BY <1>1, <1>3, <2>2 DEF Pop, Goto
  <2>5. i \in DOMAIN entries /\ entries[i].key = prompt[c]
    BY <2>3, IndexType
  <2>6. Ordered(entries)
    BY DEF LeastRecentFirst, Ordered
  <2>7. \A n \in DOMAIN entries' : entries'[n].key # prompt[c]
    BY <1>1, <2>3, <2>5, <2>6, RemovedOrdered
  <2>8. Index(prompt[c])' = {}
    BY <2>4, <2>7 DEF Index
  <2> QED BY <2>4, <2>8 DEF LookupInv, LookupPcs
<1>4. CASE Insert(c)
  <2>1. pc'[c] = "full"
    BY <1>1, <1>4 DEF Insert, Goto
  <2> QED BY <2>1 DEF LookupInv, LookupPcs
<1>5. CASE Full(c)
  <2>1. pc'[c] = (IF Overfull THEN "evict" ELSE "next") /\ entries' = entries
    BY <1>1, <1>5 DEF Full, Goto, cacheVars
  <2>2. Overfull => entries # <<>>
    BY <1>1 DEF Overfull
  <2> QED BY <2>1, <2>2 DEF LookupInv, LookupPcs
<1>6. CASE Evict(c)
  <2>1. pc[c] = "evict"
    BY <1>6 DEF Evict, Fail, Goto
  <2>2. entries # <<>>
    BY <2>1 DEF LookupInv
  <2>3. pc'[c] = "full"
    BY <1>1, <1>6, <2>2 DEF Evict, Goto
  <2> QED BY <2>3 DEF LookupInv, LookupPcs
<1> QED BY <1>2, <1>3, <1>4, <1>5, <1>6

\* A call that is not running knows nothing a step of another could disturb.
LEMMA OthersStopped ==
    ASSUME TypeOK, Serial, OneAtATime, NEW c \in Calls, Moves(c), NEW o \in Calls \ {c}, LookupInv(o)
    PROVE  LookupInv(o)'
<1>1. SameCall(o) /\ pc[o] \in Stopped
  BY LeavesOthers, AloneMoves
<1>2. pc'[o] = pc[o]
  BY <1>1 DEF SameCall
<1>3. pc[o] = "idle" => disturbed'[o] = disturbed[o]
  <2>1. disturbed \in [Calls -> BOOLEAN]
    BY TypeFacts
  <2>2. Disturb /\ pc[o] = "idle" => disturbed'[o] = disturbed[o]
    <3>1. pc[o] = "idle" => ~(pc[o] = "search")
      OBVIOUS
    <3>2. Disturb => disturbed'[o] = (disturbed[o] \/ pc[o] = "search")
      BY DEF Disturb
    <3> QED BY <2>1, <3>1, <3>2
  <2>3. disturbed' = [disturbed EXCEPT ![c] = FALSE] => disturbed'[o] = disturbed[o]
    BY <2>1
  <2>4. UNCHANGED disturbed \/ Disturb \/ disturbed' = [disturbed EXCEPT ![c] = FALSE]
    BY DEF Moves, Step, Begin, Search, Touch, Load, Clear, Rope, Attend, Say, End, Remember, Pop, Insert, Full,
       Evict, Fail
  <2> QED BY <2>2, <2>3, <2>4
<1>4. pc[o] \in {"idle", "done"}
  BY <1>1 DEF Stopped, LookupInv
<1> QED BY <1>2, <1>3, <1>4 DEF LookupInv, LookupPcs

------------------------------------------------------------------------------
(* Calls made one at a time *)

LEMMA InitAloneInv == Init => AloneInv
BY DEF Init, AloneInv, LeastRecentFirst, LookupInv, LookupPcs

LEMMA AloneInductive ==
    ASSUME Serial, TypeOK, SessionInv, AloneInv, [Next]_vars
    PROVE  AloneInv'
<1>1. LeastRecentFirst /\ \A o \in Calls : LookupInv(o)
  BY DEF AloneInv
<1>2. CASE UNCHANGED vars
  <2>1. UNCHANGED <<entries, recent, pc, prompt, todo, disturbed, best>>
    BY <1>2 DEF vars, cacheVars
  <2>2. LeastRecentFirst'
    BY <1>1, <2>1 DEF LeastRecentFirst
  <2>3. ASSUME NEW o \in Calls PROVE LookupInv(o)'
    <3>1. LookupInv(o) /\ \A key : Index(key)' = Index(key)
      BY <1>1, <2>1 DEF Index
    <3> QED BY <2>1, <3>1 DEF LookupInv
  <2> QED BY <2>2, <2>3 DEF AloneInv
<1>3. ASSUME NEW c \in Calls, Moves(c) PROVE AloneInv'
  <2>1. OneAtATime /\ CallInv(c)
    BY DEF SessionInv
  <2>2. LeastRecentFirst'
    BY <1>1, <1>3, <2>1, OrderKept
  <2>3. LookupInv(c)'
    BY <1>1, <1>3, <2>1, BeginFinds, SearchFinds, TouchFinds, RunFinds, PutFinds DEF Moves, Step
  <2>4. ASSUME NEW o \in Calls \ {c} PROVE LookupInv(o)'
    BY <1>1, <1>3, <2>1, OthersStopped
  <2> QED BY <2>2, <2>3, <2>4 DEF AloneInv
<1> QED BY <1>2, <1>3 DEF Next, Moves

LEMMA AloneInvariant == Serial => (Spec => []AloneInv)
<1>1. SUFFICES ASSUME Serial PROVE Spec => []AloneInv
  OBVIOUS
<1>2. Init => AloneInv
  BY InitAloneInv
<1>3. TypeOK /\ SessionInv /\ AloneInv /\ [Next]_vars => AloneInv'
  BY <1>1, AloneInductive
<1>4. Spec => []SessionInv
  BY <1>1, SessionInvariant DEF Isolated
<1> QED BY <1>2, <1>3, <1>4, TypeCorrect, PTL DEF Spec

\* Calls made one at a time, each to its end, never raise in the prefix cache: the
\* loop over the dictionary is not disturbed, what it finds can be moved to the
\* end, and the put pops and evicts entries that are there.
THEOREM NeverRaisesHolds == Serial => (Spec => []NeverRaises)
<1>1. AloneInv => NeverRaises
  BY DEF AloneInv, LookupInv, NeverRaises
<1> QED BY <1>1, AloneInvariant, PTL

\* Such a call is given the longest cached prefix of its prompt.
THEOREM LongestPrefixFoundHolds == Serial => (Spec => []LongestPrefixFound)
<1>1. ASSUME AloneInv, NEW c \in Calls, pc[c] = "touch", NEW i \in DOMAIN entries
      PROVE  IsPrefix(entries[i].key, prompt[c]) => Len(entries[i].key) <= Len(best[c].key)
  <2>1. todo[c] = <<>>
    BY <1>1 DEF AloneInv, LookupInv
  <2>2. ~\E k \in DOMAIN todo[c] : todo[c][k] = entries[i]
    BY <2>1
  <2> QED BY <1>1, <2>2 DEF AloneInv, LookupInv, LookupPcs
<1>2. AloneInv => LongestPrefixFound
  BY <1>1 DEF LongestPrefixFound
<1> QED BY <1>2, AloneInvariant, PTL

\* The dictionary stands in the order of the last uses, so that the entry such
\* calls evict is the one not used for the longest time.
THEOREM LeastRecentFirstHolds == Serial => (Spec => []LeastRecentFirst)
<1>1. AloneInv => LeastRecentFirst
  BY DEF AloneInv
<1> QED BY <1>1, AloneInvariant, PTL

------------------------------------------------------------------------------
(* Generation without a cache *)

\* The session of a call is empty until the call loads or clears it.
Fresh == \A c \in Calls : pc[c] \in {"idle"} \cup LookupPcs => kv[Session[c]] = NoKV

Contexts == [c \in Calls |-> ContextOf(c)]

LEMMA InitFresh == Init => Fresh
BY SessionsAssumption DEF Init, Fresh

LEMMA FreshInductive ==
    ASSUME Forked, TypeOK, Fresh, [Next]_vars
    PROVE  Fresh'
<1>1. CASE UNCHANGED vars
  BY <1>1 DEF vars, Fresh
<1>2. ASSUME NEW c \in Calls, Moves(c) PROVE Fresh'
  <2>1. pc \in [Calls -> Pcs] /\ Session[c] \in Sessions
    BY TypeFacts
  <2>2. ASSUME NEW o \in Calls \ {c}, pc'[o] \in {"idle"} \cup LookupPcs PROVE kv'[Session[o]] = NoKV
    <3>1. pc'[o] = pc[o] /\ Session[o] \in Sessions \ {Session[c]}
      BY <1>2, LeavesOthers, SessionsAssumption DEF SameCall, Forked
    <3>2. kv'[Session[o]] = kv[Session[o]]
      BY <1>2, <3>1, LeavesOthers
    <3> QED BY <2>2, <3>1, <3>2 DEF Fresh
  <2>3. CASE (\E p \in Prompts : Begin(c, p)) \/ Search(c) \/ Touch(c)
    <3>1. pc[c] \in {"idle"} \cup LookupPcs /\ kv' = kv
      BY <2>3 DEF Begin, Search, Touch, Fail, Goto, LookupPcs
    <3> QED BY <2>2, <3>1 DEF Fresh
  <2>4. CASE ~((\E p \in Prompts : Begin(c, p)) \/ Search(c) \/ Touch(c))
    <3>1. pc'[c] \notin {"idle"} \cup LookupPcs
      BY <1>2, <2>1, <2>4 DEF Moves, Step, Load, Clear, Rope, Attend, Say, End, Remember, Pop, Insert, Full, Evict,
         Fail, Goto, AfterRun, LookupPcs
    <3> QED BY <2>2, <3>1 DEF Fresh
  <2> QED BY <2>3, <2>4
<1> QED BY <1>1, <1>2 DEF Next, Moves

\* With a session of its own, no other call changes what the model has seen.
LEMMA OthersContext ==
    ASSUME Forked, TypeOK, NEW c \in Calls, Moves(c), NEW o \in Calls \ {c}
    PROVE  ContextOf(o)' = ContextOf(o)
<1>1. SameCall(o) /\ Session[o] \in Sessions \ {Session[c]}
  BY LeavesOthers, SessionsAssumption DEF Forked
<1>2. kv'[Session[o]] = kv[Session[o]]
  BY <1>1, LeavesOthers
<1> QED BY <1>1, <1>2 DEF SameCall, ContextOf

LEMMA ContextsAfter ==
    ASSUME Forked, TypeOK, NEW c \in Calls, Moves(c), NEW new, ContextOf(c)' = new
    PROVE  Contexts' = [Contexts EXCEPT ![c] = new]
<1>1. \A o \in Calls \ {c} : ContextOf(o)' = ContextOf(o)
  BY OthersContext
<1> QED BY <1>1 DEF Contexts

LEMMA ContextsSame ==
    ASSUME Forked, TypeOK, NEW c \in Calls, Moves(c), ContextOf(c)' = ContextOf(c)
    PROVE  Contexts' = Contexts
<1>1. \A o \in Calls : ContextOf(o)' = ContextOf(o)
  BY OthersContext
<1> QED BY <1>1 DEF Contexts

\* A lookup shows the model nothing.
LEMMA LookupHidden ==
    ASSUME TypeOK, Fresh, NEW c \in Calls, CallInv(c), (\E p \in Prompts : Begin(c, p)) \/ Search(c) \/ Touch(c)
    PROVE  ContextOf(c) = <<>> /\ ContextOf(c)' = <<>>
<1>1. pc \in [Calls -> Pcs] /\ NumLayers \in Layers
  BY TypeFacts DEF Layers
<1>2. /\ pc[c] \in {"idle"} \cup LookupPcs /\ UNCHANGED <<kv, said>>
      /\ pc'[c] \in LookupPcs \cup {"load", "clear", "failed"}
  BY <1>1 DEF Begin, Search, Touch, Fail, Goto, LookupPcs
<1>3. said[c] = <<>> /\ kv[Session[c]] = NoKV
  BY <1>2 DEF CallInv, Fresh
<1>4. kv'[Session[c]][NumLayers] = <<>>
  BY <1>1, <1>2, <1>3 DEF NoKV
<1> QED BY <1>2, <1>3, <1>4 DEF ContextOf, LookupPcs, PutPcs

\* Nor does any other step but the attention of the last layer.
LEMMA RestHidden ==
    ASSUME TypeOK, NEW c \in Calls, CallInv(c),
           \/ Load(c) \/ Clear(c) \/ Rope(c) \/ End(c) \/ Remember(c) \/ Pop(c) \/ Insert(c) \/ Full(c) \/ Evict(c)
           \/ \E token \in Tokens : Say(c, token)
           \/ Attend(c) /\ layer[c] < NumLayers
    PROVE  ContextOf(c)' = ContextOf(c)
<1>1. pc \in [Calls -> Pcs] /\ said \in [Calls -> Seq(Tokens)] /\ said[c] \in Seq(Tokens)
  BY TypeFacts
<1>2. CASE Load(c) \/ Clear(c)
  <2>1. pc[c] \in {"load", "clear"} /\ pc'[c] = "rope" /\ said' = said
    BY <1>1, <1>2 DEF Load, Clear, Goto
  <2>2. said[c] = <<>>
    BY <2>1 DEF CallInv
  <2> QED BY <2>1, <2>2 DEF ContextOf, PutPcs
<1>3. CASE Rope(c)
  <2>1. pc[c] = "rope" /\ pc'[c] = "attend" /\ UNCHANGED <<kv, said>>
    BY <1>1, <1>3 DEF Rope, Goto
  <2> QED BY <2>1 DEF ContextOf, PutPcs
<1>4. CASE End(c) \/ Remember(c) \/ Pop(c) \/ Insert(c) \/ Full(c) \/ Evict(c)
  <2>1. pc[c] \in PutPcs \cup {"next"} /\ pc'[c] \in PutPcs \cup {"next", "done", "failed"} /\ kv' = kv
    BY <1>1, <1>4 DEF End, Remember, Pop, Insert, Full, Evict, Fail, Goto, PutPcs
  <2> QED BY <2>1 DEF ContextOf
<1>5. ASSUME NEW token \in Tokens, Say(c, token) PROVE ContextOf(c)' = ContextOf(c)
  <2>1. pc[c] = "next" /\ kv' = kv /\ said'[c] = Append(said[c], token)
    BY <1>1, <1>5 DEF Say, Goto
  <2>2. said'[c] # <<>>
    BY <1>1, <2>1
  <2> QED BY <2>1, <2>2 DEF ContextOf
<1>6. CASE Attend(c) /\ layer[c] < NumLayers
  <2>1. pc[c] = "attend" /\ pc'[c] = "rope" /\ said' = said
    BY <1>1, <1>6 DEF Attend, Goto
  <2>2. layer[c] \in Layers /\ NumLayers \in Layers /\ layer[c] # NumLayers
    BY <1>6, <2>1, TypeFacts DEF CallInv, RunPcs, Layers
  <2>3. kv'[Session[c]][NumLayers] = kv[Session[c]][NumLayers]
    BY <1>6, <2>2, TypeFacts DEF Attend
  <2> QED BY <2>1, <2>3 DEF ContextOf, PutPcs
<1> QED BY <1>2, <1>3, <1>4, <1>5, <1>6

\* The last layer of the prefill shows the model the prompt, of a later run one
\* token more.
LEMMA LastLayerShows ==
    ASSUME TypeOK, SnapshotsExact, NEW c \in Calls, CallInv(c), Attend(c), ~(layer[c] < NumLayers)
    PROVE  \/ ContextOf(c) = <<>> /\ prompt[c] # <<>> /\ ContextOf(c)' = Placed(prompt[c], 0)
           \/ /\ ContextOf(c) # <<>>
              /\ \E token \in Tokens :
                   ContextOf(c)' = ContextOf(c) \o Placed(<<token>>, Len(ContextOf(c)))
<1>1. /\ pc \in [Calls -> Pcs] /\ prompt[c] \in Seq(Tokens) /\ said[c] \in Seq(Tokens) /\ input[c] \in Seq(Tokens)
      /\ NumLayers \in Nat \ {0} /\ layer \in [Calls -> 0..NumLayers]
  BY TypeFacts
<1>2. pc[c] = "attend" /\ pc'[c] = AfterRun(c) /\ UNCHANGED <<prompt, said>>
  BY <1>1 DEF Attend, Goto
<1>3. /\ layer[c] \in Layers /\ Context(c) = Past(c) \o input[c] /\ prompt[c] # <<>>
      /\ said[c] # <<>> => Len(input[c]) = 1
      /\ \A l \in Layers : Holds(c, l, IF l < layer[c] THEN Context(c) ELSE Past(c))
  BY <1>2 DEF CallInv, RunPcs
<1>4. layer[c] = NumLayers /\ NumLayers \in Layers /\ ~(NumLayers < layer[c])
  BY <1>1, <1>3 DEF Layers
<1>5. CallInv(c)'
  BY AttendKnows
<1>6. pc'[c] \in {"remember", "next"}
  BY <1>2 DEF AfterRun
<1>7. Context(c)' = Context(c)
  BY <1>2 DEF Context
<1>8. kv'[Session[c]][NumLayers] = Placed(Context(c), 0)
  BY <1>4, <1>5, <1>6, <1>7 DEF CallInv, Holds, PutPcs
<1>9. ContextOf(c)' = Placed(Context(c), 0)
  BY <1>6, <1>8 DEF ContextOf, PutPcs
<1>10. CASE said[c] = <<>>
  <2>1. Context(c) = prompt[c]
    BY <1>1, <1>10 DEF Context
  <2>2. ContextOf(c) = <<>>
    BY <1>2, <1>10 DEF ContextOf, PutPcs
  <2> QED BY <1>3, <1>9, <2>1, <2>2
<1>11. CASE said[c] # <<>>
  <2>1. PICK s \in Seq(Tokens) : s = Past(c)
    BY ContextType
  <2>2. ContextOf(c) = Placed(s, 0)
    BY <1>2, <1>3, <1>4, <1>11, <2>1 DEF ContextOf, Holds
  <2>3. PICK token \in Tokens : input[c] = <<token>>
    <3>1. Len(input[c]) = 1
      BY <1>3, <1>11
    <3>2. input[c] = <<input[c][1]>> /\ input[c][1] \in Tokens
      BY <1>1, <3>1
    <3> QED BY <3>2
  <2>4. Len(Placed(s, 0)) = Len(s)
    BY PlacedFromZero
  <2>5. Placed(Context(c), 0) = Placed(s, 0) \o Placed(<<token>>, Len(s))
    <3>1. <<token>> \in Seq(Tokens)
      OBVIOUS
    <3>2. Placed(s, 0) \o Placed(<<token>>, Len(s)) = Placed(s \o <<token>>, 0)
      BY <3>1, PlacedConcat
    <3> QED BY <1>3, <2>1, <2>3, <3>2
  <2>6. Len(s) >= 1
    <3>1. Len(Context(c)) = Len(prompt[c]) + Len(said[c])
      BY <1>1, ConcatElements DEF Context
    <3>2. Len(s \o <<token>>) = Len(s) + 1
      OBVIOUS
    <3>3. Len(prompt[c]) >= 1 /\ Len(said[c]) >= 1 /\ Len(prompt[c]) \in Nat /\ Len(said[c]) \in Nat
      BY <1>1, <1>3, <1>11
    <3>4. Len(s) + 1 = Len(prompt[c]) + Len(said[c])
      BY <1>3, <2>1, <2>3, <3>1, <3>2
    <3>5. \A a, b, d \in Nat : a + 1 = b + d /\ b >= 1 /\ d >= 1 => a >= 1
      OBVIOUS
    <3>6. Len(s) \in Nat
      OBVIOUS
    <3> QED BY <3>3, <3>4, <3>5, <3>6
  <2>7. Placed(s, 0) # <<>>
    BY <2>4, <2>6
  <2> QED BY <1>9, <2>2, <2>4, <2>5, <2>7
<1> QED BY <1>10, <1>11

LEMMA StepGenerates ==
    ASSUME Forked, TypeOK, SessionInv, Fresh, [Next]_vars
    PROVE  [Unshared!Next]_(Unshared!vars)
<1>1. CASE UNCHANGED vars
  <2>1. \A o \in Calls : ContextOf(o)' = ContextOf(o)
    BY <1>1 DEF vars, ContextOf
  <2>2. UNCHANGED <<prompt, Contexts>>
    BY <1>1, <2>1 DEF vars, Contexts
  <2> QED BY <2>2 DEF Unshared!vars, Contexts
<1>2. ASSUME NEW c \in Calls, Moves(c) PROVE [Unshared!Next]_(Unshared!vars)
  <2>1. CallInv(c) /\ SnapshotsExact
    BY DEF SessionInv
  <2>2. ContextOf(c) = Contexts[c] /\ prompt \in [Calls -> Seq(Tokens)]
    BY TypeFacts DEF Contexts
  <2>3. ASSUME NEW p \in Prompts, Begin(c, p) PROVE Unshared!Next
    <3>1. ContextOf(c)' = ContextOf(c)
      BY <2>1, <2>3, LookupHidden
    <3>2. Contexts' = Contexts
      BY <1>2, <3>1, ContextsSame
    <3>3. prompt[c] = <<>> /\ p # <<>> /\ prompt' = [prompt EXCEPT ![c] = p]
      BY <2>1, <2>3, SessionsAssumption DEF Begin, Goto, CallInv
    <3>4. Unshared!Ask(c, p)
      BY <3>2, <3>3 DEF Unshared!Ask, Contexts
    <3> QED BY <3>4 DEF Unshared!Next
  <2>4. CASE ~\E p \in Prompts : Begin(c, p)
    <3>1. prompt' = prompt
      BY <1>2, <2>4 DEF Moves, Step, Search, Touch, Load, Clear, Rope, Attend, Say, End, Remember, Pop, Insert,
         Full, Evict, Fail
    <3>2. CASE Attend(c) /\ ~(layer[c] < NumLayers)
      <4>1. CASE ContextOf(c) = <<>> /\ prompt[c] # <<>> /\ ContextOf(c)' = Placed(prompt[c], 0)
        <5>1. Contexts' = [Contexts EXCEPT ![c] = Placed(prompt[c], 0)]
          BY <1>2, <4>1, ContextsAfter
        <5>2. Unshared!Read(c)
          BY <2>2, <3>1, <4>1, <5>1 DEF Unshared!Read, Unshared!Placed, Placed, Contexts
        <5> QED BY <5>2 DEF Unshared!Next
      <4>2. ASSUME ContextOf(c) # <<>>, NEW token \in Tokens,
                   ContextOf(c)' = ContextOf(c) \o Placed(<<token>>, Len(ContextOf(c)))
            PROVE  Unshared!Next
        <5>1. Contexts' = [Contexts EXCEPT ![c] = Contexts[c] \o Placed(<<token>>, Len(Contexts[c]))]
          BY <1>2, <2>2, <4>2, ContextsAfter
        <5>2. Unshared!Extend(c, token)
          BY <2>2, <3>1, <4>2, <5>1 DEF Unshared!Extend, Unshared!Placed, Placed, Contexts
        <5> QED BY <5>2 DEF Unshared!Next
      <4> QED BY <2>1, <3>2, <4>1, <4>2, LastLayerShows
    <3>3. CASE ~(Attend(c) /\ ~(layer[c] < NumLayers))
      <4>1. ContextOf(c)' = ContextOf(c)
        BY <1>2, <2>1, <2>4, <3>3, LookupHidden, RestHidden DEF Moves, Step
      <4>2. Contexts' = Contexts
        BY <1>2, <4>1, ContextsSame
      <4> QED BY <3>1, <4>2 DEF Unshared!vars, Contexts
    <3> QED BY <3>2, <3>3
  <2> QED BY <2>3, <2>4
<1> QED BY <1>1, <1>2 DEF Next, Moves

\* Calls on forked sessions that share one prefix cache implement generation
\* without a cache, however they interleave and even when a lookup or a put
\* raises: what the model sees of a call is its prompt, whole, and then one token
\* more at a time, each at the position after the last.
THEOREM ImplementsGenerationHolds == Forked => (Spec => ImplementsGeneration)
<1>1. SUFFICES ASSUME Forked PROVE Spec => ImplementsGeneration
  OBVIOUS
<1>2. Init => Fresh
  BY InitFresh
<1>3. TypeOK /\ Fresh /\ [Next]_vars => Fresh'
  BY <1>1, FreshInductive
<1>4. Spec => []SessionInv
  BY <1>1, SessionInvariant DEF Isolated
<1>5. Init => Unshared!Init
  <2>1. Init => Contexts = [c \in Calls |-> <<>>]
    BY DEF Init, Contexts, ContextOf, PutPcs
  <2> QED BY <2>1 DEF Init, Unshared!Init, Contexts
<1>6. TypeOK /\ SessionInv /\ Fresh /\ [Next]_vars => [Unshared!Next]_(Unshared!vars)
  BY <1>1, StepGenerates
<1> QED BY <1>2, <1>3, <1>4, <1>5, <1>6, TypeCorrect, PTL DEF Spec, ImplementsGeneration, Unshared!Spec

==============================================================================
