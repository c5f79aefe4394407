------------------------------ MODULE TrieMap ------------------------------
(***************************************************************************)
(* trie_map.rs, and trie.rs over it: a tree of tokens, each node the list  *)
(* of its word and its children in order of arrival.  A node is named by   *)
(* the path to it.  A walk keeps paths and not nodes, and finds them again *)
(* at every step.  update is the bridge's: its callback runs between the   *)
(* lookup and the write, and may call the trie or throw.                   *)
(***************************************************************************)
EXTENDS Entries, FiniteSets, TLC

CONSTANTS Words,   \* the prefixes that are used, with those of each
           Values, Undefined, MaxWords, MaxUpdates

VARIABLES nodes,   \* from the paths there are to lists of slots
          size,
          walk,    \* the paths it has still to look at, under a base
          updates, \* prefixes whose callbacks run, the last one innermost
          past     \* history: the word last written for each prefix

vars == <<nodes, size, walk, updates, past>>

Word(v) == [word |-> TRUE, is |-> v]
Child(t) == [word |-> FALSE, is |-> t]

Root == <<>> :> <<>>

WordOf(m, p) ==
    IF p \in DOMAIN m /\ \E n \in DOMAIN m[p] : m[p][n].word
    THEN SelectSeq(m[p], LAMBDA slot : slot.word)[1].is
    ELSE Undefined

Paths(m) == {p \in DOMAIN m : WordOf(m, p) # Undefined}

(* What is below a prefix, by suffixes: nodes are visited with the child   *)
(* that came last first.                                                   *)
Find(m, prefix) ==
    LET Visited[stack \in Seq(DOMAIN m)] ==
            LET p == Last(stack)
                found == SelectSeq(m[p], LAMBDA slot : slot.word)
                children == SelectSeq(m[p], LAMBDA slot : ~slot.word)
                suffix == SubSeq(p, Len(prefix) + 1, Len(p))
            IN  IF stack = <<>> THEN <<>>
                ELSE [n \in DOMAIN found |-> [key |-> suffix, value |-> found[n].is]] \o
                     Visited[Front(stack) \o [n \in DOMAIN children |-> Append(p, children[n].is)]]
    IN IF prefix \in DOMAIN m THEN Visited[<<prefix>>] ELSE <<>>

(* promised and ahead are history: what find would have given when it was  *)
(* opened, and the paths its last step left it with.                       *)
Opened(m, base) ==
    OuterWalk(Find(m, base)) @@
    [base |-> base, promised |-> Find(m, base), ahead |-> {base} \cap DOMAIN m,
     pending |-> IF base \in DOMAIN m THEN <<base>> ELSE <<>>]

(* The words of m on paths that the walk had still to look at.             *)
Ahead(m) ==
    {SubSeq(q, Len(walk.base) + 1, Len(q)) :
        q \in {q \in Paths(m) : \E p \in walk.ahead : IsPrefix(p, q)}}

(* The same with a trie that has become m: a word that is new, or back,    *)
(* ahead of the walk must be come to as well.                              *)
Shaken(m) ==
    [Disturbed(walk, Find(m, walk.base)) EXCEPT !.promised = <<>>, !.missing = @ \cup Ahead(m)]

Init ==
    /\ nodes = Root
    /\ size = 0
    /\ walk = Opened(Root, <<>>)
    /\ updates = <<>>
    /\ past = <<>>

EnsurePath(m, p) ==
    LET Grown[n \in 0 .. Len(p)] ==
            LET here == SubSeq(p, 1, n)
                parent == SubSeq(p, 1, n - 1)
            IN  IF n = 0 \/ here \in DOMAIN m THEN m
                ELSE [Grown[n - 1] EXCEPT ![parent] = Append(@, Child(p[n]))] @@ here :> <<>>
    IN Grown[Len(p)]

(* Mutant: a word that is there is written a second time.                  *)
SetWordAgain(m, p, v) == [m EXCEPT ![p] = Append(@, Word(v))]

SetWord(m, p, v) ==
    IF WordOf(m, p) = Undefined THEN [m EXCEPT ![p] = Append(@, Word(v))]
    ELSE [m EXCEPT ![p] = [n \in DOMAIN @ |-> IF @[n].word THEN Word(v) ELSE @[n]]]

Write(p, v) ==
    /\ Cardinality(Paths(nodes) \cup {p}) <= MaxWords
    /\ nodes' = SetWord(EnsurePath(nodes, p), p, v)
    /\ size' = IF WordOf(nodes, p) = Undefined THEN size + 1 ELSE size
    /\ walk' = Shaken(nodes')
    /\ past' = p :> v @@ past

RemoveSlot(m, p, slot) == [m EXCEPT ![p] = SelectSeq(@, LAMBDA s : s # slot)]

RemoveChild(m, p) ==
    RemoveSlot([q \in {q \in DOMAIN m : ~IsPrefix(p, q)} |-> m[q]], Front(p), Child(Last(p)))

(* Mutant: the branch of a deleted word goes, whatever else is on it.      *)
PrunedWhole(m, p) == IF p = <<>> THEN m ELSE RemoveChild(m, p)

(* A node that is left empty goes, and its parent if that leaves it empty. *)
Pruned(m, p) ==
    LET Up[n \in 0 .. Len(p)] ==
            LET here == SubSeq(p, 1, n)
                below == IF n = Len(p) THEN m ELSE Up[n + 1]
            IN IF n > 0 /\ below[here] = <<>> THEN RemoveChild(below, here) ELSE below
    IN Up[0]

(* Mutant: a walk loses the branch that is pruned, and not just its words. *)
DeleteDetaches(p) ==
    /\ WordOf(nodes, p) # Undefined
    /\ nodes' = Pruned(RemoveSlot(nodes, p, Word(WordOf(nodes, p))), p)
    /\ size' = size - 1
    /\ walk' = [Shaken(nodes') EXCEPT !.pending = SelectSeq(@, LAMBDA q : q \in DOMAIN nodes')]
    /\ past' = [q \in DOMAIN past \ {p} |-> past[q]]
    /\ UNCHANGED updates

Delete(p) ==
    /\ WordOf(nodes, p) # Undefined
    /\ nodes' = Pruned(RemoveSlot(nodes, p, Word(WordOf(nodes, p))), p)
    /\ size' = size - 1
    /\ walk' = Shaken(nodes')
    /\ past' = [q \in DOMAIN past \ {p} |-> past[q]]
    /\ UNCHANGED updates

Clear ==
    /\ nodes' = Root
    /\ size' = 0
    /\ walk' = Shaken(nodes')
    /\ past' = <<>>
    /\ UNCHANGED updates

Set(p, v) == Write(p, v) /\ UNCHANGED updates

(* The callback was given what get answers here.                           *)
CallUpdate(p) ==
    /\ Len(updates) < MaxUpdates
    /\ updates' = Append(updates, p)
    /\ UNCHANGED <<nodes, size, walk, past>>

(* Whether there is a word is asked again, and not what it was before.     *)
UpdateReturns(v) ==
    /\ updates # <<>>
    /\ Write(Last(updates), v)
    /\ updates' = Front(updates)

UpdateThrows ==
    /\ updates # <<>>
    /\ updates' = Front(updates)
    /\ UNCHANGED <<nodes, size, walk, past>>

OpenWalk(base) ==
    /\ walk' = Opened(nodes, base)
    /\ UNCHANGED <<nodes, size, updates, past>>

(* Mutant: a path that was pruned ends the walk.                           *)
AdvancedEnds(m, w) ==
    LET Looked[pending \in Seq(Words)] ==
            LET p == Last(pending)
                children == SelectSeq(m[p], LAMBDA slot : ~slot.word)
                ahead == Front(pending) \o [n \in DOMAIN children |-> Append(p, children[n].is)]
            IN  IF pending = <<>> \/ p \notin DOMAIN m THEN [w EXCEPT !.pending = <<>>, !.ended = TRUE]
                ELSE IF WordOf(m, p) = Undefined THEN Looked[ahead]
                ELSE LET suffix == SubSeq(p, Len(w.base) + 1, Len(p))
                     IN  Given([w EXCEPT !.pending = ahead], suffix,
                               [key |-> suffix, value |-> WordOf(m, p)])
    IN Looked[w.pending]

(* Until a node with a word: a path that was pruned meanwhile is passed    *)
(* over, the children of one that is still there are looked at next.       *)
Advanced(m, w) ==
    LET Looked[pending \in Seq(Words)] ==
            LET p == Last(pending)
                children == SelectSeq(m[p], LAMBDA slot : ~slot.word)
                ahead == Front(pending) \o [n \in DOMAIN children |-> Append(p, children[n].is)]
            IN  IF pending = <<>> THEN [w EXCEPT !.pending = <<>>, !.ended = TRUE]
                ELSE IF p \notin DOMAIN m THEN Looked[Front(pending)]
                ELSE IF WordOf(m, p) = Undefined THEN Looked[ahead]
                ELSE LET suffix == SubSeq(p, Len(w.base) + 1, Len(p))
                     IN  Given([w EXCEPT !.pending = ahead], suffix,
                               [key |-> suffix, value |-> WordOf(m, p)])
    IN Looked[w.pending]

StepWalk ==
    /\ ~walk.ended
    /\ LET stepped == Advanced(nodes, walk)
       IN walk' = [stepped EXCEPT !.ahead = ToSet(stepped.pending)]
    /\ UNCHANGED <<nodes, size, updates, past>>

Next ==
    \/ \E p \in Words :
           \/ Delete(p) \/ CallUpdate(p) \/ OpenWalk(p)
           \/ \E v \in Values : Set(p, v)
    \/ \E v \in Values : UpdateReturns(v)
    \/ UpdateThrows
    \/ Clear
    \/ StepWalk

-----------------------------------------------------------------------------

(* The size is the number of words there are; what has no word has one     *)
(* below it, so that the branches of deleted words are gone.               *)
CountsExact ==
    /\ size = Cardinality(DOMAIN past)
    /\ \A p \in DOMAIN nodes \ {<<>>} : \E q \in Paths(nodes) : IsPrefix(p, q)

(* A lookup answers the word last written for exactly that prefix, and     *)
(* find gives those below one, each once.                                  *)
FindExact ==
    \A p \in Words :
        /\ WordOf(nodes, p) = IF p \in DOMAIN past THEN past[p] ELSE Undefined
        /\ LET found == Find(nodes, p)
           IN  /\ Len(found) = Cardinality({q \in DOMAIN past : IsPrefix(p, q)})
               /\ \A e \in ToSet(found) : past[p \o e.key] = e.value

(* A walk nothing disturbs gives what find does, in its order; one that is *)
(* disturbed comes to every word that stays, though the branch it stands   *)
(* on is pruned, and to every one that is set ahead of it, also on a       *)
(* branch that was pruned in between.                                      *)
WalkExact == WalkSound(walk, walk.promised)
=============================================================================
