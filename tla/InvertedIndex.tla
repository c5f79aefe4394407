---------------------------- MODULE InvertedIndex ----------------------------
(***************************************************************************)
(* inverted_index.rs: documents in an array, and for every token the       *)
(* ascending positions of the documents that have it.  Both are held by    *)
(* reference: clear gives the index new ones, and an iterator keeps those  *)
(* it was opened on.  The caller's tokenizers run before a call of the     *)
(* core, and are its argument here.  Documents are numbered as they        *)
(* arrive.                                                                 *)
(***************************************************************************)
EXTENDS Entries, SortedArrays, FiniteSets

CONSTANTS Tokens, MaxDocuments, None

VARIABLES items, mapping, size, arrived,
          walk,   \* an iterator of documents or of tokens; left is what it
                  \* was left with by clear, None while it is the index's
          past    \* history: the tokens every document was added with

vars == <<items, mapping, size, arrived, walk, past>>

TokenLists == UNION {[1 .. n -> Tokens] : n \in 0 .. 2}

Names(m) == [n \in DOMAIN m |-> m[n].key]

(* promised is history: the documents there were when an iterator of them  *)
(* was opened, and for one of tokens those that there are and those that   *)
(* come while it is under way.                                             *)
Opened(what, len) ==
    [what |-> what, len |-> len, ordinal |-> 0, left |-> None, seen |-> <<>>,
     promised |-> IF what = "documents" THEN SubSeq(items, 1, len) ELSE Names(mapping),
     ended |-> FALSE]

Init ==
    /\ items = <<>>
    /\ mapping = <<>>
    /\ size = 0
    /\ arrived = 0
    /\ past = <<>>
    /\ walk = Opened("documents", 0)

Walked(w) == IF w.what = "documents" THEN items ELSE mapping

LeftBehind(w) == IF w.left = None THEN [w EXCEPT !.left = Walked(w)] ELSE w

Clear ==
    /\ items' = <<>>
    /\ mapping' = <<>>
    /\ size' = 0
    /\ walk' = LeftBehind(walk)
    /\ past' = <<>>
    /\ UNCHANGED arrived

Postings(token) == IF token \in Keys(mapping) THEN ValueOf(mapping, token) ELSE <<>>

(* The document joins the postings of each of its tokens once.             *)
Add(tokens) ==
    /\ arrived < MaxDocuments
    /\ arrived' = arrived + 1
    /\ size' = size + 1
    /\ items' = Append(items, arrived + 1)
    /\ LET Joined[n \in 0 .. Len(tokens)] ==
               IF n = 0 THEN mapping
               ELSE IF \E i \in 1 .. n - 1 : tokens[i] = tokens[n] THEN Joined[n - 1]
               ELSE Put(Joined[n - 1], tokens[n], Append(Postings(tokens[n]), Len(items)))
       IN mapping' = Joined[Len(tokens)]
    /\ past' = Append(past, Range(tokens))
    /\ walk' = IF walk.what = "tokens" /\ walk.left = None /\ ~walk.ended
               THEN [walk EXCEPT !.promised = Names(mapping')] ELSE walk

(* forEach asks the wrong object for a length, and always walks nothing.   *)
OpenWalk ==
    /\ \/ walk' = Opened("documents", Len(items))
       \/ walk' = Opened("documents", 0)
       \/ walk' = Opened("tokens", 0)
    /\ UNCHANGED <<items, mapping, size, arrived, past>>

(* Mutant: an iterator of tokens walks whatever map the index has now.     *)
SourceNow(w) == IF w.left = None \/ w.what = "tokens" THEN Walked(w) ELSE w.left

Source(w) == IF w.left = None THEN Walked(w) ELSE w.left

(* Documents are walked up to the length there was; tokens as long as      *)
(* there are more.                                                         *)
StepWalk ==
    /\ ~walk.ended
    /\ LET source == Source(walk)
           end == IF walk.what = "documents" THEN walk.len ELSE Len(source)
       IN walk' = IF walk.ordinal >= end THEN [walk EXCEPT !.ended = TRUE]
                  ELSE [walk EXCEPT !.ordinal = @ + 1, !.seen = Append(@, source[walk.ordinal + 1])]
    /\ UNCHANGED <<items, mapping, size, arrived, past>>

Next ==
    \/ Clear
    \/ \E tokens \in TokenLists : Add(tokens)
    \/ OpenWalk
    \/ StepWalk

-----------------------------------------------------------------------------

(* The postings of the tokens of a query, intersected one by one.          *)
Get(query) ==
    LET Narrowed[n \in 1 .. Len(query)] ==
            IF n = 1 THEN Postings(query[1])
            ELSE IF Postings(query[n]) = <<>> THEN <<>>
            ELSE IntersectionUnique(Narrowed[n - 1], Postings(query[n]))
    IN IF size = 0 \/ query = <<>> THEN <<>>
       ELSE [n \in DOMAIN Narrowed[Len(query)] |-> items[Narrowed[Len(query)][n] + 1]]

(* A query is answered with the documents that were added with all of its  *)
(* tokens, in the order they came.                                         *)
GetExact ==
    \A query \in TokenLists \ {<<>>} :
        Get(query) = SelectSeq(items, LAMBDA x :
            Range(query) \subseteq past[x - arrived + Len(items)])

CountsExact == size = Len(items) /\ size = Len(past)

(* An iterator of documents gives those there were when it was opened,     *)
(* whatever is added and cleared; one of tokens gives each that there was  *)
(* and each that came before it ended or the index was cleared.            *)
WalkExact ==
    LET given == IF walk.what = "documents" THEN walk.seen ELSE Names(walk.seen)
    IN IF walk.ended THEN given = walk.promised ELSE IsPrefix(given, walk.promised)
=============================================================================
