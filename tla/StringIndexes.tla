--------------------------- MODULE StringIndexes ---------------------------
(***************************************************************************)
(* suffix_array.rs, symspell.rs and passjoin_index.rs: indexes of strings. *)
(* A string is the sequence of its characters, which are small numbers;    *)
(* positions in it count from zero where the code keeps them.              *)
(***************************************************************************)
EXTENDS Integers, SequencesExt, TLC

CONSTANTS Strings,     \* every string there may be
          Added,       \* those that are added to an index
          MaxAdds

VARIABLES index,       \* SymSpell's dictionary, or Passjoin's inverted indices
          strings,     \* those added; of SymSpell, the words that were new
          settings,    \* maxDistance and verbosity; of Passjoin, k
          max_length,
          size,
          past         \* history: what was added since the last clear

vars == <<index, strings, settings, max_length, size, past>>

Without(s, n) == SubSeq(s, 1, n - 1) \o SubSeq(s, n + 1, Len(s))

-----------------------------------------------------------------------------
(* Suffix arrays *)

Undefined == -9

At(s, i) == IF i < Len(s) THEN s[i + 1] ELSE Undefined

(* Mutant: positions of one symbol change their order.                     *)
RadixSortUnstable(s, a, offset) ==
    LET symbols == [n \in DOMAIN a |-> At(s, a[n] + offset)]
        Before(m, n) == symbols[m] < symbols[n] \/ (symbols[m] = symbols[n] /\ m > n)
        order == SetToSortSeq(DOMAIN a, Before)
    IN [n \in DOMAIN a |-> a[order[n]]]

(* sort, by the symbols at an offset from the positions in a.  If one is   *)
(* past the end, it counts as zero, and of the others the last eight bits. *)
RadixSort(s, a, offset) ==
    LET symbols == [n \in DOMAIN a |-> At(s, a[n] + offset)]
        narrow == \E n \in DOMAIN a : symbols[n] = Undefined
        digits == [n \in DOMAIN a |-> IF symbols[n] = Undefined THEN 0
                                      ELSE IF narrow THEN symbols[n] % 256 ELSE symbols[n]]
        Before(m, n) == digits[m] < digits[n] \/ (digits[m] = digits[n] /\ m < n)
        order == SetToSortSeq(DOMAIN a, Before)
    IN [n \in DOMAIN a |-> a[order[n]]]

(* Whether the comparison of the suffixes at m and n is below zero: what   *)
(* is undefined differs from nothing.  rank is the place of a suffix in a. *)
Precedes(s, rank, m, n) ==
    LET Gap(i, j) == IF Undefined \in {At(s, i), At(s, j)} THEN 0 ELSE At(s, i) - At(s, j)
    IN  IF Gap(m, n) # 0 THEN Gap(m, n) < 0
        ELSE IF m % 3 = 1 THEN rank[m + 1] < rank[n + 1]
        ELSE IF Gap(m + 1, n + 1) # 0 THEN Gap(m + 1, n + 1) < 0
        ELSE rank[m + 2] < rank[n + 2]

RECURSIVE Merged(_, _, _, _), Build(_, _)

Merged(s, rank, a, b) ==
    IF a = <<>> \/ b = <<>> THEN a \o b
    ELSE IF Precedes(s, rank, Head(a), Head(b)) THEN <<Head(a)>> \o Merged(s, rank, Tail(a), b)
    ELSE <<Head(b)>> \o Merged(s, rank, a, Tail(b))

(* The positions with a rest of one or two by three, in their order, and   *)
(* with them the others.                                                   *)
Completed(s, l, order) ==
    LET rank == [n \in 0 .. l + 1 |-> IF n >= l THEN l - n - 1
                                      ELSE IF n % 3 = 0 THEN Undefined
                                      ELSE CHOOSE i \in DOMAIN order : order[i] = n]
        firsts == SelectSeq(order, LAMBDA n : n % 3 = 1)
    IN Merged(s, rank, order,
              RadixSort(s, (IF l % 3 = 1 THEN <<l - 1>> ELSE <<>>) \o [i \in DOMAIN firsts |-> firsts[i] - 1], 0))

(* The places of the triples at a, equal ones being one.                   *)
Levels(s, a) ==
    LET Triple(p) == [k \in 0 .. 2 |-> At(s, p + k)]
    IN [i \in DOMAIN a |-> 1 + Cardinality({j \in 2 .. i : Triple(a[j]) # Triple(a[j - 1])})]

(* The levels as a string: those of rest one, then those of rest two.      *)
Reduced(a, level, r) ==
    LET At3(i) == a[i] \div 3 + IF a[i] % 3 = 1 THEN 0 ELSE r
    IN [k \in DOMAIN a |-> level[CHOOSE i \in DOMAIN a : At3(i) = k - 1]]

(* From the reduced string back: inner is what is built for it.            *)
Widened(s, l, r, inner) ==
    [array |-> Completed(s, l, [i \in DOMAIN inner.array |->
                  IF inner.array[i] < r THEN inner.array[i] * 3 + 1 ELSE (inner.array[i] - r) * 3 + 2]),
     mixed |-> l % 3 = 1 \/ inner.mixed]

Refined(s, l, a, level) ==
    LET r == (Len(a) + 1) \div 2
    IN  IF a = <<>> \/ Last(level) = Len(a) THEN [array |-> Completed(s, l, a), mixed |-> FALSE]
        ELSE Widened(s, l, r, Build(Reduced(a, level, r), Len(a)))

(* The suffixes of the first l symbols of s in order.  mixed tells whether *)
(* the two halves of a reduced string ran into one another on the way.     *)
Build(s, l) ==
    LET Of(a) == Refined(s, l, a, Levels(s, a))
    IN  IF l = 1 THEN [array |-> <<0>>, mixed |-> FALSE]
        ELSE Of(FoldLeft(LAMBDA p, offset : RadixSort(s, p, offset),
                         [i \in 1 .. (2 * l) \div 3 |-> ((i - 1) * 3) \div 2 + 1], <<2, 1, 0>>))

SuffixArray(s) == Build(s \o [i \in 1 .. Len(s) % 3 |-> 0], Len(s))

Separator == 1

(* The text of a generalized suffix array: the members, parted.            *)
Joined(members) == Head(members) \o FlattenSeq([n \in 1 .. Len(members) - 1 |-> <<Separator>> \o members[n + 1]])

(* Of two neighbours in the array that are not both in the first member,  *)
(* nor both behind it.                                                     *)
LongestIn(text, first, array) ==
    LET suffix(i) == SubSeq(text, array[i] + 1, Len(text))
        apart(i) == ~(array[i] < first /\ array[i - 1] < first)
                    /\ ~(array[i] > first /\ array[i - 1] > first)
        longer(best, common) == IF Len(common) > Len(best) THEN common ELSE best
    IN  FoldLeft(LAMBDA best, i : IF apart(i) THEN longer(best, LongestCommonPrefix({suffix(i), suffix(i - 1)}))
                                  ELSE best,
                 <<>>, [i \in 1 .. Len(text) - 1 |-> i + 1])

(* longestCommonSubsequence.                                               *)
LongestCommon(members) ==
    LongestIn(Joined(members), Len(Head(members)), SuffixArray(Joined(members)).array)

(* The suffixes of a string of which no symbol is zero are in order, of    *)
(* all lengths and all widths at which the comments do not say otherwise.  *)
SuffixesExact(s) ==
    LET suffix(n) == SubSeq(s, n + 1, Len(s))
        Below(p, q) == LET c == Len(LongestCommonPrefix({p, q}))
                       IN c = Len(p) \/ (c < Len(q) /\ p[c + 1] < q[c + 1])
        wide == Len(s) % 3 = 0 /\ \E n \in DOMAIN s : s[n] > 255
        Exact(array, mixed) ==
            /\ IsInjective(array) /\ ToSet(array) = 0 .. Len(s) - 1
            /\ ~mixed /\ ~wide => \A i \in 1 .. Len(s) - 1 : Below(suffix(array[i]), suffix(array[i + 1]))
        Sound(built) == Exact(built.array, built.mixed)
    IN Sound(SuffixArray(s))

Substrings(s) == {SubSeq(s, i, j) : i \in 1 .. Len(s) + 1, j \in 0 .. Len(s)}

(* What two strings are said to have in common is in both, and nothing     *)
(* longer is.                                                              *)
CommonExact(s, t) ==
    LET Longest(common, found) == found \in common /\ \A c \in common : Len(c) <= Len(found)
    IN  ~SuffixArray(Joined(<<s, t>>)).mixed =>
            Longest(Substrings(s) \cap Substrings(t), LongestCommon(<<s, t>>))

-----------------------------------------------------------------------------
(* SymSpell: an entry holds the numbers of the words that a string is a    *)
(* deletion of, and how often it was added; a number alone is an entry of  *)
(* one suggestion that was never added. *)

InitSymSpell ==
    /\ index = <<>>
    /\ strings = <<>>
    /\ settings \in [maxDistance : 1 .. 2, verbosity : 0 .. 2]
    /\ max_length = 0
    /\ size = 0
    /\ past = <<>>

RECURSIVE Edits(_, _)

(* What is left of a word; a single character is not deleted.              *)
Edits(word, distance) ==
    LET deleted == {Without(word, n) : n \in DOMAIN word}
    IN  IF Len(word) <= 1 THEN {}
        ELSE deleted \cup IF distance < settings.maxDistance
                          THEN UNION {Edits(d, distance + 1) : d \in deleted} ELSE {}

(* addLowestDistance: below verbosity 2 only the shortest words stay, and  *)
(* a shorter one than they takes their place and the count.                *)
Suggest(item, known, number) ==
    LET length(n) == Len(known[n])
    IN  IF settings.verbosity = 2 \/ item.suggestions = <<>>
           \/ length(Head(item.suggestions)) = length(number)
        THEN [item EXCEPT !.suggestions = Append(@, number)]
        ELSE IF length(Head(item.suggestions)) > length(number)
        THEN [suggestions |-> <<number>>, count |-> 0]
        ELSE item

NoItem == [suggestions |-> <<>>, count |-> 0]

Item(string) == IF string \in DOMAIN index THEN index[string] ELSE NoItem

AddWord(word) ==
    LET item == [Item(word) EXCEPT !.count = @ + 1]
        isNew == item.count = 1
        known == IF isNew THEN Append(strings, word) ELSE strings
        deleted == IF isNew THEN Edits(word, 1) ELSE {}
    IN  /\ size < MaxAdds
        /\ index' = [d \in deleted |-> Suggest(Item(d), known, Len(known))] @@ (word :> item) @@ index
        /\ strings' = known
        /\ max_length' = IF word \notin DOMAIN index /\ Len(word) > max_length THEN Len(word) ELSE max_length
        /\ size' = size + 1
        /\ past' = Append(past, word)
        /\ UNCHANGED settings

ClearWords ==
    /\ index' = <<>>
    /\ strings' = <<>>
    /\ max_length' = 0
    /\ size' = 0
    /\ past' = <<>>
    /\ UNCHANGED settings

SymSpellNext == ClearWords \/ \E word \in Added : AddWord(word)

(* damerau_levenshtein: the least of the three edits, and of swapping the  *)
(* last two characters that match crosswise, with what is between them.    *)
Damerau(s, t) ==
    LET Before(string, symbol, n) == Max({0} \cup {i \in 1 .. n - 1 : string[i] = symbol})
        H[i \in 0 .. Len(s), j \in 0 .. Len(t)] ==
            LET i1 == Before(s, t[j], i)
                j1 == Before(t, s[i], j)
                swapped == IF i1 = 0 \/ j1 = 0 THEN {}
                           ELSE {H[i1 - 1, j1 - 1] + (i - i1 - 1) + 1 + (j - j1 - 1)}
                edited == IF s[i] = t[j] THEN H[i - 1, j - 1]
                          ELSE 1 + Min({H[i - 1, j - 1], H[i, j - 1], H[i - 1, j]})
            IN  IF i = 0 THEN j ELSE IF j = 0 THEN i ELSE Min({edited} \cup swapped)
    IN H[Len(s), Len(t)]

Overlap == 99

(* The distance of what is left between the common ends, which must not    *)
(* overlap (the slice would panic).                                        *)
Trimmed(word, input) ==
    LET ii == Len(LongestCommonPrefix({word, input}))
        rest == SubSeq(word, ii + 1, Len(word))
        jj == Len(LongestCommonPrefix({Reverse(rest), Reverse(input)}))
    IN  IF ii > Len(input) - jj THEN Overlap
        ELSE Damerau(SubSeq(word, ii + 1, Len(word) - jj), SubSeq(input, ii + 1, Len(input) - jj))

Measured(word, input, candidate) ==
    IF input = word THEN 0
    ELSE IF Len(word) = Len(candidate) THEN Len(input) - Len(candidate)
    ELSE IF Len(input) = Len(candidate) THEN Len(word) - Len(candidate)
    ELSE Trimmed(word, input)

(* One suggestion of an entry: below verbosity 2, nothing farther than the *)
(* first that was found, and what is nearer replaces all.                  *)
(* Below verbosity 2 the first suggestion says how far to look.            *)
Limit(found, otherwise) ==
    IF settings.verbosity < 2 /\ found.suggestions # <<>> THEN Head(found.suggestions).distance ELSE otherwise

Rated(found, word, distance) ==
    LET first == Limit(found, distance)
        kept == IF first > distance THEN <<>> ELSE found.suggestions
        suggestion == [term |-> word, distance |-> distance, count |-> Item(word).count]
    IN  [seen |-> found.seen \cup {word},
         suggestions |-> IF distance > first \/ distance > settings.maxDistance THEN kept
                         ELSE Append(kept, suggestion)]

Consider(input, candidate, found, word) ==
    IF word \in found.seen THEN found ELSE Rated(found, word, Measured(word, input, candidate))

RECURSIVE Lookup(_, _, _, _)

NewDeletions(candidate, made) ==
    LET Once(q, d) == IF d \in made \cup ToSet(q) THEN q ELSE Append(q, d)
    IN FoldLeft(Once, <<>>, [n \in DOMAIN candidate |-> Without(candidate, n)])

(* Behind a candidate its deletions are put, unless that is past the edge. *)
Deepened(input, candidates, made, found) ==
    LET Onward(new) == Lookup(input, Tail(candidates) \o new, made \cup ToSet(new), found)
        lenDiff == Len(input) - Len(Head(candidates))
    IN  IF lenDiff >= settings.maxDistance \/ lenDiff >= Limit(found, lenDiff + 1) THEN Onward(<<>>)
        ELSE Onward(NewDeletions(Head(candidates), made))

(* candidates is the queue of what is left of the input, made those that   *)
(* were ever put in it.                                                    *)
Lookup(input, candidates, made, found) ==
    LET candidate == Head(candidates)
        lenDiff == Len(input) - Len(candidate)
        item == Item(candidate)
        isWord == item.count > 0 /\ candidate \notin found.seen
        noted == IF ~isWord THEN found
                 ELSE [seen |-> found.seen \cup {candidate},
                       suggestions |-> Append(found.suggestions,
                           [term |-> candidate, distance |-> lenDiff, count |-> item.count])]
    IN  IF candidates = <<>> \/ lenDiff > Limit(found, lenDiff) THEN found.suggestions
        ELSE IF isWord /\ settings.verbosity < 2 /\ lenDiff = 0 THEN noted.suggestions
        ELSE Deepened(input, candidates, made,
                      FoldLeft(LAMBDA f, n : Consider(input, candidate, f, strings[n]), noted, item.suggestions))

SearchWords(input) ==
    LET Upto(found) == IF settings.verbosity = 0 THEN SubSeq(found, 1, Min({1, Len(found)})) ELSE found
    IN  IF Len(input) - settings.maxDistance > max_length THEN <<>>
        ELSE Upto(Lookup(input, <<input>>, {}, [seen |-> {}, suggestions |-> <<>>]))

-----------------------------------------------------------------------------
(* What strings are, by single edits. *)

Swapped(s) == {[s EXCEPT ![n] = s[n + 1], ![n + 1] = s[n]] : n \in 1 .. Len(s) - 1}

(* By insertions, deletions and substitutions; with swaps, if they count.  *)
Neighbours(s, swaps) ==
    {t \in Strings :
        \/ Len(t) = Len(s) /\ Cardinality({n \in DOMAIN s : s[n] # t[n]}) = 1
        \/ t \in {Without(s, n) : n \in DOMAIN s}
        \/ s \in {Without(t, n) : n \in DOMAIN t}
        \/ swaps /\ t \in Swapped(s)}

Adjacent == [swaps \in BOOLEAN |-> [s \in Strings |-> Neighbours(s, swaps)]]

RECURSIVE Ball(_, _, _)
Ball(s, n, swaps) ==
    IF n = 0 THEN {s}
    ELSE LET near == Ball(s, n - 1, swaps) IN near \cup UNION {Adjacent[swaps][t] : t \in near}

Balls == [swaps \in BOOLEAN |-> [s \in Strings |-> [n \in 0 .. 3 |-> Ball(s, n, swaps)]]]

Times(word) == Len(SelectSeq(past, LAMBDA w : w = word))

(* Every suggestion is a word that was added, at its distance, once; above *)
(* verbosity 1, every word within the distance that has a character of the *)
(* input is suggested, with how often it was added; below, something is if *)
(* there is such a word, and nothing is farther than the first of them.    *)
WordsExact ==
    LET near(s, n) == Balls[TRUE][s][n]
    IN  /\ size = Len(past)
        /\ \A input \in Strings :
            LET within == {w \in ToSet(past) : w \in near(input, settings.maxDistance)}
                reached == {w \in within : ToSet(w) \cap ToSet(input) # {}}
                Right(found) ==
                    LET terms == {e.term : e \in ToSet(found)}
                    IN  /\ IsInjective([n \in DOMAIN found |-> found[n].term])
                        /\ terms \subseteq within
                        /\ \A e \in ToSet(found) :
                            /\ e.term \in near(input, e.distance)
                            /\ e.distance > 0 => e.term \notin near(input, e.distance - 1)
                            /\ e.count <= Times(e.term)
                        /\ IF settings.verbosity = 2
                           THEN reached \subseteq terms /\ \A e \in ToSet(found) : e.count = Times(e.term)
                           ELSE /\ reached # {} => found # <<>>
                                /\ \A e \in ToSet(found) : e.distance <= Head(found).distance
            IN Right(SearchWords(input))

-----------------------------------------------------------------------------
(* Passjoin: the inverted indices hold, of every string, its length, its   *)
(* segments and the numbers of these, and the number of the string. *)

InitPassjoin ==
    /\ index = {}
    /\ strings = <<>>
    /\ settings \in 1 .. 2
    /\ max_length = 0
    /\ size = 0
    /\ past = <<>>

(* partition: k + 1 segments, the short ones first; start and length.      *)
Partition(k, l) ==
    LET a == l \div (k + 1)
        small == k + 1 - (l % (k + 1))
    IN [i \in 0 .. k |-> IF i < small THEN <<i * a, a>> ELSE <<small * a + (i - small) * (a + 1), a + 1>>]

Slice(s, start, end) == SubSeq(s, Max({0, start}) + 1, Min({end, Len(s)}))

AddString(string) ==
    /\ size < MaxAdds
    /\ strings' = Append(strings, string)
    /\ size' = size + 1
    /\ index' = index \cup
           {[length |-> Len(string), number |-> i, string |-> size + 1,
             segment |-> LET part == Partition(settings, Len(string))[i]
                         IN Slice(string, part[1], part[1] + part[2])] : i \in 0 .. settings}
    /\ past' = Append(past, string)
    /\ UNCHANGED <<settings, max_length>>

ClearStrings ==
    /\ index' = {}
    /\ strings' = <<>>
    /\ size' = 0
    /\ past' = <<>>
    /\ UNCHANGED <<settings, max_length>>

PassjoinNext == ClearStrings \/ \E string \in Added : AddString(string)

(* Mutant: the window of a segment ends too early by one.                  *)
WindowShort(k, s, l, i) ==
    LET part == Partition(k, l)[i]
        delta == s - l
    IN  Max({0, part[1] - i, part[1] + delta - (k - i)}) ..
        Min({s - part[2], part[1] + i - 1, part[1] + delta + (k - i)})

(* Where segment i of a string of length l may be in one of length s.      *)
Window(k, s, l, i) ==
    LET part == Partition(k, l)[i]
        delta == s - l
    IN  Max({0, part[1] - i, part[1] + delta - (k - i)}) ..
        Min({s - part[2], part[1] + i, part[1] + delta + (k - i)})

(* With nowhere to look, the empty string is looked for.                   *)
Segments(k, query, l, i) ==
    LET window == Window(k, Len(query), l, i)
    IN  IF window = {} THEN {<<>>}
        ELSE {Slice(query, j, j + Partition(k, l)[i][2]) : j \in window}

(* The distance, which the caller provides, is asked for unless both are   *)
(* so short that it cannot be more than k.                                 *)
SearchStrings(query) ==
    LET s == Len(query)
        k == settings
        lengths == Max({0, s - k}) .. s + k
        candidates == {e \in index : e.length \in lengths /\ e.segment \in Segments(k, query, e.length, e.number)}
    IN  {strings[e.string] : e \in {c \in candidates :
            (s <= k /\ c.length <= k) \/ strings[c.string] \in Balls[FALSE][query][k]}}

(* What is within k is found and nothing else; the segments of a string    *)
(* put together are the string; and no more substrings are looked up than  *)
(* count_substrings_l says.                                                *)
PassjoinExact ==
    LET k == settings
        diff(s, l) == IF s < l THEN l - s ELSE s - l
        segment(string, part) == Slice(string, part[1], part[1] + part[2])
    IN  /\ size = Len(past)
        /\ \A string \in Strings :
              string = FlattenSeq([i \in 1 .. k + 1 |-> segment(string, Partition(k, Len(string))[i - 1])])
        /\ \A query \in Strings :
            /\ SearchStrings(query) = ToSet(past) \cap Balls[FALSE][query][k]
            /\ \A l \in Max({k, Len(query) - k}) .. Len(query) + k :
                  MapThenSumSet(LAMBDA i : Cardinality(Window(k, Len(query), l, i)), 0 .. k)
                      <= (k * k - diff(Len(query), l) ^ 2) \div 2 + k + 1
=============================================================================
