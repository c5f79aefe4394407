------------------------------- MODULE BitSet -------------------------------
(***************************************************************************)
(* bits.rs, bit_set.rs and bit_vector.rs: bits in words of WordBits, and a *)
(* count of them that is kept on the side, from how a word compares before *)
(* and after.  A BitVector (Grows) has a length within a capacity of whole *)
(* words.  A word is the set of its positions that are set; the highest    *)
(* one is its sign.                                                        *)
(***************************************************************************)
EXTENDS Integers, FiniteSets, FiniteSetsExt

CONSTANTS WordBits,
          Grows,       \* a BitVector
          MaxCapacity, \* a bound on the bits of a vector
          MinDrift,    \* bounds on drift, past which the model adds nothing
          MaxDrift,
          None

VARIABLES words, length, capacity, size,
          drift,  \* what the size has been led astray by
          walk

vars == <<words, length, capacity, size, drift, walk>>

SignBit == WordBits - 1

WordsFor(bits) == (bits + WordBits - 1) \div WordBits

Zeroed(n) == [w \in 0 .. n - 1 |-> {}]

(* A word read from its highest bit on, which counts for top.              *)
Reading(word, top) ==
    LET read[n \in 1 .. WordBits] ==
            IF n = 1 THEN IF SignBit \in word THEN top ELSE 0
            ELSE 2 * read[n - 1] + IF WordBits - n \in word THEN 1 ELSE 0
    IN  read[WordBits]

Unsigned(word) == Reading(word, 1)

Signed(word) == Reading(word, -1)

WordCount == Cardinality(DOMAIN words)

(* Zero outside the words.                                                 *)
BitIn(array, index) ==
    IF index \div WordBits \in DOMAIN array /\ index % WordBits \in array[index \div WordBits]
    THEN 1 ELSE 0

GetBit(index) == BitIn(words, index)

-----------------------------------------------------------------------------
(* Iterators hold the array they were opened on, and the word they are in  *)
(* as it was when they came to it.                                         *)

BitsInWord(w) ==
    IF w + 1 # WordCount \/ length % WordBits = 0 THEN WordBits ELSE length % WordBits

WalkLen == IF WordCount = 0 THEN 0 ELSE (WordCount - 1) * WordBits + BitsInWord(WordCount - 1)

Closed == [at |-> 0, len |-> 0, held |-> None, loaded |-> None,
           was |-> <<>>, honest |-> TRUE]

(* was has, for each index that a walk has yet to report, the bits that    *)
(* have been there since it opened.                                        *)
Disturbed(w) ==
    [w EXCEPT !.was = [i \in DOMAIN @ |-> @[i] \cup {BitIn(words', i)}]]

LeftBehind(w) == IF w.held = None /\ w # Closed THEN [w EXCEPT !.held = words] ELSE w

Walk(w) == walk' = IF w.at = w.len THEN Closed ELSE Disturbed(w)

OpenWalk ==
    /\ walk' = [Closed EXCEPT !.len = WalkLen,
                              !.was = [i \in 0 .. WalkLen - 1 |-> {GetBit(i)}]]
    /\ UNCHANGED <<words, length, capacity, size, drift>>

(* Mutant: the word loaded last is good for any index.                     *)
LoadOnce(w, held) == IF w.loaded = None THEN held[w.at \div WordBits] ELSE w.loaded

Load(w, held) ==
    IF w.loaded = None \/ w.at % WordBits = 0 THEN held[w.at \div WordBits] ELSE w.loaded

StepWalk ==
    LET word == Load(walk, IF walk.held = None THEN words ELSE walk.held)
        bit == IF walk.at % WordBits \in word THEN 1 ELSE 0
    IN  /\ walk.at < walk.len
        /\ walk' = [walk EXCEPT !.at = @ + 1, !.loaded = word,
                                !.was = [i \in DOMAIN @ \ {walk.at} |-> @[i]],
                                !.honest = bit \in walk.was[walk.at]]
        /\ UNCHANGED <<words, length, capacity, size, drift>>

-----------------------------------------------------------------------------

Marks == {p \in (DOMAIN words) \X (0 .. SignBit) : p[2] \in words[p[1]]}

BitsSet == Cardinality(Marks)

(* A BitSet of any length, or a BitVector with what is left of a length.   *)
Init ==
    /\ length \in 0 .. MaxCapacity
    /\ words = Zeroed(WordsFor(length))
    /\ capacity = WordsFor(length) * WordBits
    /\ size = 0
    /\ drift = 0
    /\ walk = Closed

(* Mutant: as signed integers a word with its highest bit set is less.     *)
ComparedSigned(old, new) ==
    IF Signed(new) > Signed(old) THEN 1 ELSE IF Signed(new) < Signed(old) THEN -1 ELSE 0

Compared(old, new) ==
    IF Unsigned(new) > Unsigned(old) THEN 1 ELSE IF Unsigned(new) < Unsigned(old) THEN -1 ELSE 0

(* Past the words nothing is stored, and a vector refuses an index past    *)
(* its length (not the one at its length).                                 *)
SetBit(index, value) ==
    LET w == index \div WordBits
        b == index % WordBits
    IN  /\ IF w \notin DOMAIN words \/ (Grows /\ length < index)
           THEN UNCHANGED <<words, size>>
           ELSE /\ words' = [words EXCEPT ![w] = IF value THEN @ \cup {b} ELSE @ \ {b}]
                /\ size' = size + Compared(words[w], words'[w])
        /\ Walk(walk)
        /\ UNCHANGED <<length, capacity, drift>>

FlipBit(index) ==
    LET w == index \div WordBits
        b == index % WordBits
    IN  /\ IF w \notin DOMAIN words
           THEN UNCHANGED <<words, size>>
           ELSE /\ words' = [words EXCEPT ![w] = IF b \in @ THEN @ \ {b} ELSE @ \cup {b}]
                /\ size' = size + Compared(words[w], words'[w])
        /\ Walk(walk)
        /\ UNCHANGED <<length, capacity, drift>>

(* Here what is left of the word is compared as a signed integer with what *)
(* there was as an unsigned one: under a sign, it is always less.          *)
ResetBit(index) ==
    LET w == index \div WordBits
        b == index % WordBits
    IN  /\ IF w \notin DOMAIN words
           THEN UNCHANGED <<words, size, drift>>
           ELSE /\ words' = [words EXCEPT ![w] = @ \ {b}]
                /\ size' = IF Signed(words'[w]) < Unsigned(words[w]) THEN size - 1 ELSE size
                /\ drift' = IF b \notin words[w] /\ SignBit \in words[w]
                            THEN drift - 1 ELSE drift
                /\ drift' >= MinDrift
        /\ Walk(walk)
        /\ UNCHANGED <<length, capacity>>

(* A set is cleared with a new array.                                      *)
Clear ==
    /\ ~Grows
    /\ words' = Zeroed(WordsFor(length))
    /\ size' = 0
    /\ drift' = 0
    /\ Walk(LeftBehind(walk))
    /\ UNCHANGED <<length, capacity>>

-----------------------------------------------------------------------------
(* What only a vector does.                                                *)

Greater(a, b) == IF a > b THEN a ELSE b

RoundUp(bits) == WordsFor(bits) * WordBits

(* The policy is the caller's: the default one, or one that answers with   *)
(* nothing to be used or with no more than there is.                       *)
DefaultPolicy(bits) == Greater((3 * bits + 1) \div 2, 1)

ApplyPolicy(input) == RoundUp(DefaultPolicy(input))

(* The words after a reallocation, with the bits it keeps.                 *)
Resized(bits) ==
    [w \in 0 .. WordsFor(bits) - 1 |-> IF w \in DOMAIN words THEN words[w] ELSE {}]

BitsLost(bits) == Cardinality({p \in Marks : p[1] >= WordsFor(bits)})

(* The capacity is rounded up to whole words, the length is cut to what    *)
(* was asked for.  The size does not hear of the bits that are lost.       *)
ReallocateTo(bits, len) ==
    /\ RoundUp(bits) <= MaxCapacity
    /\ length' = IF bits < len THEN bits ELSE len
    /\ words' = Resized(bits)
    /\ capacity' = RoundUp(bits)
    /\ drift' = drift + BitsLost(bits)
    /\ drift' <= MaxDrift
    /\ Walk(IF RoundUp(bits) = capacity THEN walk ELSE LeftBehind(walk))
    /\ UNCHANGED size

Reallocate(bits) ==
    /\ Grows
    /\ ReallocateTo(bits, length)

Refused ==
    /\ UNCHANGED <<words, length, capacity, size, drift>>
    /\ Walk(walk)

Grow ==
    /\ Grows
    /\ \/ Refused
       \/ ReallocateTo(ApplyPolicy(capacity), length)

GrownTo(target) ==
    LET after[n \in 0 .. target] ==
            IF n = 0 THEN capacity
            ELSE IF after[n - 1] >= target THEN after[n - 1] ELSE ApplyPolicy(after[n - 1])
    IN  after[target]

GrowTo(target) ==
    /\ Grows
    /\ \/ capacity < target /\ Refused
       \/ ReallocateTo(GrownTo(target), length)

Resize(len) ==
    /\ Grows
    /\ IF len <= length
       THEN /\ length' = len
            /\ UNCHANGED <<words, capacity, size, drift>>
            /\ Walk(walk)
       ELSE ReallocateTo(len, len)

(* What was popped is still set: a clear bit pushed over it is not stored, *)
(* a set one is counted again.                                             *)
Push(value) ==
    LET full == capacity = length
        grown == Resized(IF full THEN ApplyPolicy(capacity) ELSE capacity)
        w == length \div WordBits
        b == length % WordBits
    IN  /\ Grows
        /\ \/ full /\ Refused
           \/ /\ Cardinality(DOMAIN grown) * WordBits <= MaxCapacity
              /\ capacity' = Cardinality(DOMAIN grown) * WordBits
              /\ length' = length + 1
              /\ words' = IF value THEN [grown EXCEPT ![w] = @ \cup {b}] ELSE grown
              /\ size' = IF value THEN size + 1 ELSE size
              /\ drift' = IF value /\ b \in grown[w] THEN drift + 1 ELSE drift
              /\ drift' <= MaxDrift
              /\ Walk(IF full THEN LeftBehind(walk) ELSE walk)

Pop ==
    /\ Grows
    /\ length' = IF length = 0 THEN 0 ELSE length - 1
    /\ UNCHANGED <<words, capacity, size, drift>>
    /\ Walk(walk)

Indices == -1 .. MaxCapacity

Next ==
    \/ \E i \in Indices, value \in BOOLEAN : SetBit(i, value)
    \/ \E i \in Indices : ResetBit(i) \/ FlipBit(i)
    \/ Clear
    \/ \E n \in 0 .. MaxCapacity : Reallocate(n) \/ GrowTo(n) \/ Resize(n)
    \/ Grow
    \/ \E value \in BOOLEAN : Push(value)
    \/ Pop
    \/ OpenWalk
    \/ StepWalk

Spec == Init /\ [][Next]_vars

-----------------------------------------------------------------------------

(* Mutant: the bit at the index counts.                                    *)
RankInclusive(index) ==
    IF size = 0 THEN 0
    ELSE Cardinality({i \in 0 .. WordCount * WordBits - 1 : i <= index /\ GetBit(i) = 1})

(* Bits below an index: those of the words before, and those of its word   *)
(* under a mask.                                                           *)
Rank(index) ==
    IF size = 0 THEN 0
    ELSE Cardinality({i \in 0 .. WordCount * WordBits - 1 : i < index /\ GetBit(i) = 1})

(* The positions that select looks at: it passes over the words that are   *)
(* zero, and the position it answers with does not count them.             *)
Scanned == {i \in 0 .. WalkLen - 1 : words[i \div WordBits] # {}}

Select(r) ==
    IF size = 0 \/ r >= length THEN -1
    ELSE LET count(i) == Cardinality({k \in Scanned : k <= i /\ GetBit(k) = 1})
             hits == {i \in Scanned : count(i) = r}
         IN  IF hits = {} THEN None ELSE Cardinality({k \in Scanned : k < Min(hits)})

(* What the size counts is what is set anywhere in the words, but for the  *)
(* resets under a sign, the bits pushed twice and those lost with words.   *)
SizeAccounted == size = BitsSet + drift

LayoutSound ==
    Grows => /\ capacity = WordCount * WordBits
             /\ length <= capacity

(* rank counts, and select finds the bit of a rank, short of the bits of   *)
(* the zero words before it.                                               *)
SelectInvertsRank ==
    size # 0 =>
        \A p \in 0 .. WalkLen - 1 :
            GetBit(p) = 1 /\ Rank(p) + 1 < length =>
                Select(Rank(p) + 1) =
                    p - WordBits * Cardinality({w \in DOMAIN words :
                                                  w < p \div WordBits /\ words[w] = {}})

(* A walk reports of every index a bit that it had since the walk opened.  *)
WalksHonest == walk.honest
=============================================================================
