------------------------------ MODULE Hashing ------------------------------
(***************************************************************************)
(* utils/hash_tables.rs, tables with linear probing, bloom_filter.rs, and  *)
(* the functions of utils/bitwise.rs on words without a sign.  The hashes  *)
(* themselves are whatever the initial state says: one of a key for a      *)
(* table, and one for each seed of an item for a filter.                   *)
(***************************************************************************)
EXTENDS Integers, Sequences, SequencesExt, FiniteSets, TLC, Bitwise

CONSTANTS ProbeKeys,  \* 32-bit numbers; 0 is also an empty slot
          TableSizes, Hashes, Values, Undefined,
          Members, Seeds, Bytes

VARIABLES table,      \* the caller's arrays of keys and values, or the bytes
                      \* of a filter
          hash,       \* what a key, or an item with a seed, is hashed to
          past        \* history: the values last set; the items added

vars == <<table, hash, past>>

-----------------------------------------------------------------------------
(* Tables with linear probing; positions count from zero.                  *)

EmptyTable(n) == [keys |-> [i \in 0 .. n - 1 |-> 0], values |-> [i \in 0 .. n - 1 |-> Undefined]]

Slots == Cardinality(DOMAIN table.keys)

InitTable ==
    /\ \E n \in TableSizes : table = EmptyTable(n)
    /\ hash \in [ProbeKeys -> Hashes]
    /\ past = <<>>

(* Mutant: as for tables whose size is a power of two, a turn ends early.  *)
ProbeHalf(key) ==
    LET start == hash[key] & (Slots - 1)
        Probe[n \in 0 .. Slots] ==
            LET i == (start + n) % Slots
            IN  IF n = Slots \div 2 + 1 THEN -1 ELSE IF table.keys[i] \in {key, 0} THEN i ELSE Probe[n + 1]
    IN Probe[0]

(* The first position that has the key or is empty, or -1 after a turn.    *)
Probed(key) ==
    LET start == hash[key] & (Slots - 1)
        Probe[n \in 0 .. Slots] ==
            LET i == (start + n) % Slots
            IN  IF n = Slots THEN -1 ELSE IF table.keys[i] \in {key, 0} THEN i ELSE Probe[n + 1]
    IN Probe[0]

TableGet(key) ==
    IF Probed(key) = -1 \/ table.keys[Probed(key)] # key THEN Undefined
    ELSE table.values[Probed(key)]

TableHas(key) == Probed(key) # -1 /\ table.keys[Probed(key)] = key

(* A key of zero leaves its slot empty.                                    *)
TableSet(key, value) ==
    /\ Probed(key) # -1
    /\ table' = [keys |-> [table.keys EXCEPT ![Probed(key)] = key],
                 values |-> [table.values EXCEPT ![Probed(key)] = value]]
    /\ past' = IF key = 0 THEN past ELSE key :> value @@ past
    /\ UNCHANGED hash

TableIsFull(key) == Probed(key) = -1 /\ UNCHANGED <<table, hash, past>>

TableNext ==
    \E key \in ProbeKeys : TableIsFull(key) \/ \E value \in Values : TableSet(key, value)

(* A lookup answers what was last set, whatever the hashes and the size    *)
(* are, and only a table that is full of other keys refuses one.           *)
TableExact ==
    \A key \in ProbeKeys \ {0} :
        /\ TableGet(key) = IF key \in DOMAIN past THEN past[key] ELSE Undefined
        /\ TableHas(key) <=> key \in DOMAIN past
        /\ Probed(key) = -1 <=> key \notin DOMAIN past /\ Cardinality(DOMAIN past) = Slots

-----------------------------------------------------------------------------
(* Filters *)

Bits == 8 * Cardinality(Bytes)

InitFilter ==
    /\ table = [b \in Bytes |-> 0]
    /\ hash \in [Members -> [Seeds -> Hashes]]
    /\ past = {}

Position(item, seed) == hash[item][seed] % Bits

(* Mutant: every bit is put in the first byte.                             *)
FilterAddFirstByte(item) ==
    /\ table' = [b \in Bytes |->
            IF b > 0 THEN table[b]
            ELSE FoldSet(LAMBDA seed, byte : byte | 2 ^ (Position(item, seed) % 8), table[b], Seeds)]
    /\ past' = past \cup {item}
    /\ UNCHANGED hash

FilterAdd(item) ==
    /\ table' = [b \in Bytes |->
            FoldSet(LAMBDA seed, byte : byte | 2 ^ (Position(item, seed) % 8), table[b],
                    {seed \in Seeds : Position(item, seed) \div 8 = b})]
    /\ past' = past \cup {item}
    /\ UNCHANGED hash

FilterTest(item) ==
    \A seed \in Seeds :
        table[Position(item, seed) \div 8] & 2 ^ (Position(item, seed) % 8) # 0

FilterClear ==
    /\ table' = [b \in Bytes |-> 0]
    /\ past' = {}
    /\ UNCHANGED hash

FilterNext == FilterClear \/ \E item \in Members : FilterAdd(item)

(* No item that was added is denied; one that was not is affirmed only if  *)
(* others have all of its bits.                                            *)
FilterExact ==
    LET bits(item) == {Position(item, seed) : seed \in Seeds}
    IN  \A item \in Members : FilterTest(item) <=> bits(item) \subseteq UNION {bits(i) : i \in past}

-----------------------------------------------------------------------------
(* Bits *)

Smeared(x, widths) == FoldLeft(LAMBDA y, w : y | shiftR(y, w), x, widths)

msb8(x) == LET y == Smeared(x, <<1, 2, 4>>) IN y - shiftR(y, 1)
msb32(x) == LET y == Smeared(x, <<1, 2, 4, 8, 16>>) IN y - shiftR(y, 1)

test(x, pos) == shiftR(x, pos) & 1

critical_bit8(a, b) == msb8(a ^^ b)
critical_bit8_mask(a, b) == 255 - critical_bit8(a, b)
test_critical_bit8(x, mask) == shiftR(1 + (x | mask), 8)

popcount(word) ==
    LET pairs == word - (shiftR(word, 1) & 1431655765)
        fours == (pairs & 858993459) + (shiftR(pairs, 2) & 858993459)
        eights == (fours + shiftR(fours, 4)) & 252645135
        halves == eights + shiftR(eights, 8)
    IN (halves + shiftR(halves, 16)) & 127

BitsOf(x) == {n \in 0 .. 30 : (x \div 2 ^ n) % 2 = 1}

table8_popcount(x) ==
    FoldLeft(LAMBDA sum, at : sum + Cardinality(BitsOf(shiftR(x, at) % 256)), 0, <<0, 8, 16, 24>>)

(* The words whose bits run without a gap, which carries go through.       *)
Words == {2 ^ a - 2 ^ b : a \in 0 .. 30, b \in 0 .. 30} \cap Nat

(* Each is what its name says; the critical bit of two bytes is the        *)
(* highest in which they differ, and tells the greater from the lesser.    *)
BitsExact(words, bytes) ==
    /\ \A x \in words :
        /\ popcount(x) = Cardinality(BitsOf(x)) /\ table8_popcount(x) = Cardinality(BitsOf(x))
        /\ msb32(x) = IF x = 0 THEN 0 ELSE 2 ^ Max(BitsOf(x))
        /\ \A pos \in {0, 15, 30} : test(x, pos) = IF pos \in BitsOf(x) THEN 1 ELSE 0
    /\ \A a, b \in bytes : a # b =>
        LET critical == critical_bit8(a, b)
            mask == critical_bit8_mask(a, b)
        IN  /\ critical = 2 ^ Max(SymDiff(BitsOf(a), BitsOf(b)))
            /\ a < b <=> test_critical_bit8(a, mask) < test_critical_bit8(b, mask)
=============================================================================
