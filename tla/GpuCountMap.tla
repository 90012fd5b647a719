----------------------------- MODULE GpuCountMap -----------------------------
(***************************************************************************)
(* The count map that the threads of a GPU kernel share: three cuco maps   *)
(* of one capacity, from 64-bit keys to the upper half of an identifier,   *)
(* to its lower half, and to a count.  An identifier is hashed to a key;   *)
(* a key taken by another identifier sends it on by its own step, for as   *)
(* many keys as the maps have slots.                                       *)
(*                                                                         *)
(* Half values and keys are small here: HALF_SPACE and KEY_SPACE stand for *)
(* 2^64.  The cuco maps are modelled from how they are used.               *)
(***************************************************************************)
EXTENDS Integers, FiniteSets

CONSTANTS Hash(_, _),  \* the key of an identifier under a seed
          Halves(_),   \* [high, low]: the two halves of an identifier
          KEY_SPACE, HALF_SPACE,
          SPARE_BIT    \* a bit, as its value, that no upper half uses

GPU_EMPTY_HASH_KEY == KEY_SPACE - 1
AUX_NOT_FOUND      == HALF_SPACE - 1
TopBit             == HALF_SPACE \div 2

Flip(k) == IF k % 2 = 1 THEN k - 1 ELSE k + 1

has_bit(half, bit) == (half \div bit) % 2 = 1

without(half, bit) == IF has_bit(half, bit) THEN half - bit ELSE half
with_bit(half, bit) == IF has_bit(half, bit) THEN half ELSE half + bit

-----------------------------------------------------------------------------
(* What is stored for an identifier, and back.                             *)

stored_high(id) == IF has_bit(Halves(id).low, TopBit)
                   THEN with_bit(Halves(id).high, SPARE_BIT) ELSE Halves(id).high

\* Mutant: the lower half is stored as it is.
stored_low_whole(id) == Halves(id).low

\* No lower half is stored as the value that means "not found".
stored_low(id) == without(Halves(id).low, TopBit)

restored(high, low) ==
    [high |-> without(high, SPARE_BIT),
     low  |-> IF has_bit(high, SPARE_BIT) THEN with_bit(low, TopBit) ELSE low]

-----------------------------------------------------------------------------
(* Keys.                                                                   *)

usable(key) == IF key = GPU_EMPTY_HASH_KEY THEN Flip(key) ELSE key

first_key(id) == usable(Hash(id, 0) % KEY_SPACE)

next_key(id, key) ==
    LET step == IF Hash(id, 1) % 2 = 1 THEN Hash(id, 1) ELSE Hash(id, 1) + 1 IN
    usable((key + step) % KEY_SPACE)

-----------------------------------------------------------------------------
(* The maps.                                                               *)

\* cuco's insert_and_find: claims the key if it is free and there is a slot.
insert_and_find(map, capacity, key, payload) ==
    [k \in DOMAIN map \cup (IF Cardinality(DOMAIN map) < capacity THEN {key} ELSE {}) |->
        IF k \in DOMAIN map THEN map[k] ELSE payload]

\* Whose key it is; a full map gives no slot to compare with.
matches(high, low, key, id) ==
    /\ key \in DOMAIN high /\ high[key] = stored_high(id)
    /\ key \in DOMAIN low /\ low[key] = stored_low(id)

\* find, for a key of the count map.
half_at(map, key) == IF key \in DOMAIN map THEN map[key] ELSE AUX_NOT_FOUND

\* The keys of the count map that the halves found for them make out to be id.
keys_of(high, low, count, id) ==
    {k \in DOMAIN count :
        /\ half_at(high, k) # AUX_NOT_FOUND
        /\ half_at(low, k) # AUX_NOT_FOUND
        /\ restored(half_at(high, k), half_at(low, k)) = Halves(id)}
=============================================================================
