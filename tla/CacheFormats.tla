----------------------------- MODULE CacheFormats -----------------------------
(***************************************************************************)
(* What the cache managers write of one graph's counts, and what they read *)
(* of a file that may have been cut off.  BinaryCacheIOManager: a          *)
(* MessagePack map, a sequence of bytes.  CSVCacheIOManager: lines of      *)
(* decimal numbers, a sequence of characters, the digits being themselves. *)
(*                                                                         *)
(* A word has WORD_BYTES bytes and a count COUNT_BYTES, fewer than the 8   *)
(* and 4 of the code; everything else has the code's size.                 *)
(***************************************************************************)
EXTENDS UInt128, Sequences, SequencesExt, FiniteSetsExt, Functions

CONSTANTS WORD_BYTES, COUNT_BYTES,
          Malformed  \* the reader throws

BYTE == 256

-----------------------------------------------------------------------------
(* Binary files.                                                           *)

\* n in this many bytes, the most significant first.
big_endian(n, bytes) == [i \in 1 .. bytes |-> (n \div BYTE^(bytes - i)) % BYTE]

from_big_endian(bytes) == FoldLeft(LAMBDA n, b : n * BYTE + b, 0, bytes)

MSGPACK_FIXMAP_BASE    == 128
MSGPACK_MAP16_FORMAT   == 222
MSGPACK_MAP32_FORMAT   == 223
MSGPACK_UINT32_FORMAT  == 206
MSGPACK_UINT64_FORMAT  == 207
MSGPACK_UINT128_HEADER == 146
MSGPACK_FIX_COLLECTION_MAX == 15
MSGPACK_COLLECTION16_MAX   == 65535

write_map_header(size) ==
    IF size <= MSGPACK_FIX_COLLECTION_MAX THEN <<MSGPACK_FIXMAP_BASE + size>>
    ELSE IF size <= MSGPACK_COLLECTION16_MAX THEN <<MSGPACK_MAP16_FORMAT>> \o big_endian(size, 2)
    ELSE <<MSGPACK_MAP32_FORMAT>> \o big_endian(size, 4)

write_uint128_key(x) ==
    <<MSGPACK_UINT128_HEADER>>
        \o <<MSGPACK_UINT64_FORMAT>> \o big_endian(x.m_high, WORD_BYTES)
        \o <<MSGPACK_UINT64_FORMAT>> \o big_endian(x.m_low, WORD_BYTES)

write_uint32_value(n) == <<MSGPACK_UINT32_FORMAT>> \o big_endian(n, COUNT_BYTES)

\* The entries of a map, in the order it lists them.
write_binary(entries) ==
    write_map_header(Len(entries))
        \o FlattenSeq([i \in DOMAIN entries |->
                          write_uint128_key(entries[i].key) \o write_uint32_value(entries[i].count)])

\* Where the entries begin, as the first byte says.
header_size(bytes) == CASE bytes[1] = MSGPACK_MAP32_FORMAT -> 5
                        [] bytes[1] = MSGPACK_MAP16_FORMAT -> 3
                        [] OTHER -> 1

read_map_header(bytes) ==
    IF header_size(bytes) = 1 THEN bytes[1] % 16
    ELSE from_big_endian(SubSeq(bytes, 2, header_size(bytes)))

entry_size == 1 + 2 * (1 + WORD_BYTES) + 1 + COUNT_BYTES

WellFormedEntry(e) ==
    /\ e[1] = MSGPACK_UINT128_HEADER
    /\ e[2] = MSGPACK_UINT64_FORMAT
    /\ e[3 + WORD_BYTES] = MSGPACK_UINT64_FORMAT
    /\ e[3 + 2 * WORD_BYTES + 1] = MSGPACK_UINT32_FORMAT

read_entry(e) ==
    [key   |-> UInt(from_big_endian(SubSeq(e, 3, 2 + WORD_BYTES)),
                    from_big_endian(SubSeq(e, 4 + WORD_BYTES, 3 + 2 * WORD_BYTES))),
     count |-> from_big_endian(SubSeq(e, 5 + 2 * WORD_BYTES, entry_size))]

\* The counts of a sequence of entries; the first of a key stays.
counts_of_entries(entries) ==
    [k \in {entries[i].key : i \in DOMAIN entries} |->
        entries[Min({i \in DOMAIN entries : entries[i].key = k})].count]

read_binary(bytes) ==
    IF bytes = <<>> \/ Len(bytes) < header_size(bytes) THEN Malformed
    ELSE LET size     == read_map_header(bytes)
             begin    == header_size(bytes)
             entry(i) == SubSeq(bytes, begin + (i - 1) * entry_size + 1, begin + i * entry_size) IN
         IF Len(bytes) < begin + size * entry_size \/ \E i \in 1 .. size : ~WellFormedEntry(entry(i))
         THEN Malformed
         ELSE counts_of_entries([i \in 1 .. size |-> read_entry(entry(i))])

-----------------------------------------------------------------------------
(* Text files.                                                             *)

Comma   == 10
Newline == 11
Header  == <<12, Newline>>  \* the names of the columns

\* The digits of x from the last to the first, "0" for zero.
uint128_to_decimal(x) ==
    LET digits[y \in UInt128s] ==
            IF y = Zero THEN <<>>
            ELSE LET d == divmod_uint32(y, 10) IN <<d.remainder>> \o digits[d.quotient] IN
    IF x = Zero THEN <<0>> ELSE Reverse(digits[x])

\* (result << 3) + (result << 1) + digit, from the first digit on.
decimal_to_uint128(digits) ==
    FoldLeft(LAMBDA x, d : Plus(Plus(ShiftLeft(x, 3), ShiftLeft(x, 1)), UInt(0, d)), Zero, digits)

write_csv(entries) ==
    Header \o FlattenSeq([i \in DOMAIN entries |->
        uint128_to_decimal(entries[i].key) \o <<Comma>>
            \o uint128_to_decimal(UInt(0, entries[i].count)) \o <<Newline>>])

\* What getline returns: the characters before each newline, and behind the last.
Lines(chars) ==
    LET closed == IF chars = <<>> \/ Last(chars) = Newline THEN chars ELSE Append(chars, Newline)
        ends   == SelectSeq([i \in DOMAIN closed |-> i], LAMBDA i : closed[i] = Newline) IN
    [i \in DOMAIN ends |-> SubSeq(closed, IF i = 1 THEN 1 ELSE ends[i - 1] + 1, ends[i] - 1)]

comma(line) == Min({i \in DOMAIN line : line[i] = Comma} \cup {Len(line) + 1})

motif_digits(line)       == SubSeq(line, 1, comma(line) - 1)
appearances_digits(line) == SubSeq(line, comma(line) + 1, Len(line))

\* A later row of a key replaces an earlier one.
insert_row(data, line) ==
    LET motif_key   == decimal_to_uint128(motif_digits(line))
        appearances == FoldLeft(LAMBDA n, d : 10 * n + d, 0, appearances_digits(line)) IN
    [k \in DOMAIN data \cup {motif_key} |-> IF k = motif_key THEN appearances ELSE data[k]]

\* The first line is discarded; std::stoul throws on a row that has no count.
read_csv(chars) ==
    LET rows == IF chars = <<>> THEN <<>> ELSE Tail(Lines(chars)) IN
    IF \E i \in DOMAIN rows : appearances_digits(rows[i]) = <<>> THEN Malformed
    ELSE FoldLeft(insert_row, <<>>, rows)

write_to_file(format, entries) == IF format = "csv" THEN write_csv(entries) ELSE write_binary(entries)

read_from_file(format, content) == IF format = "csv" THEN read_csv(content) ELSE read_binary(content)
=============================================================================
