----------------------------- MODULE ResultFiles -----------------------------
(***************************************************************************)
(* What the filter result managers write of the names of graphs and their  *)
(* flags, and what CSVPatternCacheIOManager writes of the index of a       *)
(* search's patterns, as characters; a name is a sequence of them.         *)
(***************************************************************************)
EXTENDS CacheFormats

rest_of(line) == appearances_digits(line)

name_of(line) == motif_digits(line)

\* What std::stoi and std::stoul make of it: the digits it begins with, which must be some.
leading_digits(chars) ==
    LET others == {i \in DOMAIN chars : chars[i] \notin 0 .. 9} IN
    SubSeq(chars, 1, Min(others \cup {Len(chars) + 1}) - 1)

number(chars) == FoldLeft(LAMBDA n, d : 10 * n + d, 0, leading_digits(chars))

Unnumbered(rows) == \E i \in DOMAIN rows : leading_digits(rest_of(rows[i])) = <<>>

-----------------------------------------------------------------------------
(* Filter results.                                                         *)

write_results_csv(names, flags) ==
    FlattenSeq([i \in DOMAIN names |-> names[i] \o <<Comma, IF flags[i] THEN 1 ELSE 0, Newline>>])

\* A later row of a name replaces an earlier one.
read_results_csv(chars) ==
    LET rows == Lines(chars) IN
    IF Unnumbered(rows) THEN Malformed
    ELSE [n \in {name_of(rows[i]) : i \in DOMAIN rows} |->
             number(rest_of(rows[Max({i \in DOMAIN rows : name_of(rows[i]) = n})])) # 0]

\* The member of a name that comes again is assigned again.
build_json_object(names, flags) ==
    [n \in ToSet(names) |-> flags[Max({i \in DOMAIN names : names[i] = n})]]

\* The parser accepts nothing but the whole object.
parse_json_file(object, complete) == IF complete THEN object ELSE Malformed

-----------------------------------------------------------------------------
(* The index of patterns: [pattern, indices] in the order of the mapping.  *)

write_mapping(entries) ==
    Header \o FlattenSeq([i \in DOMAIN entries |->
        FlattenSeq([j \in DOMAIN entries[i].indices |->
            entries[i].pattern \o <<Comma>>
                \o uint128_to_decimal(UInt(0, entries[i].indices[j])) \o <<Newline>>])])

\* A pattern without a graph has no row.
read_mapping(chars) ==
    LET rows == IF chars = <<>> THEN <<>> ELSE Tail(Lines(chars)) IN
    IF Unnumbered(rows) THEN Malformed
    ELSE [p \in {name_of(rows[i]) : i \in DOMAIN rows} |->
             {number(rest_of(rows[i])) : i \in {i \in DOMAIN rows : name_of(rows[i]) = p}}]
=============================================================================
