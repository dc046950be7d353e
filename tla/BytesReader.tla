---------------------------- MODULE BytesReader ----------------------------
(***************************************************************************)
(* BytesReader of utils_bytes.h: fields of given sizes are taken from the  *)
(* front of a buffer; the first that does not fit makes the reader invalid *)
(* for good, so it is valid when all of them fit together.  An empty       *)
(* buffer is invalid from the start.                                       *)
(***************************************************************************)
EXTENDS Integers, Sequences

\* Where the field n of the given sizes ends.
FieldEnds(sizes) ==
  LET end[n \in 0 .. Len(sizes)] == IF n = 0 THEN 0 ELSE end[n - 1] + sizes[n]
  IN end

\* The bytes of the fields that fit.
Fields(data, sizes) ==
  LET end == FieldEnds(sizes)
  IN [n \in {k \in DOMAIN sizes : end[k] <= Len(data)} |-> SubSeq(data, end[n - 1] + 1, end[n])]

\* make, then a read (or a consume, which does not copy) of each size.
Reads(data, sizes) ==
  LET size == FieldEnds(sizes)[Len(sizes)]
  IN [valid_ |-> data # <<>> /\ size <= Len(data),
      fields |-> Fields(data, sizes),
      rest   |-> SubSeq(data, size + 1, Len(data))]

\* The buffer is used up, no more and no less.
finalize(r) == r.valid_ /\ r.rest = <<>>

\* std::size_t(-1) is -1 here.
get_remaining(r) == IF r.valid_ THEN Len(r.rest) ELSE -1
=============================================================================
