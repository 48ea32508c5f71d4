----------------------------- MODULE ByteOrder -----------------------------
(***************************************************************************)
(* Byte-string comparisons used by the subscriber-group key distributor.  *)
(* Thumbprints and name prefixes are sequences of byte values; the code   *)
(* orders them with memcmp over the shorter length, breaking ties on      *)
(* length (dist_sgkey.hpp `less`, rpacket.hpp rPrefix::operator<=>).      *)
(***************************************************************************)
EXTENDS Integers, Sequences

\* memcmp(a, b, n): sign of the first differing byte among the first n.
RECURSIVE Memcmp(_, _, _)
Memcmp(a, b, n) ==
    IF n = 0 THEN 0
    ELSE IF a[1] < b[1] THEN -1
    ELSE IF a[1] > b[1] THEN 1
    ELSE Memcmp(Tail(a), Tail(b), n - 1)

ShorterLen(a, b) == IF Len(a) <= Len(b) THEN Len(a) ELSE Len(b)

\* Mutant of Less (for the mutation check): the length tie-break is lost.
LessNoLengthTie(a, b) == Memcmp(a, b, ShorterLen(a, b)) < 0

\* The `less` lambda of receiveSGKeyRecords: memcmp over the shorter
\* length, and on a tie the shorter string is less.
Less(a, b) ==
    LET r == Memcmp(a, b, ShorterLen(a, b))
    IN  IF r = 0 THEN Len(a) < Len(b) ELSE r < 0

\* rPrefix three-way comparison: -1, 0 or 1.
LenCmp(m, n) == IF m < n THEN -1 ELSE IF m > n THEN 1 ELSE 0
\* Mutant: an empty prefix compares equal to every prefix.
PrefixCmpEmptyEqual(a, b) ==
    LET msz == ShorterLen(a, b)
        res == Memcmp(a, b, msz)
    IN  IF msz = 0 THEN 0
        ELSE IF res = 0 THEN LenCmp(Len(a), Len(b))
        ELSE res
PrefixCmp(a, b) ==
    LET msz == ShorterLen(a, b)
        res == Memcmp(a, b, msz)
    IN  IF msz = 0 THEN LenCmp(Len(a), Len(b))
        ELSE IF res = 0 THEN LenCmp(Len(a), Len(b))
        ELSE res

\* rPrefix::isPrefix: t is a prefix of p.
IsPrefixOf(t, p) == Len(p) >= Len(t) /\ Memcmp(t, p, Len(t)) = 0

\* std::span(tp).first(n): the first n bytes.
First(tp, n) == SubSeq(tp, 1, n)
=============================================================================
