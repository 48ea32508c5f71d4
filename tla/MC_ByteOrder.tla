---------------------------- MODULE MC_ByteOrder ----------------------------
(***************************************************************************)
(* Checks the code's byte-string comparisons against the textbook        *)
(* lexicographic order over every pair of short byte strings, and reads  *)
(* the same strings as name prefixes (a name's component TLVs) to check  *)
(* rPrefix, rName and rData against the components they hold.  Small    *)
(* byte values stand for types and lengths: with MaxLen 4 a prefix holds *)
(* up to two components, and many strings are malformed names.           *)
(***************************************************************************)
EXTENDS RPacket

LOCAL INSTANCE SequencesExt

CONSTANTS Bytes, MaxLen

Words == UNION {[1..n -> Bytes] : n \in 0..MaxLen}

VARIABLES x, y

Init == x \in Words /\ y \in Words

\* Replace one of the pair by another string.
NextX == \E u \in Words : x' = u /\ UNCHANGED y
NextY == \E v \in Words : y' = v /\ UNCHANGED x
Next == NextX \/ NextY

Spec == Init /\ [][Next]_<<x, y>>

\* Reference definition: u is before v in the lexicographic order the
\* element order Lt induces: v strictly extends u, or at the first
\* position where they differ u has the smaller element.
LexBy(u, v, Lt(_, _)) ==
    \/ Len(u) < Len(v) /\ SubSeq(v, 1, Len(u)) = u
    \/ \E i \in 1..ShorterLen(u, v) :
          /\ SubSeq(u, 1, i - 1) = SubSeq(v, 1, i - 1)
          /\ Lt(u[i], v[i])

LexBefore(a, b) == LexBy(a, b, LAMBDA p, q : p < q)

\* Reference: the components of a valid prefix, as type and value.
Comps(b) == [i \in DOMAIN Blks(b) |->
                [typ |-> Blks(b)[i].typ,
                 val |-> SubSeq(b, Blks(b)[i].from, Blks(b)[i].next - 1)]]

\* Reference: the NDN canonical order of components: by type, then by
\* length, then by value bytes.
CompBefore(a, b) ==
    \/ a.typ < b.typ
    \/ a.typ = b.typ /\ Len(a.val) < Len(b.val)
    \/ a.typ = b.typ /\ Len(a.val) = Len(b.val) /\ LexBefore(a.val, b.val)

\* The comparisons the distributor uses to tie-break key makers (`less`,
\* std::array operator<) and to order name prefixes (rPrefix <=>, isPrefix)
\* are exactly unsigned byte-lexicographic order, including when one string
\* is a prefix of the other.
ByteOrderCorrect ==
    /\ Less(x, y) <=> LexBefore(x, y)
    /\ PrefixCmp(x, y) = IF LexBefore(x, y) THEN -1
                         ELSE IF x = y THEN 0 ELSE 1
    /\ IsPrefixOf(x, y) <=> (Len(x) <= Len(y) /\ SubSeq(y, 1, Len(x)) = x)

\* rPrefix <=> and isPrefix (and rName's, "name ordering is lexicographic,
\* not shortest first"), applied to the bytes of two valid prefixes, order
\* them by their components: component by component, a prefix of the
\* other first, each component in the canonical order (which is shortest
\* first within one type); isPrefix holds exactly when the components of
\* one begin the components of the other.
NameOrderCanonical ==
    NameValid(x) /\ NameValid(y) =>
        /\ PrefixCmp(x, y) = IF LexBy(Comps(x), Comps(y), CompBefore) THEN -1
                             ELSE IF Comps(x) = Comps(y) THEN 0 ELSE 1
        /\ IsPrefixOf(x, y) <=>
              Len(Comps(x)) <= Len(Comps(y)) /\ SubSeq(Comps(y), 1, Len(Comps(x))) = Comps(x)

\* rPrefix::first(comp) ("an rprefix for the first 'comp' components";
\* negative: "all components up to -comp from the end") of a valid prefix
\* holds exactly its first c components and is a prefix of it under
\* isPrefix; it throws exactly for zero components or more than it has.
FirstComponents ==
    NameValid(x) =>
        \A comp \in -Len(Comps(x))..Len(Comps(x)) + 1 :
            LET n == Len(Comps(x))
                c == IF comp < 0 THEN comp + n ELSE comp
                r == PrefixFirst(x, comp)
            IN  /\ r.ok <=> c \in 1..n
                /\ r.ok => /\ Comps(r.pre) = SubSeq(Comps(x), 1, c)
                           /\ IsPrefixOf(r.pre, x)

\* makeSGKey's range split, for each maxKR k.
KR(k) == INSTANCE KeyRanges WITH MaxKR <- k

\* P4 of the spec: makeSGKey's split of a non-empty sorted member list (x,
\* read as member ranks) into key-record publications, for every maxKR up
\* to MaxLen (below, at and above the member count, exact multiples and
\* remainders), holds exactly the list in order, each publication 1 to
\* maxKR records: no member is dropped or repeated at a maxKR boundary.
RangesSplitList ==
    x # <<>> =>
        \A k \in 1..MaxLen :
            LET pubs == [i \in 1..KR(k)!NumKRPubs(Len(x)) |-> KR(k)!Chunk(x, i - 1)]
            IN  /\ FlattenSeq(pubs) = x
                /\ \A i \in DOMAIN pubs : Len(pubs[i]) \in 1..k

\* A Data packet whose name has components x, followed by the blocks y.
DataOf(nb, rest) ==
    TLV(TLVType.Name, nb) \o TLV(TLVType.MetaInfo, <<>>) \o TLV(TLVType.Content, <<>>)
        \o TLV(TLVType.SignatureInfo, <<>>) \o TLV(TLVType.SignatureValue, <<>>) \o rest

\* rData::valid() ("a Data is valid if it starts with the correct TLV, its
\* name is valid and it contains the 5 required TLV blocks in the right
\* order and nothing else") accepts a Data only if its name is valid
\* (rName::valid) and nothing follows the SignatureValue.
DataValidChecksName ==
    DataValid(DataOf(x, y)) => NameValid(DataName(DataOf(x, y))) /\ y = <<>>
=============================================================================
