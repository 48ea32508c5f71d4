----------------------------- MODULE KeyRanges -----------------------------
(***************************************************************************)
(* makeSGKey's split of the sorted member list into key-record            *)
(* publications of at most maxKR records (dist_sgkey.hpp): p              *)
(* publications, each but the last holding maxKR records, the last the    *)
(* remainder s left after the loop has subtracted each r from s.          *)
(***************************************************************************)
EXTENDS Integers, Sequences

CONSTANT MaxKR      \* maxKR: key records per publication

\* Mutant: the number of publications rounds down.
NumKRPubsFloor(s) == IF s <= MaxKR THEN 1 ELSE s \div MaxKR

\* p = s <= maxKR ? 1 : (s + maxKR - 1) / maxKR
NumKRPubs(s) == IF s <= MaxKR THEN 1 ELSE (s + MaxKR - 1) \div MaxKR

\* r = i < (p-1) ? maxKR : s, where s is what is left after i rounds.
ChunkSize(s, i) == IF i < NumKRPubs(s) - 1 THEN MaxKR ELSE s - i * MaxKR

\* Publication i (from 0) takes pubPairs[l .. l+r-1] with l = i*maxKR.
Chunk(list, i) == SubSeq(list, i * MaxKR + 1, i * MaxKR + ChunkSize(Len(list), i))
=============================================================================
