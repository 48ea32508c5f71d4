---------------------------- MODULE MC_KeyRanges ----------------------------
(***************************************************************************)
(* Checks makeSGKey's range split (spec P4) for every maxKR from 1 to    *)
(* MaxMaxKR and every member count from 1 to MaxMembers.                 *)
(***************************************************************************)
EXTENDS Integers, Sequences

LOCAL INSTANCE SequencesExt

CONSTANTS MaxMaxKR, MaxMembers

KR(k) == INSTANCE KeyRanges WITH MaxKR <- k

VARIABLES maxKR, members
vars == <<maxKR, members>>

Init == maxKR \in 1..MaxMaxKR /\ members \in 1..MaxMembers

\* Another member joins before the next rekey (the count wraps at the bound).
Next == members' = (members % MaxMembers) + 1 /\ UNCHANGED maxKR

Spec == Init /\ [][Next]_vars

\* The sorted member thumbprints, as their ranks.
Sorted == [i \in 1..members |-> i]

Pubs == [i \in 1..KR(maxKR)!NumKRPubs(members) |-> KR(maxKR)!Chunk(Sorted, i - 1)]

\* P4 of the spec: the publications of a rekey with n members hold,
\* in order, exactly the sorted member list, each of them at least one
\* and at most maxKR records, so the loop neither drops nor repeats a
\* member and never overfills a publication at a maxKR boundary.
RangesPartitionMembers ==
    /\ FlattenSeq(Pubs) = Sorted
    /\ \A i \in DOMAIN Pubs : Len(Pubs[i]) \in 1..maxKR
=============================================================================
