----------------------------- MODULE KeyIntent -----------------------------
(***************************************************************************)
(* What the subscriber-group key distributor promises (spec G1 and P1),  *)
(* with the distribution left out: key makers issue group keys, each     *)
(* newer than every key issued before it, and each peer holds one key,   *)
(* which it replaces only by an issued key strictly newer than the one   *)
(* it holds.  A key is a record [maker, ct] of its issuer and creation   *)
(* time; Unkeyed is the key every peer holds before its first.           *)
(***************************************************************************)
EXTENDS Integers

CONSTANTS
    Holders,    \* the peers
    Makers,     \* the peers that may issue keys
    Times,      \* creation times
    Unkeyed     \* the key held before any was issued

VARIABLES
    issued,     \* every key issued so far, and Unkeyed
    held        \* held[p]: the key peer p uses

vars == <<issued, held>>

Key == [maker : Makers, ct : Times]

Init ==
    /\ issued = {Unkeyed}
    /\ held = [p \in Holders |-> Unkeyed]

\* Maker w issues key k, newer than every key issued so far, and uses it.
Issue(w, k) ==
    /\ k.maker = w
    /\ \A i \in issued : i.ct < k.ct
    /\ issued' = issued \cup {k}
    /\ held' = [held EXCEPT ![w] = k]

\* Peer p replaces the key it holds by a strictly newer issued key k.
Adopt(p, k) ==
    /\ k \in issued
    /\ k.ct > held[p].ct
    /\ held' = [held EXCEPT ![p] = k]
    /\ UNCHANGED issued

Next ==
    \/ \E w \in Makers, t \in Times : Issue(w, [maker |-> w, ct |-> t])
    \/ \E p \in Holders, k \in issued : Adopt(p, k)

Spec == Init /\ [][Next]_vars

TypeOK ==
    /\ issued \subseteq Key \cup {Unkeyed}
    /\ held \in [Holders -> Key \cup {Unkeyed}]
=============================================================================
