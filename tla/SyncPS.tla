------------------------------- MODULE SyncPS -------------------------------
(***************************************************************************)
(* The publish/subscribe synchronisation fabric the distributor runs on  *)
(* (syncps; not part of this repository, modelled from spec section 6.1). *)
(* A collection of live publications is shared by all peers; a peer is   *)
(* handed each live publication of a subscribed topic at most once, never *)
(* its own, and only from peers it can reach.  A network partition splits *)
(* the peers into sides that cannot reach each other until it heals.      *)
(* Publications leave the collection when their lifetime ends; what the   *)
(* lifetime is, is the distributor's policy (a parameter here).           *)
(***************************************************************************)
EXTENDS FiniteSets

CONSTANTS
    Peers,      \* peer identities (signing-key thumbprints)
    Side        \* Side[p]: the partition side p is on until the partition heals

VARIABLES
    pubs,       \* live publications of the collection
    seen,       \* seen[p]: live publications already handed to p's subscriptions
    subs,       \* subs[p]: topics ("kr", "mr") p is subscribed to
    healed,     \* TRUE once the partition has healed
    confirm     \* confirm[p]: p's publications awaiting a delivery-confirmation callback

syncVars == <<pubs, seen, subs, healed, confirm>>

Topics == {"kr", "mr"}

SyncInit(initialSubs) ==
    /\ pubs = {}
    /\ seen = [p \in Peers |-> {}]
    /\ subs = initialSubs
    /\ healed = \A p, q \in Peers : Side[p] = Side[q]
    /\ confirm = [p \in Peers |-> {}]

Reachable(p, q) == healed \/ Side[p] = Side[q]

\* m can be handed to p's subscription now.
Deliverable(p, m) ==
    /\ m \in pubs
    /\ m \notin seen[p]
    /\ m.topic \in subs[p]
    /\ m.signer # p
    /\ Reachable(m.signer, p)

MarkSeen(p, m) == seen' = [seen EXCEPT ![p] = @ \cup {m}]

\* Some peer other than the publisher has received m (what confirms delivery).
Delivered(m) == \E q \in Peers : m \in seen[q]

\* m has reached every peer that is subscribed to its topic and can reach it.
ReachedAllSubscribers(m) ==
    \A q \in Peers \ {m.signer} :
        m.topic \in subs[q] /\ Reachable(m.signer, q) => m \in seen[q]

\* The partition heals.
Heal ==
    /\ ~healed
    /\ healed' = TRUE
    /\ UNCHANGED <<pubs, seen, subs, confirm>>

\* The collection drops m (its lifetime has ended).
Drop(m) ==
    /\ m \in pubs
    /\ pubs' = pubs \ {m}
    /\ seen' = [q \in Peers |-> seen[q] \ {m}]
    /\ UNCHANGED <<subs, healed, confirm>>
=============================================================================
