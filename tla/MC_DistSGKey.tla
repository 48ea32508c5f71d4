---------------------------- MODULE MC_DistSGKey ----------------------------
(***************************************************************************)
(* Model-checking instances of DistSGKey.  Thumbprints are two bytes and  *)
(* key-record names carry a one-byte prefix, so the name's range and the  *)
(* full-thumbprint comparisons differ as they do with 32-byte thumbprints *)
(* and 4-byte prefixes.                                                    *)
(***************************************************************************)
EXTENDS DistSGKey

\* Three peers: two key-maker-eligible subscribers P < Q and a subscriber S.
P == <<1, 1>>
Q == <<2, 1>>
S == <<3, 1>>

MCPeers == {P, Q, S}
MCSubr == {P, Q, S}
MCKMPri == [p \in MCPeers |-> IF p = S THEN 0 ELSE 5]

\* P, Q and a publish-only peer X (no SG capability) in S's place.
X == <<3, 1>>
PubPeers == {P, Q, X}
PubSubr == {P, Q}
PubKMPri == [p \in PubPeers |-> IF p = X THEN 0 ELSE 5]

\* Split brain: P and Q are on different sides of a partition and both
\* are elected; S is on P's side.
SplitWinners == {P, Q}
SplitSide == [p \in MCPeers |-> IF p = Q THEN "b" ELSE "a"]
PubSplitSide == [p \in PubPeers |-> IF p = Q THEN "b" ELSE "a"]

\* No partition: one side, one elected key maker Q.
OneWinner == {Q}
OneSide == [p \in MCPeers |-> "a"]

\* Q is the only key-maker-eligible peer.
SoloKMPri == [p \in MCPeers |-> IF p = Q THEN 5 ELSE 0]

\* No partition among P, Q and X.
PubOneSide == [p \in PubPeers |-> "a"]

\* Key maker Q with the publish-only peer X as its only other peer: Q has
\* no member to enrol, and the delivery of its anchor record is all that
\* completes its initialisation.
AnchorPeers == {Q, X}
AnchorSubr == {Q}
AnchorKMPri == [p \in AnchorPeers |-> IF p = Q THEN 5 ELSE 0]
AnchorSide == [p \in AnchorPeers |-> "a"]

=============================================================================
