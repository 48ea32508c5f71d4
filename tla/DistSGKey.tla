------------------------------ MODULE DistSGKey ------------------------------
(***************************************************************************)
(* The subscriber-group key distributor (dist_sgkey.hpp, struct           *)
(* DistSGKey), one instance per peer, over the syncps fabric (SyncPS).    *)
(*                                                                         *)
(* A peer is identified by its thumbprint, a byte sequence.  Peers with   *)
(* the SG capability are subscribers; subscribers with a key-maker        *)
(* priority > 0 run the (external) election, whose outcome is the set     *)
(* Winners: more than one winner is the split brain a partition causes.   *)
(* A key maker mints group key pairs (makeSGKey), seals the secret for    *)
(* every member of its member table and publishes key records ("kr");     *)
(* subscribers ask to be enrolled with membership requests ("mr").        *)
(*                                                                         *)
(* Data abstraction: a group key pair is the record [maker, ct] of the    *)
(* peer that minted it and its creation time; a sealed record for member  *)
(* tp is the presence of tp in a key record's `recs`; sealing and opening *)
(* always succeed (members' certificates are well formed).  The clock    *)
(* `now` advances at every mint, so creation times are distinct.          *)
(***************************************************************************)
EXTENDS Integers, Sequences, FiniteSets, ByteOrder, SyncPS, KeyRanges

LOCAL INSTANCE SequencesExt

CONSTANTS
    Subr,           \* peers whose signing chain carries the SG capability
    KMPri,          \* KMPri[p]: key-maker priority (KM/KMP capability digit), 0 = none
    Winners,        \* peers the key-maker election reports as elected
    ElectionEpoch,  \* epoch the election reports
    MbrCap,         \* member-table cap (80 * maxKR in the code)
    PrefixLen,      \* bytes of a thumbprint carried in a key-record name (4)
    MaxTime,        \* bound: no rekey once the clock reaches it
    HealRekeys,     \* bound: rekeys past MaxTime once the partition has healed
    MaxRemove,      \* bound: removeGroupMem calls
    MaxExpire       \* bound: certificates that expire

ASSUME /\ Subr \subseteq Peers
       /\ KMPri \in [Peers -> 0..9]
       /\ Winners \subseteq {p \in Subr : KMPri[p] > 0}
       /\ ElectionEpoch \in Nat \ {0}
       /\ MaxKR \in Nat \ {0} /\ MbrCap \in Nat \ {0}
       /\ PrefixLen \in Nat \ {0}

TPLen == Len(CHOOSE p \in Peers : TRUE)

\* m_kmtp.fill(0): the thumbprint recorded before any key maker is known.
ZeroTP == [i \in 1..TPLen |-> 0]

NoKey == [maker |-> ZeroTP, ct |-> 0]

VARIABLES
    dist,       \* dist[p]: the DistSGKey object of peer p
    now,        \* system_clock::now(), advanced by every mint
    expired,    \* peers whose signing certificate is no longer valid
    excluded,   \* history: excluded[k] = peers k removed with reKey = TRUE
    removals,   \* history: removeGroupMem calls made
    lateRekeys  \* bound: rekeys the timer made past MaxTime

vars == <<pubs, seen, subs, healed, confirm, dist, now, expired, excluded, removals,
          lateRekeys>>

-----------------------------------------------------------------------------
(* Capabilities (constructor, updateSigningKey, setup).                    *)

\* m_subr / m_sgMem: the signing chain has SG for this collection.
IsSubr(p) == p \in Subr

\* setup(): subscribers with key-maker priority > 0 join the election.
KMEligible == {p \in Subr : KMPri[p] > 0}

-----------------------------------------------------------------------------
(* Publications.                                                           *)

\* publishKeyRange: name <krPrefix>/<epoch>/<tpl[0..n]>/<tph[0..n]>/<ts>,
\* content creation time, group public key and the sealed records.
KeyRecordPub(signer, epoch, tpl, tph, ct, key, recs) ==
    [topic |-> "kr", signer |-> signer, epoch |-> epoch,
     low |-> First(tpl, PrefixLen), high |-> First(tph, PrefixLen),
     ct |-> ct, key |-> key, recs |-> recs]

\* A membership request: <mrPrefix>/<timestamp>, empty content, signed.
\* Requests of one peer never coexist (see MRRefresh), so the timestamp
\* is left out.
MembershipReqPub(p) == [topic |-> "mr", signer |-> p]

\* The sync layer validates a publication's signature against the signer's
\* certificate; publications of an expired signer are not handed over.
SignerValid(m) == m.signer \notin expired

-----------------------------------------------------------------------------
(* State updates shared by several handlers; d is one peer's state.        *)

\* initDone(): leave initialisation (and call connected(true)) once.
InitDone(d) == [d EXCEPT !.init = FALSE]

\* publishMembershipReq(): cancel the refresh timer; a subscriber then
\* publishes a request and re-arms the refresh timer.
\* Mutant: the refresh timer is cancelled and not scheduled again.
MRStateNoRearm(p, d) ==
    IF ~IsSubr(p) THEN [d EXCEPT !.mrRefresh = FALSE]
    ELSE [d EXCEPT !.mrRefresh = FALSE, !.mrPending = TRUE]
MRState(p, d) ==
    IF ~IsSubr(p) THEN [d EXCEPT !.mrRefresh = FALSE]
    ELSE [d EXCEPT !.mrRefresh = TRUE, !.mrPending = TRUE]
MRPubs(p) ==
    IF ~IsSubr(p) THEN {} ELSE {MembershipReqPub(p)}

PublishMembershipReq(p, d) ==
    /\ dist' = [dist EXCEPT ![p] = MRState(p, d)]
    /\ pubs' = pubs \cup MRPubs(p)

\* receivedGK(): cancel the refresh timer, no request pending.
ReceivedGK(d) == [d EXCEPT !.mrRefresh = FALSE, !.mrPending = FALSE]

\* The member-table sweep: drop members whose certificate is gone.  The
\* code tests validUntil() <= now; validUntil() is taken here as the true
\* end of the certificate, which it is except near a turn of the year (see
\* MC_CertValidity), a case this abstract clock does not represent.
Swept(mbrs) == {m \in mbrs : m \notin expired}

\* makeSGKey(): the key records of a new key for members mbrs (after the
\* sweep), sorted by thumbprint; an empty table still publishes one
\* anchor record named with the key maker's own thumbprint.
\* Mutant: the creation time is taken one tick ahead of the clock.
NewKeyAhead(p) == [maker |-> p, ct |-> now + 2]
\* Mutant: the creation time is the clock as read, with no tick taken.
NewKeySameTick(p) == [maker |-> p, ct |-> now]
NewKey(p) == [maker |-> p, ct |-> now + 1]
\* Mutant: the member list is sorted with the comparison inverted.
MintPubsUnsorted(p, d, mbrs) ==
    LET list == SetToSortSeq(Swept(mbrs), LAMBDA a, b : Less(b, a))
    IN  IF list = <<>>
        THEN {KeyRecordPub(p, d.epoch, p, p, now + 1, NewKey(p), {})}
        ELSE {KeyRecordPub(p, d.epoch, Chunk(list, i)[1],
                           Chunk(list, i)[Len(Chunk(list, i))],
                           now + 1, NewKey(p), ToSet(Chunk(list, i))) :
                  i \in 0..NumKRPubs(Len(list)) - 1}
MintPubs(p, d, mbrs) ==
    LET list == SetToSortSeq(Swept(mbrs), Less)
    IN  IF list = <<>>
        THEN {KeyRecordPub(p, d.epoch, p, p, now + 1, NewKey(p), {})}
        ELSE {KeyRecordPub(p, d.epoch, Chunk(list, i)[1],
                           Chunk(list, i)[Len(Chunk(list, i))],
                           now + 1, NewKey(p), ToSet(Chunk(list, i))) :
                  i \in 0..NumKRPubs(Len(list)) - 1}
MintedState(p, d, mbrs) ==
    [d EXCEPT !.sgKey = NewKey(p), !.curKeyCT = now + 1, !.appKey = NewKey(p),
              !.mbrList = Swept(mbrs),
              !.init = @ /\ Swept(mbrs) = {}]

\* The whole of makeSGKey for peer p in state d with member table mbrs:
\* mint, sweep, call back the parent, publish (the anchor with a delivery
\* confirmation), and leave init if a member was enrolled.
MakeSGKey(p, d, mbrs) ==
    /\ now' = now + 1
    /\ dist' = [dist EXCEPT ![p] = MintedState(p, d, mbrs)]
    /\ pubs' = pubs \cup MintPubs(p, d, mbrs)
    /\ confirm' = IF Swept(mbrs) = {}
                  THEN [confirm EXCEPT ![p] = @ \cup MintPubs(p, d, mbrs)]
                  ELSE confirm

-----------------------------------------------------------------------------
(* Initial state: constructed, setup() called.                            *)

Init ==
    /\ SyncInit([p \in Peers |-> IF p \in KMEligible THEN {} ELSE {"kr"}])
    /\ dist = [p \in Peers |->
                [keyMaker |-> FALSE, epoch |-> 0, kmtp |-> ZeroTP,
                 curKeyCT |-> 0, sgKey |-> NoKey, mbrList |-> {},
                 init |-> TRUE, mrPending |-> FALSE, mrRefresh |-> FALSE,
                 rekeyArmed |-> FALSE, electing |-> p \in KMEligible,
                 appKey |-> NoKey]]
    /\ now = 0
    /\ expired = {}
    /\ excluded = [p \in Peers |-> {}]
    /\ removals = 0
    /\ lateRekeys = 0

-----------------------------------------------------------------------------
(* Actions.                                                                *)

\* The election's completion callback eDone(elected, epoch): subscribe to
\* key records; a winner also subscribes to requests and runs
\* sgkeyTimeout() (makeSGKey and arm the periodic rekey timer).
ElectionDone(p) ==
    /\ dist[p].electing
    /\ LET elected == p \in Winners
           d == [dist[p] EXCEPT !.electing = FALSE, !.keyMaker = elected,
                                !.epoch = ElectionEpoch]
       IN  /\ subs' = [subs EXCEPT ![p] = @ \cup
                          (IF elected THEN {"kr", "mr"} ELSE {"kr"})]
           /\ IF elected
              THEN MakeSGKey(p, [d EXCEPT !.rekeyArmed = TRUE], d.mbrList)
              ELSE /\ dist' = [dist EXCEPT ![p] = d]
                   /\ UNCHANGED <<pubs, confirm, now>>
    /\ UNCHANGED <<seen, healed, expired, excluded, removals, lateRekeys>>

\* The key maker the split brain must resolve to: the largest thumbprint.
TopWinner == CHOOSE w \in Winners : \A v \in Winners : ~Less(w, v)

\* The periodic rekey timer fires: sgkeyTimeout().  It is not cancellable;
\* a peer that is no longer key maker returns without rescheduling.  The
\* timer fires for ever in the code; here the clock bound MaxTime stops it,
\* and the surviving key maker's timer has HealRekeys more firings
\* (counted in lateRekeys) once the partition has healed.
SgkeyTimeout(p) ==
    /\ dist[p].rekeyArmed
    /\ IF dist[p].keyMaker
       THEN /\ \/ now < MaxTime
               \/ healed /\ p = TopWinner /\ lateRekeys < HealRekeys
            /\ lateRekeys' = IF now < MaxTime THEN lateRekeys ELSE lateRekeys + 1
            /\ MakeSGKey(p, dist[p], dist[p].mbrList)
       ELSE /\ dist' = [dist EXCEPT ![p].rekeyArmed = FALSE]
            /\ UNCHANGED <<pubs, confirm, now, lateRekeys>>
    /\ UNCHANGED <<seen, subs, healed, expired, excluded, removals>>

\* The membership-request refresh timer fires: publishMembershipReq().
\* Its period, the key lifetime, is far longer than a request's 6 s
\* lifetime: the previous request has left the collection.
MRRefresh(p) ==
    /\ dist[p].mrRefresh
    /\ MembershipReqPub(p) \notin pubs
    /\ PublishMembershipReq(p, dist[p])
    /\ UNCHANGED <<seen, subs, healed, confirm, now, expired, excluded, removals, lateRekeys>>

\* A membership request is handed to key maker k: addGroupMem().  Its test
\* for a requester in the relay role never fires: a relay leaves setup()
\* at once, subscribes to nothing and so never publishes a request, and
\* is no member of Peers.  The key conversion cannot fail (see above).
AddGroupMem(k, m) ==
    /\ m.topic = "mr"
    /\ Deliverable(k, m)
    /\ SignerValid(m)
    /\ MarkSeen(k, m)
    /\ LET d  == dist[k]
           tp == m.signer
           admitted == /\ d.keyMaker
                       /\ Cardinality(d.mbrList) # MbrCap
                       /\ IsSubr(tp)
           d1 == [d EXCEPT !.mbrList = @ \cup {tp}]
       IN  IF admitted /\ d.curKeyCT # 0
           THEN /\ dist' = [dist EXCEPT ![k] = InitDone(d1)]
                /\ pubs' = pubs \cup
                      {KeyRecordPub(k, d.epoch, tp, tp, d.curKeyCT, d.sgKey, {tp})}
           ELSE /\ dist' = IF admitted THEN [dist EXCEPT ![k] = d1] ELSE dist
                /\ UNCHANGED pubs
    /\ UNCHANGED <<subs, healed, confirm, now, expired, excluded, removals, lateRekeys>>

\* receiveSGKeyRecords, from the epoch check on: peer p (not a key maker,
\* past the init gate) in state d uses key record m.
\* Mutant: any creation time other than the current one counts as newer.
IsNewerNotEqual(m, d) == m.ct # d.curKeyCT
IsNewer(m, d) == m.ct > d.curKeyCT
\* p's thumbprint prefix lies outside the range named by key record m.
\* Mutant: the high end of the range is taken as exclusive.
OutOfRangeExclusive(p, m) ==
    LET tpId == First(p, Len(m.low))
    IN  Less(tpId, m.low) \/ ~Less(tpId, m.high)
OutOfRange(p, m) ==
    LET tpId == First(p, Len(m.low))
    IN  Less(tpId, m.low) \/ Less(m.high, tpId)
UseKeyRecord(p, d, m) ==
    LET newEpoch == m.epoch # d.epoch
        d1 == IF newEpoch THEN [d EXCEPT !.epoch = m.epoch, !.kmtp = ZeroTP] ELSE d
        \* key-maker drift: a larger signer resets the creation time
        d2 == IF Less(d1.kmtp, m.signer)
              THEN [d1 EXCEPT !.curKeyCT = 0, !.kmtp = m.signer] ELSE d1
        \* Outside the advertised range.  The deferred request the code
        \* schedules here is guarded by cmp_less(m_curKeyCT, newCT) while
        \* newCT is still 0, which never holds: nothing is scheduled.
        omitted == IsSubr(p) /\ OutOfRange(p, m)
        adopt == /\ ~omitted
                 /\ IsNewer(m, d2)
                 /\ IsSubr(p) => p \in m.recs
        d3 == [d2 EXCEPT !.curKeyCT = m.ct, !.appKey = m.key]
    IN  IF newEpoch /\ m.epoch > 1
        THEN UNCHANGED dist
        ELSE dist' = [dist EXCEPT ![p] =
                        IF ~adopt THEN d2
                        ELSE IF IsSubr(p) THEN InitDone(ReceivedGK(d3))
                        ELSE InitDone(d3)]

\* Mutant: the tie-break is reversed, the smaller thumbprint wins.
DemotedByReversed(p, signer) == Less(signer, p)
\* A key maker p receiving a record of key maker signer steps down when
\* signer has the larger thumbprint.
DemotedBy(p, signer) == Less(p, signer)

\* A key record is handed to peer p: receiveSGKeyRecords().
ReceiveSGKeyRecords(p, m) ==
    /\ m.topic = "kr"
    /\ Deliverable(p, m)
    /\ SignerValid(m)
    /\ MarkSeen(p, m)
    /\ LET d == dist[p] IN
       IF KMPri[m.signer] <= 0
       THEN UNCHANGED <<dist, pubs, subs>>
       ELSE IF d.keyMaker
       THEN IF DemotedBy(p, m.signer)
            THEN \* a larger key maker wins: demote, ask to be enrolled
                 /\ subs' = [subs EXCEPT ![p] = @ \ {"mr"}]
                 /\ PublishMembershipReq(p,
                        [d EXCEPT !.keyMaker = FALSE, !.kmtp = m.signer])
            ELSE UNCHANGED <<dist, pubs, subs>>
       ELSE IF d.init /\ IsSubr(p) /\ ~d.mrPending
       THEN /\ PublishMembershipReq(p, d)
            /\ UNCHANGED subs
       ELSE /\ UseKeyRecord(p, d, m)
            /\ UNCHANGED <<pubs, subs>>
    /\ UNCHANGED <<healed, confirm, now, expired, excluded, removals, lateRekeys>>

\* The delivery-confirmation callback of an anchor key record, once some
\* peer has it: initDone().  (Its other outcome, f = FALSE when the
\* record's lifetime ends undelivered, leaves the state as it is.)
\* Mutant: the callback tests the other outcome (if(!f) initDone()).
ConfirmCbInverted(p, m) ==
    /\ m \in confirm[p]
    /\ Delivered(m)
    /\ confirm' = [confirm EXCEPT ![p] = @ \ {m}]
    /\ UNCHANGED <<pubs, seen, subs, healed, dist, now, expired, excluded, removals, lateRekeys>>
ConfirmCb(p, m) ==
    /\ m \in confirm[p]
    /\ Delivered(m)
    /\ confirm' = [confirm EXCEPT ![p] = @ \ {m}]
    /\ dist' = [dist EXCEPT ![p] = InitDone(@)]
    /\ UNCHANGED <<pubs, seen, subs, healed, now, expired, excluded, removals, lateRekeys>>

\* The application removes member tp at key maker k: removeGroupMem().
\* (Removing a peer that is not a member only rekeys, as sgkeyTimeout does.)
\* It is called on an elected peer; nothing tells the application that
\* the peer has since been demoted, and removeGroupMem does not check.
RemoveGroupMem(k, tp, reKey) ==
    /\ k \in Winners /\ ~dist[k].electing
    /\ removals < MaxRemove
    /\ removals' = removals + 1
    /\ LET d1 == [dist[k] EXCEPT !.mbrList = @ \ {tp}]
       IN  IF reKey
           THEN /\ now < MaxTime
                /\ MakeSGKey(k, d1, d1.mbrList)
                /\ excluded' = [excluded EXCEPT ![k] = @ \cup {tp}]
           ELSE /\ dist' = [dist EXCEPT ![k] = d1]
                /\ UNCHANGED <<pubs, confirm, now, excluded>>
    /\ UNCHANGED <<seen, subs, healed, expired, lateRekeys>>

\* A peer's signing certificate expires (cert store, read-only here).  An
\* elected peer's does not: the code supports no re-election ("XXX change
\* this when re-elections supported"), so nothing would replace it.
CertExpires(p) ==
    /\ p \notin Winners
    /\ p \notin expired
    /\ Cardinality(expired) < MaxExpire
    /\ expired' = expired \cup {p}
    /\ UNCHANGED <<pubs, seen, subs, healed, confirm, dist, now, excluded, removals, lateRekeys>>

\* The lifetime policy given to syncps (constructor, getLifetimeCb): a
\* membership request lives 6 s, by when every key maker that can reach
\* its signer has it.  Key records live longer than the rekey interval,
\* which the bounded clock never completes, so they do not expire here.
LifetimeOver(m) == m.topic = "mr" /\ ReachedAllSubscribers(m)

Expire(m) ==
    /\ LifetimeOver(m)
    /\ Drop(m)
    /\ UNCHANGED <<dist, now, expired, excluded, removals, lateRekeys>>

\* The partition ends.  Winners is the outcome of an election run inside
\* the partition, so the partition lasts until the election has completed.
PartitionHeals ==
    /\ \A p \in Peers : ~dist[p].electing
    /\ Heal
    /\ UNCHANGED <<dist, now, expired, excluded, removals, lateRekeys>>

Next ==
    \/ \E p \in Peers : ElectionDone(p)
    \/ \E p \in Peers : SgkeyTimeout(p)
    \/ \E p \in Peers : MRRefresh(p)
    \/ \E p \in Peers, m \in pubs : AddGroupMem(p, m)
    \/ \E p \in Peers, m \in pubs : ReceiveSGKeyRecords(p, m)
    \/ \E p \in Peers : \E m \in confirm[p] : ConfirmCb(p, m)
    \/ \E k \in Winners : \E tp \in dist[k].mbrList, reKey \in BOOLEAN :
          RemoveGroupMem(k, tp, reKey)
    \/ \E p \in Peers : CertExpires(p)
    \/ \E m \in pubs : Expire(m)
    \/ PartitionHeals

\* Every callback of the single event loop eventually runs: elections
\* complete, timers fire, every live publication reaches every reachable
\* subscriber (fairness per request: a request expires and is re-published,
\* so one peer's requests must not starve another's; key records never
\* leave a peer's seen set, so per-peer fairness delivers each of them),
\* and the partition heals.  Only peers that can take an action get a
\* fairness condition: the elected subscribe to requests and run the rekey
\* timer, subscribers run the refresh timer.  A request's 6 s lifetime
\* always ends (syncps drops it on its own timer).  Removals and
\* certificate expiry are the environment's choice and get no fairness.
Fairness ==
    /\ \A p \in KMEligible : WF_vars(ElectionDone(p))
    /\ \A k \in Winners :
          /\ WF_vars(SgkeyTimeout(k))
          /\ WF_vars(\E m \in confirm[k] : ConfirmCb(k, m))
          /\ \A q \in Subr : WF_vars(AddGroupMem(k, MembershipReqPub(q)))
    /\ \A p \in Subr : WF_vars(MRRefresh(p)) /\ WF_vars(Expire(MembershipReqPub(p)))
    /\ \A p \in Peers : WF_vars(\E m \in pubs : ReceiveSGKeyRecords(p, m))
    /\ WF_vars(PartitionHeals)

Spec == Init /\ [][Next]_vars /\ Fairness
-----------------------------------------------------------------------------
(* Properties.                                                             *)

Key == [maker : Peers \cup {ZeroTP}, ct : 0..now]

TypeOK ==
    /\ now \in Nat
    /\ expired \subseteq Peers
    /\ \A p \in Peers :
          /\ dist[p].keyMaker \in BOOLEAN /\ dist[p].init \in BOOLEAN
          /\ dist[p].mrPending \in BOOLEAN /\ dist[p].mrRefresh \in BOOLEAN
          /\ dist[p].rekeyArmed \in BOOLEAN /\ dist[p].electing \in BOOLEAN
          /\ dist[p].epoch \in Nat /\ dist[p].curKeyCT \in 0..now
          /\ dist[p].kmtp \in Peers \cup {ZeroTP}
          /\ dist[p].sgKey \in Key /\ dist[p].appKey \in Key
          /\ dist[p].mbrList \subseteq Subr
          /\ subs[p] \subseteq Topics
          /\ seen[p] \subseteq pubs

\* P1 of the spec: every time the new-key callback hands a peer a key
\* (makeSGKey or receiveSGKeyRecords), its creation time is strictly
\* larger than that of the key it replaces.
CreationTimeMonotone ==
    [][\A p \in Peers :
         dist'[p].appKey # dist[p].appKey =>
             dist'[p].appKey.ct > dist[p].appKey.ct]_vars

\* P4 of the spec, as the receiver sees it: every record a key-record
\* publication carries lies inside the thumbprint range its name
\* advertises, so no recipient's range test skips a record sealed for it.
RangeCoversRecipients ==
    \A m \in pubs : m.topic = "kr" => \A r \in m.recs : ~OutOfRange(r, m)

\* P5 of the spec (and removeGroupMem's comment "won't encrypt a group key
\* for this thumbPrint in future"): once key maker k has removed tp with
\* reKey set, no key record k publishes afterwards is sealed for tp.
NoKeyForExcluded ==
    [][\A m \in pubs' \ pubs :
         m.topic = "kr" => m.recs \cap excluded'[m.signer] = {}]_vars

\* Only a key maker mints: every key record is published by a peer that
\* is key maker when it publishes, as sgkeyTimeout ensures with its
\* "need to stop if I lose a future election" check and addGroupMem with
\* its "ignore if not a keyMaker as a safeguard" (G1: one intended key).
OnlyKeyMakerPublishes ==
    [][\A m \in pubs' \ pubs : m.topic = "kr" => dist'[m.signer].keyMaker]_vars

\* P2 of the spec: split-brain key makers resolve, by the thumbprint
\* tie-break in receiveSGKeyRecords, to the largest elected peer, and
\* every other peer ends up recording it as key maker.
SplitBrainResolves ==
    <>[](\A p \in Peers :
            /\ dist[p].keyMaker <=> p = TopWinner
            /\ p # TopWinner => dist[p].kmtp = TopWinner)

\* Every peer but the surviving key maker (a demoted key maker included)
\* whose certificate is valid holds the surviving key maker's current key.
KeysAgree ==
    \A p \in Peers \ ({TopWinner} \cup expired) :
        dist[p].appKey = dist[TopWinner].sgKey

\* G1 of the spec: peers converge to the single intended key; the request /
\* key record exchange self-heals whatever the interleaving.
KeysConverge == <>[]KeysAgree

\* The keys issued so far: every key a peer minted and every key a key
\* record carries (key records outlive the bounded clock).
IssuedKeys ==
    {NoKey} \cup {dist[p].sgKey : p \in Peers} \cup {m.key : m \in {n \in pubs : n.topic = "kr"}}

\* The refinement mapping: issued keys and the key each peer's parent was
\* last handed by the new-key callback (m_newKeyCb).
Intent == INSTANCE KeyIntent WITH
    Holders <- Peers, Makers <- Winners,
    Times <- 1..MaxTime + HealRekeys + Cardinality(Winners),
    Unkeyed <- NoKey, issued <- IssuedKeys,
    held <- [p \in Peers |-> dist[p].appKey]

\* G1 and P1 of the spec as a whole: the distributor implements KeyIntent;
\* every key a peer switches to was minted by a key maker, and is newer
\* than the one it held, and every mint is newer than all keys before it.
ImplementsKeyIntent == Intent!Spec

\* setup()'s contract: the connected callback ("this entity has completed
\* initialization") is eventually invoked at every peer whose certificate
\* stays valid; for a key maker "having some entity receive its key record"
\* suffices, even with no subscriber to enrol (publishKeyRange's anchor
\* confirmation).
EveryPeerConnects == \A p \in Peers : <>(~dist[p].init \/ p \in expired)

\* The surviving key maker's member table is below the cap of 80 * maxKR.
HasRoom == Cardinality(dist[TopWinner].mbrList) < MbrCap

\* A subscriber turned away at the cap (addGroupMem drops the request
\* silently, with no reply) is not left out for good: whenever the table
\* has room while the subscriber, not in it, still waits for a key (its
\* request pending), it is enrolled or stops waiting (a key record sealed
\* for it arrived), or the table fills up again, or its certificate
\* expires.  It takes the
\* refresh timer publishMembershipReq re-arms (spec 4.4: "If no key
\* arrives before the timer, it republishes"), the expiry of the refused
\* request and the room a sweep (makeSGKey) or removeGroupMem makes.
RefusedEnrolledWhenRoom ==
    \A p \in Subr \ Winners :
        HasRoom /\ p \notin dist[TopWinner].mbrList /\ dist[p].mrPending
            ~> \/ p \in dist[TopWinner].mbrList
               \/ ~dist[p].mrPending
               \/ ~HasRoom
               \/ p \in expired

\* The request / key record exchange leaves no subscriber behind: once no
\* handler, timer or delivery can run any more (the bounded clock has
\* stopped the rekey timer, every live publication has been delivered),
\* every subscriber that was not elected and whose certificate is valid is
\* in the surviving key maker's member table, so its next rekey seals the
\* group key for it (spec: a subscriber omitted from a newer key's range
\* asks to be enrolled; P2, for a finite message trace).
EnrolledWhenQuiet ==
    ~(ENABLED Next) =>
        \A p \in Subr \ (Winners \cup expired) : p \in dist[TopWinner].mbrList
=============================================================================
