# TLA+ models of DistSGKey, the subscriber-group key distributor

This directory models `src/include/dct/distributors/dist_sgkey.hpp` (struct `DistSGKey`).
It also models these parts of `src/include/dct/schema/rpacket.hpp` and
`src/include/dct/schema/tlv.hpp`:
- the byte-string comparisons the distributor takes from `rpacket.hpp`;
- the packet views `rName`, `rPrefix`, `rData` and `rInterest` (validity, order, `first`,
  the block accessors and thumbprint are checked; component access, nonce and lifetime
  are modelled as operators);
- the certificate validity-period encoding (`iso8601`, `rCert`);
- the compile-time TLV constructors.

`PROJECT.json` lists the components, the runs, the mutants, the map from every TLA+
definition to the source lines it translates, the findings and the hazards.

## 1. The system

Every peer of a collection runs one `DistSGKey`. The parts that take part in the model:

| part | code | what it does |
|---|---|---|
| capabilities | constructor, `updateSigningKey`, `setup` | The SG capability makes a peer a *subscriber* (`m_subr`). A KM/KMP digit > 0 makes a subscriber eligible for the key-maker election. |
| election | `kmElection` (not in this repository) | Reports `eDone(elected, epoch)` to every eligible peer. |
| key-maker engine | `eDone`, `sgkeyTimeout`, `makeSGKey`, `publishKeyRange`, `addGroupMem`, `removeGroupMem` | The elected peer mints a group key pair and sweeps expired members out of `m_mbrList`. It seals the secret key for every member and publishes *key records* ("kr"). The records are sorted by thumbprint and split into publications of at most `maxKR` records, each named with its `[low, high]` thumbprint prefixes. An empty table gives one *anchor* record, with a delivery-confirmation callback. A new member gets a single-record publication. The rekey timer is periodic and cannot be cancelled. |
| membership requests | `publishMembershipReq`, `receivedGK`, the refresh timer | A subscriber without a key publishes a *membership request* ("mr"). It re-publishes it every key lifetime until a key arrives. |
| key-record receipt | `receiveSGKeyRecords` | A chain of gates, in order: the signer is authorised; the key-maker tie-break and demotion; the request a peer still in init sends; the epoch; the key-maker *drift* reset; the range check; the creation-time check; publisher-only adoption; finding one's own record and adopting it; leaving init. |
| certificate validity | `iso8601`, `rCert::valid`, `validAfter`, `validUntil`, `validForm` | A certificate's SignatureInfo has a fixed layout. Its notBefore and notAfter are 15 ASCII bytes written by `fmt::format("{:%G%m%dT%H%M%S}")`. `valid()` compares them with `iso8601(now)` by `memcmp`, and `validUntil()` parses them back with `%Y`. `makeSGKey`'s sweep uses `validUntil()`. |
| TLV construction | `tlv.hpp`: `TLVhdr`, `tlvFlatten`, `TLV`, `xTLV` | These build TLVs as `std::array`s at compile time. A type or length of 253 or more takes three bytes. |
| packet views | `rpacket.hpp`: `rName`, `rPrefix`, `rData`, `rInterest` | Views of a name's components or a packet's blocks, read with a `tlvParser` (not in this repository). `rName::valid` checks the components cover the name; `rPrefix` orders, indexes (`operator[]`) and cuts (`first`) name bodies; `rData::valid` checks the five blocks of a Data; `thumbprint` finds the signer in the KeyLocator; `rInterest` reads the name, the 4-byte nonce and the lifetime (1 ms to one hour). |
| transport | syncps (not in this repository) | A set of live publications, each delivered once to each subscriber. Lifetimes from `getLifetimeCb`: requests 6 s, key records one key lifetime. |

How they interact: requests flow from subscribers to key makers, and key records flow from
key makers to everybody. Two key makers meet only through each other's key records. What
makes this hard is the order of these messages across peers, partitions and heals, the
expiry of requests, and the timers.

## 2. Modules

| module | models | state / actions |
|---|---|---|
| `ByteOrder` | the `less` lambda of `receiveSGKeyRecords`; `rPrefix::operator<=>` and `isPrefix` | Pure operators. `Memcmp` is recursive. |
| `MC_ByteOrder` | a check of `ByteOrder` and `RPacket` | A pair `x`, `y` of byte strings; `NextX` and `NextY` replace one of them. They are compared against the reference `LexBefore`, and read as name bodies against the components they hold (`Comps`, the canonical component order `CompBefore`). `DataOf(x, y)` wraps `x` as a Data's name, and `x` read as a list of member ranks is split by `KeyRanges`. |
| `RPacket` | `rName::valid`, `rPrefix::first` and `operator[]`, `rData::valid`, `name`, `metainfo`, `contentType`, `content`, `sigInfo`, `sigType`, `signature`, `thumbprint`, `rCert::validForm` of a whole Data, `rInterest::name`, `nonce`, `lifetime` | Pure operators over a `tlvParser` taken as the NDN decoder of the `TLV` module's forms (`VarNum`, `NextBlk`, `Blks`, `FindBlk`, `ToNumber`; modelled from the NDN format, since `tlv_parser.hpp` is not in this repository): a read that runs past the view's end throws. A `uint32_t` nonce is kept as its four bytes, most significant first, because TLC's integers stop at 2^31; the int shifts that build it are not modelled. `Component`, `InterestName`, `Nonce` and `Lifetime` are operators no run checks: a property over them could only restate their definitions. |
| `SyncPS` | syncps, from spec 6.1 | `pubs`, `seen`, `subs`, `healed`, `confirm`. It provides `Deliverable`, `MarkSeen`, `Heal` and `ExpireWith`. |
| `DistSGKey` | all peers' `DistSGKey` objects over `SyncPS` | `dist[p]` holds the member fields of peer `p`: `m_keyMaker`, `m_KMepoch`, `m_kmtp`, `m_curKeyCT`, the key, `m_mbrList`, `m_init`, `m_mrPending`, the refresh and rekey timers, and the election's progress. `now` is the clock; `expired` holds the expired certificates; `lateRekeys` counts rekeys after the clock bound. `excluded` and `removals` are history. There is one action per handler: `ElectionDone`, `SgkeyTimeout`, `MRRefresh`, `AddGroupMem`, `ReceiveSGKeyRecords`, `ConfirmCb`, `RemoveGroupMem`. The environment's actions are `CertExpires`, `Expire` (a publication's lifetime ends) and `PartitionHeals`. |
| `KeyRanges` | `makeSGKey`'s split of the sorted member list into key-record publications (`NumKRPubs`, `ChunkSize`, `Chunk`) | Pure operators, parameterised by `MaxKR`. `DistSGKey` extends it. |
| `MC_KeyRanges` | a check of `KeyRanges` | Instantiates `KeyRanges` once per `maxKR` (`KR(k) == INSTANCE KeyRanges WITH MaxKR <- k`) and steps the member count through `1..20`. Its cfg is supplementary (see §3). |
| `KeyIntent` | the abstract key-issue specification (spec G1, P1) | `issued` and `held`. `Issue`: a maker issues a key newer than every issued key and uses it. `Adopt`: a peer replaces its key by a strictly newer issued key. `DistSGKey` refines it: `issued` is every minted key and every key a key record carries, and `held[p]` is `dist[p].appKey`, the key last handed to the application. |
| `CertValidity` | `iso8601` and `rCert`'s validity checks | Pure operators. An instant is `[y, m, d, s]`. `Iso8601` writes the ISO week-based year (`%G`), computed from Hinnant's `days_from_civil`. `ToTP` parses `%Y`, `Valid` is `rCert::valid`'s two `memcmp`s, and `ValidUntil` is `toTP` of the notAfter field. |
| `MC_CertValidity` | a check of `CertValidity` | `notBefore`, `notAfter` and `now` range over 24 instants around the turns of 2024/25 and 2026/27 and on ordinary days. |
| `TLV` | `tlv.hpp` and `rCert::validForm` | Pure operators. `HdrSize` is `TLVhdr`'s array size, `TLVhdr` the bytes it writes, `TLV`, `TLVByte` and `XTLV` the constructors. `ValidForm`, `NotBeforeField` and `NotAfterField` are the layout checks and field offsets of a DCT certificate's SignatureInfo. |
| `MC_TLV` | a check of `TLV` | Checks the constructors against a reference NDN VAR-NUMBER decoder, for every type of `enum class tlv` and sizes at the 253 boundary; a whole certificate against `rData`'s accessors, `validForm`, the field offsets and `rData::thumbprint`. |
| `MC_DistSGKey` | instances | Three peers `P < Q < S` with 2-byte thumbprints and a 1-byte name prefix. `X` is a publish-only peer in `S`'s place. Partition sides and election outcomes are given as constants. |

Data abstraction:
- A group key is the record `[maker, ct]`.
- "Sealed for tp" means that `tp` is in a record's `recs`.
- TLV encoding and libsodium are left out; sealing and opening always succeed.
- The clock advances by one at each mint.

Each action carries the whole handler. For example, `MakeSGKey` covers the following in one step:
- the mint;
- the sweep;
- the `newKeyCb`;
- all publications;
- the confirmation;
- leaving init.

`ReceiveSGKeyRecords` has every gate in the code's order. The deferred 2 s request of
line 318 is not an action, because its guard can never hold (see finding 1).

## 3. Runs

| run | cfg | result | what it shows |
|---|---|---|---|
| byteorder | `MC_ByteOrder_split.cfg` | pass | `ByteOrderCorrect`: `less`, `<=>` and `isPrefix` are byte-lexicographic over all strings of length ≤ 4 over 3 byte values, including when one is a prefix of the other. `NameOrderCanonical`: on two valid name bodies, `<=>` orders by components (each by type, then length, then value) and `isPrefix` is the component prefix. `FirstComponents`: `first(comp)` holds exactly the first components, negative `comp` included, and throws exactly at 0 and past the end. `RangesSplitList`: `makeSGKey`'s split of every non-empty member list of up to 4, for every `maxKR` from 1 to 4, gives publications of 1 to `maxKR` records that concatenate to the list. |
| steady | `MC_DistSGKey_settle.cfg` | pass | One key maker `Q`, subscriber `P` (eligible, not elected) whose certificate may expire, publish-only `X`. `KeysConverge`: every valid peer ends on `Q`'s current key. `ImplementsKeyIntent`: the distributor refines `KeyIntent`. `EveryPeerConnects`: every peer leaves init; when `P` expires before it is enrolled, `Q` does so only through the delivery confirmation of its anchor record (spec scenario 1). |
| churn | `MC_DistSGKey_churn.cfg` | pass | With `maxKR = 2`, a member removal with or without rekey, and two rekeys: `TypeOK`, `RangeCoversRecipients` (every record lies in its publication's advertised range) and `CreationTimeMonotone` (no peer adopts an older key). |
| resolve | `MC_DistSGKey_resolve.cfg` | pass | A split brain (`P` and `Q` both elected on two sides; publish-only `X` with `P`); only the elections mint before the heal, so `P`'s key may be the newer. `Q` rekeys once after the heal (`HealRekeys = 1`). `KeysConverge` holds: `P`, now demoted and still holding its own newer creation time, and `X` both end on `Q`'s key. `SplitBrainResolves`: only `Q` stays key maker, and `P` and `X` record `Q`. |
| room | `MC_DistSGKey_room.cfg` | pass | Key maker `Q`, subscribers `P` and `S`, and a member table capped at one member (`MbrCap = 1`), so `addGroupMem` turns one of them away at line 522; either certificate may expire. `RefusedEnrolledWhenRoom`: whenever the table has room while a subscriber outside it still has a request pending, it is enrolled or served a key, or the table fills again, or it expires. Room comes from an expiry and the next rekey's sweep; the refused subscriber's re-armed refresh timer, the expiry of its old request and `addGroupMem` must then line up. |
| tlv | `MC_TLV.cfg` | pass | `HeaderDecodes`: every `TLVhdr` builds (array size = bytes written) and decodes to its type and length, at the 253 boundary of both. `CertLayout`: a certificate built with the constructors is a valid `rData` whose accessors (`contentType`, `content`, `sigInfo`, `sigType`, `signature`) find its blocks; `validForm` holds for it and fails for another content type; its time stamps are at offsets 49 and 68; and `rData::thumbprint` yields its thumbprint. |
| cert_period | `MC_CertValidity_period.cfg` | violation | `PeriodHonoured` (`valid()` holds exactly inside the period, and `validUntil()` is its end) fails: finding 5. |
| demoted | `MC_DistSGKey_demoted.cfg` | violation | `OnlyKeyMakerPublishes` fails: finding 4. |
| stranded | `MC_DistSGKey_stranded.cfg` | violation | `EnrolledWhenQuiet` fails: finding 1. |
| stale | `MC_DistSGKey_stale.cfg` | violation | `CreationTimeMonotone` fails: finding 2. |
| readmit | `MC_DistSGKey_readmit.cfg` | violation | `NoKeyForExcluded` fails: finding 3. |
| data_valid | `MC_ByteOrder_data.cfg` | violation | `DataValidChecksName` fails: finding 6. |

Each property of a passing run has a mutant in `PROJECT.json`. A mutant is a plausible bug
in a mapped definition, and TLC finds the property violated with it:

| mutant | bug |
|---|---|
| `LessNoLengthTie` | the length tie-break is lost |
| `OutOfRangeExclusive` | the high end of the range is exclusive |
| `DemotedByReversed` | the tie-break is reversed |
| `NewKeyAhead` | the creation time is ahead of the clock |
| `MintPubsUnsorted` | the sort comparison is inverted |
| `IsNewerNotEqual` | any creation time other than the current one counts as newer |
| `NewKeySameTick` | the creation time is the clock as read, with no tick (two mints in one clock reading); kills `ImplementsKeyIntent` |
| `NumKRPubsFloor` | the number of publications is rounded down, so the remainder is lost; kills `RangesSplitList` |
| `MRStateNoRearm` | `publishMembershipReq` cancels the refresh timer and does not schedule it again; kills `RefusedEnrolledWhenRoom` (the refused subscriber never asks again, so the room the sweep makes stays unused) |
| `ConfirmCbInverted` | the confirmation callback tests the other outcome (`if(!f)`); kills `EveryPeerConnects` |
| `PrefixCmpEmptyEqual` | an empty prefix compares equal to everything; kills `NameOrderCanonical` |
| `PrefixFirstPastCut` | `first` cuts after block `comp` instead of before it; kills `FirstComponents` |
| `HdrSizeOffByOne` | the array size takes 253 as a one-byte value; kills `HeaderDecodes` |
| `NotAfterFieldOffByOne` | the notAfter offset is one short; kills `CertLayout` |

`OutOfRangeExclusive` kills `KeysConverge` in both steady and resolve; in steady `NewKeySameTick` kills `ImplementsKeyIntent`; in resolve `DemotedByReversed` kills `SplitBrainResolves`.

### Supplementary configurations

These cfgs are on disk and pass or fail as stated, but are not runs of `PROJECT.json`
(a project lists at most 12 runs, and each of these is subsumed by a listed run):
- `MC_DistSGKey_single.cfg` (pass: `KeysConverge`, `ImplementsKeyIntent`), with three
  subscribers; steady checks the same properties with a publish-only peer.
- `MC_DistSGKey_publisher.cfg` (pass: `SplitBrainResolves`); resolve checks it with a rekey
  after the heal.
- `MC_DistSGKey_anchor.cfg` (pass: `EveryPeerConnects`): `Q` and `X` alone.
- `MC_ByteOrder.cfg` (pass: `ByteOrderCorrect`, strings of length ≤ 3) and
  `MC_ByteOrder_names.cfg` (pass: the byteorder run without `RangesSplitList`).
- `MC_KeyRanges.cfg` (pass: `RangesPartitionMembers`): for every member count 1..20 and
  `maxKR` 1..6, the publications, concatenated, are the sorted member list, each with 1 to
  `maxKR` records. The byteorder run checks the same split on lists of up to 4 members
  (`RangesSplitList`); this model goes further.
- `MC_CertValidity_order.cfg` (pass: `EncodingOrdersFields`). `memcmp` of two encodings is
  the order of the fields written.
- `MC_CertValidity_valid.cfg` (violation: `CertValidInPeriod`) and
  `MC_CertValidity_until.cfg` (violation: `ValidUntilRoundTrip`): the two halves of
  `PeriodHonoured`. See finding 5.
- `MC_TLV_byteforms.cfg` (violation: `ByteFormsDecode`). See the TLV hazard below.
- Superseded, and no longer checkable because they name properties that were dropped as
  restatements of their definitions or as resting on an exact sweep (see §6):
  `MC_DistSGKey_steady.cfg`, `MC_DistSGKey_expiry.cfg` (`NoKeyForExpired`),
  `MC_DistSGKey_capped.cfg` (`RefusedKeepsAsking`), `MC_ByteOrder_views.cfg`
  (`ComponentAccess`) and `MC_TLV_packets.cfg` (`InterestFields`). Their replacements are
  the settle, room, split and `MC_TLV.cfg` cfgs of the runs above.

### Findings

1. **The deferred membership request is dead code**: `dist_sgkey.hpp:318`. The guard reads
   `newCT` before it is decoded, so it is always 0. The trace:
   - `P` and `Q` are elected on two sides of a partition.
   - `S` is on `P`'s side and is enrolled by `P`.
   - `receivedGK` cancels `S`'s refresh timer, and `S`'s request expires.
   - After the heal, `P` steps down. `S` records `Q` and drops `Q`'s records as out of range.
   - Nobody ever enrols `S` with `Q`. When everything is quiet, `S` is missing from `Q`'s
     table and holds the dead key maker's key.

   The spec (4.5 step 6, scenario 4) says `S` schedules a request.
2. **The drift reset adopts older keys**: `dist_sgkey.hpp:297`. When the signer's thumbprint
   is larger than the recorded key maker's, `m_curKeyCT = 0`. The next record of that signer
   is adopted even when it is older than the key the peer holds: in the trace, `S` goes from
   key ct 3 to key ct 1. This contradicts spec P1 and scenario 6; spec 4.5 step 5, though,
   prescribes the reset ("accept the next key unconditionally"), so the spec disagrees
   with itself here and the code follows step 5.
3. **Removal does not exclude**: `dist_sgkey.hpp:557`. `addGroupMem` has no exclusion list. A
   member removed before it received its key still has its refresh timer running. It asks
   again, is re-admitted, and gets a single-record publication of the new key. This
   contradicts spec P5 and the comment at line 551. It needs the removed peer to miss its
   single record for about a key lifetime, until its refresh fires; the comment at lines
   512-513 assumes de-listing is filtered elsewhere.
4. **A demoted key maker still mints**: `dist_sgkey.hpp:558`. `removeGroupMem(tp, reKey)`
   calls `makeSGKey` without the `m_keyMaker` check that `sgkeyTimeout` has at line 495. The
   trace:
   - `P` and `Q` are elected on two sides of a partition, and `P` enrols `S`.
   - After the heal, `P` records `Q` and steps down.
   - The application removes `S` on `P` with a rekey.
   - `P` publishes a key newer than `Q`'s.

   This contradicts spec G1: only the key maker issues keys. The trace ends at that
   publication. In this configuration no peer adopts it (`S` is outside its range, and `Q`
   ignores a smaller signer); a peer in range that still records `P` as key maker would.
5. **Certificate times are written with the ISO week-based year**: `rpacket.hpp:234`.
   `iso8601` formats `%G`, not `%Y`. For 2024-12-30 it writes `20251230`.
   `validUntil` parses the field back with `%Y` (line 240). The trace is an initial state:
   notBefore 2024-12-29, notAfter 2024-12-30 and now 2024-12-29. `valid()` is right there,
   but `validUntil()` reads `20251230` back as 2025-12-30, a year after the period ends,
   and `makeSGKey`'s sweep (`dist_sgkey.hpp:455`) compares that with now.
   `PeriodHonoured` checks both this round trip and `valid()`; the supplementary
   `MC_CertValidity_valid.cfg` shows `valid()` wrong on other instants of the year turn,
   where the comment at line 228 requires lexicographic order to be chronological order.
6. **`rData::valid` ignores the name's own validity**: `rpacket.hpp:187`. It calls
   `rName(t.nextBlk(tlv::Name)).valid()` and drops the result, so it checks only that the
   Name block fits in the Data. Its comment says a Data is valid only if "its name is
   valid". In the trace the name is the single byte `0`, a component type with no length,
   and `valid()` returns true. Later component access on such a name throws or misreads.

A further latent defect is recorded as a hazard. `TLV<typ>(uint8_t)` and `xTLV`
(`tlv.hpp:125, 133`) write `uint8_t(typ)`. For types 253-255 (ValidityPeriod, NotBefore,
NotAfter) the bytes then decode as a different TLV. No caller in the repository uses these
forms with such a type.

## 4. Bounds and why they are enough

- **Peers.** Three peers are the fewest with two key makers plus a peer that depends on one of them.
- **Thumbprints.** They are 2 bytes and names carry a 1-byte prefix, so prefix and full
  comparisons are different operations, as with 32-byte thumbprints and 4-byte prefixes.
- **`MaxTime`.** It bounds the clock: `SgkeyTimeout` and a rekeying `RemoveGroupMem` mint
  only while `now < MaxTime`, and the elections' own mints are not bounded.
  - With `MaxTime = 2` there is one rekey after the first election, or none in a split brain.
  - `stale` needs `MaxTime = 3`, so that a key maker rekeys before the heal.
  - `stranded` uses 1, so that only the elections mint.
- **`HealRekeys`.** Once the partition has healed, only the surviving key maker's timer
  (`TopWinner`) may fire past `MaxTime`, at most `HealRekeys` times (counted in
  `lateRekeys`). Only resolve sets it to 1; that one rekey is what brings a demoted key
  maker with a newer key back to the winner's key. Every other cfg sets 0, which leaves
  their state spaces as they were.
- **`MaxKR` and `MbrCap`.** `MaxKR = 2` (in churn) makes the order of records inside a
  publication matter. `MbrCap = 2` equals the number of possible members everywhere but in
  room, where `MbrCap = 1` with two possible members puts the table at its cap. The chunk
  arithmetic across several publications is checked by `RangesSplitList` (byteorder run)
  on every list of up to 4 members and `maxKR` up to 4, and by the supplementary
  `MC_KeyRanges`, up to 20 members and `maxKR = 6`. That covers:
  - exact multiples;
  - remainders of every size;
  - counts below, at and above `maxKR`.
- **Certificate instants.** They cover both kinds of year boundary:
  - 2024-12-29..31 and 2025-01-01..02: 2024-12-30 is ISO week 1 of 2025;
  - 2026-12-30..31 and 2027-01-01..02: 2027-01-01 is in week 53 of 2026.
- **Name bodies.** Strings of length ≤ 4 over the bytes 0..2 hold up to two components,
  with lengths 0 to 2: same type with different lengths (where the canonical order is not
  value order), different types, a prefix of another, and malformed names that end inside
  a header or a value. The 253 forms are covered by the tlv run's headers.
  They also include days with and without leading zeros, and two times of day.
- **`MaxRemove` and `MaxExpire`.** At most one removal and one certificate expiry. These are
  the environment's choices. Steady lets `P` expire: before its request is heard, it leaves
  `Q` with only `X` to confirm the anchor record. Room lets `P` or `S` expire, which is what
  makes room at the cap: the next rekey's sweep drops the expired member.
- **Requests.** A peer's requests never coexist. The refresh period (the key lifetime) is far
  longer than a request's 6 s, so `MRRefresh` fires only after the previous request has
  expired. A request therefore needs no timestamp.
- **Key records do not expire.** Their lifetime exceeds the rekey interval, which the bounded
  clock never completes.
- **Partitions.** `PartitionHeals` waits until every election has completed, because
  `Winners` is the outcome of an election run inside the partition.
- **Certificate expiry.** Only peers that were never elected can have their certificate
  expire. The code supports no re-election (`if (epoch > 1)`), so nothing would replace an
  expired key maker.
- **Deadlock.** `CHECK_DEADLOCK FALSE` is used throughout. Once the bounded clock stops the
  rekey timer and every live publication has been delivered and has expired, nothing can
  happen; in the code the rekey timer would keep firing.

## 5. Fairness

The code runs on one event loop, so every callback that is ready eventually runs. This gives
weak fairness on the following:
- each eligible peer's `eDone`;
- each key maker's rekey timer and confirmation callback;
- each subscriber's refresh timer;
- each peer's key-record delivery;
- the partition heal.

Request delivery is weakly fair per (key maker, requester). Requests expire and are
re-published, so per-peer fairness alone would let one peer's requests starve another's.
A request's expiry is weakly fair too: syncps drops it when its 6 s lifetime ends, on its
own timer. Without it a refused request could stay for ever and keep the refresh timer from
re-publishing. Removals and certificate expiry are the environment's choices and are not
fair.

## 6. Not modelled, and why

- The election internals: the code is not in this repository.
- Crypto and TLV encoding: pure data transformations that the properties do not tell apart.
- A signing-key change after start-up (`updateSigningKey` with `m_init` false, lines
  214-240): its only caller is the constructor, where `m_init` is true, so the key-maker
  branch and the unthrown `runtime_error`s (lines 212, 222, 227, 238) cannot run; the
  conversions at 219-228 are crypto.
- The relay hack of `setup` (lines 388-393) and `addGroupMem` (526-527): a relay in a pubs
  collection leaves init at once and subscribes to nothing, so it never hears a key record
  or publishes a request. It behaves as a peer outside `Peers`, and the request test never
  fires.
- Epochs beyond 1.
- In `rpacket.hpp`: `rName`'s copy of `operator[]` and its wrappers over `rPrefix` (lines
  66-71, 138-141, the same code through `rPrefix(*this)`), `rCert::valid(sType)` (lines
  289-292: `valid()` and a byte compare), `computeTP` (a hash), the hash
  specialisations and the fmt formatters (printing). The `tlvParser` itself is not in this repository; `RPacket` takes it as the NDN
  decoder, with the 254/255 length forms treated as unreadable (no input uses them).
- The year-turn error of `validUntil()` in `makeSGKey`'s sweep (line 455). `Swept` takes
  `validUntil()` as the true end of the certificate: `DistSGKey`'s clock is a counter with
  no calendar. The error itself is finding 5. No property of the sweep is checked, since
  one would pass only by leaving the error out.
- A membership request lost before a reachable key maker hears it (hazard at line 130):
  `LifetimeOver` lets a request expire only once every reachable key maker has it.
- The `#if 0` publication filter of the constructor (lines 133-146): it is not compiled.
- A system clock that is set back. The model's clock advances one tick per mint; the
  `NewKeySameTick` mutant shows that `ImplementsKeyIntent` depends on it.

## 7. Open directions

1. **`KeyIntent` under a split brain.** The drift reset (finding 2) and the demoted
   key maker's mint (finding 4) break the refinement there. Once those are fixed, it should
   be checked in `resolve`.
2. **Larger instances** of steady (`MaxTime = 3`, `maxKR = 2`), within the time budget.
