------------------------------ MODULE RPacket ------------------------------
(***************************************************************************)
(* The packet views of rpacket.hpp: rName, rPrefix and rData.  A view is  *)
(* the byte sequence it spans past its own header (a name's components, a *)
(* Data's blocks).  Views read it with a tlvParser (tlv_parser.hpp, not   *)
(* in this repository), taken here as the NDN decoder of the TLV module's *)
(* forms: nextBlk() reads the block at the cursor and throws when its     *)
(* header or value runs past the end of the view, nextBlk(t) also throws  *)
(* when the block's type is not t; eof() is the cursor at the end.        *)
(***************************************************************************)
EXTENDS Integers, Sequences, TLV, ByteOrder

\* A TLV-TYPE or TLV-LENGTH at offset i of b (one byte below 253, else
\* 253 and two big-endian bytes); ok is FALSE when b ends first.
VarNum(b, i) ==
    CASE i > Len(b)                     -> [ok |-> FALSE, val |-> 0, len |-> 0]
      [] b[i] < 253                     -> [ok |-> TRUE, val |-> b[i], len |-> 1]
      [] b[i] = 253 /\ i + 2 <= Len(b)  -> [ok |-> TRUE, val |-> 256 * b[i + 1] + b[i + 2], len |-> 3]
      [] OTHER                          -> [ok |-> FALSE, val |-> 0, len |-> 0]

\* tlvParser::nextBlk(): the block at offset i of b, its type, where it, its
\* value and the next block start; ok is FALSE where it throws.
NextBlk(b, i) ==
    LET t == VarNum(b, i)
        l == VarNum(b, i + t.len)
        v == i + t.len + l.len
    IN  [ok |-> t.ok /\ l.ok /\ v + l.val <= Len(b) + 1,
         typ |-> t.val, at |-> i, from |-> v, next |-> v + l.val]

\* The blocks read from offset i to the end of b, in order, up to and
\* including the first read that throws.
RECURSIVE BlksFrom(_, _)
BlksFrom(b, i) ==
    IF i > Len(b) THEN <<>>
    ELSE LET k == NextBlk(b, i)
         IN  IF k.ok THEN <<k>> \o BlksFrom(b, k.next) ELSE <<k>>

Blks(b) == BlksFrom(b, 1)

\* The value of the first block of b.
FirstValue(b) == SubSeq(b, Blks(b)[1].from, Blks(b)[1].next - 1)

\* tlvParser::findBlk(t): the first block of b of type t.
FindBlk(b, t) ==
    LET bs == Blks(b)
    IN  bs[CHOOSE i \in DOMAIN bs : bs[i].ok /\ bs[i].typ = t
                                    /\ \A j \in 1..i - 1 : bs[j].typ # t]

\* rName::valid(): walk the components to eof(); a read that throws
\* makes the name invalid ("its length exactly covers its contained TLVs").
NameValid(nb) == \A i \in DOMAIN Blks(nb) : Blks(nb)[i].ok

\* rPrefix::first(comp) (and rName::first): the bytes of the first comp
\* components, a negative comp counting from the end; ok is FALSE where it
\* throws (zero components, or more than nBlks()).  A comp below -nBlks()
\* is not an input here: it reaches nthBlk with a negative index.
\* Mutant: the cut is made after block comp instead of before it.
PrefixFirstPastCut(p, comp) ==
    LET n == Len(Blks(p))
        c == IF comp < 0 THEN comp + n ELSE comp
    IN  CASE c = 0 \/ c > n -> [ok |-> FALSE, pre |-> <<>>]
          [] c = n          -> [ok |-> TRUE, pre |-> p]
          [] OTHER          -> [ok |-> TRUE, pre |-> SubSeq(p, 1, Blks(p)[c + 1].next - 1)]
PrefixFirst(p, comp) ==
    LET n == Len(Blks(p))
        c == IF comp < 0 THEN comp + n ELSE comp
    IN  CASE c = 0 \/ c > n -> [ok |-> FALSE, pre |-> <<>>]
          [] c = n          -> [ok |-> TRUE, pre |-> p]
          [] OTHER          -> [ok |-> TRUE, pre |-> SubSeq(p, 1, Blks(p)[c + 1].at - 1)]

\* The bytes of block k of b, header included (a tlvParser over it).
BlkBytes(b, k) == SubSeq(b, k.at, k.next - 1)

\* rPrefix::operator[](comp): nthBlk(comp) (tlv_parser.hpp), component comp
\* counted from 0, a negative comp counting from the end; ok is FALSE where
\* nthBlk throws, past the last component.  As for first(), a comp below
\* -nBlks() is not an input.
Component(p, comp) ==
    LET n == Len(Blks(p))
        c == IF comp < 0 THEN comp + n ELSE comp
    IN  IF c \in 0..n - 1 THEN [ok |-> TRUE, bytes |-> BlkBytes(p, Blks(p)[c + 1])]
        ELSE [ok |-> FALSE, bytes |-> <<>>]

\* tlvParser::toNumber(): a block's value read as a big-endian
\* NonNegativeInteger.
RECURSIVE ToNumber(_)
ToNumber(v) ==
    IF v = <<>> THEN 0 ELSE 256 * ToNumber(SubSeq(v, 1, Len(v) - 1)) + v[Len(v)]

\* The value of the first block of type t of b (tlvParser::findBlk(t).rest()).
FoundValue(b, t) == SubSeq(b, FindBlk(b, t).from, FindBlk(b, t).next - 1)

\* rInterest::name(): nextBlk(tlv::Name), which throws unless the
\* Interest's first block is a Name.
InterestName(i) ==
    IF Blks(i)[1].ok /\ Blks(i)[1].typ = TLVType.Name
    THEN [ok |-> TRUE, name |-> FirstValue(i)]
    ELSE [ok |-> FALSE, name |-> <<>>]

\* rInterest::nonce(): the Nonce block must hold 4 bytes, assembled as
\* uint32_t(n[0]) | n[1] << 8 | n[2] << 16 | n[3] << 24, which puts n[k] in
\* bits 8k to 8k + 7.  The uint32_t is kept as its 4 bytes, most
\* significant first (TLC's integers stop at 2^31), so the int arithmetic
\* of the shifts is not modelled.
Nonce(i) ==
    LET n == FoundValue(i, TLVType.Nonce)
    IN  IF Len(n) # 4 THEN [ok |-> FALSE, val |-> <<>>]
        ELSE [ok |-> TRUE, val |-> [k \in 1..4 |-> n[5 - k]]]

\* The largest lifetime rInterest::lifetime() accepts: 1000*3600 ms.
MaxLifetime == 1000 * 3600

\* rInterest::lifetime(): the InterestLifetime block's number of ms, which
\* throws when it is 0 or more than an hour.
Lifetime(i) ==
    LET lt == ToNumber(FoundValue(i, TLVType.InterestLifetime))
    IN  IF lt = 0 \/ lt > MaxLifetime THEN [ok |-> FALSE, ms |-> 0]
        ELSE [ok |-> TRUE, ms |-> lt]

\* The blocks a Data holds, in the order rData::valid() reads them.
DataBlocks == <<TLVType.Name, TLVType.MetaInfo, TLVType.Content,
                TLVType.SignatureInfo, TLVType.SignatureValue>>

\* rData::valid(): nextBlk(Name) (whose rName::valid() result is not
\* used), nextBlk of MetaInfo, Content, SignatureInfo, SignatureValue,
\* then eof(); any read that throws or a block left over makes it invalid.
DataValid(d) ==
    LET bs == Blks(d)
    IN  /\ Len(bs) = Len(DataBlocks)
        /\ \A i \in 1..Len(DataBlocks) : bs[i].ok /\ bs[i].typ = DataBlocks[i]

\* rData::name(): the components of the Data's first block.
DataName(d) == FirstValue(d)

\* rData::contentType(): metainfo().findBlk(tlv::ContentType).toByte(), the
\* first byte of the ContentType in the Data's MetaInfo.
ContentType(d) == FoundValue(FoundValue(d, TLVType.MetaInfo), TLVType.ContentType)[1]

\* rData::content() and signature(): the Content and SignatureValue blocks.
Content(d) == FoundValue(d, TLVType.Content)
Signature(d) == FoundValue(d, TLVType.SignatureValue)

\* rData::sigInfo().data(): the SignatureInfo block from its type byte on.
SigInfoBytes(d) == BlkBytes(d, FindBlk(d, TLVType.SignatureInfo))

\* rData::sigType(): sigInfo().findBlk(tlv::SignatureType).toByte().
SigType(d) == FoundValue(FoundValue(d, TLVType.SignatureInfo), TLVType.SignatureType)[1]

\* rCert::validForm() of the Data d: its content type and the constant
\* pieces of its SignatureInfo (TLV's ValidForm).
CertValidForm(d, tpLen) == ValidForm(ContentType(d), SigInfoBytes(d), tpLen)

\* rData::thumbprint() on the value sv of the Data's SignatureInfo: the
\* KeyLocator block must start with the bytes kloc (a KeyLocator holding
\* a KeyDigest of a tpLen-byte thumbprint), and the thumbprint is the
\* tpLen bytes after them; ok is FALSE where it throws.
Thumbprint(sv, tpLen) ==
    LET k == FindBlk(sv, TLVType.KeyLocator)
    IN  IF SubSeq(sv, k.at, k.at + 3) = Si5(tpLen)
        THEN [ok |-> TRUE, tp |-> SubSeq(sv, k.at + 4, k.at + 3 + tpLen)]
        ELSE [ok |-> FALSE, tp |-> <<>>]
=============================================================================
