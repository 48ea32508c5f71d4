-------------------------------- MODULE MC_TLV --------------------------------
(***************************************************************************)
(* Checks the TLV constructors against a reference decoder of the NDN     *)
(* packet format (0.3): a TLV-TYPE or TLV-LENGTH is a VAR-NUMBER, one    *)
(* byte below 253, else 253, 254 or 255 followed by 2, 4 or 8 big-endian *)
(* bytes.  Types are those of enum class tlv, sizes those at the         *)
(* one-byte / three-byte boundary and the largest three-byte one.        *)
(***************************************************************************)
EXTENDS RPacket

LOCAL INSTANCE SequencesExt

TypeNums == {TLVType[f] : f \in DOMAIN TLVType}

Sizes == {0, 1, 252, 253, 254, 255, 256, 65535}

\* Content bytes: ordinary values and the VAR-NUMBER markers.
Fill == {0, 253, 255}

VARIABLES typ, siz, fill
vars == <<typ, siz, fill>>

Init == typ \in TypeNums /\ siz \in Sizes /\ fill \in Fill

\* Pick the next size to encode (every combination is an initial state).
Next == \E z \in Sizes : siz' = z /\ UNCHANGED <<typ, fill>>

Spec == Init /\ [][Next]_vars

\* Reference: the value of big-endian bytes.
RECURSIVE BigEndian(_)
BigEndian(s) == IF s = <<>> THEN 0 ELSE 256 * BigEndian(Front(s)) + Last(s)

\* Reference: the VAR-NUMBER at position i of b, with its length in bytes,
\* or a malformed result when b ends before it does.
VarNumber(b, i) ==
    IF i > Len(b) THEN [ok |-> FALSE, val |-> 0, len |-> 0]
    ELSE LET f == b[i]
             n == CASE f < 253 -> 0 [] f = 253 -> 2 [] f = 254 -> 4 [] OTHER -> 8
         IN  IF n = 0 THEN [ok |-> TRUE, val |-> f, len |-> 1]
             ELSE IF i + n > Len(b) THEN [ok |-> FALSE, val |-> 0, len |-> 0]
             ELSE [ok |-> TRUE, val |-> BigEndian(SubSeq(b, i + 1, i + n)), len |-> n + 1]

\* Reference: the TLV at the start of b, or a malformed result.
Decode(b) ==
    LET t == VarNumber(b, 1)
        l == VarNumber(b, 1 + t.len)
    IN  IF t.ok /\ l.ok /\ Len(b) >= t.len + l.len + l.val
        THEN [ok |-> TRUE, typ |-> t.val,
              value |-> SubSeq(b, t.len + l.len + 1, t.len + l.len + l.val)]
        ELSE [ok |-> FALSE, typ |-> 0, value |-> <<>>]

\* The SignatureInfo of a DCT certificate, built with the code's TLV
\* constructors: signature type, KeyLocator holding a KeyDigest of a
\* 32-byte thumbprint, and a ValidityPeriod of two 15-byte time stamps.
TPLen == 32
SigInfo(st, tp, nb, na) ==
    TLV(TLVType.SignatureInfo,
        TLVByte(TLVType.SignatureType, st)
        \o TLV(TLVType.KeyLocator, TLV(TLVType.KeyDigest, tp))
        \o TLV(TLVType.ValidityPeriod,
               TLV(TLVType.NotBefore, nb) \o TLV(TLVType.NotAfter, na)))

\* TLVhdr<typ, siz>() builds for every type of enum class tlv and every
\* length that fits its two-byte form, and a decoder reads back exactly
\* that type and length: the array size computed in the template argument
\* and the bytes the body writes agree at the 253 boundary of both fields.
HeaderDecodes ==
    /\ HdrCompiles(typ, siz)
    /\ LET h == TLVhdr(typ, siz)
           t == VarNumber(h, 1)
           l == VarNumber(h, 1 + t.len)
       IN  t.ok /\ l.ok /\ t.val = typ /\ l.val = siz /\ t.len + l.len = Len(h)

\* A DCT certificate (the value of its Data TLV) of content type ct: a name,
\* a MetaInfo holding the content type, the public key as content, the
\* SignatureInfo si and a signature.
Cert(ct, si) ==
    TLV(TLVType.Name, TLV(TLVType.Generic, <<fill>>))
    \o TLV(TLVType.MetaInfo, TLVByte(TLVType.ContentType, ct))
    \o TLV(TLVType.Content, <<fill, fill>>) \o si
    \o TLV(TLVType.SignatureValue, <<(fill + 1) % 256>>)

\* A certificate built with the TLV constructors is a valid rData whose
\* accessors (contentType, content, sigInfo, sigType, signature) find its
\* blocks, and rCert::validForm, validAfter / validUntil and thumbprint
\* agree with the encoding: validForm holds exactly for content type Key,
\* the SignatureInfo's constant pieces sit at the offsets it tests
\* whatever bytes the thumbprint and time stamps hold, the time stamps are
\* the 15 bytes at offsets 49 and 68, and thumbprint() finds the
\* thumbprint through its KeyLocator test.
CertLayout ==
    LET tp == [i \in 1..TPLen |-> fill]
        nb == [i \in 1..15 |-> fill]
        na == [i \in 1..15 |-> (fill + 1) % 256]
        si == SigInfo(fill, tp, nb, na)
        cert == Cert(ContentTypeKey, si)
    IN  /\ DataValid(cert)
        /\ ContentType(cert) = ContentTypeKey /\ SigType(cert) = fill
        /\ Content(cert) = <<fill, fill>> /\ Signature(cert) = <<(fill + 1) % 256>>
        /\ SigInfoBytes(cert) = si
        /\ CertValidForm(cert, TPLen)
        /\ ~CertValidForm(Cert(0, si), TPLen)
        /\ NotBeforeField(SigInfoBytes(cert)) = nb
        /\ NotAfterField(SigInfoBytes(cert)) = na
        /\ Thumbprint(FoundValue(cert, TLVType.SignatureInfo), TPLen) = [ok |-> TRUE, tp |-> tp]

\* TLV<typ>(uint8_t) ("construct one tlv of type 'typ'") and xTLV<typ>
\* ("wrap 'args' in a tlv of type 'typ'") make a TLV that decodes to type
\* typ and its content, for every type of enum class tlv.
ByteFormsDecode ==
    /\ Decode(TLVByte(typ, fill)) = [ok |-> TRUE, typ |-> typ, value |-> <<fill>>]
    /\ Decode(XTLV(typ, <<fill, fill>>)) = [ok |-> TRUE, typ |-> typ, value |-> <<fill, fill>>]
=============================================================================
