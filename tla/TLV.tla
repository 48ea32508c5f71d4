-------------------------------- MODULE TLV --------------------------------
(***************************************************************************)
(* Compile-time TLV construction (tlv.hpp) and the fixed-layout check of *)
(* a DCT certificate's SignatureInfo (rpacket.hpp, rCert::validForm).     *)
(*                                                                         *)
(* A TLV is a byte sequence: the type, the length and the value.  Types  *)
(* and lengths below 253 take one byte; the code writes larger ones as   *)
(* 253 followed by two big-endian bytes.  uint8_t(x) keeps x % 256.      *)
(***************************************************************************)
EXTENDS Integers, Sequences

LOCAL INSTANCE SequencesExt

\* enum class tlv: the type numbers the code names.
TLVType == [Name |-> 7, Generic |-> 8, ImplicitSha256Digest |-> 1,
            ParametersSha256Digest |-> 2, Keyword |-> 32, Segment |-> 33,
            ByteOffset |-> 34, Version |-> 35, Timestamp |-> 36,
            SequenceNum |-> 37, Interest |-> 5, Nonce |-> 10,
            InterestLifetime |-> 12, CanBePrefix |-> 33, MustBeFresh |-> 18,
            Data |-> 6, MetaInfo |-> 20, ContentType |-> 24,
            FreshnessPeriod |-> 25, Content |-> 21, SignatureInfo |-> 22,
            SignatureType |-> 27, KeyLocator |-> 28, KeyDigest |-> 29,
            ValidityPeriod |-> 253, NotBefore |-> 254, NotAfter |-> 255,
            SignatureValue |-> 23]

ContentTypeKey == 2

Byte(x) == x % 256

\* tlvFlatten(args...): the arrays one after the other.
TlvFlatten(args) == FlattenSeq(args)

\* Mutant: a length of exactly 253 is taken to fit in one byte.
HdrSizeOffByOne(typ, siz) ==
    (IF typ <= 253 THEN 1 ELSE 3) + (IF siz <= 253 THEN 1 ELSE 3)

\* TLVhdr's array size n, a template default argument.
HdrSize(typ, siz) == (IF typ < 253 THEN 1 ELSE 3) + (IF siz < 253 THEN 1 ELSE 3)

\* TLVhdr<typ, siz>(): the bytes it writes into that array.
TLVhdr(typ, siz) ==
    (IF typ >= 253 THEN <<253, Byte(typ \div 256)>> ELSE <<>>) \o <<Byte(typ)>>
    \o (IF siz >= 253 THEN <<253, Byte(siz \div 256)>> ELSE <<>>) \o <<Byte(siz)>>

\* TLVhdr is consteval: it builds only when the bytes written
\* fill the array exactly (a write past the end or a byte left
\* uninitialised is not a constant expression).
HdrCompiles(typ, siz) == HdrSize(typ, siz) = Len(TLVhdr(typ, siz))

\* TLV<typ>(std::array arg): tlvFlatten(TLVhdr<typ, S>(), arg).
TLV(typ, arg) == TlvFlatten(<<TLVhdr(typ, Len(arg)), arg>>)

\* TLV<typ>(uint8_t arg): { uint8_t(typ), 1, arg }.
TLVByte(typ, b) == <<Byte(typ), 1, b>>

\* xTLV<typ>(args...): { uint8_t(typ), s, args... }; s (the number of
\* one-byte args) must fit a uint8_t or the braced list does not compile.
XTLV(typ, args) == <<Byte(typ), Len(args)>> \o args

\* rCert::validForm's constant pieces of a SignatureInfo of a DCT cert
\* (thumbprints of tpLen bytes), at offsets 0, 5, 41 and 64.
Si0 == <<22, 81, 27, 1>>
Si5(tpLen) == <<28, tpLen + 2, 29, tpLen>>
Si41 == <<253, 0, 253, 38, 253, 0, 254, 15>>
Si64 == <<253, 0, 255, 15>>

\* The bytes at offset off (0-based) of si compare equal to piece c.
At(si, off, c) == Len(si) >= off + Len(c) /\ SubSeq(si, off + 1, off + Len(c)) = c

\* rCert::validForm(): content type Key and the four pieces in place.
ValidForm(contentType, si, tpLen) ==
    /\ contentType = ContentTypeKey
    /\ At(si, 0, Si0) /\ At(si, 5, Si5(tpLen))
    /\ At(si, 41, Si41) /\ At(si, 64, Si64)

\* rCert::validAfter / validUntil read the 15 bytes at offsets 49 and 68.
NotBeforeField(si) == SubSeq(si, 50, 64)
\* Mutant: the notAfter offset is one short (67).
NotAfterFieldOffByOne(si) == SubSeq(si, 68, 82)
NotAfterField(si) == SubSeq(si, 69, 83)
=============================================================================
