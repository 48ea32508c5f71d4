---------------------------- MODULE CertValidity ----------------------------
(***************************************************************************)
(* Certificate validity periods (rpacket.hpp: struct iso8601 and the      *)
(* validity checks of struct rCert).                                      *)
(*                                                                         *)
(* A time point is encoded as the 15 ASCII bytes fmt::format writes for   *)
(* "{:%G%m%dT%H%M%S}" of its UTC calendar time, compared with memcmp, and *)
(* parsed back with date::from_stream("%Y%m%dT%H%M%S").  %G is the ISO    *)
(* 8601 week-based year: the year of the Thursday of the time point's    *)
(* Monday-to-Sunday week, which differs from the calendar year in the    *)
(* first and last days of some years.                                     *)
(*                                                                         *)
(* An instant is a record [y, m, d, s]: a proleptic Gregorian date and    *)
(* the seconds into that UTC day (microseconds are dropped by the format).*)
(***************************************************************************)
EXTENDS Integers, Sequences, ByteOrder

LOCAL INSTANCE SequencesExt

Instant == [y : Int, m : 1..12, d : 1..31, s : 0..86399]

\* Days from 1970-01-01 to the civil date y-m-d (the algorithm of
\* date::days_from_civil, which the date library and fmt use).
DaysFromCivil(y, m, d) ==
    LET yy  == IF m <= 2 THEN y - 1 ELSE y
        era == (IF yy >= 0 THEN yy ELSE yy - 399) \div 400
        yoe == yy - era * 400
        doy == (153 * (IF m > 2 THEN m - 3 ELSE m + 9) + 2) \div 5 + d - 1
        doe == yoe * 365 + yoe \div 4 - yoe \div 100 + doy
    IN  era * 146097 + doe - 719468

\* The instant as seconds since the epoch: chronological order.
Seconds(t) == DaysFromCivil(t.y, t.m, t.d) * 86400 + t.s

\* Day of the week, Monday = 0 (1970-01-01 was a Thursday).
Weekday(t) == (DaysFromCivil(t.y, t.m, t.d) + 3) % 7

\* %G: the calendar year of the Thursday of t's ISO week.
ISOWeekYear(t) ==
    LET thu == DaysFromCivil(t.y, t.m, t.d) + 3 - Weekday(t)
    IN  IF thu < DaysFromCivil(t.y, 1, 1) THEN t.y - 1
        ELSE IF thu >= DaysFromCivil(t.y + 1, 1, 1) THEN t.y + 1
        ELSE t.y

\* A number written in w decimal digits, zero padded, as ASCII bytes.
RECURSIVE Digits(_, _)
Digits(n, w) ==
    IF w = 0 THEN <<>> ELSE Digits(n \div 10, w - 1) \o <<48 + (n % 10)>>

\* The value of a string of ASCII decimal digits.
RECURSIVE Number(_)
Number(s) == IF s = <<>> THEN 0 ELSE 10 * Number(Front(s)) + (Last(s) - 48)

\* Mutant: the day is written before the month ("%G%d%m...").
Iso8601DayMonth(t) ==
    Digits(ISOWeekYear(t), 4) \o Digits(t.d, 2) \o Digits(t.m, 2) \o <<84>>
        \o Digits(t.s \div 3600, 2) \o Digits((t.s % 3600) \div 60, 2)
        \o Digits(t.s % 60, 2)

\* iso8601(tp): fmt::format("{:%G%m%dT%H%M%S}", fmt::gmtime(tp)), the
\* first 15 bytes copied into the array.
Iso8601(t) ==
    Digits(ISOWeekYear(t), 4) \o Digits(t.m, 2) \o Digits(t.d, 2) \o <<84>>
        \o Digits(t.s \div 3600, 2) \o Digits((t.s % 3600) \div 60, 2)
        \o Digits(t.s % 60, 2)

\* iso8601::toTP(): date::from_stream with "%Y%m%dT%H%M%S".
ToTP(b) ==
    [y |-> Number(SubSeq(b, 1, 4)), m |-> Number(SubSeq(b, 5, 6)),
     d |-> Number(SubSeq(b, 7, 8)),
     s |-> Number(SubSeq(b, 10, 11)) * 3600 + Number(SubSeq(b, 12, 13)) * 60
           + Number(SubSeq(b, 14, 15))]

\* iso8601::operator<=>: memcmp of the 15 bytes; -1, 0 or 1.
IsoCmp(a, b) == Memcmp(a, b, 15)

\* rCert::valid(): the cert's notBefore (sigInfo + 49) and notAfter
\* (sigInfo + 68) fields against iso8601(system_clock::now()): not valid
\* yet when now sorts before notBefore, expired when notAfter sorts before
\* now.  (validForm is the layout check of the TLV module.)
Valid(notBefore, notAfter, now) ==
    LET n == Iso8601(now)
    IN  /\ ~(Memcmp(n, notBefore, 15) < 0)
        /\ ~(Memcmp(notAfter, n, 15) < 0)

\* rCert::validAfter() and validUntil(): the period's ends as time points.
ValidAfter(notBefore) == ToTP(notBefore)
ValidUntil(notAfter) == ToTP(notAfter)
=============================================================================
