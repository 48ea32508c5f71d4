-------------------------- MODULE MC_CertValidity --------------------------
(***************************************************************************)
(* Checks the certificate time encoding over instants around the turns of *)
(* the years 2024/25 (2024-12-30 is a Monday: ISO week 1 of 2025) and     *)
(* 2026/27 (2027-01-01 is a Friday: ISO week 53 of 2026), and on ordinary *)
(* days whose month, day and hour need a leading zero or not.            *)
(***************************************************************************)
EXTENDS CertValidity

Date(y, m, d) == [y |-> y, m |-> m, d |-> d]

Dates ==
    {Date(2024, 12, d) : d \in 29..31} \cup {Date(2025, 1, d) : d \in 1..2}
    \cup {Date(2026, 12, d) : d \in 30..31} \cup {Date(2027, 1, d) : d \in 1..2}
    \cup {Date(2025, 6, 1), Date(2025, 9, 9), Date(2025, 10, 10)}

\* 09:00:00 and 12:34:56.
DaySeconds == {32400, 45296}

Instants == {[y |-> t.y, m |-> t.m, d |-> t.d, s |-> s] : t \in Dates, s \in DaySeconds}

VARIABLES notBefore, notAfter, now
vars == <<notBefore, notAfter, now>>

Init == notBefore \in Instants /\ notAfter \in Instants /\ now \in Instants

\* The clock reading moves (every combination is an initial state).
Next == \E c \in Instants : now' = c /\ UNCHANGED <<notBefore, notAfter>>

Spec == Init /\ [][Next]_vars

\* The fields the format writes, most significant first.
Fields(t) == <<ISOWeekYear(t), t.m, t.d, t.s \div 3600, (t.s % 3600) \div 60, t.s % 60>>

\* Lexicographic order of two tuples of numbers: -1, 0 or 1.
RECURSIVE TupleCmp(_, _)
TupleCmp(u, v) ==
    IF u = <<>> THEN 0
    ELSE IF Head(u) < Head(v) THEN -1
    ELSE IF Head(u) > Head(v) THEN 1
    ELSE TupleCmp(Tail(u), Tail(v))

\* The iso8601 comment: fixed-width, zero-padded fields make memcmp order
\* the order of the fields written, most significant first (year, month,
\* day, hour, minute, second), so the byte comparison of iso8601 and of
\* rCert::valid is exactly as good as the fields the format writes.
EncodingOrdersFields ==
    IsoCmp(Iso8601(notBefore), Iso8601(notAfter))
        = TupleCmp(Fields(notBefore), Fields(notAfter))

\* rCert::valid() ("check ... that it's within its validity period"), with
\* the period's ends written by the same iso8601 encoder: a certificate is
\* valid at `now` exactly when notBefore <= now <= notAfter in time.
CertValidInPeriod ==
    Valid(Iso8601(notBefore), Iso8601(notAfter), now)
        <=> Seconds(notBefore) <= Seconds(now) /\ Seconds(now) <= Seconds(notAfter)

\* rCert::validUntil() ("toTP" of the notAfter field) returns the time
\* point the field was written from, to the second.
ValidUntilRoundTrip == ValidUntil(Iso8601(notAfter)) = notAfter

\* The validity period a certificate is written with is the one rCert
\* honours: valid() holds exactly inside it, and validUntil(), which
\* callers compare with their own clock (makeSGKey's member sweep), is
\* its end.  A certificate near a turn of the year breaks either half.
PeriodHonoured == CertValidInPeriod /\ ValidUntilRoundTrip
=============================================================================
