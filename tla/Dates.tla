------------------------------- MODULE Dates --------------------------------
(***************************************************************************)
(* The dates of lib/nettools.c: three printers, four parsers and tm_cmp.   *)
(*                                                                         *)
(* A date is a record with the members of struct tm; gmtime, which makes   *)
(* one of a time_t, is not modelled.  A parser is a sequence of steps, one *)
(* per check of the code; a step moves `at' over what it accepts and       *)
(* stores a member, or ends the parser with ok = FALSE.                    *)
(***************************************************************************)
EXTENDS Text

RFC1123_DATE_BUFLEN == 30
NCSA_DATE_BUFLEN == 27

TwoDigits(n) == <<n \div 10, n % 10>>
Time(tm) == TwoDigits(tm.hour) \o <<Colon>> \o TwoDigits(tm.min) \o <<Colon>> \o TwoDigits(tm.sec)

(* The printers, for a destination that is large enough.                   *)
PrintIso8601(tm) ==
  Decimal[tm.year + 1900] \o <<Hyphen>> \o TwoDigits(tm.mon + 1) \o <<Hyphen>>
    \o TwoDigits(tm.mday) \o <<T>> \o Time(tm)

PrintRfc1123(tm) ==
  <<Day(tm.wday), Comma, Space>> \o TwoDigits(tm.mday) \o <<Space, Month(tm.mon), Space>>
    \o Decimal[tm.year + 1900] \o <<Space>> \o Time(tm) \o <<Space, GMT>>

PrintNcsa(tm) ==
  TwoDigits(tm.mday) \o <<Slash, Month(tm.mon), Slash>> \o Decimal[tm.year + 1900] \o <<Colon>>
    \o Time(tm) \o <<Space, Plus, 0, 0, 0, 0>>

(* The bytes of a text and its NUL.                                        *)
BufLen(text) == FoldLeft(LAMBDA n, c : n + Width(c), 1, text)

-----------------------------------------------------------------------------
(* Steps of the parsers: a single character, a character that is not       *)
(* passed, a name, a number for which zeros in front are looked at, and    *)
(* one for which they are not.  `as' says what the number means.           *)
Spaces == [do |-> "spaces"]
Char(c) == [do |-> "char", set |-> {c}]
Zone(set) == [do |-> "char", set |-> set]
Before(c) == [do |-> "before", char |-> c]
Name(member, table) == [do |-> "name", member |-> member, table |-> table]
Number(member, range, as) == [do |-> "number", member |-> member, range |-> range, as |-> as]
Uint16(member, range, as) == [do |-> "uint16", member |-> member, range |-> range, as |-> as]

ShortDays == [i \in 1..7 |-> <<Day(i - 1)>>]
LongDays == [i \in 1..7 |-> <<Day(i - 1), DayTail(i - 1)>>]
Months == [i \in 1..12 |-> <<Month(i - 1)>>]

(* parse_time.                                                             *)
ParseTime ==
  <<Number("hour", 0..23, "is"), Char(Colon), Number("min", 0..59, "is"), Char(Colon),
    Number("sec", 0..61, "is")>>

Rfc1123 ==
  <<Spaces, Name("wday", ShortDays), Char(Comma), Spaces, Number("mday", 1..31, "is"), Spaces,
    Name("mon", Months), Spaces, Number("year", 1970..3000, "year"), Spaces>>
  \o ParseTime \o <<Spaces, Zone({GMT})>>

Rfc850 ==
  <<Spaces, Name("wday", LongDays), Char(Comma), Spaces, Number("mday", 1..31, "is"), Char(Hyphen),
    Name("mon", Months), Char(Hyphen), Number("year", (0..99) \cup (1970..3000), "short year"), Spaces>>
  \o ParseTime \o <<Spaces, Zone({GMT, UTC})>>

Asctime ==
  <<Spaces, Name("wday", ShortDays), Spaces, Name("mon", Months), Spaces, Number("mday", 1..31, "is"),
    Spaces>> \o ParseTime \o <<Spaces, Number("year", 1970..3000, "year")>>

(* parse_iso8601_date up to the day.  The hyphens are looked at, but not   *)
(* passed, so that the number of the month begins at one.                  *)
Iso8601Date ==
  <<Spaces, Uint16("year", 1900..3000, "year"), Before(Hyphen), Uint16("mon", 1..12, "is"),
    Before(Hyphen), Uint16("mday", 1..31, "is")>>

Failed(st) == [st EXCEPT !.ok = FALSE]
Stored(st, member, value, at) == [st EXCEPT !.tm[member] = value, !.at = at]

(* skip_prefix with each of the names.                                     *)
TakeName(text, st, s) ==
  LET found == {i \in DOMAIN s.table : \A j \in DOMAIN s.table[i] : At(text, st.at + j - 1) = s.table[i][j]}
  IN  IF found = {} THEN Failed(st)
      ELSE Stored(st, s.member, Min(found) - 1, st.at + Len(s.table[Min(found)]))

(* Mutant: any number of zeros in front is allowed.                        *)
AnyZeros(text, k) == FALSE

(* A zero with two digits behind it.                                       *)
ZerosInFront(text, k) == At(text, k) = 0 /\ IsDigit(At(text, k + 1)) /\ IsDigit(At(text, k + 2))

(* A year of two digits of RFC 850.                                        *)
Century(u) == IF u < 70 THEN u + 2000 ELSE IF u < 100 THEN u + 1900 ELSE u

Meaning(u, as) ==
  CASE as = "is" -> u [] as = "year" -> u - 1900 [] as = "short year" -> Century(u) - 1900

(* A number with the tests around it, d being its digits.  What does not   *)
(* fit the type of the parser is in no range either.                       *)
TakeNumber(text, st, s, d) ==
  IF d.len = 0 \/ d.value \notin s.range \/ (s.do = "number" /\ ZerosInFront(text, st.at))
    THEN Failed(st)
  ELSE Stored(st, s.member, Meaning(d.value, s.as), st.at + d.len)

Take(text, st, s) ==
  CASE s.do = "spaces" -> [st EXCEPT !.at = BehindSpaces(text, @)]
    [] s.do = "char" -> IF At(text, st.at) \in s.set THEN [st EXCEPT !.at = @ + 1] ELSE Failed(st)
    [] s.do = "before" -> IF At(text, st.at) = s.char THEN st ELSE Failed(st)
    [] s.do = "name" -> TakeName(text, st, s)
    [] s.do \in {"number", "uint16"} -> TakeNumber(text, st, s, Digits(text, st.at, 10, Len(text)))

Steps(text, start, steps) ==
  FoldLeft(LAMBDA st, s : IF st.ok THEN Take(text, st, s) ELSE st, start, steps)

ZeroTm == [sec |-> 0, min |-> 0, hour |-> 0, mday |-> 0, mon |-> 0, year |-> 0, wday |-> 0]
Parse(text, steps) == Steps(text, [ok |-> TRUE, at |-> 1, tm |-> ZeroTm], steps)

(* The time and the zone, if there are any.                                *)
SkipZ(text, st) == IF st.ok /\ At(text, st.at) = Z THEN [st EXCEPT !.at = @ + 1] ELSE st

Iso8601Tail(text, st) ==
  IF At(text, st.at) = T \/ (At(text, st.at) = Space /\ IsDigit(At(text, st.at + 1)))
    THEN SkipZ(text, Steps(text, [st EXCEPT !.at = @ + 1], ParseTime))
  ELSE IF st.at <= Len(text) THEN Failed(st)
  ELSE st

ParseIso8601(text) ==
  LET date == Parse(text, Iso8601Date) IN IF date.ok THEN Iso8601Tail(text, date) ELSE date

(* What a parser leaves at endptr is `at' on success.                      *)
ParseDate(text, format) ==
  CASE format = "rfc1123" -> Parse(text, Rfc1123)
    [] format = "rfc850" -> Parse(text, Rfc850)
    [] format = "asctime" -> Parse(text, Asctime)
    [] format = "iso8601" -> ParseIso8601(text)

-----------------------------------------------------------------------------
SignCmp(a, b) == IF a > b THEN 1 ELSE IF a < b THEN -1 ELSE 0

TmCmp(a, b) ==
  LET cmp(s, member) == IF s = 0 THEN SignCmp(a[member], b[member]) ELSE s
  IN  FoldLeft(cmp, 0, <<"year", "mon", "mday", "hour", "min", "sec">>)
=============================================================================
