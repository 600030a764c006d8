----------------------------- MODULE MCFormats ------------------------------
(***************************************************************************)
(* The functions that take one text and make another, or a value, of it.   *)
(* A job is an input; what was printed for it is parsed:                   *)
(*   base32   bytes of every length modulo five, destinations of every     *)
(*            size, the text as it is or filled up with '='                *)
(*   base16   bytes and any text, destinations of every size               *)
(*   address  IPv6 and IPv4 addresses with a port                          *)
(*   cut      some of these, with a port or without, into a buffer that    *)
(*            may be too small                                             *)
(*   class    addresses at the limits of the classes of addresses          *)
(*   text     any text, as it is, read as an IPv6 address                  *)
(*   prefix   two addresses and the length of a prefix                     *)
(*   date     a text in one of four formats, as it is or with one edit     *)
(*   order    two dates                                                    *)
(*   path, join, url, split, line, find, prime, tiger                      *)
(*            inputs of the functions of Paths, Search and Tiger           *)
(***************************************************************************)
EXTENDS Codec, Dates, Paths, Search, Tiger

CONSTANTS
  Bytes,     \* byte values
  MaxLen,    \* bytes of an input
  Values,    \* 16-bit groups of an address
  Ports,
  MaxText,   \* characters of any text read as an address
  MaxPath,   \* characters of a path
  MaxLine,   \* characters of a file read by lines
  MaxData,   \* bytes that are searched, or searched for
  MaxPrime,
  MaxMessage \* bytes of a message that is hashed

ASSUME BytesAssumption == Bytes \subseteq Byte
ASSUME MaxLenAssumption == MaxLen \in Nat \ {0}

(* The last of the sieves that are modelled, of Min({n, 89}) * 2^Doublings *)
(* bits, has a byte for the next prime number.                             *)
IsPrime(n) == n > 1 /\ \A d \in 2..(n - 1) : n % d # 0
ASSUME PrimesAssumption == \A n \in 1..MaxPrime : \E p \in n..(512 * Min({n, 89})) : IsPrime(p)

VARIABLES job, text, back, pc

vars == <<job, text, back, pc>>

Base32Jobs ==
  [kind : {"base32"}, bytes : BoundedSeq(Bytes, MaxLen), size : 0..(2 * MaxLen),
   room : {0, 3, MaxLen - 1, MaxLen}, pads : {TRUE, FALSE}]

AddressJobs ==
  {[kind |-> "address", addr |-> a, port |-> p] :
     a \in [1..8 -> Values] \cup {<<0, 0, 0, 0, 0, 65535, g, h>> : g \in Values, h \in Values},
     p \in Ports}

CutJobs ==
  [kind : {"cut"}, size : 0..50, with : BOOLEAN, port : Ports,
   addr : {<<0, 0, 0, 0, 0, 65535, 2571, 65535>>, <<0, 0, 0, 0, 0, 65535, 65535, 65535>>,
           <<0, 0, 0, 0, 0, 0, 2571, 1>>, <<65535, 1, 0, 0, 2571, 0, 0, 0>>,
           <<65535, 65535, 65535, 65535, 65535, 65535, 65535, 65535>>}]

ClassAddresses ==
  {<<g, h, 0, 0, 0, 0, 0, 1>> : g \in {0, 255, 65151, 65152, 65215, 65216, 65279, 65280, 65535}, h \in {0, 65535}}
    \cup {<<0, 0, 0, 0, 0, 65535, a * 256 + b, c * 256 + 1>> :
            a \in {0, 1, 9, 10, 11, 126, 127, 128, 169, 172, 191, 192, 193, 223, 224, 240, 255},
            b \in {0, 1, 15, 16, 31, 32, 167, 168, 169, 253, 254, 255}, c \in {1, 2, 3}}

ClassJobs == [kind : {"class"}, addr : ClassAddresses]

WithIPv4 ==
  {a \o <<1, Dot, 2, 5, 5, Dot>> \o b \o <<Dot, 9>> \o c :
     a \in BoundedSeq({1, Colon}, 5), b \in {<<0>>, <<3, 0, 0>>, <<10>>}, c \in {<<>>, <<1>>, <<Colon>>}}

LongTexts ==
  {FlattenSeq(w) \o end :
     w \in [1..8 -> {<<1, Colon>>, <<Colon>>, <<2, Colon, Colon>>}], end \in {<<>>, <<15>>}}
    \cup {<<1, Colon, Colon>> \o [k \in 1..n |-> 0] \o <<15>> : n \in 1..5}

TextJobs ==
  [kind : {"text"}, chars : BoundedSeq({1, 15, Colon, Dot, Other}, MaxText) \cup WithIPv4 \cup LongTexts]

PrefixJobs ==
  [kind : {"prefix"}, a : {[k \in 1..16 |-> b] : b \in Bytes}, bit : 0..128, prefix : 0..129]

Base16Jobs ==
  [kind : {"base16"}, bytes : BoundedSeq(Bytes, 3), size : 0..6, room : 0..3, chars : {<<>>}]
    \cup [kind : {"base16"}, bytes : {<<>>}, size : {0}, room : 0..3,
            chars : BoundedSeq({1, 10, Nul, Bad}, 5)]

Tm(wday, mday, mon, year, hour, min, sec) ==
  [wday |-> wday, mday |-> mday, mon |-> mon, year |-> year, hour |-> hour, min |-> min, sec |-> sec]

Tms == {Tm(4, 1, 0, 70, 0, 0, 0), Tm(0, 6, 10, 94, 8, 49, 37), Tm(3, 31, 11, 169, 23, 59, 60),
        Tm(2, 29, 1, 100, 7, 0, 59), Tm(2, 29, 1, 100, 7, 1, 0), Tm(6, 1, 0, 0, 12, 0, 0)}

(* gmtime also makes dates of years that do not have four digits.          *)
WideTms == Tms \cup {Tm(5, 31, 11, 8099, 23, 59, 59), Tm(6, 1, 0, 8100, 0, 0, 0), Tm(1, 1, 0, -901, 0, 0, 0)}

(* A date in a format that has no printer of its own.                      *)
Rfc850Text(tm) ==
  <<Day(tm.wday), DayTail(tm.wday), Comma, Space>> \o TwoDigits(tm.mday) \o <<Hyphen, Month(tm.mon), Hyphen>>
    \o TwoDigits(tm.year % 100) \o <<Space>> \o Time(tm) \o <<Space, UTC>>

AsctimeText(tm) ==
  <<Day(tm.wday), Space, Month(tm.mon), Space>>
    \o (IF tm.mday < 10 THEN <<Space, tm.mday>> ELSE TwoDigits(tm.mday))
    \o <<Space>> \o Time(tm) \o <<Space>> \o Decimal[tm.year + 1900]

Written(format, tm) ==
  CASE format = "rfc1123" -> PrintRfc1123(tm) [] format = "rfc850" -> Rfc850Text(tm)
    [] format = "asctime" -> AsctimeText(tm) [] format = "iso8601" -> PrintIso8601(tm)

Edited(t) ==
  {t} \cup {RemoveAt(t, k) : k \in 1..Len(t)}
      \cup {InsertAt(t, k, c) : k \in 1..(Len(t) + 1), c \in {0, 7, Space, Colon, Hyphen, Month(4)}}

DateJobsOf(f, tm) == [kind : {"date"}, format : {f}, tm : {tm}, chars : Edited(Written(f, tm))]
DateJobs == UNION {DateJobsOf(f, tm) : f \in {"rfc1123", "rfc850", "asctime", "iso8601"}, tm \in Tms}

OrderJobs == [kind : {"order"}, a : WideTms, b : WideTms]

PathJobs ==
  [kind : {"path"}, path : BoundedSeq({Letter, Dot, Slash}, MaxPath), same : BOOLEAN]

JoinJobs ==
  [kind : {"join"}, path : BoundedSeq({Letter, Slash}, 3) \ {<<>>}, file : BoundedSeq({Letter, Slash}, 3)]

(* Characters of a URL, escaped or not, and what is none.                  *)
GoodUnits == {<<Letter>>, <<Plus>>, <<Percent, 2, 15>>, <<Percent, 0, 10>>}
BadUnits == {<<Illegal>>, <<Percent, 0, 0>>, <<Percent, 4, Letter>>, <<Percent>>}

(* The text of the first units.                                            *)
UnitsUpTo(units) ==
  LET chars[k \in 0..Len(units)] == IF k = 0 THEN <<>> ELSE chars[k - 1] \o units[k]
  IN  chars

UrlJobs == [kind : {"url"}, units : BoundedSeq(GoodUnits \cup BadUnits, 3), size : 0..4]

(* A URL by its parts, and what is in the memory behind it.                *)
SplitJobs ==
  {u \in [kind : {"split"}, http : {<<Http>>, <<Letter>>}, host : {<<>>, <<Letter>>, <<Letter, Dot, 1>>},
          colon : BOOLEAN, port : {<<>>, <<8, 0>>, <<0, 8>>, <<6, 5, 5, 3, 6>>, <<8, Letter>>},
          slashes : 0..2, rest : {<<>>, <<Letter, Slash, Slash>>, <<Colon, 8>>}, size : 0..4,
          behind : {<<Slash>>, <<Letter, Colon, 8, NUL>>}] :
     /\ u.colon \/ u.port = <<>>
     /\ u.slashes > 0 \/ u.rest = <<>>}

UrlText(u) ==
  u.http \o u.host \o (IF u.colon THEN <<Colon>> \o u.port ELSE <<>>)
    \o [k \in 1..u.slashes |-> Slash] \o u.rest

LineJobs == [kind : {"line"}, chars : BoundedSeq({Letter, Space, Newline}, MaxLine), size : 1..4]

(* A comparison may reach MaxData - 1 bytes behind the data.               *)
FindJobs ==
  [kind : {"find"}, data : BoundedSeq({1, 2}, MaxData), pattern : BoundedSeq({1, 2}, MaxData),
   behind : {b \in BoundedSeq({1, 2}, MaxData) : Len(b) = MaxData - 1}]

PrimeJobs == [kind : {"prime"}, n : 1..MaxPrime]

TigerJobs == [kind : {"tiger"}, length : 0..MaxMessage, layout : {"big", "aligned", "unaligned"}]

Jobs ==
  Base32Jobs \cup Base16Jobs \cup AddressJobs \cup CutJobs \cup ClassJobs \cup TextJobs
    \cup PrefixJobs \cup DateJobs \cup OrderJobs \cup PathJobs \cup JoinJobs \cup UrlJobs
    \cup SplitJobs \cup LineJobs \cup FindJobs \cup PrimeJobs \cup TigerJobs

Init ==
  /\ job \in Jobs
  /\ text = <<>> /\ back = <<>>
  /\ pc = "print"

(* base16_encode goes beyond the bytes that it was given when it takes     *)
(* more of them: zeros stand for what is there.                            *)
Base16Text(bytes, taken) == Base16Encode(SubSeq(bytes \o [k \in 1..taken |-> 0], 1, taken))

(* What is printed, or given to the function that parses it.               *)
TextOf ==
  CASE job.kind = "base32" -> Base32Encode(job.size, job.bytes)
    [] job.kind = "base16" -> Base16Text(job.bytes, Base16Taken(job.size, Len(job.bytes))) \o job.chars
    [] job.kind = "address" -> NetAddrPortToString(job.addr, job.port)
    [] job.kind = "cut" -> IF job.with THEN PrintNetAddrPort(job.addr, job.port, job.size)
                           ELSE PrintNetAddr(job.addr, job.size)
    [] job.kind \in {"text", "date", "line"} -> job.chars
    [] job.kind = "url" -> UnitsUpTo(job.units)[Len(job.units)]
    [] job.kind = "split" -> UrlText(job)
    [] OTHER -> <<>>

ToText ==
  /\ pc = "print"
  /\ text' = TextOf
  /\ pc' = "parse"
  /\ UNCHANGED <<job, back>>

(* One function is called.                                                 *)
Result(kind, value) ==
  /\ pc = "parse" /\ job.kind = kind
  /\ back' = value
  /\ pc' = "done"
  /\ UNCHANGED <<job, text>>

Filled(n) == text \o [k \in 1..n |-> Pad]

ParseBase32 ==
  Result("base32", Base32Decode(job.room, Filled(IF job.pads THEN (8 - (Len(text) % 8)) % 8 ELSE 0)))
ParseBase16 == Result("base16", Base16Decode(job.room, text))

AddressAndPort(net) ==
  [net |-> net, port |-> ParsePort(text, net.end + 1),
   sock |-> SockaddrToNetAddr(NetAddrSockaddr(job.addr, job.port))]
ParseAddress == Result("address", AddressAndPort(ParseNetAddr(text, 1)))
ParseText == Result("text", ParseIPv6(text, 1))

(* The other address differs in one bit, or in none.                       *)
Flipped(a, bit) ==
  [k \in 1..16 |->
     LET weight == 2^(7 - ((bit - 1) % 8))
     IN  IF bit = 0 \/ k # CeilDiv(bit, 8) THEN a[k]
         ELSE IF (a[k] \div weight) % 2 = 1 THEN a[k] - weight ELSE a[k] + weight]

Classify ==
  Result("class", [multicast |-> IsMulticast(BytesOf(job.addr)), link |-> IsLinkLocal(BytesOf(job.addr)),
                   site |-> IsSiteLocal(BytesOf(job.addr)), private |-> IsPrivate(job.addr)])

MatchPrefix == Result("prefix", Matches(job.a, Flipped(job.a, job.bit), job.prefix))

ReadDate == Result("date", ParseDate(text, job.format))
CompareDates == Result("order", TmCmp(job.a, job.b))
CanonizePath == Result("path", UriCanonizePath(job.path, job.same))
JoinPath == Result("join", CreatePathname(job.path, job.file))
DecodeUrl == Result("url", UrlDecode(job.size, text))
SplitUrl == Result("split", UrlSplit(text \o <<NUL>> \o job.behind, job.size))

(* Two lines are read one after the other.                                 *)
SecondLine(first) == <<first, TokenLine(job.size, first.rest)>>
ReadLines == Result("line", SecondLine(TokenLine(job.size, text)))

FindData == Result("find", Memmem(job.data \o job.behind, Len(job.data), job.pattern))
FindPrime == Result("prime", PrimeUp(job.n))
HashMessage == Result("tiger", TigerInput(job.length, job.layout))

Next ==
  \/ ToText
  \/ ParseBase32 \/ ParseBase16 \/ ParseAddress \/ ParseText \/ Classify \/ MatchPrefix
  \/ ReadDate \/ CompareDates \/ CanonizePath \/ JoinPath \/ DecodeUrl \/ SplitUrl \/ ReadLines
  \/ FindData \/ FindPrime \/ HashMessage

Spec == Init /\ [][Next]_vars

-----------------------------------------------------------------------------
Needed == CeilDiv(8 * Len(job.bytes), 5)

(* The text is the bits of the input, five or four to a character and      *)
(* filled up with zeros, in as few characters as hold them, as far as they *)
(* fit.  Exceptions: an empty input makes eight characters of zeros in     *)
(* base 32, a last group of two bytes is cut by one character too many;    *)
(* and base16_encode takes the size of a destination that is too small     *)
(* twice, not its half (base16.c:45).                                      *)
EncodesBits ==
  /\ job.kind = "base32" /\ pc = "parse" =>
       LET len == Len(job.bytes)
           expected == IF len = 0 THEN 8 ELSE IF len % 5 = 2 THEN Needed - 1 ELSE Needed
           bits == BitString(8, job.bytes) \o [k \in 1..40 |-> 0]
       IN  /\ Len(text) = Min({job.size, expected})
           /\ BitString(5, text) = SubSeq(bits, 1, 5 * Len(text))
  /\ job.kind = "base16" /\ pc = "parse" /\ job.bytes # <<>> =>
       LET len == Len(job.bytes)
       IN  IF job.size >= 2 * len THEN BitString(4, text) = BitString(8, job.bytes)
           ELSE /\ Len(text) = 4 * job.size
                /\ \A k \in 1..Min({2 * len, 4 * job.size}) :
                     text[k] = (job.bytes[CeilDiv(k, 2)] \div (IF k % 2 = 1 THEN 16 ELSE 1)) % 16

(* base32.c:76, "3 | 0 7 6 5 4 | 1-2": the character at index 3 carries    *)
(* bit 0 of the second byte.  An input that fits is encoded with all its   *)
(* bits.                                                                   *)
EveryBitEncoded ==
  job.kind = "base32" /\ pc = "parse" => (job.size >= Needed => Len(text) >= Needed)

(* What decoding gives back: the whole groups of five bytes, and the last  *)
(* bytes only if the text was filled up by one or three '='; never more    *)
(* than there is room for, and never a byte that was not encoded.  In base *)
(* 16, the bytes of which both digits came, as many as there is room for,  *)
(* or a failure for a character of these that is no digit.  Exceptions:    *)
(* the last digit of a text with an odd number of them is stored, behind   *)
(* the room if it is used up; and a NUL, which is no digit either, is not  *)
(* refused (base16.c:82 searches the NUL of the alphabet, too): nothing is *)
(* said of the bytes that are made of one, but the others are right.       *)
DecodesBack ==
  /\ job.kind = "base32" /\ pc = "done" =>
       LET len == Len(job.bytes)
           kept == Min({job.room, 5 * (len \div 5)})
       IN  len > 0 /\ Len(text) = Needed =>
             /\ Len(back.dst) <= job.room /\ back.ret = Len(back.dst)
             /\ \/ back.dst = SubSeq(job.bytes, 1, kept)
                \/ /\ len % 5 \in {3, 4}
                   /\ back.dst = SubSeq(job.bytes \o [k \in 1..4 |-> 0], 1,
                                        Min({job.room, 5 * CeilDiv(len, 5)}))
  /\ job.kind = "base16" /\ pc = "done" =>
       LET whole == Min({job.room, Len(text) \div 2})
           bad == \E k \in 1..(2 * whole) : text[k] = Bad
           half == Len(text) = 2 * whole + 1
       IN  IF bad \/ (half /\ Last(text) = Bad) THEN back.ret = -1 /\ Len(back.dst) <= whole + 1
           ELSE /\ back.ret = whole
                /\ Len(back.dst) = whole + (IF half THEN 1 ELSE 0)
                /\ \A k \in 1..whole :
                     Nul \notin {text[2 * k - 1], text[2 * k]} =>
                       text[2 * k - 1] = back.dst[k] \div 16 /\ text[2 * k] = back.dst[k] % 16

(* What an address is printed as, with a port and without.                 *)
Whole(addr, port) ==
  IF IsIPv4Mapped(addr) THEN IPv4Text(IPv4Part(addr)) \o <<Colon>> \o Decimal[port]
  ELSE <<Open>> \o Canonical(addr) \o <<Close, Colon>> \o Decimal[port]

WholeAddr(addr) == IF IsIPv4Mapped(addr) THEN IPv4Text(IPv4Part(addr)) ELSE Canonical(addr)

BeginningOf(whole, size) ==
  /\ Len(text) = Min({Len(whole), Max({size - 1, 0})})
  /\ text = SubSeq(whole, 1, Len(text))

(* nettools.c:302, "The zero compression is allowed exactly once.  Thus,   *)
(* determine the longest run of zeros first": the text of an address is    *)
(* the canonical one, whatever groups are zero, and with a port it is in   *)
(* brackets unless it is an IPv4 address.  Into a buffer that is too small *)
(* the beginning of the text is printed, as much as fits in front of a     *)
(* NUL, and nothing behind what was cut.  Exception: an IPv4 address       *)
(* without a port is printed only where every IPv4 address would fit.      *)
PrintsCanonically ==
  /\ job.kind = "address" /\ pc = "parse" =>
       /\ text = Whole(job.addr, job.port)
       /\ IPv6Text(job.addr) = Canonical(job.addr)
  /\ job.kind = "cut" /\ pc = "parse" =>
       IF job.with THEN BeginningOf(Whole(job.addr, job.port), job.size)
       ELSE IF IsIPv4Mapped(job.addr) /\ job.size < 16 THEN text = <<>>
       ELSE BeginningOf(WholeAddr(job.addr), job.size)

(* What may be wrong with a text that is taken for an IPv6 address all the *)
(* same.                                                                   *)
Tolerated == {"colon in front", "colon behind", "double colon for no group", "more than four digits",
              "number above 255"}

(* What was taken by the parser.                                           *)
Taken ==
  LET third == back.end > 1 /\ \A k \in -1..1 : At(text, back.end + k) = Colon
  IN  SubSeq(text, 1, IF third THEN back.end ELSE back.end - 1)

(* An address and a port that were printed are parsed back, with nothing   *)
(* left over, and those put into a socket address are taken from it again; *)
(* and the address that a text is taken for is what the text says, up to   *)
(* the place where parsing stopped.                                        *)
(* Exceptions: at a third colon in a row parsing steps back by one         *)
(* (nettools.c:832), into the double colon that it has taken.  And of what *)
(* nettools.c:808 promises, "returns false if ``s'' is not a valid IPv6    *)
(* address", only this holds, that nothing else is wrong with the text: a  *)
(* single colon at either end is skipped (nettools.c:828-838), a double    *)
(* colon may stand for no group, zeros in front of a group are not counted,*)
(* and a number above 255 in an IPv4 address is taken modulo 256           *)
(* (nettools.c:784).                                                       *)
ParsesWhatItSays ==
  /\ job.kind = "address" /\ pc = "done" =>
       /\ back.net.ok /\ back.net.addr = job.addr
       /\ back.port.ok /\ back.port.port = job.port /\ back.port.end = Len(text) + 1
       /\ back.sock = [addr |-> job.addr, port |-> job.port]
  /\ job.kind = "text" /\ pc = "done" =>
       (back.ok => Says(Taken, back.addr) /\ Flaws(Taken) \subseteq Tolerated)

(* Reference: the IPv4 addresses of private networks, by their first and   *)
(* last three bytes.                                                       *)
Number3(a, b, c) == (a * 256 + b) * 256 + c
PrivateIPv4 ==
  {<<Number3(0, 0, 0), Number3(0, 255, 255)>>, <<Number3(10, 0, 0), Number3(10, 255, 255)>>,
   <<Number3(127, 0, 0), Number3(127, 255, 255)>>, <<Number3(169, 254, 0), Number3(169, 254, 255)>>,
   <<Number3(172, 16, 0), Number3(172, 31, 255)>>, <<Number3(192, 0, 2), Number3(192, 0, 2)>>,
   <<Number3(192, 168, 0), Number3(192, 168, 255)>>}
IsIn(range, n) == range[1] <= n /\ n <= range[2]

(* The classes of an address by its first group or its IPv4 address.       *)
ClassesOf(addr, classes) ==
  LET ip == IPv4Part(addr)
  IN  /\ classes.multicast <=> addr[1] \in 65280..65535
      /\ classes.link <=> addr[1] \in 65152..65215
      /\ classes.site <=> addr[1] \in 65216..65279
      /\ classes.private <=>
           IF IsIPv4Mapped(addr) THEN \E range \in PrivateIPv4 : IsIn(range, Number3(ip[1], ip[2], ip[3]))
           ELSE addr[1] \in 65152..65279

(* Two addresses match in a prefix if and only if they do not differ in    *)
(* one of its bits.  The classes of addresses are the ranges of numbers    *)
(* that their prefixes stand for, and private are the local ones and those *)
(* of private networks.  Exception: the last test of ipv4_is_private, for  *)
(* 224.0.0.0 and above, compares two bits with three (net_addr.h:185), so  *)
(* that none of these is private.                                          *)
PrefixBits ==
  /\ job.kind = "prefix" /\ pc = "done" => back = (job.bit = 0 \/ job.bit > job.prefix)
  /\ job.kind = "class" /\ pc = "done" => ClassesOf(job.addr, back)

-----------------------------------------------------------------------------
(* The numbers of a text, in order, by the places where their digits begin. *)
Starts(t) == {k \in DOMAIN t : IsDigit(t[k]) /\ ~IsDigit(At(t, k - 1))}
Nth(set, n) == CHOOSE k \in set : Cardinality({i \in set : i <= k}) = n
NumberAt(t, k) == Digits(t, k, 10, Len(t))
NumberOf(t, n) == NumberAt(t, Nth(Starts(t), n)).value

(* What a reader takes a date to say, whatever the parser does.            *)
Says5(t, mday, hour, min, sec, year, tm) ==
  /\ NumberOf(t, mday) = tm.mday /\ NumberOf(t, hour) = tm.hour
  /\ NumberOf(t, min) = tm.min /\ NumberOf(t, sec) = tm.sec
  /\ \/ NumberOf(t, year) = tm.year + 1900
     \/ NumberOf(t, year) < 100 /\ tm.year \in 70..169 /\ NumberOf(t, year) = tm.year % 100

SaysDate(t, format, tm) ==
  /\ Cardinality(Starts(t)) = 5
  /\ IF format = "asctime" THEN Says5(t, 1, 2, 3, 4, 5, tm) ELSE Says5(t, 1, 3, 4, 5, 2, tm)
  /\ {c \in Range(t) : c \in 40..46} = {Day(tm.wday)}
  /\ {c \in Range(t) : c \in 60..71} = {Month(tm.mon)}

(* Dates and times of day exist, the leap second and the one that POSIX    *)
(* added included, and a number has at most one zero in front.             *)
Plausible(t, tm) ==
  /\ tm.mday \in 1..31 /\ tm.year \in 70..1100
  /\ tm.hour \in 0..23 /\ tm.min \in 0..59 /\ tm.sec \in 0..61
  /\ \A k \in Starts(t) : t[k] = 0 => NumberAt(t, k).len <= 2

Seconds(tm) == <<tm.year, ((((tm.mon * 31) + tm.mday) * 24 + tm.hour) * 60 + tm.min) * 62 + tm.sec>>
Before2(p, q) == p[1] < q[1] \/ (p[1] = q[1] /\ p[2] < q[2])
Sooner(s, t) ==
  \E k \in 1..Min({Len(s), Len(t)}) : s[k] < t[k] /\ \A i \in 1..(k - 1) : s[i] = t[i]

(* nettools.c:1302, "Parses a date as specified by RFC 1123", and so on:   *)
(* a date as it is written in a format is read back, to the end; and of    *)
(* any text that is accepted, the date is what the text says up to endptr. *)
(* Exception: parse_iso8601_date accepts nothing, not even what            *)
(* print_iso8601_date prints (nettools.c:1258).                            *)
(* tm_cmp orders dates as they follow each other, and as their printed     *)
(* ISO 8601 forms do while the year has four digits; just these years make *)
(* texts of the lengths that print_rfc1123_date and print_ncsa_date insist *)
(* on.                                                                     *)
DatesReadBack ==
  /\ job.kind = "date" /\ pc = "done" =>
       /\ job.format # "iso8601" /\ text = Written(job.format, job.tm) /\ job.tm.year >= 70 =>
            back = [ok |-> TRUE, at |-> Len(text) + 1, tm |-> job.tm]
       /\ back.ok => /\ Plausible(text, back.tm)
                     /\ SaysDate(SubSeq(text, 1, back.at - 1), job.format, back.tm)
       /\ job.format = "iso8601" => ~back.ok
  /\ job.kind = "order" /\ pc = "done" =>
       LET four(tm) == tm.year + 1900 \in 1000..9999
       IN  /\ back = 1 <=> Before2(Seconds(job.b), Seconds(job.a))
           /\ back = -1 <=> Before2(Seconds(job.a), Seconds(job.b))
           /\ four(job.a) /\ four(job.b) =>
                (back = -1 <=> Sooner(PrintIso8601(job.a), PrintIso8601(job.b)))
           /\ four(job.a) <=> BufLen(PrintRfc1123(job.a)) = RFC1123_DATE_BUFLEN
           /\ four(job.a) <=> BufLen(PrintNcsa(job.a)) = NCSA_DATE_BUFLEN

(* Reference: a path as what is in front of its first slash and the list   *)
(* of the components behind the slashes, of which `..' removes one.        *)
Slashes(path) == {k \in DOMAIN path : path[k] = Slash}
ComponentAt(path, k) ==
  SubSeq(path, k + 1, k + Cardinality({j \in (k + 1)..Len(path) : \A i \in (k + 1)..j : path[i] # Slash}))

(* The components so far, with one more.                                   *)
Resolved(st, c) ==
  IF ~st.ok \/ c \in {<<>>, <<Dot>>} THEN st
  ELSE IF c # <<Dot, Dot>> THEN [st EXCEPT !.list = Append(@, c)]
  ELSE IF st.list = <<>> THEN [st EXCEPT !.ok = FALSE]
  ELSE [st EXCEPT !.list = Front(@)]

(* Those behind the slashes among the first characters.                    *)
NormalUpTo(path) ==
  LET normal[k \in 0..Len(path)] ==
        IF k = 0 THEN [ok |-> TRUE, list |-> <<>>]
        ELSE IF path[k] # Slash THEN normal[k - 1] ELSE Resolved(normal[k - 1], ComponentAt(path, k))
  IN  normal
Normal(path) == NormalUpTo(path)[Len(path)]

RootedUpTo(list) ==
  LET chars[k \in 0..Len(list)] == IF k = 0 THEN <<>> ELSE chars[k - 1] \o <<Slash>> \o list[k]
  IN  chars
Rooted(list) == RootedUpTo(list)[Len(list)]
HeadOf(path) == IF Slashes(path) = {} THEN path ELSE SubSeq(path, 1, Min(Slashes(path)) - 1)

(* Does a path end with one of these components?                           *)
EndsWith(path, cs) == Slashes(path) # {} /\ ComponentAt(path, Max(Slashes(path))) \in cs

(* The text of a normal path; one that ended with a slash or a dot keeps   *)
(* its slash at the end.                                                   *)
NormalText(path, list) ==
  HeadOf(path) \o Rooted(list)
    \o (IF EndsWith(path, {<<>>, <<Dot>>}) THEN <<Slash>> ELSE <<>>)

PathMade(path, result) ==
  /\ result.ok <=> Normal(path).ok /\ ~EndsWith(path, {<<Dot, Dot>>})
  /\ result.ok => result.path = NormalText(path, Normal(path).list)

(* Several slashes in a row as one.                                        *)
SqueezedUpTo(path) ==
  LET chars[k \in 0..Len(path)] ==
        IF k = 0 THEN <<>>
        ELSE IF path[k] = Slash /\ At(path, k - 1) = Slash THEN chars[k - 1] ELSE Append(chars[k - 1], path[k])
  IN  chars
Squeezed(path) == SqueezedUpTo(path)[Len(path)]

(* nettools.c:1917, "Creates the canonical representation of a path": one  *)
(* slash between components, no dots, and `..' resolved, also when the     *)
(* path is overwritten by the result; a path that leaves its root is       *)
(* refused.  Exceptions: what is in front of the first slash is taken as   *)
(* it is, and a path that ends with `/..' is always refused.               *)
(* A path and a file name are joined by a slash, and the room that was     *)
(* allocated for them is enough.                                           *)
PathsCanonical ==
  /\ job.kind = "path" /\ pc = "done" => PathMade(job.path, back)
  /\ job.kind = "join" /\ pc = "done" =>
       /\ Squeezed(back) = Squeezed(job.path \o <<Slash>> \o job.file)
       /\ Len(back) + 1 <= 2 + Len(job.path) + Len(job.file)

(* What the characters in a URL stand for.                                 *)
CharOf(u) == IF u[1] = Percent THEN <<u[2], u[3]>> ELSE IF u = <<Plus>> THEN Space ELSE u[1]

UnitsTaken(units, size, result) ==
  LET n == Min({size - 1, Len(units)})
  IN  /\ result.ok <=> size > 0 /\ \A k \in 1..n : units[k] \in GoodUnits
      /\ result.ok => result.dst = [k \in 1..n |-> CharOf(units[k])]

(* The number that the first digits of a port are.                         *)
ValuesUpTo(port) ==
  LET value[k \in 0..Len(port)] == IF k = 0 THEN 0 ELSE value[k - 1] * 10 + port[k]
  IN  value

(* The port of a URL, and whether it is one.                               *)
PortOf(u) == IF u.colon THEN ValuesUpTo(u.port)[Len(u.port)] ELSE 80
IsPort(u) ==
  u.colon => /\ u.port # <<>> /\ u.port[1] # 0 /\ Range(u.port) \subseteq 0..9
             /\ PortOf(u) <= 65535

PartsTaken(u, url, result) ==
  IF RunsPast(url) THEN result.ok => result.path > Len(url) + 1
  ELSE /\ result.ok <=> /\ u.http = <<Http>> /\ u.host # <<>>
                        /\ u.size = 0 \/ Len(u.host) < u.size
                        /\ IsPort(u)
       /\ result.ok => /\ result.port = PortOf(u)
                       /\ result.host = IF u.size = 0 THEN <<>> ELSE u.host
                       /\ SubSeq(url, result.path, Len(url)) =
                            (IF u.slashes > 0 THEN <<Slash>> ELSE <<>>) \o u.rest

(* Decoding gives as many of the characters of a URL as fit, and refuses   *)
(* a URL if one of these is not one that may be in it; one that comes      *)
(* behind them is not looked at.  A URL is split where its parts were put  *)
(* together, the slashes in front of the path being one, and refused if    *)
(* the host is empty or does not fit, or the port is no port.  Exception:  *)
(* if neither a colon nor a slash is behind the host, the end is passed,   *)
(* and a path is looked for in what is there (nettools.c:1843).            *)
UrlTaken ==
  /\ job.kind = "url" /\ pc = "done" => UnitsTaken(job.units, job.size, back)
  /\ job.kind = "split" /\ pc = "done" => PartsTaken(job, text, back)

(* Reference: the words in the first characters of a line, with a NUL for  *)
(* the space behind each word.                                             *)
WordsUpTo(line) ==
  LET words[k \in 0..Len(line)] ==
        IF k = 0 THEN <<>>
        ELSE IF ~IsSpace(line[k]) THEN Append(words[k - 1], line[k])
        ELSE IF k > 1 /\ ~IsSpace(line[k - 1]) THEN Append(words[k - 1], NUL)
        ELSE words[k - 1]
  IN  words
Words(line) == WordsUpTo(line)[Len(line)]

(* Where words begin in a buffer.                                          *)
Begun(buf) == {k \in DOMAIN buf : buf[k] # NUL /\ (k = 1 \/ buf[k - 1] = NUL)}

FirstLine(file) == SubSeq(file, 1, Cardinality({k \in DOMAIN file : \A i \in 1..k : file[i] # Newline}))

Tokenized(size, line, result) ==
  LET kept == SubSeq(Words(line), 1, Min({size, Len(Words(line))}))
  IN  /\ result.buf = Append(kept, NUL)
      /\ result.count = Cardinality(Begun(kept))

(* Each call takes one line of the file, and all of it; what it leaves are *)
(* the words of the line, one string each, as far as they fit, and the     *)
(* count is that of the strings.  A file that is at its end is reported.   *)
(* Exception: the last NUL is stored behind a buffer that is full          *)
(* (nettools.c:2057).                                                      *)
LinesTokenized ==
  job.kind = "line" /\ pc = "done" =>
    LET line == FirstLine(text)
    IN  /\ back[1].count = -1 <=> text = <<>>
        /\ text # <<>> => Tokenized(job.size, line, back[1])
        /\ back[1].rest = SubSeq(text, Len(line) + 2, Len(text))
        /\ back[2].count = -1 <=> back[1].rest = <<>>
        /\ back[1].rest # <<>> => Tokenized(job.size, FirstLine(back[1].rest), back[2])

(* A pattern that is in the data is found where it is first; one that is   *)
(* not, is not.  Exception: bytes behind the data are compared too, when   *)
(* the data ends with a part of the pattern (compat.c:708).                *)
(* The prime number that is found is the next one, whatever the sieves     *)
(* before the last one left marked.  Exception: prime_up(0), which doubles *)
(* a bound of zero forever (nettools.c:2208), is not among the jobs.       *)
Finds ==
  /\ job.kind = "find" /\ pc = "done" =>
       LET len == Len(job.pattern)
           memory == job.data \o job.behind
           inside == {p \in 1..(Len(job.data) - len + 1) : SubSeq(job.data, p, p + len - 1) = job.pattern}
       IN  IF len = 0 THEN back = 1
           ELSE IF inside # {} THEN back = Min(inside)
           ELSE back = 0 \/ (back \in 1..Len(job.data) /\ SubSeq(memory, back, back + len - 1) = job.pattern)
  /\ job.kind = "prime" /\ pc = "done" =>
       back >= job.n /\ IsPrime(back) /\ \A k \in job.n..(back - 1) : ~IsPrime(k)

(* The compression sees the padded message and nothing else, in every      *)
(* layout: no byte of an earlier block and none that was never set.        *)
SeesPadded ==
  job.kind = "tiger" /\ pc = "done" => back = Padded(job.length)
=============================================================================
