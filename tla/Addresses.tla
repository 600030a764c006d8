----------------------------- MODULE Addresses ------------------------------
(***************************************************************************)
(* IPv4 and IPv6 addresses in lib/nettools.c and lib/net_addr.h: printing, *)
(* parsing and the comparison of prefixes.                                 *)
(*                                                                         *)
(* An address is the sequence of its eight 16-bit groups, or of its        *)
(* sixteen bytes where these are compared, an IPv4 address the sequence of *)
(* its four bytes.                                                         *)
(***************************************************************************)
EXTENDS Text

-----------------------------------------------------------------------------
(* print_uint16_hex and the numbers print_ipv4_addr prints: no zeros in    *)
(* front, but at least one digit.                                          *)
HexDigits(v) ==
  IF v < 16 THEN <<v>>
  ELSE IF v < 256 THEN <<v \div 16, v % 16>>
  ELSE IF v < 4096 THEN <<v \div 256, (v \div 16) % 16, v % 16>>
  ELSE <<v \div 4096, (v \div 256) % 16, (v \div 16) % 16, v % 16>>

DecDigits(v) ==
  IF v < 10 THEN <<v>>
  ELSE IF v < 100 THEN <<v \div 10, v % 10>>
  ELSE <<v \div 100, (v \div 10) % 10, v % 10>>

IPv4Text(ip) ==
  DecDigits(ip[1]) \o <<Dot>> \o DecDigits(ip[2]) \o <<Dot>> \o
  DecDigits(ip[3]) \o <<Dot>> \o DecDigits(ip[4])

IPV4_ADDR_BUFLEN == 16
NET_ADDR_BUFLEN == 46

(* Nothing is printed into a buffer that not every address fits in.        *)
PrintIPv4(ip, size) == IF size < IPV4_ADDR_BUFLEN THEN <<>> ELSE IPv4Text(ip)

(* The last two groups as an IPv4 address, and back.                       *)
IPv4Part(addr) == <<addr[7] \div 256, addr[7] % 256, addr[8] \div 256, addr[8] % 256>>
Groups(ip) == <<ip[1] * 256 + ip[2], ip[3] * 256 + ip[4]>>

(* Mutant: the last run of zeros wins, not the first of the longest.       *)
LastZeroRun(addr) ==
  LET step(st, i) ==
        LET cur == IF addr[i] = 0 THEN st.cur + 1 ELSE st.cur
        IN  IF addr[i] = 0 /\ i < 8 THEN [st EXCEPT !.cur = cur]
            ELSE [cur |-> 0, start |-> i + 1,
                  run |-> IF cur > 1 THEN [at |-> st.start, len |-> cur] ELSE st.run]
  IN  FoldLeft(step, [cur |-> 0, start |-> 1, run |-> [at |-> 0, len |-> 1]],
               [i \in 1..8 |-> i]).run

(* The first loop of print_ipv6_addr: the run of zero groups to be left    *)
(* out; at = 0 if there is none longer than one.                           *)
ZeroRun(addr) ==
  LET step(st, i) ==
        LET cur == IF addr[i] = 0 THEN st.cur + 1 ELSE st.cur
        IN  IF addr[i] = 0 /\ i < 8 THEN [st EXCEPT !.cur = cur]
            ELSE [cur |-> 0, start |-> i + 1,
                  run |-> IF cur > st.run.len THEN [at |-> st.start, len |-> cur] ELSE st.run]
  IN  FoldLeft(step, [cur |-> 0, start |-> 1, run |-> [at |-> 0, len |-> 1]],
               [i \in 1..8 |-> i]).run

(* The second loop of print_ipv6_addr, into a buffer that is large enough. *)
(* i counts the groups printed or left out; v is the group the turn of the *)
(* loop began with.                                                        *)
PrintedWithout(addr, zero) ==
  LET step(st, turn) ==
        IF st.i >= 8 THEN st
        ELSE LET v == addr[st.i + 1]
                 jump == st.i + 1 = zero.at
                 i == st.i + (IF jump THEN zero.len ELSE 1)
                 text == IF jump THEN st.text \o <<Colon, Colon>>
                         ELSE st.text \o HexDigits(v) \o
                              (IF i < 8 /\ i + 1 # zero.at THEN <<Colon>> ELSE <<>>)
             IN  IF i = 6 /\ ((v = 65535 /\ zero.len = 5) \/ (v = 0 /\ zero.len = 6))
                   THEN [i |-> 8, text |-> text \o IPv4Text(IPv4Part(addr))]
                   ELSE [i |-> i, text |-> text]
  IN  FoldLeft(step, [i |-> 0, text |-> <<>>], [k \in 1..8 |-> k]).text

IPv6Text(addr) == PrintedWithout(addr, ZeroRun(addr))

(* The text is made in a buffer of its own, if need be, and then copied as *)
(* far as it and a NUL fit.                                                *)
Cut(text, size) == SubSeq(text, 1, Min({size - 1, Len(text)}))
PrintIPv6(addr, size) == IF size = 0 THEN <<>> ELSE Cut(IPv6Text(addr), size)

IsIPv4Mapped(addr) == SubSeq(addr, 1, 6) = <<0, 0, 0, 0, 0, 65535>>

PrintNetAddr(addr, size) ==
  IF IsIPv4Mapped(addr) THEN PrintIPv4(IPv4Part(addr), size) ELSE PrintIPv6(addr, size)

(* append_string and append_uint, on the text so far and what is left of   *)
(* the buffer: nothing is left behind a string that was cut.               *)
AppendString(st, string) ==
  IF st.left = 0 THEN st
  ELSE [text |-> st.text \o Cut(string, st.left),
        left |-> IF Len(string) < st.left THEN st.left - Len(string) ELSE 0]

AppendUint(st, v) == IF st.left = 0 THEN st.text ELSE st.text \o Cut(Decimal[v], st.left)

PrintNetAddrPort(addr, port, size) ==
  LET string == PrintNetAddr(addr, NET_ADDR_BUFLEN)
      strings == IF IsIPv4Mapped(addr) THEN <<string, <<Colon>>>>
                 ELSE <<<<Open>>, string, <<Close>>, <<Colon>>>>
  IN  AppendUint(FoldLeft(AppendString, [text |-> <<>>, left |-> size], strings), port)

(* net_addr_port_to_string, into a buffer that is always large enough.     *)
NetAddrPortToString(addr, port) ==
  IF IsIPv4Mapped(addr)
    THEN IPv4Text(IPv4Part(addr)) \o <<Colon>> \o Decimal[port]
    ELSE <<Open>> \o IPv6Text(addr) \o <<Close, Colon>> \o Decimal[port]

-----------------------------------------------------------------------------
(* parse_ipv4_addr: up to three digits for each byte, of which the lowest  *)
(* eight bits are taken; d are the digits of byte i.                       *)
TakeByte(text, st, i, d) ==
  LET end == st.end + d.len
  IN  IF d.len = 0 THEN [st EXCEPT !.ok = FALSE]
      ELSE IF i < 4 /\ At(text, end) # Dot THEN [st EXCEPT !.ok = FALSE, !.end = end]
      ELSE [ok |-> TRUE, end |-> IF i < 4 THEN end + 1 ELSE end,
            ip |-> Append(st.ip, d.value % 256)]

ParseIPv4(text, k) ==
  LET step(st, i) ==
        IF st.ok THEN TakeByte(text, st, i, Digits(text, st.end, 10, 3)) ELSE st
  IN  FoldLeft(step, [ok |-> TRUE, end |-> k, ip |-> <<>>], <<1, 2, 3, 4>>)

(* Mutant: what follows the double colon stays where it was stored.        *)
UnmovedFillUp(groups, dc) ==
  IF dc < 0 THEN groups ELSE groups \o [k \in 1..(8 - Len(groups)) |-> 0]

(* The groups with zeros where the double colon was.                       *)
FillUp(groups, dc) ==
  IF dc < 0 THEN groups
  ELSE SubSeq(groups, 1, dc) \o [k \in 1..(8 - Len(groups)) |-> 0]
         \o SubSeq(groups, dc + 1, Len(groups))

(* A turn of the loop of parse_ipv6_addr takes a colon or a group, of      *)
(* which d are the digits and ip is what is there as an IPv4 address.       *)
TakeColon(st) ==
  IF ~st.colon THEN [st EXCEPT !.colon = TRUE, !.end = @ + 1]
  ELSE IF st.dc >= 0 THEN [st EXCEPT !.stop = TRUE, !.end = @ - 1]
  ELSE [st EXCEPT !.dc = Len(st.groups), !.end = @ + 1]

TakeGroup(text, st, d, ip) ==
  IF d.value > 65535 THEN [st EXCEPT !.stop = TRUE]
  ELSE IF At(text, st.end + d.len) = Dot /\ Len(st.groups) <= 6
    THEN IF ip.ok THEN [st EXCEPT !.stop = TRUE, !.end = ip.end, !.groups = @ \o Groups(ip.ip)]
         ELSE [st EXCEPT !.stop = TRUE]
  ELSE [st EXCEPT !.groups = Append(@, d.value), !.end = @ + d.len, !.colon = FALSE,
                  !.stop = Len(st.groups) = 7]

Filled6(st, addr) == [ok |-> Len(addr) = 8, end |-> st.end, addr |-> addr]
Result6(st) == Filled6(st, FillUp(st.groups, st.dc))

ParseIPv6(text, k) ==
  LET step(st, turn) ==
        IF st.stop THEN st
        ELSE IF At(text, st.end) = Colon THEN TakeColon(st)
        ELSE IF At(text, st.end) > 15 THEN [st EXCEPT !.stop = TRUE]
        ELSE TakeGroup(text, st, Digits(text, st.end, 16, Len(text)), ParseIPv4(text, st.end))
      start == [groups |-> <<>>, dc |-> -1, colon |-> FALSE, end |-> k, stop |-> FALSE]
  IN  Result6(FoldLeft(step, start, [t \in 1..(Len(text) + 1) |-> t]))

(* parse_net_addr: an IPv6 address in brackets, or else an IPv4 address,   *)
(* or else an IPv6 address.                                                *)
Bracketed(text, p) ==
  LET ok == p.ok /\ At(text, p.end) = Close
  IN  [ok |-> ok, end |-> IF ok THEN p.end + 1 ELSE p.end, addr |-> p.addr]

EitherOf(p4, p6) ==
  IF p4.ok THEN [ok |-> TRUE, end |-> p4.end, addr |-> <<0, 0, 0, 0, 0, 65535>> \o Groups(p4.ip)]
  ELSE p6

ParseNetAddr(text, k) ==
  IF At(text, k) = Open THEN Bracketed(text, ParseIPv6(text, k + 1))
  ELSE EitherOf(ParseIPv4(text, k), ParseIPv6(text, k))

(* parse_port_number: a number of 1 to 65535 without zeros in front.       *)
PortTurn(k, d, st) ==
  IF st.stop THEN st
  ELSE IF d > 9 THEN [st EXCEPT !.stop = TRUE, !.ok = st.end > k]
  ELSE IF st.port * 10 + d > 65535 THEN [st EXCEPT !.stop = TRUE]
  ELSE [st EXCEPT !.port = @ * 10 + d, !.end = @ + 1]

(* Six turns are enough: a number of six digits is too large.              *)
PortTurns(text, k) ==
  LET turn[t \in 0..6] ==
        IF t = 0 THEN [port |-> 0, end |-> k, ok |-> FALSE, stop |-> At(text, k) = 0]
        ELSE PortTurn(k, At(text, turn[t - 1].end), turn[t - 1])
  IN  turn

PortResult(st) == [ok |-> st.ok, end |-> st.end, port |-> IF st.ok THEN st.port ELSE 0]
ParsePort(text, k) == PortResult(PortTurns(text, k)[6])

(* Mutant: the last byte is compared as a whole.                           *)
WholeByteMatches(a, b, prefix) ==
  \A i \in 1..((Min({prefix, 128}) + 7) \div 8) : a[i] = b[i]

(* net_addr_matches, on the sixteen bytes of an address.                   *)
Matches(a, b, prefix) ==
  LET whole == Min({prefix, 128}) \div 8
      rest == Min({prefix, 128}) % 8
  IN  /\ \A i \in 1..whole : a[i] = b[i]
      /\ rest > 0 => a[whole + 1] \div 2^(8 - rest) = b[whole + 1] \div 2^(8 - rest)

(* The bytes of an address, and the classes of addresses by their prefix.  *)
BytesOf(addr) ==
  [k \in 1..16 |-> LET group == addr[(k + 1) \div 2] IN IF k % 2 = 1 THEN group \div 256 ELSE group % 256]

Prefixed(first, second) == <<first, second>> \o [k \in 1..14 |-> 0]
IsMulticast(b) == Matches(b, Prefixed(255, 0), 8)
IsLinkLocal(b) == Matches(b, Prefixed(254, 128), 10)
IsSiteLocal(b) == Matches(b, Prefixed(254, 192), 10)

(* The two highest bits of a byte are never 224.                           *)
IPv4IsPrivate(a) ==
  \/ a[1] \in {0, 10, 127}
  \/ a[1] = 169 /\ a[2] = 254
  \/ a[1] = 172 /\ a[2] \div 16 = 1
  \/ a[1] = 192 /\ a[2] = 0 /\ a[3] = 2
  \/ a[1] = 192 /\ a[2] = 168
  \/ 64 * (a[1] \div 64) = 224

IsPrivate(addr) ==
  \/ IsSiteLocal(BytesOf(addr)) \/ IsLinkLocal(BytesOf(addr))
  \/ IsIPv4Mapped(addr) /\ IPv4IsPrivate(IPv4Part(addr))

(* The structure that net_addr_sockaddr makes for the socket functions,    *)
(* with the port in network order, and what sockaddr_to_net_addr takes     *)
(* from it.                                                                *)
Htons(port) == (port % 256) * 256 + port \div 256
NetAddrFamily(addr) == IF IsIPv4Mapped(addr) THEN "inet" ELSE "inet6"

NetAddrSockaddr(addr, port) ==
  [family |-> NetAddrFamily(addr), port |-> Htons(port),
   addr |-> IF IsIPv4Mapped(addr) THEN IPv4Part(addr) ELSE addr]

SockaddrToNetAddr(sock) ==
  [port |-> Htons(sock.port),
   addr |-> IF sock.family = "inet" THEN <<0, 0, 0, 0, 0, 65535>> \o Groups(sock.addr) ELSE sock.addr]

-----------------------------------------------------------------------------
(* Reference: the text of an address.                                      *)
Joined(groups) ==
  FlattenSeq([k \in DOMAIN groups |->
                IF k = 1 THEN HexDigits(groups[k]) ELSE <<Colon>> \o HexDigits(groups[k])])

ZeroRuns(addr) ==
  {r \in [at : 1..8, len : 2..8] :
     /\ r.at + r.len <= 9
     /\ \A k \in r.at..(r.at + r.len - 1) : addr[k] = 0}

(* The first of the longest runs of zero groups is left out; an address of *)
(* which only the end is not zero may have an IPv4 address there.          *)
Canonical(addr) ==
  LET longest == {r \in ZeroRuns(addr) : \A q \in ZeroRuns(addr) : q.len <= r.len}
      run == CHOOSE r \in longest : \A q \in longest : r.at <= q.at
      ip == IPv4Text(IPv4Part(addr))
  IN  IF IsIPv4Mapped(addr) THEN <<Colon, Colon, 15, 15, 15, 15, Colon>> \o ip
      ELSE IF ZeroRuns(addr) = {} THEN Joined(addr)
      ELSE IF run = [at |-> 1, len |-> 6] THEN <<Colon, Colon>> \o ip
      ELSE Joined(SubSeq(addr, 1, run.at - 1)) \o <<Colon, Colon>>
             \o Joined(SubSeq(addr, run.at + run.len, 8))

(* Reference: how RFC 4291 writes an IPv6 address.  A word is what stands  *)
(* between colons, a double is the place of a double colon.                *)
Words6(text) == {k \in DOMAIN text : text[k] # Colon /\ (k > 1 => text[k - 1] = Colon)}
Doubles(text) == {k \in 1..(Len(text) - 1) : text[k] = Colon /\ text[k + 1] = Colon}
Word6(text, k) ==
  SubSeq(text, k, k + Cardinality({j \in k..Len(text) : \A i \in k..j : text[i] # Colon}) - 1)

(* The numbers between the dots of a word.                                 *)
Dotted(w) ==
  FoldLeft(LAMBDA ns, c : IF c = Dot THEN Append(ns, 0) ELSE Append(Front(ns), Last(ns) * 10 + c), <<0>>, w)

(* Reference: what a text says.  The words in front of the double colon    *)
(* are the first groups, those behind it the last ones, and zeros are      *)
(* between them; a word with dots is two groups, of which a number of a    *)
(* byte counts modulo 256.                                                 *)
Meaning6(w) ==
  IF Dot \in Range(w)
    THEN LET n == Dotted(w)
         IN  <<(n[1] % 256) * 256 + (n[2] % 256), (n[3] % 256) * 256 + (n[4] % 256)>>
    ELSE <<FoldLeft(LAMBDA v, d : v * 16 + d, 0, w)>>

Said(text, words) ==
  LET nth(n) == CHOOSE k \in words : Cardinality({i \in words : i <= k}) = n
  IN  FlattenSeq([n \in 1..Cardinality(words) |-> Meaning6(Word6(text, nth(n)))])

Halves(text) ==
  LET split == IF Doubles(text) = {} THEN Len(text) + 1 ELSE Max(Doubles(text))
  IN  [front |-> Said(text, {k \in Words6(text) : k < split}),
       back |-> Said(text, {k \in Words6(text) : k > split})]

Says(text, addr) ==
  LET said == Halves(text)
  IN  addr = said.front \o [k \in 1..(8 - Len(said.front) - Len(said.back)) |-> 0] \o said.back

(* Reference: what is wrong with the text of an address.                   *)
WordsWith(text, dots) == {k \in Words6(text) : Dot \in Range(Word6(text, k)) <=> dots}

Flaws(text) ==
  LET groups == Len(Halves(text).front) + Len(Halves(text).back)
      hex == {Word6(text, k) : k \in WordsWith(text, FALSE)}
      bytes == {Word6(text, k) : k \in WordsWith(text, TRUE)}
      at(flaw, is) == IF is THEN {flaw} ELSE {}
  IN  at("two double colons", Cardinality(Doubles(text)) > 1)
        \cup at("number of groups", IF Doubles(text) = {} THEN groups # 8 ELSE groups > 8)
        \cup at("double colon for no group", Doubles(text) # {} /\ groups = 8)
        \cup at("colon in front", text # <<>> /\ text[1] = Colon /\ 1 \notin Doubles(text))
        \cup at("colon behind", text # <<>> /\ Last(text) = Colon /\ Len(text) - 1 \notin Doubles(text))
        \cup at("no number", \E w \in hex : ~(Range(w) \subseteq 0..15 /\ Meaning6(w)[1] <= 65535))
        \cup at("more than four digits", \E w \in hex : Len(w) > 4)
        \cup at("no IPv4 address", \E w \in bytes : ~(Range(w) \subseteq (0..9) \cup {Dot} /\ Len(Dotted(w)) = 4
                                     /\ \A k \in DOMAIN w : w[k] # Dot \/ (k > 1 /\ k < Len(w) /\ w[k - 1] # Dot)))
        \cup at("IPv4 address in front", \E k \in WordsWith(text, TRUE), j \in Words6(text) : j > k)
        \cup at("number above 255", \E w \in bytes : \E n \in Range(Dotted(w)) : n > 255)
=============================================================================
