------------------------------- MODULE Paths --------------------------------
(***************************************************************************)
(* URLs, paths and lines in lib/nettools.c: url_decode, url_split,         *)
(* uri_canonize_path, create_pathname and tokenline.                       *)
(*                                                                         *)
(* A loop is a recursive function of the turn, on a record of the locals.  *)
(* Positions count from 1; NUL is a character that is stored, the end of   *)
(* an input is At = Other.                                                 *)
(***************************************************************************)
EXTENDS Addresses

NUL == 99

-----------------------------------------------------------------------------
(* url_decode: at most size - 1 characters; what does not fit is left out  *)
(* without a word.  A character that came as %XX is the pair of its digits *)
(* here, so that it is not taken for one that needs no decoding.           *)

Decoded(c) == IF c = Plus THEN Space ELSE c
IsHex(c) == c \in 0..15

(* %XX is accepted unless it stands for NUL.                               *)
ValidOctet(high, low) == IsHex(high) /\ IsHex(low) /\ <<high, low>> # <<0, 0>>

DecodeChar(st, c, high, low) ==
  IF c = Illegal THEN [st EXCEPT !.ok = FALSE]
  ELSE IF c # Percent THEN [st EXCEPT !.dst = Append(@, Decoded(c)), !.p = @ + 1]
  ELSE IF ValidOctet(high, low) THEN [st EXCEPT !.dst = Append(@, <<high, low>>), !.p = @ + 3]
  ELSE [st EXCEPT !.ok = FALSE]

UrlTurn(size, src, st) ==
  IF st.ok /\ st.p <= Len(src) /\ Len(st.dst) < size - 1
    THEN DecodeChar(st, src[st.p], At(src, st.p + 1), At(src, st.p + 2))
    ELSE st

UrlTurns(size, src) ==
  LET turn[k \in 0..Len(src)] ==
        IF k = 0 THEN [ok |-> size >= 1, p |-> 1, dst |-> <<>>] ELSE UrlTurn(size, src, turn[k - 1])
  IN  turn

UrlDecode(size, src) == UrlTurns(size, src)[Len(src)]

-----------------------------------------------------------------------------
(* url_split: url is the memory that the URL is in, with its NUL and what  *)
(* is behind that.  Host and path are parts of it, a path being what       *)
(* begins at position `path'.                                              *)

(* The loop compares the pointer with '\0', not the character: it passes   *)
(* the end of a URL with neither a colon nor a slash behind "http://".     *)
RunsPast(url) ==
  At(url, 1) = Http /\ \A k \in 2..Len(url) : url[k] \notin {Colon, Slash}

(* Where the loop stops.                                                   *)
Stop(url) == Min({k \in 2..Len(url) : url[k] \in {Colon, Slash}})

(* The last one of the slashes that begin at p.                            *)
LastSlash(text, p) ==
  CHOOSE n \in p..Len(text) : At(text, n + 1) # Slash /\ \A i \in (p + 1)..n : text[i] = Slash

NoUrl(port, path) == [ok |-> FALSE, host |-> <<>>, port |-> port, path |-> path]

(* Mutant: the room for the NUL behind the host is forgotten.              *)
TightHost(url, end, port, path, size) ==
  IF end = 2 \/ (size > 0 /\ end - 2 > size) THEN NoUrl(port, path)
  ELSE [ok |-> TRUE, host |-> IF size > 0 THEN SubSeq(url, 2, end - 1) ELSE <<>>,
        port |-> port, path |-> path]

(* The end of the function: the host is not empty, and it fits.            *)
CopyHost(url, end, port, path, size) ==
  IF end = 2 \/ (size > 0 /\ end - 2 >= size) THEN NoUrl(port, path)
  ELSE [ok |-> TRUE, host |-> IF size > 0 THEN SubSeq(url, 2, end - 1) ELSE <<>>,
        port |-> port, path |-> path]

(* At a colon; num is what parse_port_number says of what is behind it.    *)
SplitPort(url, end, num, size) ==
  IF ~num.ok THEN NoUrl(num.port, 0)
  ELSE IF url[num.end] = NUL THEN CopyHost(url, end, num.port, num.end, size)
  ELSE IF url[num.end] # Slash THEN NoUrl(num.port, 0)
  ELSE CopyHost(url, end, num.port, LastSlash(url, num.end), size)

(* At the first colon or slash.                                            *)
SplitAt(url, stop, size) ==
  IF url[stop] = Colon THEN SplitPort(url, stop, ParsePort(url, stop + 1), size)
  ELSE CopyHost(url, stop, 80, LastSlash(url, stop), size)

UrlSplit(url, size) ==
  IF At(url, 1) # Http THEN NoUrl(0, 0)
  ELSE SplitAt(url, Stop(url), size)

-----------------------------------------------------------------------------
(* uri_canonize_path, in one memory if dst and path are the same.  p and q *)
(* are the pointers; a turn is a turn of the inner loop, or of the outer   *)
(* one for a character that is no slash.                                   *)

CharAt(path, st, k) == IF st.same THEN At(st.dst, k) ELSE At(path, k)

(* Does what is at p begin with these characters, and do they end it?      *)
Begins(path, st, p, s) == \A i \in DOMAIN s : CharAt(path, st, p + i - 1) = s[i]
AtEnd(path, p) == p > Len(path)

Store(st, c) == [st EXCEPT !.dst = [k \in 1..Max({st.q, Len(st.dst)}) |-> IF k = st.q THEN c ELSE st.dst[k]]]

(* Mutant: the search for the slash in front begins at q, which is one.    *)
NoAscent(st) == {k \in 1..st.q : st.dst[k] = Slash}

(* The slashes in front of q.                                              *)
SlashesBefore(st) == {k \in 1..(st.q - 1) : st.dst[k] = Slash}

(* Ascend one component: to the nearest slash in front of q.               *)
Ascend(st) ==
  IF SlashesBefore(st) = {} THEN [st EXCEPT !.ok = FALSE]
  ELSE [st EXCEPT !.p = @ + 3, !.q = Max(SlashesBefore(st))]

(* The outer loop goes on behind p.                                        *)
Onwards(st) == [st EXCEPT !.p = @ + 1, !.q = @ + 1, !.inner = FALSE]

(* The condition of the inner loop, tested at the new p.                   *)
Again(path, st) ==
  IF ~st.ok THEN st
  ELSE IF CharAt(path, st, st.p) = Slash /\ CharAt(path, st, st.p + 1) \in {Slash, Dot}
    THEN [st EXCEPT !.inner = TRUE]
  ELSE Onwards(st)

(* The body of the inner loop, p being at the last of some slashes.        *)
Component(path, st) ==
  IF Begins(path, st, st.p, <<Slash, Dot>>) /\ AtEnd(path, st.p + 2)
    THEN Again(path, [st EXCEPT !.p = @ + 1])
  ELSE IF Begins(path, st, st.p, <<Slash, Dot, Dot>>) /\ AtEnd(path, st.p + 3)
    THEN [st EXCEPT !.ok = FALSE]
  ELSE IF Begins(path, st, st.p, <<Slash, Dot, Slash>>) THEN Again(path, [st EXCEPT !.p = @ + 2])
  ELSE IF Begins(path, st, st.p, <<Slash, Dot, Dot, Slash>>) THEN Again(path, Ascend(st))
  ELSE Onwards(st)

SkipSlashes(path, st) ==
  [st EXCEPT !.p = CHOOSE n \in st.p..Len(path) :
     CharAt(path, st, n + 1) # Slash /\ \A i \in (st.p + 1)..n : CharAt(path, st, i) = Slash]

CanonizeTurn(path, st) ==
  IF ~st.ok \/ AtEnd(path, st.p) THEN st
  ELSE IF ~st.inner /\ CharAt(path, st, st.p) # Slash THEN Onwards(Store(st, CharAt(path, st, st.p)))
  ELSE Component(path, SkipSlashes(path, Store(st, Slash)))

CanonizeResult(st) == [ok |-> st.ok, path |-> SubSeq(st.dst, 1, st.q - 1)]

CanonizeStart(path, same) ==
  [ok |-> TRUE, same |-> same, inner |-> FALSE, p |-> 1, q |-> 1, dst |-> IF same THEN path ELSE <<>>]

CanonizeTurns(path, same) ==
  LET turn[k \in 0..Len(path)] ==
        IF k = 0 THEN CanonizeStart(path, same) ELSE CanonizeTurn(path, turn[k - 1])
  IN  turn

UriCanonizePath(path, same) == CanonizeResult(CanonizeTurns(path, same)[Len(path)])

-----------------------------------------------------------------------------
(* create_pathname.                                                        *)

(* The file name without the slashes in front.                             *)
Unrooted(filename) ==
  SubSeq(filename, 1 + Cardinality({k \in DOMAIN filename : \A i \in 1..k : filename[i] = Slash}),
         Len(filename))

CreatePathname(path, filename) ==
  IF Last(path) = Slash THEN path \o Unrooted(filename)
  ELSE IF At(filename, 1) = Slash THEN path \o filename
  ELSE path \o <<Slash>> \o filename

-----------------------------------------------------------------------------
(* tokenline: what is in the buffer, the NUL at the end included, the      *)
(* number of tokens and what is left of the file.                          *)

(* Mutant: a space ends a token even if there is none.                     *)
EagerToken(st, c) ==
  IF IsSpace(c) THEN [st EXCEPT !.buf = Append(@, NUL), !.token = FALSE]
  ELSE [buf |-> Append(st.buf, c), token |-> TRUE, count |-> IF st.token THEN st.count ELSE st.count + 1]

TokenChar(st, c) ==
  IF IsSpace(c) /\ st.token THEN [st EXCEPT !.buf = Append(@, NUL), !.token = FALSE]
  ELSE IF IsSpace(c) THEN st
  ELSE [buf |-> Append(st.buf, c), token |-> TRUE, count |-> IF st.token THEN st.count ELSE st.count + 1]

(* Nothing is stored behind the buffer but the NUL at the end.             *)
TokenTurn(st, size, c) == IF Len(st.buf) >= size THEN st ELSE TokenChar(st, c)

(* The locals after each character.                                        *)
TokenTurns(size, line) ==
  LET turn[k \in 0..Len(line)] ==
        IF k = 0 THEN [buf |-> <<>>, token |-> FALSE, count |-> 0] ELSE TokenTurn(turn[k - 1], size, line[k])
  IN  turn

TokenizedLine(size, line, rest) ==
  LET end == TokenTurns(size, line)[Len(line)]
  IN  [count |-> end.count, buf |-> Append(end.buf, NUL), rest |-> rest]

LineLength(file) == Cardinality({k \in DOMAIN file : \A i \in 1..k : file[i] # Newline})

TokenLine(size, file) ==
  IF file = <<>> THEN [count |-> -1, buf |-> <<NUL>>, rest |-> <<>>]
  ELSE TokenizedLine(size, SubSeq(file, 1, LineLength(file)),
                     SubSeq(file, LineLength(file) + 2, Len(file)))
=============================================================================
