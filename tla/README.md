# bitter in TLA+

`bitter` (C, `src/src`) prints the SHA-1, the Tiger tree hash or the bitprint
(both) of files or of standard input, and converts SHA-1 values between base 16
and base 32.  The program proper is `main.c` with `lib/tigertree.c`,
`lib/tiger.c`, `lib/base32.c`, `lib/base16.c` and a shim over the system's SHA-1
(`lib/compat_sha1.h`).  It is linked with a support library
(`lib/nettools.c`, `lib/compat.c`, `lib/append.h`, `lib/net_addr.h`) that the
program hardly uses but that is compiled and shipped with it.

## 1. Inventory

| component | state it keeps | operations | what makes it correct |
|---|---|---|---|
| option loop and file loop (`main.c:227`) | option flags, the static result buffers `sha1_buf`/`tth_buf`, current descriptor | getopt loop, open, `get_sums`, `print_result`, close, exit | a printed line carries the digests of the bytes read from that file; the static buffers never leak one file's result into another's line; every opened descriptor is closed; exit status |
| `get_sums` (`main.c:131`) | the two hash contexts, the static 32 KiB read buffer | fstat, init, read/update loop with EINTR/EAGAIN retry, final | both hashes absorb the same bytes, each exactly once, in order; terminates when the input does |
| Tiger tree hash (`tigertree.c`) | block counter, partial leaf, stack of interim nodes in a fixed array with a scratch slot above its top | `tt_init`, `tt_update`, `tt_block`, `tt_compose`, `tt_final`, `tt_digest` | the digest is the THEX root of the bytes, however they were cut into calls; the fixed stack never overflows for inputs up to the documented size; no stale byte is hashed |
| Tiger (`tiger.c`) | chaining value, 64-byte padding buffer | compress, padding | every byte of the padded block is written before it is compressed; aligned, unaligned and big-endian paths agree |
| base32, base16 | lazily built decoding maps | encode, decode | decode inverts encode, bad characters are refused, output is bounded by the buffer |
| `-c` conversion (`main.c:258`) | stack buffer `raw` | prefix test, length test, decode, print | what is printed denotes the value that was given |
| append buffers (`append.h`) | write position, remaining size | `append_string`, `append_char(s)`, `append_escaped_*`, `append_uint*`, `append_date`, `append_size` | position plus remaining size never exceeds the buffer over any sequence of calls; NUL-termination contract |
| integers (`nettools.c:82-235`, `531-754`) | none | `print_uint*`, `parse_uint16/32/64` | overflow is detected exactly; printing and parsing are inverse |
| addresses (`nettools.c:237-454`, `756-985`, `net_addr.h`) | static result buffers | print/parse IPv4, IPv6, port, prefix match | parse inverts print; only valid addresses are accepted; end pointer is right |
| dates (`nettools.c:987-1749`) | none | print ISO 8601/RFC 1123/NCSA, parse ISO 8601/RFC 1123/RFC 850/asctime, `tm_cmp` | what is printed in a format is parsed by the parser of that format |
| URLs and paths (`nettools.c:1751-2060`) | none | `url_decode`, `url_split`, `uri_canonize_path`, `create_pathname`, `tokenline` | canonical output, in-place safety, bounds |
| `safer_fopen` (`nettools.c:2064`) | descriptor, two stat snapshots | lstat, open, fstat, compare, fdopen | the descriptor returned satisfies the checks although other processes change the file system between the steps |
| clocks (`compat.c:239-341`) | last reading, accumulated time | `compat_mono_time*` | time never runs backwards, carries are right |
| process control (`compat.c:343-597`) | process tree, session, limits, streams, umask | `compat_daemonize`, `compat_chroot`, `compat_disable_fork`, `compat_disable_coredumps` | the daemon is no session leader; failures at each step |
| memory (`compat.c:126-237`, `604-672`) | cached page size | `compat_valloc`, `compat_protect_memdup`, `compat_page_align` | aligned result inside the allocation |
| searching (`compat.c:692`, `nettools.c:2178`) | none | `compat_memmem`, `prime_up` | result inside the data, termination |
| diagnostics (`debug.c`) | errno | `note`, `fatality`, `printerr_*`, `debug_assert` | errno preserved |
| build (`config.sh`, Makefiles) | shell variables | feature probes | not part of the running program |

How they interact: `main` parses options, then for each input calls `get_sums`,
which feeds every chunk that `read` returns first to the SHA-1 context and then
to the tree-hash context, and finally writes both digests through the pointers
`main` passed; `print_result` encodes them with `base32_encode`.  `tt_update`
cuts the chunks into 1024-byte leaves for `tt_block`, which calls `tiger` and
merges equal-sized subtrees with `tt_compose`.  There are no threads; the
concurrency is with the environment (signals interrupting `read`, files that
grow, are replaced or fail while they are read, clocks that are set back,
forked processes).


## 2. Plan

Order: what the program is for comes first, then the library functions whose
mistakes a test would hardly find, then the rest.

| step | modules | state |
|---|---|---|
| 1 | `TreeHash` (abstract), `TigerTree` (implements it), proofs | done |
| 2 | `Bitter`, proofs: options, files, `get_sums`, against a failing operating system; uses the promise of `TreeHash` for the tree hash | done |
| 3 | `Codec`, `Convert`, proofs (`FormatsProofs`): base 32, base 16 and the option `-c` | done |
| 4 | `Append`, proofs: the append functions over sequences of calls | done |
| 5 | `ParseUint`, proofs: overflow detection, printing back | done |
| 6 | `Clock`, proofs: a time that never runs backwards | done |
| 7 | `Tiger`: the padding of the last block, for the little- and the big-endian build | done |
| 8 | `Addresses`: IPv4 and IPv6, printing, also into buffers that are too small, against parsing; prefixes, classes, socket structures | done |
| 9 | `Dates`: the printers of dates against the parsers, `tm_cmp` | done |
| 10 | `Paths`, proofs (`PathsProofs`): `uri_canonize_path`, `url_decode`, `url_split`, `create_pathname`, `tokenline` | done |
| 11 | `Search`: `prime_up`, `compat_memmem` | done |
| 12 | `Files`, proofs: `safer_fopen` and `compat_chroot` while other processes rename and change files | done |
| 13 | `Daemonize`, proofs: `compat_daemonize` and its two forks, the limits | done |
| 14 | proofs of `PrintedDigests`, `HalvesAgree`, `ModeFollowsOptions`, `DaemonDetached`, and of the refinement `TigerTree => TreeHash!Spec` | done |

Composition: `TigerTree` and `TreeHash` are linked by a refinement;
`Bitter` represents a tree hash context by the bytes it absorbed, which is what
`TreeHash` says about it.  `Convert` is built from the operators of `Codec`.
`Append` contains the `print_uint*` functions it calls.  `Text` has the characters
that `Addresses`, `Dates` and `Paths` share, and `Paths` calls the port parser of
`Addresses`.  The modules of functions between values and text, and those of
other pure functions (`Codec`, `Addresses`, `Dates`, `Paths`, `Search`, `Tiger`),
are checked together by `MCFormats`: a job is an input of one of them, it is
printed where there is a printer, and the result is compared with a reference
that is written in another way.

## 3. What the modules model

### TreeHash and TigerTree (`lib/tigertree.c`)

`TreeHash` says what the tree hash promises: bytes are absorbed in pieces of any
size, and the digest is the root of the THEX tree, defined level by level.
`TigerTree` is the code: `count`, `block`, `index`, `nodes` are the fields of
`TT_CONTEXT`, `b` and `len` the locals of the loops.  A step is one iteration of
a loop, because the stack is written in the middle of them:

| code | actions |
|---|---|
| `tt_init` | `Init` |
| `tt_update`: partial leaf, full leaf, whole leaves, leftover | `UpdatePartial`, `UpdateFill`, `UpdateAligned`, `WholeBlock`, `Leftover` |
| `tt_block`, its carry loop | `HashBlock`, `Carry`, `CarryEnd` |
| `tt_compose` with its scratch slot | `Compose` |
| `tt_final`, `tt_digest` and its loop | `Final`, `Fold`, `Digest` |

A byte is its position in the stream: the code never looks at a byte's value,
and with positions a byte that is lost, repeated or moved gives a different
tree.  `Tiger` is a constant operator; in the runs it is the identity on terms,
so that two hashes are equal only if the trees are.  `used` is history: the
highest slot of `ctx->nodes` stored to.

### Bitter (`main.c`)

The option loop (`OptionExit`, `OptionMode`, `OptionQuiet`, `OptionsEnd`), the
file loop (`Open`, `OpenFails`, `PrintResult`, `Close`, `Return`) and `get_sums`
(`Fstat`, `FstatFails`, `ReadData`, `ReadEnd`, `ReadAgain`, `ReadFails`,
`UpdateSums`, `FinalSums`).  The operating system is part of the state:
descriptors (`open` takes the lowest free one), the sizes of the files, what was
printed, the exit status.  `read` may return fewer bytes than asked for, nothing
but EINTR or EAGAIN, or an error; a file may grow at any moment (`Grow`).  A byte
is <<file, offset>> and a digest is the sequence of bytes hashed, so a byte of
the wrong file or a stale byte of the static buffer `data` is visible in the
digest.

`Sha1Update` is the loop of `compat_sha1_update` in the build for NetBSD, whose
SHA-1 function takes a limited number of bytes (`MaxChunk`).  A line that is
printed may be lost, since nobody looks whether the standard output takes it.

Abstracted: the layout of the printed text; a line is lost as a whole; files
only grow (one that shrinks under a reader has no `whole file' to compare with);
the order in which `getopt` returns options.

### Codec and Convert (`lib/base32.c`, `lib/base16.c`, `main.c:258-305`)

`Codec` has what the coders return and store, character by character; a
character is its value in the alphabet, `Pad` or `Bad`.  `Base32Encode` is given by
its characters: the number of them (`Base32Length`) and, for each, the group of five
bytes (`Group`) whose shifts and masks (`Symbols`) make it.  `Base32Turn` is a turn of
the loop of `base32_decode`, `Base32Turns` the state after each of them.  The map of
`base16_decode` is built from the alphabet with the NUL behind it, which is a digit of
the value 16 then (`Nul`): it fills five bits, of which the high digit keeps four
(`HighBits`) and the low one meets those of the other (`WithLow`).
`Convert` is the option `-c` with the local buffer `raw`, which is not initialised:
`Garbage` are the values an unwritten byte may have.  The maps of the decoders have
no entry for the byte 255 (`Past`); `Behind` are the values that may be found there.  `stored` is history: how many bytes
of `raw` the decoder has stored.  An argument has no NUL in it, so that `Nul` is met
in `MCFormats` only.
Its `Init`, `Next` and `Spec` are named `ConvertInit`, `ConvertNext` and `ConvertSpec`,
because one module of proofs extends it and `MCFormats`.

### Tiger (`lib/tiger.c:155-226`)

The bytes of the message, cut into blocks and padded, as the compression gets
them: an operator per phase (`WholeBlocks`, which is the last of its `BlockTurns`,
`Rest`, `Mark`, `Spill`, `Finish`) on a record of the locals.  `layout` chooses between the big-endian build, which
stores each byte at the index `j ^ 7` and the zeros of the padding at `j`, and the
two branches of the little-endian one.  `temp` keeps what earlier blocks left in
it, and a byte names its origin, so that one that is stale or was never stored
is seen.

### Text, Addresses (`nettools.c:237-454`, `756-985`, `net_addr.h`)

Operators for `print_ipv4_addr`, `print_ipv6_addr`, `print_net_addr_port`, for
the parsers of the same, for `parse_port_number` and for `net_addr_matches`.  The
loops are folds, an element per turn; an address is its eight groups, a
character the value of a digit or a punctuation mark.  A printer returns what is
in front of the NUL: `Cut` is the copy at the end of `print_ipv6_addr`,
`AppendString` and `AppendUint` what `print_net_addr_port` calls.  The classes of
addresses (`IsMulticast` to `IsPrivate`) are comparisons of prefixes, and a
`struct sockaddr` is a record with the port in network order, for a little-endian
machine with IPv6.

The reference for what a text says does not use the parser: it divides the text at
the double colon (`Halves`) and at the colons into words (`WordsWith`), and adds up
their digits; `Says` compares the groups, and `Flaws` names what is wrong with the
text as an IPv6 address.

### Dates (`nettools.c:987-1749`)

A parser of dates is a list of checks, and so is its model: `Rfc1123`, `Rfc850`,
`Asctime`, `ParseTime` and `Iso8601Date` are sequences of steps, each of which
(`Take`) passes what it accepts and stores a member of `struct tm`, or fails.  The
names of days and months are single characters, because the code only compares
them as a whole; numbers are digit by digit.  A date that the C library's
`gmtime` makes of a number of seconds is chosen directly.

### Paths (`nettools.c:1751-2060`)

`UriCanonizePath` takes the turns of the two loops on a record of `p`, `q` and the
destination; a turn takes `p` further, so as many as the path has characters are enough.  With `same` the destination is the path itself, so that
what the loops have stored is what they read later.  `UrlDecode` keeps a decoded
octet apart from a character that came as it is; `UrlSplit` is given the memory
behind the URL as well, because its loop does not stop at the end
(`RunsPast`).  `TokenLine` returns what is in the buffer, the count, and what is
left of the file; its loop, like those of `uri_canonize_path`, `url_decode` and
`parse_port_number`, is a recursive function (`TokenTurns`, `CanonizeTurns`,
`UrlTurns`, `PortTurns`).

### Search (`compat.c:692`, `nettools.c:2178`)

`Memmem` has the memory behind the data, since the comparison goes there;
`PrimeUp` has the sieve with the marks that are kept when it is doubled.  Each loop is
a recursive function of its turn (`MemmemTurns`, `SieveTurns`, `PrimeTurns`) on a
record of the locals, so that proofs can reason about its turns.  The outer loop of
`prime_up` is cut after 12 doublings (`Doublings`), sieves of up to 89 * 2^12 bits; the
assumption `PrimesAssumption` says that one of these has a byte for the next prime
number, which by Bertrand's postulate holds for arguments of up to 22784.

### Files (`nettools.c:2064`, `compat.c:343`)

Both functions look at a file by name, use it, and look again.  There is one name;
`file` is the list of the files it has ever stood for, each with an inode number,
a type, an owner and who may write to it (`Writers`: its owner, its group or the
world).  Other processes unlink it, put another file there
or change its mode between any two system calls (`Unlink`, `Make`, `Chmod`); an
inode number is free again when neither the name nor a descriptor nor the
working or root directory keeps the file.  A step is a system call with the
tests behind it (`Lstat`, `Open`, `Fstat`, `Fdopen`; `OpenDir`, `FstatDir`,
`Fchdir`, `ChangeRoot`, `FstatAgain`, `Close`), and has a sibling in which it fails.
`O_NOFOLLOW` is taken to be there; `fchroot` is not.  `compat_chroot` follows links,
so that there the name stands for the directory it leads to (`OpenDir`).

### Daemonize (`compat.c:413-597`)

`proc` has a record per process: what it does next, its session, process group,
umask, directory, limits, streams, and whether the output that the caller had
buffered is still in its buffer.  `Fork` copies the record; `Exit` of the leader of
a session hangs up the foreground group.  Numbers of processes that are gone are
given to new ones (`Free`).  The caller is in its shell's group, a job of its own,
or leads a session; with or without a terminal, privileged or not.  A process
that has returned may call the next of the three functions.

### Append (`lib/append.h`, `nettools.c:82-235`)

A caller holds `dst` and `size` and hands both from call to call; `Call` makes
any call that is a single store, `Date` and `Size` the ones with a shape of their
own, and `EscapeBegin`, `EscapeChar`, `EscapeEnd` are the loops over a string to
be escaped.  The text is kept character by character, because what is promised is
about prefixes and NULs.  `Base` is the address of the buffer, which `append_date`
adds to the size when it subtracts from NULL.  `high` is history: the last byte stored to.

### ParseUint (`nettools.c:531-754`, `129-235`)

One module for `parse_uint16`, `parse_uint32` and `parse_uint64`, a step per
character (`Add`, `Overflow`, `Stop`, `Return`).  They differ in the type the
product is calculated in (the 16-bit one calculates in 32 bits and relies on the
sum alone) and in the short cut of the 64-bit one, which tests the product only
above a limit: `Product`, `ProductOverflows`.  `value` is history: the number the
digits stand for, without a limit.

### Clock (`compat.c:239-341`)

`FirstCall` decides which clock is used; `ReadPrev` and `ReadClock` are the
readings of the monotonic clock with the calculation behind them, `GetTimeOfDay`
the reading of the time of day.  Time passes (`Elapse`) and the time of day is set
(`SetClock`) between any two readings; `step` is the reading that is next.  `last` is
history: the time of day that was read last, also by the call that aborts.

## 4. What the runs check

| run | checks | bounds, and why they are enough |
|---|---|---|
| `tiger_tree` | `StackFits`: no store beyond the stack, the scratch slot included. `JoinsNeighbours`: only trees of equal size are joined in the carry loop. `Tiling`: the nodes cover the leaves in order, each once, at every moment. `ImplementsTreeHash`: the digest is the root of the reference tree. `DigestDelivered`: `tt_digest` ends | Leaves of 3 bytes and calls of 0 to 7 bytes: empty calls, calls inside a leaf, that fill it exactly, that cross two. 45 bytes are 15 leaves: all carry lengths from 0 to 3 and the deepest stack for `StackSize` 5; with 4 slots the assumption on `StackSize` does not hold |
| `bitter` | `PrintedDigests`: a line has the digests of one whole file and its name. `HalvesAgree`: both halves of a bitprint are of the same bytes. `OneDescriptor`, `ModeFollowsOptions`, `SuccessCoversAll`; `Terminates` | All command lines of up to two options and two names, the same name twice included; files of up to 3 bytes with reads of up to 2: a short read, a full one, and the end; `MaxChunk` 1 makes a full read two chunks. `FdLimit` 4 leaves one descriptor: one that is not closed makes the next `open` fail and breaks `OneDescriptor` |
| `convert` | `SameBits`: a well-formed value keeps its bits and converts back. `BadNoticed`: the decoders report bad characters | `RawSize` 10 is two groups of base 32, so that a first, an inner and a last group exist; up to two arbitrary characters at any position |
| `formats` | `EncodesBits`: the text of base 32 and base 16 is the bits of the input for every destination size. `DecodesBack`: what was encoded is decoded, and characters that are no digits are refused, but for NUL. `PrintsCanonically`: the first of the longest runs of zero groups is left out and nothing else; a buffer that is too small gets the beginning. `ParsesWhatItSays`: a printed address with its port is parsed back, one put into a socket structure is taken from it, and any text that is accepted as an IPv6 address says the address that is returned, and has no flaw but those that are named (`Tolerated`). `PrefixBits`: prefixes, and the classes of addresses as ranges. `DatesReadBack`: a date as it is written is read back, and what is accepted is what the text says; `tm_cmp` orders as time does. `PathsCanonical`: the path with its dots resolved, also in place; joined names. `UrlTaken`: what `url_decode` and `url_split` take of a URL. `LinesTokenized`: a line is taken as a whole, and its words as far as they fit. `Finds`: the first place of a pattern, the next prime number. `SeesPadded`: the compression gets the message, the byte 1, zeros and the length, and nothing else | Base 32: inputs of 0 to 6 bytes, every length modulo 5 and a second group; three byte values that between them have every bit set and clear; base 16: 0 to 3 bytes and all texts of up to five of two digits, NUL and a character that is neither. Addresses: every pattern of zero, full and other groups, with the values that print as one, three and four digits; five texts into buffers of 0 to 50 bytes, with the longest one of 47; addresses on both sides of every limit of a class. Texts: all of up to five of the characters `1`, `f`, `:`, `.` and one that fits nowhere; eight groups with single and double colons anywhere; groups with zeros in front; an IPv4 address after any five characters. Prefixes of 0 to 129 bits against a difference at every bit, of addresses of three different bytes. Dates: six days, the first and the last second of a year, a leap day and a leap second among them, in four formats, as they are, with any character left out, and with one of six put anywhere. Paths: all of up to seven letters, dots and slashes: `/a/../`, two ups in a row. URLs: up to three units, good, escaped or bad, into buffers of 0 to 4 bytes; all combinations of host, port, slashes, and what is in memory behind. Files of up to six characters, read by two calls with buffers of 1 to 4. Data and patterns of up to five bytes, of two values, since bytes are compared for equality only, with the four bytes behind the data that a comparison may reach. Primes up to 150: the sieve is doubled three times. Messages of 0 to 140 bytes are none, one or two whole blocks with every remainder |
| `files` | `OpenedAsSeen`: a stream is one of a file that was protected when it was open, as far as the code looks (not world-writable, and root's if root opened it), and is the one that was seen before, or one that took its inode number; the directory that `compat_chroot` leaves behind was looked at. `DescriptorsClosed` | Two files and two inode numbers: the name is unlinked, replaced by a file with the number of the old one or with another; files of every type, owner and mode; two calls, one after the other |
| `daemonize` | `DaemonDetached`: who is told that it is a daemon has no terminal, leads no session and has nothing of its starter's. `OneReturns`: the program goes on in one process, its output is written once, a limit that is reported is there. `DaemonizeEnds` | Four numbers for processes: parent, child and grandchild, and one more for a second fork; two calls, the second one possibly by the daemon |
| `append` | `InBounds`, `TerminatedPrefix`, `FilledPrefix`, `StringsTerminated`, `EscapesWhole`, `TextStays` | Buffers of 0 to 7 bytes hold at most one escape sequence, its NUL, and two bytes more; three calls of any functions: what a call leaves is met by another and by a third |
| `parse_uint` | `ExactRange`: ERANGE exactly for numbers that do not fit, never the wrong value. `PrintsBack`: what is parsed is printed as it was | Six bits instead of 16, 32, 64; bases that divide 64 and that do not; three digits overflow in every base but 2 and 3, for which there are binary texts of seven digits |
| `clock` | `NeverBackwards`, `KeepsPace`: no tick is lost, `HighestOfDay`: the highest time of day is returned, and the program aborts exactly when a reading is behind it by more than the limit | Two ticks in a microsecond, two microseconds in a second, eleven ticks: two seconds and more, so that borrow and carry both occur, together and alone; a limit of two microseconds leaves room to be set back by less and by more |

Fairness.  `TigerTree`: weak fairness of the steps inside a call, since the
functions are loops that wait for nothing; no fairness for a call to be made.
`Bitter`: weak fairness of the process's steps, since it is scheduled; strong
fairness of `ReadAnswers`, since `get_sums` retries EINTR and EAGAIN at once and
without a limit (`main.c:164`), so the program ends only if `read` eventually
answers something else.  `Grow` is bounded by `MaxSize`: a file that grows
faster than it is read never ends, in the program too.  `Daemonize`: weak fairness
of the steps of each process inside the functions, since the system schedules
every process and none of the calls waits for another process; no fairness for
a call to be made.  `Files` states no liveness.

Every module states what it promises as the properties above; ranges of the
variables are stated where a proof needs them (`TypeOK` in `TigerTree`, `Append`,
`ParseUint`, `Clock`; `Typed` in `SystemProofs`).

## 5. What is proved

All for every value of the constants that the named assumptions allow.

| module | theorems | argument |
|---|---|---|
| `TigerTreeProofs` | `Invariance`, `TypeCorrect`, `StackNeverOverflows`, `NodesTile`, `BytesAccounted`, `DepthIsBitCount`, `NodesOfTheTree`, `NeighboursJoined`, `ComputesTheTree` | The stack is a binary counter: between calls it has one node per one-bit of `count` (`Depth`), so its depth is at most the number of bits, and the scratch slot is one more. `StackFits` alone is not inductive: it needs the depth, which needs `count <= MaxBlocks`, which needs `Accounted`. The assumption is `MaxBlocks < 2^(StackSize - 1)`; in the code 2^54 leaves and 56 slots. `PowerOfTwo` and its doublings come by induction over numbers. The refinement needs what the nodes are (`Hashes`): each is over a power of two of leaves and at an even place of its row (`Whole`); in the carry loop the topmost is the `b`-th of its row (`Carried`), so it and the one below have the same size, a number being an odd multiple of one power of two only; in `tt_digest` the last of a row is also the last of the rows above until it meets its neighbour (`Promotion`). A node over whole leaves stays what it is when the stream grows (`StaysWhole`), and the row of length one, which exists, is the root (`RootIs`) |
| `AppendProofs` | `RoomLeft`, `NoOverflow`, `TextIsKept`; `TextKnown`, `PrefixTerminated`, `PrefixFilled`, `NULFollows`, `WholeEscapes` | `dst + size <= cap` between calls and `dst + left + Reserve <= cap` in the escape loops, `Reserve` being the byte for the NUL that `append_escaped_string` keeps. What is in the buffer (`TextInv`): none of the properties about prefixes is inductive alone, because a call after one that lost something could append behind the gap; it cannot, because whoever loses a character leaves no room for another (`Kept`: `dst = Len(want)` or `size <= 1`; `Filled`: or `size = 0`). The loop over a string to be escaped must know that it was started by a call of its own kind (`Running`), and that `dst` is lost by `append_date` only (`Dated`). A text divides into whole escape sequences if its beginning does and one more is stored behind it: the set of their ends grows by one |
| `ParseUintProofs` | `ParseInvariance`, `OverflowDetected`, `DigitsKnown`, `ParsedPrintsBack` | While the loop runs, `v` is the number of the digits and fits. A product fits if and only if the division gives the factor back (`ProductTest`); below the short cut's limit it always fits; a sum wraps at most once, since a digit is less than 36 and `Modulus >= 36`, so it has wrapped if and only if it is smaller than the product. For `PrintsBack`: the digits in front of `p` are what `Printed` makes of `value`, digit for digit (`Digits`), if there is no zero in front and the base is ten; `Printed` is a recursive function on the tenth of its argument, which exists because tables of it up to any number do |
| `FormatsProofs` | `BitsEncoded`, `DecodedBack`; `ConvertKnown`, `ConvertedSameBits`, `BadCharactersNoticed`; `MessagePadded`; `FoundWhereFirst`; `PrefixesCompared` | For bytes of any number and destinations of any size, on the lemma that what is printed and parsed is a function of the job (`FormatsKnown`). The encoders and decoders are compared bit by bit: a place among the bits is place `i` of group `h` of forty, the shifts and masks of a group are checked for each of the forty (`GroupBits`, `OctetBits`), and what is left is where a group begins, for the last one too. `base32_decode` is a loop (`Base32Turns`, a recursive function that exists by induction); what it has stored after `k` characters, and whether it has ended, is proved of its turns by induction (`Progress`). `SameBits` is decoding and encoding one after the other; that nothing is left of `raw` as it was needs that `RawSize` is a multiple of five (`RawAssumption`, 20 in the code). `BadNoticed` follows from where the loop ends: at a bad character, the third `=`, or when the destination is full, which is at the end of the text. Assumed of what is chosen: bytes are bytes (`BytesAssumption`, `GarbageAssumption`), characters are digits or one of `Pad`, `Bad`, `Past` (`ArgumentsAssumption`), what is behind the maps (`BehindAssumption`), `MaxLen > 0`. `MessagePadded`, for messages of any length: the whole blocks by induction (`BlocksSeen`), then the local union byte by byte through `Rest`, `Mark`, the zeros and the length. `Memory` turns the bytes of a word around and is its own inverse (`MemoryTwice`), so what is stored between two places where words begin is the same in every layout (`MemoryOrder`); that is where the zeros of the big-endian build begin, because `Mark` fills up the word. Two cases: the length fits behind the byte 1, or the block is full (`WordFull`). `FoundWhereFirst`, for data and patterns of any length (`FoundFirst`: and any bytes): before each turn the pattern is nowhere in front of `start`, and `start` has advanced with the turns, so that they are enough (`Searched`). For every argument of `prime_up` of which `PrimesAssumption` holds: what is marked is composite, and the multiples of every prime number passed are marked (`Sieved`); so a number that is not marked when its turn comes is prime, because a composite one has a prime divisor at most half of it (`PrimeDivisor`, `TwiceAtLeast`). The marks stay right when the sieve is doubled; a sieve without a result had only prime numbers below the argument (`TurnSieves`). `PrefixesCompared`: a division by a power of two drops the bits of a smaller weight and no others (`DroppedBits`); the lemmas are for any two addresses that differ in one bit (`MatchesUpTo`) and for the classes of any address (`ClassRanges`, `PrivateRanges`). |
| `PathsProofs` | `WordsOfLines`; `UrlsTakenApart`; `PathsMadeCanonical` | Built on `FormatsKnown`. `WordsOfLines`, for files and buffers of any size: after each character the buffer has what fits of the words so far, `token` says whether it ends inside of one, and `count` is the number of places where one begins (`Tokens`); a turn that stores nothing because the buffer is full changes neither (`KeptStays`). `UrlsTakenApart`: the lemmas (`UnitsAreTaken`, `PartsAreTaken`) are for URLs and buffers of any size, and the jobs are some of these. For `url_decode`, after each turn as many characters were decoded as turns were made, or the first bad one was met, or no more fit (`UrlProgress`). For `url_split`, where the parts stand in the memory is settled once (`UrlStands`), and with it where the loop stops (`StopIs`) and which slash is the last (`SlashesStand`); `parse_port_number` is followed digit by digit (`PortProgress`), where six turns are enough because a number with six digits and no zero in front is too large (`LeastWith`), and a URL with neither colon nor slash has its path behind it (`PastTheEnd`), which needs that a port that is taken there ends in the memory (`PortInside`). `PathsMadeCanonical`: the lemmas (`PathIsMade`, `PathnameJoined`) are for paths of any length. Between two turns, what is stored in front of `q` is the text of the components read so far, with `..` resolved (`TextUpTo`), and of the one that `p` is in; that alone is not inductive where the destination is the path itself, which needs that `q` never passes `p` and nothing from `p` on has been overwritten (`Unread`). Both are `Canonized`, with one lemma for each of the five ways through the inner loop (`DotAtEnd`, `TwoDotsAtEnd`, `DotSkipped`, `DotsAscend`, `OnwardsBehind`). Going back to the nearest slash takes the last component away because no component has a slash in it (`Names`, `TextAscended`); and if there is none, the path leaves its root, and no later component can make up for that (`NormalStays`). For `create_pathname`, slashes behind a slash make no difference (`SqueezedAlike`) |
| `SystemProofs` | `FilesInvariance`, `UsedAsSeen`, `DescriptorsAreClosed`; `ClockInvariance`, `TimeIsMonotone`, `NoTickLost`, `HighestReturned` | Two components in one module, which is why the specification of `Clock` has names of its own (`ClockInit`, `ClockNext`, `ClockSpec`). Files: what each stage of a call knows of the file (`AtOpen`, `Streamed`, `Rooted`) survives every step of another process, because a file keeps its number, type and owner (`Grown`) and a change of the name is remembered (`moved`). `OpenedAsSeen` alone is not inductive: it says nothing of the stages before the stream. `Balance`: one descriptor from the open to the end of a call, and needs nothing else. The clock (`ClockInv`): `now` less `prev` is constant: borrow and carry are right (`AdvancedTicks`), and the cut to microseconds is monotone (`MicrosecondsOf`, `MonotoneQuotient`) |
| `BitterProofs` | `ProgramInvariance`, `OneIsEnough`, `SuccessMeansAll`, `OptionsSelect`, `WholeFilesPrinted`, `HalvesOfSameBytes` | `OneDescriptor` is not inductive: that `open` returns the one descriptor that is free, it must know that no other is open, at every stage from the options to the exit (`Descriptors`), and that the three standard ones are never closed. The exit status needs that every name so far has had its line (`Covered`), that the one being read will have it, and that nothing is said before the end (`Finished`); it assumes that the initial exit status is neither of the two that can be (`UnsetAssumption`). For the digests: after `n` bytes both contexts have absorbed the first `n` bytes of the stream, in order (`Contexts`), which the loop of `compat_sha1_update` keeps by induction on its turns; at the end of the file `n` is its size, and a line that was right when it was printed stays so although files grow (`Lines`) |
| `DaemonizeProofs` | `DaemonInvariance`, `OneGoesOn`, `DaemonIsDetached` | `Alone`: of all processes one at most goes on, and none if the child was hung up; `Exit` follows a fork in the parent only. `Once`: the buffered output is written before every fork, so that no copy has any. `Told` and `Doing`: what was returned to the caller, and what the step that is next may take for granted. `Detached`: the number of a process to come is no session that has a terminal, the daemon's session was made by a process that has gone, and nobody else gets into its group |

Only model-checked: liveness, which is out of the prover's reach
(`DigestDelivered`, `Terminates`, `DaemonizeEnds`); and of `MCFormats` the properties
about printed and parsed addresses and about dates
(`PrintsCanonically`, `ParsesWhatItSays`, `DatesReadBack`).  Those functions are folds over their
input, and what such a function computes for every input needs an induction theorem
for it.  Where a recursive function is proved about (`ones`, the rows of `TreeHash`,
the turns of `Sha1Update`, of `base32_decode`, of `tiger`, of `tokenline`, of
`url_decode`, of `parse_port_number`, of `uri_canonize_path` and of the two searches, the digits of
`Printed`), a lemma says that it exists, by induction over a set of numbers
(`SetInduction`).  What the three runs that find a disagreement check is false, so
there is nothing to prove.

## 6. Where the code and its documentation disagree

| run | finding |
|---|---|
| `convert_bad` | `README:97` promises a conversion; `main.c:282` ignores what the decoders return, so for an argument with a bad character in front of its last digit bytes of `raw` that were never stored are printed, with exit status 0 |
| `codec_bits` | `base32.c:59` cuts a last group of two bytes to three characters, although the table at `base32.c:76` has bits of the second byte in the fourth; `bitter` itself encodes 20 and 24 bytes only |
| `append_date` | `append_date` returns NULL, and subtracts the caller's pointer from it, if the date does not fit (`append.h:310`) |

These the properties name as exceptions, each in the comment in front of it:

- `parse_iso8601_date` looks at the hyphens of a date but does not pass them, so
  that the number of the month begins at one and no date is accepted, not even
  what `print_iso8601_date` prints (`nettools.c:1258`; `DatesReadBack`).
- The functions of `append.h` for numbers terminate the buffer and keep a byte for
  the NUL, although `append.h:44` says that only the string functions do
  (`TerminatedPrefix`, `FilledPrefix`).
- `base16_encode` and `base16_decode` handle a destination that is too small, or a
  text of odd length, as if it were larger (`base16.c:45`; `EncodesBits`,
  `DecodesBack`); the maps of both decoders are one byte too short (`BadNoticed`);
  and that of base 16 has an entry for NUL, which is not refused (`base16.c:82`;
  `DecodesBack`).
- `parse_ipv6_addr` takes texts that are no valid IPv6 addresses, which
  `nettools.c:808` says it refuses: single colons at the ends, a double colon for no group,
  zeros in front of a group and numbers above 255, which are taken modulo 256; at a
  third colon in a row it steps back by one (`nettools.c:828-838`, `784`;
  `ParsesWhatItSays`).
- `print_ipv4_addr` prints nothing into fewer than 16 bytes (`PrintsCanonically`);
  the last test of `ipv4_is_private` compares two bits of a byte with 224, so that
  224.0.0.0 and above are not private (`net_addr.h:185`; `PrefixBits`).
- `url_split` compares a pointer with `'\0'` and passes the end of a URL that has
  neither a colon nor a slash behind the host (`nettools.c:1843`; `UrlTaken`);
  `uri_canonize_path` refuses every path that ends with `/..` (`PathsCanonical`);
  `tokenline` stores the last NUL behind a full buffer (`nettools.c:2057`;
  `LinesTokenized`).
- `compat_memmem` compares bytes behind the data (`compat.c:708`; `Finds`);
  `prime_up(0)` does not end (`nettools.c:2208`) and is not among the jobs of the run.
- A named file whose reading fails is left out, and output that is lost is not
  noticed; both leave the exit status 0 (`main.c:347`, `main.c:197`;
  `SuccessCoversAll`).
- `safer_fopen` accepts a file that is not regular if it took the inode number of
  the one that was seen, or a name that was free; it looks at the owner only when root opens the file, although
  `nettools.c:2120` and `2146` say "root-owned or owned by real user", and lets the
  group write to root's file, where `nettools.c:2065` says "at most root-writeable".  `compat_chroot` leaves a
  descriptor open whenever it fails behind its `open`, and its last check
  compares the descriptor with itself, so that the root may be another directory
  than the one that was looked at (`compat.c:397`; `OpenedAsSeen`,
  `DescriptorsClosed`).
- When the caller of `compat_daemonize` leads a session with a terminal, its exit
  may hang up the child before the child's `setsid`; `compat_disable_fork` and
  `compat_disable_coredumps` take any failure of their last call for success
  (`OneReturns`).

## 7. Not modelled

The rounds and tables of Tiger and the SHA-1 implementation (arithmetic that a
model checker cannot explore; the properties only need that equal inputs give
equal digests); `debug.c`, `common.h`, `casts.h` (output, types and macros); the
build scripts; the memory helpers of `compat.c` and the string comparison there
(what could go wrong is the allocator's, or arithmetic on one pointer); the
numbers that `nettools.c:456-515` prints into static buffers; `net_addr_hash`, which
shifts a byte by up to 60 bits and whose value nothing depends on.  What is
model-checked but not proved is at the end of section 5.
