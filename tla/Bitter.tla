------------------------------- MODULE Bitter -------------------------------
(***************************************************************************)
(* The program: main, get_sums and print_result of main.c, against an      *)
(* operating system whose open, fstat and read fail, return less than      *)
(* asked for, or are interrupted, and against files that grow while they   *)
(* are read.                                                               *)
(*                                                                         *)
(* A byte is represented by the file it was read from and its offset, and  *)
(* a digest by the sequence of bytes that was hashed: TreeHash, which the  *)
(* tree hash of lib/tigertree.c implements, and SHA-1 depend on nothing    *)
(* else.  Whatever an option or an argument can be is chosen in Init.      *)
(***************************************************************************)
EXTENDS Integers, SequencesExt, FiniteSetsExt

CONSTANTS
  Files,      \* names a command line may have
  Stdin,      \* the name used here for the standard input
  NoName,     \* NULL, passed for the file name
  Unset,      \* contents of a buffer nothing was stored in
  MaxOptions, \* options on a command line
  MaxArgs,    \* file names on a command line
  MaxSize,    \* bytes in a file
  BufSize,    \* bytes one read can return (32 KiB in the code)
  MaxChunk,   \* bytes the system's SHA-1 takes in one call (compat_sha1.h)
  FdLimit     \* descriptors the process may have open

ASSUME NameAssumption == Stdin \notin Files /\ NoName \notin Files \cup {Stdin}
ASSUME UnsetAssumption == Unset \notin {"success", "failure"}
ASSUME SizeAssumption ==
  /\ BufSize \in Nat \ {0} /\ MaxChunk \in Nat \ {0} /\ MaxSize \in Nat /\ MaxArgs \in Nat /\ MaxOptions \in Nat
  /\ FdLimit \in Nat /\ FdLimit > 3

Streams == Files \cup {Stdin}
StdFds == {0, 1, 2}

(* c: -c with a value of one of the two right lengths, x: of another one.  *)
(* ?: anything getopt does not know.                                       *)
Options == {"h", "S", "T", "c", "x", "v", "q", "?"}

VARIABLES
  \* the operating system
  size,       \* bytes in each file
  table,      \* open descriptors
  offset,     \* file offset of fd
  out,        \* lines written to stdout
  status,     \* exit status, or Unset while running
  \* main
  opts,       \* options getopt has not returned yet
  args,       \* file names
  i,          \* local i: names done
  fd,         \* local fd
  get_bitprint, get_sha1, get_tth, quiet,
  sha1_buf, tth_buf,    \* the static result buffers
  \* get_sums
  data, ret, errno,     \* static read buffer and result of read
  sha1_ctx, tt_ctx,     \* the two contexts: bytes absorbed
  pc,
  \* history
  given,      \* the options of the command line
  atOpen,     \* size of the current file when it was opened
  reported    \* per name done: "line", "lost" or "failed", its stream, atOpen,
              \* and the number of the next line of out

os == <<size, table, offset, out, status>>
flags == <<get_bitprint, get_sha1, get_tth, quiet>>
main == <<opts, args, i, fd, flags, sha1_buf, tth_buf>>
sums == <<data, ret, errno, sha1_ctx, tt_ctx>>
history == <<given, atOpen, reported>>
vars == <<os, main, sums, pc, history>>

-----------------------------------------------------------------------------
(* A stream that will not be read may as well be empty.                    *)
Init ==
  /\ table = StdFds /\ offset = 0 /\ out = <<>> /\ status = Unset
  /\ opts \in BoundedSeq(Options, MaxOptions)
  /\ args \in BoundedSeq(Files, MaxArgs)
  /\ size \in {s \in [Streams -> 0..MaxSize] :
               \A f \in Streams : s[f] > 0 => IF args = <<>> THEN f = Stdin ELSE f \in Range(args)}
  /\ i = 0 /\ fd = Unset
  /\ get_bitprint = TRUE /\ get_sha1 = FALSE /\ get_tth = FALSE /\ quiet = FALSE
  /\ sha1_buf = Unset /\ tth_buf = Unset
  /\ data = [k \in 1..BufSize |-> Unset] /\ ret = 0 /\ errno = "none"
  /\ sha1_ctx = Unset /\ tt_ctx = Unset
  /\ pc = "options"
  /\ given = opts /\ atOpen = 0 /\ reported = <<>>

Exit(code) == status' = code /\ pc' = "exited"

(* What is printed is written when the buffer is full and at exit, if the  *)
(* standard output takes it; nobody looks whether it does.                 *)
Printed(lines) == out' = out \o lines
Lost == UNCHANGED out

-----------------------------------------------------------------------------
(* The getopt loop of main.                                                *)

(* -h, -v, -c, a bad option, and a second -S or -T end the program.        *)
OptionExit ==
  /\ pc = "options" /\ opts # <<>>
  /\ LET o == Head(opts) IN
     \/ o = "h" /\ Exit("success") /\ UNCHANGED out
     \/ o = "v" /\ Exit("success") /\ (Printed(<<[kind |-> "version"]>>) \/ Lost)
     \/ o = "c" /\ Exit("success") /\ (Printed(<<[kind |-> "converted"]>>) \/ Lost)
     \/ o \in {"x", "?"} /\ Exit("failure") /\ UNCHANGED out
     \/ o \in {"S", "T"} /\ ~get_bitprint /\ Exit("failure") /\ UNCHANGED out
  /\ UNCHANGED <<size, table, offset, main, sums, history>>

(* Mutant: the last of several -S and -T wins.                             *)
LastOptionMode ==
  /\ pc = "options" /\ opts # <<>>
  /\ Head(opts) \in {"S", "T"}
  /\ get_bitprint' = FALSE
  /\ get_sha1' = (Head(opts) = "S")
  /\ get_tth' = (Head(opts) = "T")
  /\ opts' = Tail(opts)
  /\ UNCHANGED <<os, args, i, fd, quiet, sha1_buf, tth_buf, sums, pc, history>>

OptionMode ==
  /\ pc = "options" /\ opts # <<>>
  /\ Head(opts) \in {"S", "T"} /\ get_bitprint
  /\ get_bitprint' = FALSE
  /\ get_sha1' = (Head(opts) = "S")
  /\ get_tth' = (Head(opts) = "T")
  /\ opts' = Tail(opts)
  /\ UNCHANGED <<os, args, i, fd, quiet, sha1_buf, tth_buf, sums, pc, history>>

OptionQuiet ==
  /\ pc = "options" /\ opts # <<>>
  /\ Head(opts) = "q"
  /\ quiet' = TRUE
  /\ opts' = Tail(opts)
  /\ UNCHANGED <<os, args, i, fd, get_bitprint, get_sha1, get_tth, sha1_buf, tth_buf,
                 sums, pc, history>>

(* After the last option: without -S and -T both hashes are calculated.    *)
OptionsEnd ==
  /\ pc = "options" /\ opts = <<>>
  /\ get_sha1' = (get_bitprint \/ get_sha1)
  /\ get_tth' = (get_bitprint \/ get_tth)
  /\ IF args = <<>>
     THEN /\ fd' = 0 /\ offset' = 0 /\ atOpen' = size[Stdin]
          /\ pc' = "fstat"
     ELSE pc' = "open" /\ UNCHANGED <<fd, offset, atOpen>>
  /\ UNCHANGED <<size, table, out, status, opts, args, i, get_bitprint, quiet,
                 sha1_buf, tth_buf, sums, given, reported>>

-----------------------------------------------------------------------------
(* The file loop of main.                                                  *)

LowestFree == CHOOSE n \in 0..FdLimit : n \notin table /\ \A m \in 0..(n - 1) : m \in table

Open ==
  /\ pc = "open" /\ i < Len(args)
  /\ Cardinality(table) < FdLimit
  /\ fd' = LowestFree
  /\ table' = table \cup {LowestFree}
  /\ offset' = 0
  /\ atOpen' = size[args[i + 1]]
  /\ pc' = "fstat"
  /\ UNCHANGED <<size, out, status, opts, args, i, flags, sha1_buf, tth_buf, sums,
                 given, reported>>

(* Mutant: a file that cannot be opened is skipped.                        *)
SkipOpenFails ==
  /\ pc = "open" /\ i < Len(args)
  /\ i' = i + 1
  /\ UNCHANGED <<os, opts, args, fd, flags, sha1_buf, tth_buf, sums, pc, history>>

(* No such file, no permission, or no descriptor left: the rest of the     *)
(* command line is not looked at.                                          *)
OpenFails ==
  /\ pc = "open" /\ i < Len(args)
  /\ Exit("failure")
  /\ UNCHANGED <<size, table, offset, out, main, sums, history>>

(* The stream that is read, and the history of what became of it.          *)
Stream == IF args = <<>> THEN Stdin ELSE args[i + 1]

Report(result) ==
  reported' = Append(reported, [result |-> result, stream |-> Stream, least |-> atOpen,
                                  line |-> Len(out) + 1])

(* The lines of print_result.                                              *)
ResultLines ==
  LET name == IF args = <<>> \/ quiet THEN NoName ELSE args[i + 1]
      line(k, digests) == [kind |-> k, name |-> name, digests |-> digests]
  IN  IF get_bitprint /\ get_tth /\ get_sha1 THEN <<line("bitprint", <<sha1_buf, tth_buf>>)>>
      ELSE (IF get_tth THEN <<line("tth", <<tth_buf>>)>> ELSE <<>>)
           \o (IF get_sha1 THEN <<line("sha1", <<sha1_buf>>)>> ELSE <<>>)

(* print_result, after get_sums returned 0.                                *)
PrintResult ==
  /\ pc = "print"
  /\ \/ Printed(ResultLines) /\ Report("line")
     \/ Lost /\ Report("lost")
  /\ IF args = <<>> THEN Exit("success") ELSE pc' = "close" /\ UNCHANGED status
  /\ UNCHANGED <<size, table, offset, main, sums, given, atOpen>>

(* Mutant: the program goes on without close.                              *)
LeakingSumsFail ==
  /\ Report("failed")
  /\ IF args = <<>> THEN Exit("failure") ELSE pc' = "open" /\ UNCHANGED status

(* get_sums returned -1: fatal for the standard input only.                *)
SumsFail ==
  /\ Report("failed")
  /\ IF args = <<>> THEN Exit("failure") ELSE pc' = "close" /\ UNCHANGED status

Close ==
  /\ pc = "close"
  /\ table' = table \ {fd}
  /\ fd' = Unset
  /\ i' = i + 1
  /\ pc' = "open"
  /\ UNCHANGED <<size, offset, out, status, opts, args, flags, sha1_buf, tth_buf, sums,
                 history>>

Return ==
  /\ pc = "open" /\ i = Len(args)
  /\ Exit("success")
  /\ UNCHANGED <<size, table, offset, out, main, sums, history>>

-----------------------------------------------------------------------------
(* get_sums(fd, tth, sha1).                                                *)

(* fstat, then the contexts that are wanted are initialised.               *)
Fstat ==
  /\ pc = "fstat"
  /\ sha1_ctx' = IF get_sha1 THEN <<>> ELSE Unset
  /\ tt_ctx' = IF get_tth THEN <<>> ELSE Unset
  /\ pc' = "read"
  /\ UNCHANGED <<os, main, data, ret, errno, history>>

FstatFails ==
  /\ pc = "fstat"
  /\ SumsFail
  /\ UNCHANGED <<size, table, offset, out, main, sums, given, atOpen>>

(* read stores n bytes, possibly fewer than there are.                     *)
ReadData ==
  /\ pc = "read"
  /\ \E n \in 1..BufSize :
       /\ offset + n <= size[Stream]
       /\ ret' = n
       /\ data' = [k \in 1..BufSize |-> IF k <= n THEN <<Stream, offset + k>> ELSE data[k]]
       /\ offset' = offset + n
  /\ pc' = "update"
  /\ UNCHANGED <<size, table, out, status, main, errno, sha1_ctx, tt_ctx, history>>

(* Mutant: 0 is taken for an interrupted call.                             *)
EndlessReadEnd ==
  /\ pc = "read" /\ offset >= size[Stream]
  /\ ret' = 0
  /\ UNCHANGED <<os, main, data, errno, sha1_ctx, tt_ctx, pc, history>>

ReadEnd ==
  /\ pc = "read" /\ offset >= size[Stream]
  /\ ret' = 0
  /\ pc' = "final"
  /\ UNCHANGED <<os, main, data, errno, sha1_ctx, tt_ctx, history>>

(* A signal, or a non-blocking descriptor without data: read again.        *)
ReadAgain ==
  /\ pc = "read"
  /\ ret' = -1 /\ errno' \in {"EINTR", "EAGAIN"}
  /\ UNCHANGED <<os, main, data, sha1_ctx, tt_ctx, pc, history>>

ReadFails ==
  /\ pc = "read"
  /\ ret' = -1 /\ errno' = "EIO"
  /\ SumsFail
  /\ UNCHANGED <<size, table, offset, out, main, data, sha1_ctx, tt_ctx, given, atOpen>>

(* Mutant: all of the buffer is hashed.                                    *)
AbsorbedWhole(ctx) == ctx \o data

(* The bytes just read, fed to the tree hash.                              *)
Absorbed(ctx) == ctx \o SubSeq(data, 1, ret)

(* Mutant: the size is cut, and the rest of the chunk is forgotten.        *)
ForgetfulSha1Chunk(st) ==
  [ctx |-> st.ctx \o SubSeq(st.rest, 1, Min({MaxChunk, Len(st.rest)})), rest |-> <<>>]

(* A turn of the loop of compat_sha1_update; in the builds without a loop  *)
(* MaxChunk is at least BufSize.                                           *)
Sha1Chunk(st) ==
  LET n == Min({MaxChunk, Len(st.rest)})
  IN  [ctx |-> st.ctx \o SubSeq(st.rest, 1, n), rest |-> SubSeq(st.rest, n + 1, Len(st.rest))]

(* compat_sha1_update; when nothing is left, a turn changes nothing.       *)
Sha1Update(bytes) ==
  LET turn[k \in 0..Len(bytes)] ==
        IF k = 0 THEN [ctx |-> sha1_ctx, rest |-> bytes] ELSE Sha1Chunk(turn[k - 1])
  IN  turn[Len(bytes)].ctx

UpdateSums ==
  /\ pc = "update"
  /\ sha1_ctx' = IF get_sha1 THEN Sha1Update(SubSeq(data, 1, ret)) ELSE sha1_ctx
  /\ tt_ctx' = IF get_tth THEN Absorbed(tt_ctx) ELSE tt_ctx
  /\ pc' = "read"
  /\ UNCHANGED <<os, main, data, ret, errno, history>>

FinalSums ==
  /\ pc = "final"
  /\ sha1_buf' = IF get_sha1 THEN sha1_ctx ELSE sha1_buf
  /\ tth_buf' = IF get_tth THEN tt_ctx ELSE tth_buf
  /\ pc' = "print"
  /\ UNCHANGED <<os, opts, args, i, fd, flags, sums, history>>

-----------------------------------------------------------------------------
(* Another process appends to the file that is being read.  Before that    *)
(* the size is arbitrary anyway.                                           *)
Grow ==
  /\ pc \in {"fstat", "read", "update"}
  /\ size[Stream] < MaxSize
  /\ size' = [size EXCEPT ![Stream] = @ + 1]
  /\ UNCHANGED <<table, offset, out, status, main, sums, pc, history>>

(* What read can answer other than "try again".                            *)
ReadAnswers == ReadData \/ ReadEnd \/ ReadFails

Step ==
  \/ OptionExit \/ OptionMode \/ OptionQuiet \/ OptionsEnd
  \/ Open \/ OpenFails \/ PrintResult \/ Close \/ Return
  \/ Fstat \/ FstatFails \/ ReadAnswers \/ ReadAgain \/ UpdateSums \/ FinalSums

Next == Step \/ Grow

(* The process is scheduled, and read does not answer EINTR or EAGAIN      *)
(* forever: the loop of get_sums retries at once, without a limit.         *)
Fairness == WF_vars(Step) /\ SF_vars(ReadAnswers)

Spec == Init /\ [][Next]_vars
FairSpec == Spec /\ Fairness

-----------------------------------------------------------------------------
Prefix(f, n) == [k \in 1..n |-> <<f, k>>]

HashKinds == {"bitprint", "tth", "sha1"}
Done == {k \in DOMAIN reported : reported[k].result = "line"}

(* A printed digest is that of a whole file and of nothing else: all its   *)
(* bytes in order, at least those it had when it was opened, however short *)
(* the reads were and however often they were interrupted; and the line    *)
(* carries the name of that file.  Nothing of another file is left in the  *)
(* static buffers.  Each file has one line, in the order of the files, and *)
(* no line is of none.                                                     *)
PrintedDigests ==
  /\ \A k, m \in Done : k < m => reported[k].line < reported[m].line
  /\ \A j \in DOMAIN out : out[j].kind \in HashKinds => \E k \in Done : reported[k].line = j
  /\ \A k \in Done :
       LET r == reported[k]
           l == out[r.line]
       IN  /\ r.line \in DOMAIN out /\ l.kind \in HashKinds
           /\ l.name = IF r.stream = Stdin \/ quiet THEN NoName ELSE r.stream
           /\ \A d \in DOMAIN l.digests :
                \E n \in r.least..size[r.stream] : l.digests[d] = Prefix(r.stream, n)

(* Both halves of a bitprint are of the same bytes, although the file      *)
(* grows while they are calculated.                                        *)
HalvesAgree ==
  \A j \in DOMAIN out :
    LET l == out[j]
    IN  l.kind = "bitprint" => Len(l.digests) = 2 /\ l.digests[1] = l.digests[2]

(* Whatever fails, a file is closed before the next one is opened and      *)
(* before the program returns: one descriptor is enough for any number of  *)
(* files.                                                                  *)
OneDescriptor ==
  /\ \A n \in table \ StdFds : fd = n /\ pc \notin {"options", "open", "exited"}
  /\ StdFds \subseteq table

Modes == {k \in DOMAIN given : given[k] \in {"S", "T"}}

(* What the options select: -S or -T alone, at most one of them and at     *)
(* most once, or both hashes.                                              *)
ModeFollowsOptions ==
  pc \notin {"options", "exited"} =>
    /\ \A k, m \in Modes : k = m
    /\ get_sha1 = (\A k \in Modes : given[k] = "S")
    /\ get_tth = (\A k \in Modes : given[k] = "T")
    /\ get_bitprint = (Modes = {})

(* Exit status 0 without an option that ends the program means that every  *)
(* file was opened, in the order of the command line; a file that could    *)
(* not be opened is never skipped silently, and a failing read or fstat of *)
(* the standard input never ends in success.  Exceptions: a named file     *)
(* whose fstat or read fails is left out and the loop goes on (main.c:347),*)
(* and output that is lost is not noticed (main.c:197); both end in exit   *)
(* status 0.                                                               *)
SuccessCoversAll ==
  status = "success" /\ opts = <<>> =>
    /\ [k \in 1..Len(reported) |-> reported[k].stream] = IF args = <<>> THEN <<Stdin>> ELSE args
    /\ args = <<>> => reported[1].result # "failed"

(* The program ends: every file is read to its end, or given up.           *)
Terminates == <>(pc = "exited")
=============================================================================
