----------------------------- MODULE Daemonize ------------------------------
(***************************************************************************)
(* compat_daemonize, compat_disable_fork and compat_disable_coredumps of   *)
(* lib/compat.c, in all processes that their forks make.  A step is a      *)
(* system call of one process, and may fail; the processes interleave.     *)
(*                                                                         *)
(* A process that has returned from one of the functions is the caller     *)
(* again and may call the next one.  The numbers of processes that are     *)
(* gone are used again when no process is in their group or session.       *)
(***************************************************************************)
EXTENDS Integers, FiniteSets

CONSTANTS
  Pids,      \* numbers of processes
  First,     \* the process that makes the first call
  Shell,     \* session and group of whoever started it
  MaxCalls

ASSUME PidAssumption == Pids \cup {Shell} \subseteq Nat /\ First \in Pids /\ Shell \notin Pids
ASSUME CallAssumption == MaxCalls \in Nat

Streams == {"stdin", "stdout", "stderr"}

VARIABLES
  proc,        \* the processes
  terminal,    \* the session that has a controlling terminal, or NoTerminal
  privileged,  \* the limits do not hold for these processes and can be raised
  calls,
  written,     \* how often what First had in its output buffer was written
  hungup,      \* history: the program was ended by the hangup of the terminal
  unseen       \* history: what failed in this call is not what its result says

vars == <<proc, terminal, privileged, calls, written, hungup, unseen>>

NoTerminal == -1
NoResult == 1
NoLimit == 2    \* a limit that does not matter

Nobody == [pc |-> "gone", round |-> 0, sid |-> Shell, pgid |-> Shell, buffered |-> FALSE,
           ignored |-> FALSE, umask |-> "callers", cwd |-> "callers", null |-> {},
           nproc |-> NoLimit, core |-> NoLimit, done |-> "none", ret |-> NoResult]

Alive == {p \in Pids : proc[p].pc # "gone"}

(* The caller was started in the group and session of its shell, as a job  *)
(* of its own, or leads a session.                                         *)
Init ==
  /\ \E s \in {<<Shell, Shell>>, <<Shell, First>>, <<First, First>>} :
       proc = [p \in Pids |-> IF p = First
                 THEN [Nobody EXCEPT !.pc = "back", !.sid = s[1], !.pgid = s[2], !.buffered = TRUE]
                 ELSE Nobody]
  /\ terminal \in {proc[First].sid, NoTerminal}
  /\ privileged \in BOOLEAN
  /\ calls = 0 /\ written = 0 /\ hungup = FALSE /\ unseen = FALSE

-----------------------------------------------------------------------------
Is(p, pc) == proc[p].pc = pc
Same == UNCHANGED <<terminal, privileged, calls, written, hungup, unseen>>
Becomes(p, r) == proc' = [proc EXCEPT ![p] = r] /\ Same
Goes(p, pc) == Becomes(p, [proc[p] EXCEPT !.pc = pc])
Returns(p, ret) == Becomes(p, [proc[p] EXCEPT !.pc = "back", !.ret = ret])

Call(p, function, pc) ==
  /\ Is(p, "back") /\ calls < MaxCalls
  /\ proc' = [proc EXCEPT ![p] = [@ EXCEPT !.pc = pc, !.round = 0, !.done = function, !.ret = NoResult]]
  /\ calls' = calls + 1 /\ unseen' = FALSE
  /\ UNCHANGED <<terminal, privileged, written, hungup>>

(* Every call that may fail; fork has an action of its own.                *)
Failing == {"signal", "setpgid", "chdir", "stdin", "stdout", "stderr",
            "limitfork", "getfork", "limitcore", "getcore"}
Fails(p) == proc[p].pc \in Failing /\ Returns(p, -1)

-----------------------------------------------------------------------------
Daemonize(p) == Call(p, "daemonize", "signal")

IgnoreChildren(p) ==
  Is(p, "signal") /\ Becomes(p, [proc[p] EXCEPT !.pc = "flush", !.ignored = TRUE])

(* fflush in front of a fork.                                              *)
Flush(p) ==
  /\ proc[p].pc \in {"flush", "flushfork"}
  /\ proc' = [proc EXCEPT ![p].pc = IF Is(p, "flush") THEN "fork" ELSE "tryfork", ![p].buffered = FALSE]
  /\ written' = IF proc[p].buffered THEN written + 1 ELSE written
  /\ UNCHANGED <<terminal, privileged, calls, hungup, unseen>>

Free == {p \in Pids \ Alive : \A q \in Alive : p \notin {proc[q].sid, proc[q].pgid}}

(* No process but a privileged one passes a limit of zero or one, for it   *)
(* is one itself.                                                          *)
MayFork(p) == privileged \/ proc[p].nproc = NoLimit

(* What the child does next in round 0 and in round 1.                     *)
AfterFork(round) == IF round = 0 THEN "setsid" ELSE "setpgid"

(* Mutant: the parent returns.                                             *)
ReturningFork(p) ==
  /\ Is(p, "fork") /\ MayFork(p)
  /\ \E c \in Free :
       proc' = [proc EXCEPT ![p].pc = "back", ![c] = [proc[p] EXCEPT !.pc = AfterFork(proc[p].round)]]
  /\ Same

Fork(p) ==
  /\ Is(p, "fork") /\ MayFork(p)
  /\ \E c \in Free :
       proc' = [proc EXCEPT ![p].pc = "exit", ![c] = [proc[p] EXCEPT !.pc = AfterFork(proc[p].round)]]
  /\ Same

ForkFails(p) == Is(p, "fork") /\ Returns(p, -1)

(* _exit.  When the leader of a session goes the session has no terminal   *)
(* any longer, and the group in front of it is hung up.                    *)
Exit(p) ==
  /\ Is(p, "exit")
  /\ LET hangup == terminal = p
         ended == {q \in Alive \ {p} : hangup /\ proc[q].sid = p /\ proc[q].pgid = proc[p].pgid}
     IN  /\ proc' = [q \in Pids |-> IF q = p \/ q \in ended THEN Nobody ELSE proc[q]]
         /\ terminal' = IF hangup THEN NoTerminal ELSE terminal
         /\ hungup' = (hungup \/ \E q \in ended : ~Is(q, "exit"))
  /\ UNCHANGED <<privileged, calls, written, unseen>>

(* Mutant: the loop begins again with round 0.                             *)
EndlessSetsid(p) ==
  Is(p, "setsid") /\ Becomes(p, [proc[p] EXCEPT !.pc = "signal", !.round = 0, !.sid = p, !.pgid = p])

(* After the first fork only.  setsid fails for the leader of a group, and *)
(* a new process is none.                                                  *)
Setsid(p) ==
  Is(p, "setsid") /\ Becomes(p, [proc[p] EXCEPT !.pc = "signal", !.round = 1, !.sid = p, !.pgid = p])

(* Mutant: the group is left as it is.                                     *)
IdleSetpgid(p) == Is(p, "setpgid") /\ Goes(p, "chdir")

Setpgid(p) == Is(p, "setpgid") /\ Becomes(p, [proc[p] EXCEPT !.pc = "chdir", !.pgid = p])
Chdir(p) == Is(p, "chdir") /\ Becomes(p, [proc[p] EXCEPT !.pc = "umask", !.cwd = "given"])
Umask(p) == Is(p, "umask") /\ Becomes(p, [proc[p] EXCEPT !.pc = "stdin", !.umask = "restricted"])

(* compat_close_std_streams.                                               *)
Reopen(p, stream, next) ==
  Is(p, stream) /\ Becomes(p, [proc[p] EXCEPT !.pc = next, !.null = @ \cup {stream}])

CloseStdStreams(p) ==
  \/ Reopen(p, "stdin", "stdout")
  \/ Reopen(p, "stdout", "stderr")
  \/ Reopen(p, "stderr", "daemonized")

Daemonized(p) == Is(p, "daemonized") /\ Returns(p, 0)

-----------------------------------------------------------------------------
DisableFork(p) == Call(p, "disable_fork", "limitfork")

LimitFork(p) == Is(p, "limitfork") /\ Becomes(p, [proc[p] EXCEPT !.pc = "getfork", !.nproc = 0])
GetFork(p) == Is(p, "getfork") /\ Goes(p, "raisefork")

(* setrlimit once more; only a privileged process can raise its limit.     *)
RaiseFork(p) ==
  /\ Is(p, "raisefork")
  /\ \/ Goes(p, "flushfork")
     \/ privileged /\ Becomes(p, [proc[p] EXCEPT !.pc = "flushfork", !.nproc = 1])

(* The child leaves at once.                                               *)
TryFork(p) ==
  /\ Is(p, "tryfork") /\ MayFork(p)
  /\ \E c \in Free :
       proc' = [proc EXCEPT ![p].pc = "back", ![p].ret = -1, ![c] = [proc[p] EXCEPT !.pc = "exit"]]
  /\ Same

(* fork fails, because of the limit or for another reason.                 *)
TryForkFails(p) ==
  /\ Is(p, "tryfork")
  /\ proc' = [proc EXCEPT ![p].pc = "back", ![p].ret = 0]
  /\ unseen' = MayFork(p)
  /\ UNCHANGED <<terminal, privileged, calls, written, hungup>>

-----------------------------------------------------------------------------
DisableCoredumps(p) == Call(p, "disable_coredumps", "limitcore")

LimitCore(p) == Is(p, "limitcore") /\ Becomes(p, [proc[p] EXCEPT !.pc = "getcore", !.core = 0])
GetCore(p) == Is(p, "getcore") /\ Goes(p, "raisecore")

RaiseCore(p) ==
  /\ Is(p, "raisecore")
  /\ \/ Goes(p, "getcoreagain")
     \/ privileged /\ Becomes(p, [proc[p] EXCEPT !.pc = "getcoreagain", !.core = 1])

GetCoreAgain(p) == Is(p, "getcoreagain") /\ Returns(p, IF proc[p].core > 0 THEN -1 ELSE 0)

(* That getrlimit fails is only logged.                                    *)
GetCoreAgainFails(p) ==
  /\ Is(p, "getcoreagain")
  /\ proc' = [proc EXCEPT ![p].pc = "back", ![p].ret = 0]
  /\ unseen' = TRUE
  /\ UNCHANGED <<terminal, privileged, calls, written, hungup>>

-----------------------------------------------------------------------------
(* What a process does inside the functions.                               *)
Inside(p) ==
  \/ IgnoreChildren(p) \/ Flush(p) \/ Fork(p) \/ ForkFails(p) \/ Exit(p) \/ Setsid(p) \/ Setpgid(p)
  \/ Chdir(p) \/ Umask(p) \/ CloseStdStreams(p) \/ Daemonized(p)
  \/ LimitFork(p) \/ GetFork(p) \/ RaiseFork(p) \/ TryFork(p) \/ TryForkFails(p)
  \/ LimitCore(p) \/ GetCore(p) \/ RaiseCore(p) \/ GetCoreAgain(p) \/ GetCoreAgainFails(p)
  \/ Fails(p)

Calls(p) == Daemonize(p) \/ DisableFork(p) \/ DisableCoredumps(p)

Next == \E p \in Pids : Inside(p) \/ Calls(p)

(* The system runs every process that can run; nobody has to call.         *)
Fairness == \A p \in Pids : WF_vars(Inside(p))

Spec == Init /\ [][Next]_vars /\ Fairness

-----------------------------------------------------------------------------
(* compat.c:535, "Daemonizes the current process": who is told so is a     *)
(* process in a session that has no terminal and that it does not lead, so *)
(* that it cannot get one, in a group of its own; all that it has from its *)
(* starter - directory, umask, the three streams, unwritten output - is    *)
(* replaced; whichever processes of the two forks are still there.         *)
DaemonDetached ==
  \A p \in Alive :
    Is(p, "back") /\ proc[p].done = "daemonize" /\ proc[p].ret = 0 =>
      /\ proc[p].sid \notin {p, Shell, terminal}
      /\ proc[p].pgid = p
      /\ \A q \in Alive \ {p} : proc[q].pgid # p
      /\ proc[p].null = Streams /\ ~proc[p].buffered
      /\ proc[p].umask = "restricted" /\ proc[p].cwd = "given"

(* However the processes interleave and whatever fails, the program goes   *)
(* on in exactly one of them, that is in the one that returns; the others  *)
(* do nothing more than leave.  Output that was not written when the call  *)
(* was made is written once, or is still to be written by that one.  A     *)
(* limit that is reported to be disabled is: compat.c:450, "Good, fork()   *)
(* failed as expected".                                                    *)
(* Exceptions: none goes on if the caller led a session and the hangup     *)
(* reached the child before its setsid; and fork may have failed for       *)
(* another reason than the limit, as may the last getrlimit (compat.c:501).*)
OneReturns ==
  /\ IF hungup THEN \A p \in Alive : Is(p, "exit")
     ELSE Cardinality({p \in Alive : ~Is(p, "exit")}) = 1
  /\ written + Cardinality({p \in Alive : proc[p].buffered}) = 1
  /\ \A p \in Alive : Is(p, "back") /\ proc[p].ret = 0 /\ ~unseen =>
       /\ proc[p].done = "disable_fork" => ~MayFork(p)
       /\ proc[p].done = "disable_coredumps" => proc[p].core = 0

(* Every call comes to an end: the processes that are to leave have left,  *)
(* the one that goes on has returned, unless there is none.                *)
DaemonizeEnds ==
  <>[](/\ \A p \in Alive : Is(p, "back")
       /\ Alive # {} \/ hungup)
=============================================================================
