-------------------------- MODULE DaemonizeProofs ---------------------------
(***************************************************************************)
(* The program goes on in exactly one of the processes of compat_daemonize *)
(* and compat_disable_fork, for any numbers of processes and of calls.     *)
(***************************************************************************)
EXTENDS Daemonize, FiniteSetTheorems, TLAPS

DaemonStages == {"signal", "flush", "fork", "setsid", "setpgid", "chdir", "umask",
                 "stdin", "stdout", "stderr", "daemonized"}
ForkStages == {"limitfork", "getfork", "raisefork", "flushfork", "tryfork"}
CoreStages == {"limitcore", "getcore", "raisecore", "getcoreagain"}
Going == {"back"} \cup DaemonStages \cup ForkStages \cup CoreStages

Processes ==
  [pc : {"gone", "exit"} \cup Going, round : {0, 1}, sid : Nat, pgid : Nat,
   buffered : BOOLEAN, ignored : BOOLEAN, umask : {"callers", "restricted"},
   cwd : {"callers", "given"}, null : SUBSET Streams, nproc : {0, 1, NoLimit}, core : {0, 1, NoLimit},
   done : {"none", "daemonize", "disable_fork", "disable_coredumps"}, ret : {-1, 0, NoResult}]

Active == {p \in Pids : proc[p].pc \in Going}
Buffered == {p \in Pids : proc[p].buffered}

Alone == IF hungup THEN Active = {} ELSE \E m \in Pids : Active = {m}

(* The buffer is written in front of every fork, so no copy of it is left. *)
Once ==
  /\ \/ written = 0 /\ ~hungup /\ \E m \in Active : Buffered = {m}
     \/ written = 1 /\ Buffered = {}
  /\ \A p \in Pids : proc[p].pc \in {"fork", "tryfork", "exit"} => written = 1

(* Which function a process is in.                                         *)
Doing(r) ==
  /\ r.pc \in DaemonStages => r.done = "daemonize"
  /\ r.pc \in ForkStages => r.done = "disable_fork"
  /\ r.pc \in CoreStages => r.done = "disable_coredumps"

(* What it was told.                                                       *)
Told(r, hidden) ==
  r.pc = "back" /\ r.ret = 0 /\ ~hidden =>
    /\ r.done = "disable_fork" => ~(privileged \/ r.nproc = NoLimit)
    /\ r.done = "disable_coredumps" => r.core = 0

IndInv ==
  /\ proc \in [Pids -> Processes]
  /\ Alone
  /\ Once
  /\ \A p \in Pids : Doing(proc[p]) /\ Told(proc[p], unseen)

-----------------------------------------------------------------------------
LEMMA InitInv == Init => IndInv
<1> SUFFICES ASSUME Init
             PROVE  IndInv
  OBVIOUS
<1>1. Nobody \in Processes /\ Nobody.pc = "gone" /\ Nobody.buffered = FALSE
      /\ Nobody.ret = NoResult
  BY PidAssumption DEF Nobody, Processes, NoLimit, NoResult
<1>2. PICK s \in {<<Shell, Shell>>, <<Shell, First>>, <<First, First>>} :
        proc = [p \in Pids |-> IF p = First
                  THEN [Nobody EXCEPT !.pc = "back", !.sid = s[1], !.pgid = s[2], !.buffered = TRUE]
                  ELSE Nobody]
  BY DEF Init
<1>3. s[1] \in Nat /\ s[2] \in Nat
  BY PidAssumption
<1> DEFINE r == [Nobody EXCEPT !.pc = "back", !.sid = s[1], !.pgid = s[2], !.buffered = TRUE]
<1>4. r \in Processes /\ r.pc = "back" /\ r.buffered = TRUE /\ r.ret = NoResult
  BY <1>1, <1>3 DEF Processes, Going
<1> HIDE DEF r
<1>5. proc = [p \in Pids |-> IF p = First THEN r ELSE Nobody]
  BY <1>2 DEF r
<1>6. Active = {First} /\ Buffered = {First}
  BY <1>1, <1>4, <1>5, PidAssumption DEF Active, Buffered, Going, DaemonStages, ForkStages, CoreStages
<1>7. proc \in [Pids -> Processes]
  BY <1>1, <1>4, <1>5
<1>8. Alone /\ Once
  <2>1. written = 0 /\ ~hungup
    BY DEF Init
  <2>2. Alone
    BY <1>6, <2>1, PidAssumption DEF Alone
  <2>3. \A p \in Pids : proc[p].pc \notin {"fork", "tryfork", "exit"}
    BY <1>1, <1>4, <1>5
  <2> QED
    BY <1>6, <2>1, <2>2, <2>3 DEF Once
<1>9. \A p \in Pids : Doing(proc[p]) /\ Told(proc[p], unseen)
  BY <1>1, <1>4, <1>5 DEF Doing, Told, DaemonStages, ForkStages, CoreStages, NoResult
<1> QED
  BY <1>7, <1>8, <1>9 DEF IndInv

(* A process becomes r, goes on, and is not one that leaves.               *)
Turns(p, r) ==
  /\ proc' = [proc EXCEPT ![p] = r]
  /\ r.pc \in Going /\ r.pc \notin {"fork", "tryfork"}
  /\ r.buffered = proc[p].buffered
  /\ Doing(r) /\ Told(r, unseen')
  /\ UNCHANGED <<written, hungup, privileged>>

LEMMA GoesOn ==
  ASSUME IndInv, NEW p \in Pids, proc[p].pc \in Going, NEW r \in Processes, Turns(p, r)
  PROVE  IndInv'
<1> USE DEF Turns
<1>1. proc' \in [Pids -> Processes] /\ proc'[p] = r /\ \A q \in Pids \ {p} : proc'[q] = proc[q]
  BY DEF IndInv
<1>2. Active' = Active /\ Buffered' = Buffered
  BY <1>1 DEF Active, Buffered
<1>3. Alone'
  BY <1>2 DEF IndInv, Alone
<1>4. Once'
  BY <1>1, <1>2 DEF IndInv, Once, Going, DaemonStages, ForkStages, CoreStages
<1>5. \A q \in Pids \ {p} : proc[q].pc \notin Going
  BY DEF IndInv, Alone, Active
<1>6. ASSUME NEW q \in Pids
      PROVE  Doing(proc[q])' /\ Told(proc[q], unseen)'
  <2>1. CASE q = p
    BY <1>1, <2>1 DEF Doing, Told
  <2>2. CASE q # p
    BY <1>1, <1>5, <1>6, <2>2 DEF IndInv, Doing, Told, Going
  <2> QED
    BY <2>1, <2>2
<1> QED
  BY <1>1, <1>3, <1>4, <1>6 DEF IndInv
LEMMA Continues ==
  ASSUME IndInv, NEW p \in Pids, NEW r \in Processes, Becomes(p, r), proc[p].pc \in Going,
         r.pc \in Going, r.pc \notin {"back", "fork", "tryfork"},
         r.buffered = proc[p].buffered, Doing(r)
  PROVE  IndInv'
<1>1. Turns(p, r)
  BY DEF Turns, Becomes, Same, Told
<1> QED
  BY <1>1, GoesOn

LEMMA ComesBack ==
  ASSUME IndInv, NEW p \in Pids, NEW ret \in {-1, 0}, Returns(p, ret), proc[p].pc \in Going,
         ret = 0 => /\ proc[p].done = "disable_fork" => ~(privileged \/ proc[p].nproc = NoLimit)
                    /\ proc[p].done = "disable_coredumps" => proc[p].core = 0
  PROVE  IndInv'
<1> DEFINE r == [proc[p] EXCEPT !.pc = "back", !.ret = ret]
<1>1. proc[p] \in Processes
  BY DEF IndInv
<1>2. r \in Processes /\ r.pc = "back" /\ r.ret = ret /\ r.buffered = proc[p].buffered
      /\ r.done = proc[p].done /\ r.nproc = proc[p].nproc /\ r.core = proc[p].core
  BY <1>1 DEF Processes, Going
<1>3. Becomes(p, r)
  BY DEF Returns
<1> HIDE DEF r
<1>4. Turns(p, r)
  BY <1>2, <1>3 DEF Turns, Becomes, Same, Told, Doing, Going, DaemonStages, ForkStages, CoreStages
<1> QED
  BY <1>2, <1>4, GoesOn

LEMMA QuietSteps ==
  ASSUME IndInv, NEW p \in Pids,
         \/ IgnoreChildren(p) \/ Setsid(p) \/ Setpgid(p) \/ Chdir(p) \/ Umask(p) \/ CloseStdStreams(p)
  PROVE  IndInv'
<1> DEFINE old == proc[p]
<1>1. old \in Processes /\ Doing(old) /\ p \in Nat
  BY PidAssumption DEF IndInv
<1> SUFFICES /\ old.pc \in Going
             /\ \E r \in Processes : /\ Becomes(p, r) /\ r.pc \in Going
                                     /\ r.pc \notin {"back", "fork", "tryfork"}
                                     /\ r.buffered = old.buffered /\ Doing(r)
  BY Continues
<1> HIDE DEF old
<1> USE <1>1 DEF Going, DaemonStages, ForkStages, CoreStages, Doing, Is
<1>2. CASE IgnoreChildren(p)
  <2> DEFINE r == [old EXCEPT !.pc = "flush", !.ignored = TRUE]
  <2>1. old.pc = "signal" /\ Becomes(p, r)
    BY <1>2 DEF IgnoreChildren, old
  <2>2. r \in Processes /\ r.pc = "flush" /\ r.buffered = old.buffered /\ r.done = old.done
    BY DEF Processes
  <2> HIDE DEF r
  <2> QED
    BY <2>1, <2>2
<1>3. CASE Setsid(p)
  <2> DEFINE r == [old EXCEPT !.pc = "signal", !.round = 1, !.sid = p, !.pgid = p]
  <2>1. old.pc = "setsid" /\ Becomes(p, r)
    BY <1>3 DEF Setsid, old
  <2>2. r \in Processes /\ r.pc = "signal" /\ r.buffered = old.buffered /\ r.done = old.done
    BY DEF Processes
  <2> HIDE DEF r
  <2> QED
    BY <2>1, <2>2
<1>4. CASE Setpgid(p)
  <2> DEFINE r == [old EXCEPT !.pc = "chdir", !.pgid = p]
  <2>1. old.pc = "setpgid" /\ Becomes(p, r)
    BY <1>4 DEF Setpgid, old
  <2>2. r \in Processes /\ r.pc = "chdir" /\ r.buffered = old.buffered /\ r.done = old.done
    BY DEF Processes
  <2> HIDE DEF r
  <2> QED
    BY <2>1, <2>2
<1>5. CASE Chdir(p)
  <2> DEFINE r == [old EXCEPT !.pc = "umask", !.cwd = "given"]
  <2>1. old.pc = "chdir" /\ Becomes(p, r)
    BY <1>5 DEF Chdir, old
  <2>2. r \in Processes /\ r.pc = "umask" /\ r.buffered = old.buffered /\ r.done = old.done
    BY DEF Processes
  <2> HIDE DEF r
  <2> QED
    BY <2>1, <2>2
<1>6. CASE Umask(p)
  <2> DEFINE r == [old EXCEPT !.pc = "stdin", !.umask = "restricted"]
  <2>1. old.pc = "umask" /\ Becomes(p, r)
    BY <1>6 DEF Umask, old
  <2>2. r \in Processes /\ r.pc = "stdin" /\ r.buffered = old.buffered /\ r.done = old.done
    BY DEF Processes
  <2> HIDE DEF r
  <2> QED
    BY <2>1, <2>2
<1>7. CASE Reopen(p, "stdin", "stdout")
  <2> DEFINE r == [old EXCEPT !.pc = "stdout", !.null = @ \cup {"stdin"}]
  <2>1. old.pc = "stdin" /\ Becomes(p, r)
    BY <1>7 DEF Reopen, old
  <2>2. r \in Processes /\ r.pc = "stdout" /\ r.buffered = old.buffered /\ r.done = old.done
    BY DEF Processes, Streams
  <2> HIDE DEF r
  <2> QED
    BY <2>1, <2>2
<1>8. CASE Reopen(p, "stdout", "stderr")
  <2> DEFINE r == [old EXCEPT !.pc = "stderr", !.null = @ \cup {"stdout"}]
  <2>1. old.pc = "stdout" /\ Becomes(p, r)
    BY <1>8 DEF Reopen, old
  <2>2. r \in Processes /\ r.pc = "stderr" /\ r.buffered = old.buffered /\ r.done = old.done
    BY DEF Processes, Streams
  <2> HIDE DEF r
  <2> QED
    BY <2>1, <2>2
<1>9. CASE Reopen(p, "stderr", "daemonized")
  <2> DEFINE r == [old EXCEPT !.pc = "daemonized", !.null = @ \cup {"stderr"}]
  <2>1. old.pc = "stderr" /\ Becomes(p, r)
    BY <1>9 DEF Reopen, old
  <2>2. r \in Processes /\ r.pc = "daemonized" /\ r.buffered = old.buffered /\ r.done = old.done
    BY DEF Processes, Streams
  <2> HIDE DEF r
  <2> QED
    BY <2>1, <2>2
<1> QED
  BY <1>2, <1>3, <1>4, <1>5, <1>6, <1>7, <1>8, <1>9 DEF CloseStdStreams

(* The functions for limits change nothing but the limits until they fork  *)
(* or return.                                                              *)
LEMMA LimitStages ==
  ASSUME IndInv, NEW p \in Pids,
         LimitFork(p) \/ GetFork(p) \/ RaiseFork(p) \/ LimitCore(p) \/ GetCore(p) \/ RaiseCore(p)
  PROVE  /\ proc[p].pc \in ForkStages \cup CoreStages
         /\ \E r \in Processes :
              /\ Becomes(p, r) /\ r.pc \in (ForkStages \cup CoreStages) \ {"tryfork"}
              /\ r.buffered = proc[p].buffered /\ r.pgid = proc[p].pgid /\ Doing(r)
<1> DEFINE old == proc[p]
<1>1. old \in Processes /\ Doing(old)
  BY DEF IndInv
<1> SUFFICES /\ old.pc \in ForkStages \cup CoreStages
             /\ \E r \in Processes :
                  /\ Becomes(p, r) /\ r.pc \in (ForkStages \cup CoreStages) \ {"tryfork"}
                  /\ r.buffered = old.buffered /\ r.pgid = old.pgid /\ Doing(r)
  OBVIOUS
<1> HIDE DEF old
<1> USE <1>1 DEF Going, DaemonStages, ForkStages, CoreStages, Doing, Is
<1>2. CASE LimitFork(p)
  <2> DEFINE r == [old EXCEPT !.pc = "getfork", !.nproc = 0]
  <2>1. old.pc = "limitfork" /\ Becomes(p, r)
    BY <1>2 DEF LimitFork, old
  <2>2. /\ r \in Processes /\ r.pc = "getfork"
        /\ r.buffered = old.buffered /\ r.done = old.done /\ r.pgid = old.pgid
    BY DEF Processes
  <2> HIDE DEF r
  <2> QED
    BY <2>1, <2>2
<1>3. CASE GetFork(p)
  <2> DEFINE r == [old EXCEPT !.pc = "raisefork"]
  <2>1. old.pc = "getfork" /\ Becomes(p, r)
    BY <1>3 DEF GetFork, Goes, old
  <2>2. /\ r \in Processes /\ r.pc = "raisefork"
        /\ r.buffered = old.buffered /\ r.done = old.done /\ r.pgid = old.pgid
    BY DEF Processes
  <2> HIDE DEF r
  <2> QED
    BY <2>1, <2>2
<1>4. CASE Is(p, "raisefork") /\ Goes(p, "flushfork")
  <2> DEFINE r == [old EXCEPT !.pc = "flushfork"]
  <2>1. old.pc = "raisefork" /\ Becomes(p, r)
    BY <1>4 DEF Goes, old
  <2>2. /\ r \in Processes /\ r.pc = "flushfork"
        /\ r.buffered = old.buffered /\ r.done = old.done /\ r.pgid = old.pgid
    BY DEF Processes
  <2> HIDE DEF r
  <2> QED
    BY <2>1, <2>2
<1>5. CASE Is(p, "raisefork") /\ Becomes(p, [proc[p] EXCEPT !.pc = "flushfork", !.nproc = 1])
  <2> DEFINE r == [old EXCEPT !.pc = "flushfork", !.nproc = 1]
  <2>1. old.pc = "raisefork" /\ Becomes(p, r)
    BY <1>5 DEF Goes, old
  <2>2. /\ r \in Processes /\ r.pc = "flushfork"
        /\ r.buffered = old.buffered /\ r.done = old.done /\ r.pgid = old.pgid
    BY DEF Processes
  <2> HIDE DEF r
  <2> QED
    BY <2>1, <2>2
<1>6. CASE LimitCore(p)
  <2> DEFINE r == [old EXCEPT !.pc = "getcore", !.core = 0]
  <2>1. old.pc = "limitcore" /\ Becomes(p, r)
    BY <1>6 DEF LimitCore, old
  <2>2. /\ r \in Processes /\ r.pc = "getcore"
        /\ r.buffered = old.buffered /\ r.done = old.done /\ r.pgid = old.pgid
    BY DEF Processes
  <2> HIDE DEF r
  <2> QED
    BY <2>1, <2>2
<1>7. CASE GetCore(p)
  <2> DEFINE r == [old EXCEPT !.pc = "raisecore"]
  <2>1. old.pc = "getcore" /\ Becomes(p, r)
    BY <1>7 DEF GetCore, Goes, old
  <2>2. /\ r \in Processes /\ r.pc = "raisecore"
        /\ r.buffered = old.buffered /\ r.done = old.done /\ r.pgid = old.pgid
    BY DEF Processes
  <2> HIDE DEF r
  <2> QED
    BY <2>1, <2>2
<1>8. CASE Is(p, "raisecore") /\ Goes(p, "getcoreagain")
  <2> DEFINE r == [old EXCEPT !.pc = "getcoreagain"]
  <2>1. old.pc = "raisecore" /\ Becomes(p, r)
    BY <1>8 DEF Goes, old
  <2>2. /\ r \in Processes /\ r.pc = "getcoreagain"
        /\ r.buffered = old.buffered /\ r.done = old.done /\ r.pgid = old.pgid
    BY DEF Processes
  <2> HIDE DEF r
  <2> QED
    BY <2>1, <2>2
<1>9. CASE Is(p, "raisecore") /\ Becomes(p, [proc[p] EXCEPT !.pc = "getcoreagain", !.core = 1])
  <2> DEFINE r == [old EXCEPT !.pc = "getcoreagain", !.core = 1]
  <2>1. old.pc = "raisecore" /\ Becomes(p, r)
    BY <1>9 DEF Goes, old
  <2>2. /\ r \in Processes /\ r.pc = "getcoreagain"
        /\ r.buffered = old.buffered /\ r.done = old.done /\ r.pgid = old.pgid
    BY DEF Processes
  <2> HIDE DEF r
  <2> QED
    BY <2>1, <2>2
<1> QED
  BY <1>2, <1>3, <1>4, <1>5, <1>6, <1>7, <1>8, <1>9 DEF RaiseFork, RaiseCore

LEMMA LimitSteps ==
  ASSUME IndInv, NEW p \in Pids,
         LimitFork(p) \/ GetFork(p) \/ RaiseFork(p) \/ LimitCore(p) \/ GetCore(p) \/ RaiseCore(p)
  PROVE  IndInv'
<1>1. proc[p].pc \in Going
  BY LimitStages DEF Going
<1>2. PICK r \in Processes :
        /\ Becomes(p, r) /\ r.pc \in (ForkStages \cup CoreStages) \ {"tryfork"}
        /\ r.buffered = proc[p].buffered /\ Doing(r)
  BY LimitStages
<1>3. r.pc \in Going /\ r.pc \notin {"back", "fork", "tryfork"}
  BY <1>2 DEF Going, ForkStages, CoreStages
<1> QED
  BY <1>1, <1>2, <1>3, Continues

LEMMA ReturningSteps ==
  ASSUME IndInv, NEW p \in Pids,
         ForkFails(p) \/ Daemonized(p) \/ GetCoreAgain(p) \/ Fails(p)
  PROVE  IndInv'
<1>1. proc[p] \in Processes /\ Doing(proc[p])
  BY DEF IndInv
<1> USE <1>1 DEF Going, DaemonStages, ForkStages, CoreStages, Is
<1>2. CASE ForkFails(p)
  BY <1>2, ComesBack DEF ForkFails
<1>3. CASE Fails(p)
  BY <1>3, ComesBack DEF Fails, Failing
<1>4. CASE Daemonized(p)
  BY <1>4, ComesBack DEF Daemonized, Doing
<1>5. CASE GetCoreAgain(p)
  <2>1. proc[p].pc = "getcoreagain" /\ proc[p].done = "disable_coredumps" /\ proc[p].core \in {0, 1, NoLimit}
    BY <1>5 DEF GetCoreAgain, Doing, Processes
  <2>2. CASE proc[p].core > 0
    <3>1. Returns(p, -1)
      BY <1>5, <2>2 DEF GetCoreAgain
    <3> QED
      BY <2>1, <3>1, ComesBack
  <2>3. CASE ~(proc[p].core > 0)
    <3>1. Returns(p, 0) /\ proc[p].core = 0
      BY <1>5, <2>1, <2>3 DEF GetCoreAgain, NoLimit
    <3> QED
      BY <2>1, <3>1, ComesBack
  <2> QED
    BY <2>2, <2>3
<1> QED
  BY <1>2, <1>3, <1>4, <1>5

(* What was not seen to fail is remembered.                                *)
LEMMA UnseenSteps ==
  ASSUME IndInv, NEW p \in Pids, TryForkFails(p) \/ GetCoreAgainFails(p)
  PROVE  IndInv'
<1> DEFINE r == [proc[p] EXCEPT !.pc = "back", !.ret = 0]
<1>1. proc[p] \in Processes /\ Doing(proc[p])
  BY DEF IndInv
<1>2. r \in Processes /\ r.pc = "back" /\ r.ret = 0 /\ r.buffered = proc[p].buffered
      /\ r.done = proc[p].done /\ r.nproc = proc[p].nproc /\ r.core = proc[p].core
  BY <1>1 DEF Processes, Going
<1>3. proc[p].pc \in {"tryfork", "getcoreagain"} /\ UNCHANGED <<privileged, written, hungup>>
  BY DEF TryForkFails, GetCoreAgainFails, Is
<1>4. proc' = [proc EXCEPT ![p] = r]
  BY <1>1 DEF TryForkFails, GetCoreAgainFails, IndInv
<1>5. proc[p].pc = "tryfork" => unseen' = (privileged \/ proc[p].nproc = NoLimit)
  BY DEF TryForkFails, GetCoreAgainFails, MayFork, Is
<1>6. proc[p].pc = "getcoreagain" => unseen' = TRUE
  BY DEF TryForkFails, GetCoreAgainFails, Is
<1> HIDE DEF r
<1>7. Doing(r) /\ Told(r, unseen')
  BY <1>1, <1>2, <1>3, <1>5, <1>6 DEF Doing, Told, DaemonStages, ForkStages, CoreStages
<1>8. Turns(p, r) /\ proc[p].pc \in Going
  BY <1>2, <1>3, <1>4, <1>7 DEF Turns, Going, ForkStages, CoreStages
<1> QED
  BY <1>2, <1>8, GoesOn

LEMMA CallingSteps ==
  ASSUME IndInv, NEW p \in Pids, NEW function, NEW stage, Call(p, function, stage),
         <<function, stage>> \in {<<"daemonize", "signal">>, <<"disable_fork", "limitfork">>,
                                  <<"disable_coredumps", "limitcore">>}
  PROVE  IndInv'
<1> DEFINE r == [proc[p] EXCEPT !.pc = stage, !.round = 0, !.done = function, !.ret = NoResult]
<1>1. proc[p] \in Processes
  BY DEF IndInv
<1>2. r \in Processes /\ r.pc = stage /\ r.buffered = proc[p].buffered /\ r.done = function
  BY <1>1 DEF Processes, Going, DaemonStages, ForkStages, CoreStages, NoResult
<1>3. proc' = [proc EXCEPT ![p] = r] /\ proc[p].pc = "back"
      /\ UNCHANGED <<privileged, written, hungup>>
  BY DEF Call, Is
<1> HIDE DEF r
<1>4. Turns(p, r) /\ proc[p].pc \in Going
  BY <1>2, <1>3 DEF Turns, Doing, Told, Going, DaemonStages, ForkStages, CoreStages
<1> QED
  BY <1>2, <1>4, GoesOn
-----------------------------------------------------------------------------
(* Steps of the buffer and of several processes.                           *)

LEMMA FlushStep == ASSUME IndInv, NEW p \in Pids, Flush(p) PROVE IndInv'
<1> USE DEF Going, DaemonStages, ForkStages, CoreStages
<1> DEFINE next == IF Is(p, "flush") THEN "fork" ELSE "tryfork"
           r == [proc[p] EXCEPT !.pc = next, !.buffered = FALSE]
<1>1. proc[p] \in Processes /\ Doing(proc[p]) /\ proc[p].pc \in {"flush", "flushfork"}
  BY DEF IndInv, Flush
<1>2. r \in Processes /\ r.pc = next /\ r.buffered = FALSE /\ r.done = proc[p].done
  BY <1>1 DEF Processes, Is
<1>3. proc' = [proc EXCEPT ![p] = r]
  BY <1>1 DEF Flush, IndInv
<1>4. UNCHANGED <<privileged, unseen, hungup>>
  BY DEF Flush
<1> HIDE DEF r
<1>5. proc' \in [Pids -> Processes] /\ proc'[p] = r /\ \A q \in Pids \ {p} : proc'[q] = proc[q]
  BY <1>2, <1>3 DEF IndInv
<1>6. Active = {p}
  BY <1>1 DEF IndInv, Alone, Active
<1>7. Active' = {p} /\ ~hungup
  BY <1>1, <1>2, <1>5, <1>6 DEF Active, Is, IndInv, Alone
<1>8. Alone'
  BY <1>4, <1>7 DEF Alone
<1>9. written' = 1 /\ Buffered' = {}
  <2>1. CASE proc[p].buffered
    <3>1. written = 0 /\ Buffered = {p}
      BY <1>6, <2>1 DEF IndInv, Once, Buffered
    <3> QED
      BY <1>2, <1>5, <2>1, <3>1 DEF Flush, Buffered
  <2>2. CASE ~proc[p].buffered
    <3>1. written = 1 /\ Buffered = {}
      BY <1>6, <2>2 DEF IndInv, Once, Buffered
    <3> QED
      BY <1>2, <1>5, <2>2, <3>1 DEF Flush, Buffered
  <2> QED
    BY <2>1, <2>2
<1>10. Once'
  BY <1>9 DEF Once
<1>11. ASSUME NEW q \in Pids
       PROVE  Doing(proc[q])' /\ Told(proc[q], unseen)'
  <2>1. CASE q = p
    BY <1>1, <1>2, <1>5, <2>1 DEF Doing, Told, Is
  <2>2. CASE q # p
    BY <1>4, <1>5, <2>2 DEF IndInv, Doing, Told
  <2> QED
    BY <2>1, <2>2
<1> QED
  BY <1>5, <1>8, <1>10, <1>11 DEF IndInv

(* fork: the process goes on as another, or the child leaves.              *)
LEMMA Forked ==
  ASSUME IndInv, NEW p \in Pids, NEW c \in Free, proc[p].pc \in {"fork", "tryfork"},
         NEW r \in Processes, NEW s \in Processes,
         proc' = [proc EXCEPT ![p] = r, ![c] = s], Same,
         ~r.buffered, ~s.buffered, Doing(r), Doing(s),
         \/ r.pc = "exit" /\ s.pc \in {"setsid", "setpgid"}
         \/ r.pc = "back" /\ r.ret = -1 /\ s.pc = "exit"
  PROVE  IndInv'
<1> USE DEF Going, DaemonStages, ForkStages, CoreStages
<1>1. c \in Pids /\ c # p /\ proc[c].pc = "gone"
  BY DEF Free, Alive
<1>2. /\ proc' \in [Pids -> Processes] /\ proc'[p] = r /\ proc'[c] = s
      /\ \A q \in Pids \ {p, c} : proc'[q] = proc[q]
  BY <1>1 DEF IndInv
<1>3. Active = {p} /\ ~hungup /\ written = 1 /\ Buffered = {}
  BY DEF IndInv, Alone, Active, Once
<1>4. Buffered' = {} /\ written' = 1
  BY <1>2, <1>3 DEF Buffered, Same
<1>5. Active' = {p} \/ Active' = {c}
  <2>1. CASE r.pc = "exit"
    BY <1>1, <1>2, <1>3, <2>1 DEF Active
  <2>2. CASE r.pc = "back"
    BY <1>1, <1>2, <1>3, <2>2 DEF Active
  <2> QED
    BY <2>1, <2>2
<1>6. Alone' /\ Once'
  BY <1>1, <1>3, <1>4, <1>5 DEF Alone, Once, Same
<1>7. ASSUME NEW q \in Pids
      PROVE  Doing(proc[q])' /\ Told(proc[q], unseen)'
  <2>1. CASE q \in {p, c}
    BY <1>2, <2>1 DEF Doing, Told
  <2>2. CASE q \notin {p, c}
    BY <1>2, <2>2 DEF IndInv, Doing, Told, Same
  <2> QED
    BY <2>1, <2>2
<1> QED
  BY <1>2, <1>6, <1>7 DEF IndInv

LEMMA ForkingSteps == ASSUME IndInv, NEW p \in Pids, Fork(p) \/ TryFork(p) PROVE IndInv'
<1> USE DEF Going, DaemonStages, ForkStages, CoreStages
<1>1. proc[p] \in Processes /\ Doing(proc[p]) /\ proc \in [Pids -> Processes]
  BY DEF IndInv
<1>2. proc[p].pc \in {"fork", "tryfork"} /\ Same
  BY DEF Fork, TryFork, Is
<1>3. ~proc[p].buffered
  BY <1>2 DEF IndInv, Once, Buffered
<1>4. CASE Fork(p)
  <2>1. PICK c \in Free : proc' = [proc EXCEPT ![p].pc = "exit",
                                   ![c] = [proc[p] EXCEPT !.pc = AfterFork(proc[p].round)]]
    BY <1>4 DEF Fork
  <2> DEFINE r == [proc[p] EXCEPT !.pc = "exit"]
             s == [proc[p] EXCEPT !.pc = AfterFork(proc[p].round)]
  <2>2. r \in Processes /\ s \in Processes /\ r.pc = "exit" /\ s.pc \in {"setsid", "setpgid"}
        /\ r.buffered = proc[p].buffered /\ s.buffered = proc[p].buffered /\ s.done = proc[p].done
    BY <1>1 DEF Processes, AfterFork
  <2>3. proc' = [proc EXCEPT ![p] = r, ![c] = s]
    BY <1>1, <2>1 DEF Free
  <2>4. proc[p].done = "daemonize"
    BY <1>1, <1>4 DEF Fork, Is, Doing
  <2> HIDE DEF r, s
  <2> QED
    BY <1>2, <1>3, <2>2, <2>3, <2>4, Forked DEF Doing
<1>5. CASE TryFork(p)
  <2>1. PICK c \in Free : proc' = [proc EXCEPT ![p].pc = "back", ![p].ret = -1,
                                   ![c] = [proc[p] EXCEPT !.pc = "exit"]]
    BY <1>5 DEF TryFork
  <2> DEFINE r == [proc[p] EXCEPT !.pc = "back", !.ret = -1]
             s == [proc[p] EXCEPT !.pc = "exit"]
  <2>2. r \in Processes /\ s \in Processes /\ r.pc = "back" /\ r.ret = -1 /\ s.pc = "exit"
        /\ r.buffered = proc[p].buffered /\ s.buffered = proc[p].buffered
    BY <1>1 DEF Processes
  <2>3. proc' = [proc EXCEPT ![p] = r, ![c] = s]
    BY <1>1, <2>1 DEF Free
  <2> HIDE DEF r, s
  <2> QED
    BY <1>2, <1>3, <2>2, <2>3, Forked DEF Doing
<1> QED
  BY <1>4, <1>5

LEMMA ExitStep == ASSUME IndInv, NEW p \in Pids, Exit(p) PROVE IndInv'
<1> USE DEF Going, DaemonStages, ForkStages, CoreStages
<1> DEFINE hangup == terminal = p
           ended == {q \in Alive \ {p} : hangup /\ proc[q].sid = p /\ proc[q].pgid = proc[p].pgid}
<1>1. /\ proc' = [q \in Pids |-> IF q = p \/ q \in ended THEN Nobody ELSE proc[q]]
      /\ hungup' = (hungup \/ \E q \in ended : ~Is(q, "exit"))
      /\ UNCHANGED <<privileged, written, unseen>> /\ proc[p].pc = "exit"
  BY DEF Exit, Is
<1>2. ended \subseteq Pids /\ \A q \in ended : proc[q].pc # "gone"
  BY DEF Alive
<1> HIDE DEF ended
<1>3. Nobody \in Processes /\ Nobody.pc = "gone" /\ ~Nobody.buffered
  BY PidAssumption DEF Nobody, Processes, NoLimit, NoResult
<1>4. /\ proc' \in [Pids -> Processes]
      /\ \A q \in Pids : proc'[q] = IF q = p \/ q \in ended THEN Nobody ELSE proc[q]
  BY <1>1, <1>3 DEF IndInv
<1>5. written = 1 /\ Buffered = {}
  BY <1>1 DEF IndInv, Once
<1>6. Buffered' = {} /\ written' = 1
  BY <1>1, <1>3, <1>4, <1>5 DEF Buffered
<1>7. Active' = Active \ ended
  BY <1>1, <1>3, <1>4 DEF Active
<1>8. (\E q \in ended : ~Is(q, "exit")) <=> Active \cap ended # {}
  <2>1. \A q \in ended : ~Is(q, "exit") <=> q \in Active
    BY <1>2 DEF Active, Is, IndInv, Processes
  <2> QED
    BY <2>1
<1>9. Alone'
  BY <1>1, <1>7, <1>8 DEF IndInv, Alone
<1>10. Once'
  BY <1>6 DEF Once
<1>11. ASSUME NEW q \in Pids
       PROVE  Doing(proc[q])' /\ Told(proc[q], unseen)'
  BY <1>1, <1>3, <1>4 DEF IndInv, Doing, Told
<1> QED
  BY <1>4, <1>9, <1>10, <1>11 DEF IndInv

LEMMA NextInv == IndInv /\ [Next]_vars => IndInv'
<1> SUFFICES ASSUME IndInv, [Next]_vars
             PROVE  IndInv'
  OBVIOUS
<1>1. CASE UNCHANGED vars
  BY <1>1 DEF vars, IndInv, Alone, Once, Doing, Told, Active, Buffered
<1>2. ASSUME NEW p \in Pids, Inside(p)
      PROVE  IndInv'
  BY <1>2, QuietSteps, LimitSteps, ReturningSteps, UnseenSteps, FlushStep, ForkingSteps, ExitStep DEF Inside
<1>3. ASSUME NEW p \in Pids, Calls(p)
      PROVE  IndInv'
  BY <1>3, CallingSteps DEF Calls, Daemonize, DisableFork, DisableCoredumps
<1> QED
  BY <1>1, <1>2, <1>3 DEF Next

(* The inductive invariant of the functions that make processes.           *)
THEOREM DaemonInvariance == Spec => []IndInv
BY InitInv, NextInv, PTL DEF Spec

(* One process goes on, what was in the output buffer is written once, and *)
(* a limit that is said to hold does.                                      *)
THEOREM OneGoesOn == Spec => []OneReturns
<1>1. ASSUME IndInv
      PROVE  OneReturns
  <2>1. {p \in Alive : ~Is(p, "exit")} = Active
    BY <1>1 DEF IndInv, Processes, Alive, Active, Is, Going, DaemonStages, ForkStages, CoreStages
  <2>2. IF hungup THEN \A p \in Alive : Is(p, "exit")
        ELSE Cardinality({p \in Alive : ~Is(p, "exit")}) = 1
    <3>1. CASE hungup
      BY <1>1, <2>1, <3>1 DEF IndInv, Alone
    <3>2. CASE ~hungup
      <4>1. PICK m \in Pids : Active = {m}
        BY <1>1, <3>2 DEF IndInv, Alone
      <4>2. Cardinality({m}) = 1
        BY FS_Singleton
      <4> QED
        BY <2>1, <3>2, <4>1, <4>2
    <3> QED
      BY <3>1, <3>2
  <2>3. written + Cardinality({p \in Alive : proc[p].buffered}) = 1
    <3>1. CASE written = 0
      <4>1. PICK m \in Active : Buffered = {m}
        BY <1>1, <3>1 DEF IndInv, Once
      <4>2. {p \in Alive : proc[p].buffered} = {m}
        BY <4>1 DEF Alive, Active, Buffered, Going, DaemonStages, ForkStages, CoreStages
      <4>3. Cardinality({m}) = 1
        BY FS_Singleton
      <4> QED
        BY <3>1, <4>2, <4>3
    <3>2. CASE written # 0
      <4>1. written = 1 /\ Buffered = {}
        BY <1>1, <3>2 DEF IndInv, Once
      <4>2. {p \in Alive : proc[p].buffered} = {}
        BY <4>1 DEF Alive, Buffered
      <4>3. Cardinality({p \in Alive : proc[p].buffered}) = 0
        BY <4>2, FS_EmptySet
      <4> QED
        BY <4>1, <4>3
    <3> QED
      BY <3>1, <3>2
  <2>4. \A p \in Alive : Is(p, "back") /\ proc[p].ret = 0 /\ ~unseen =>
           /\ proc[p].done = "disable_fork" => ~MayFork(p)
           /\ proc[p].done = "disable_coredumps" => proc[p].core = 0
    BY <1>1 DEF IndInv, Told, Alive, Is, MayFork
  <2> QED
    BY <2>2, <2>3, <2>4 DEF OneReturns
<1> QED
  BY <1>1, DaemonInvariance, PTL

-----------------------------------------------------------------------------
Finished(r) == r.pc = "back" /\ r.done = "daemonize" /\ r.ret = 0

(* After the second fork.                                                  *)
Settled(r) ==
  r.pc \in {"setpgid", "chdir", "umask", "stdin", "stdout", "stderr", "daemonized"} \/ Finished(r)

(* What process p has got rid of by now.  Its session is one that another  *)
(* process made, which had no terminal when it did.                        *)
Away(p, r) ==
  /\ r.pc \in {"signal", "flush", "fork"} /\ r.round = 1 => r.sid = p /\ terminal # p
  /\ r.pc = "setsid" => terminal # p
  /\ Settled(r) => r.sid \notin {p, Shell, terminal} /\ ~r.buffered
  /\ Settled(r) /\ r.pc # "setpgid" => r.pgid = p
  /\ Settled(r) /\ r.pc \notin {"setpgid", "chdir"} => r.cwd = "given"
  /\ Settled(r) /\ r.pc \notin {"setpgid", "chdir", "umask"} => r.umask = "restricted"
  /\ Finished(r) \/ r.pc \in {"stdout", "stderr", "daemonized"} => "stdin" \in r.null
  /\ Finished(r) \/ r.pc \in {"stderr", "daemonized"} => "stdout" \in r.null
  /\ Finished(r) \/ r.pc = "daemonized" => "stderr" \in r.null

(* A session has a terminal while its leader is there only, so a number    *)
(* that is free is not the one of a session with a terminal.               *)
Detached ==
  /\ terminal \in Nat \cup {NoTerminal}
  /\ terminal \in Pids => terminal \in Alive
  /\ \A p \in Pids : Away(p, proc[p])
  /\ \A p \in Alive : Settled(proc[p]) => \A q \in Alive \ {p} : proc[q].pgid # p

LEMMA InitDetached == Init => Detached
<1> SUFFICES ASSUME Init
             PROVE  Detached
  OBVIOUS
<1>1. Nobody.pc = "gone" /\ Nobody.done = "none"
  BY DEF Nobody
<1>2. PICK s \in {<<Shell, Shell>>, <<Shell, First>>, <<First, First>>} :
        proc = [p \in Pids |-> IF p = First
                  THEN [Nobody EXCEPT !.pc = "back", !.sid = s[1], !.pgid = s[2], !.buffered = TRUE]
                  ELSE Nobody]
  BY DEF Init
<1> DEFINE r == [Nobody EXCEPT !.pc = "back", !.sid = s[1], !.pgid = s[2], !.buffered = TRUE]
<1>3. r.pc = "back" /\ r.done = "none" /\ r.sid \in {Shell, First}
  BY <1>2 DEF Nobody
<1> HIDE DEF r
<1>4. proc = [p \in Pids |-> IF p = First THEN r ELSE Nobody]
  BY <1>2 DEF r
<1>5. proc[First] = r /\ First \in Alive
  BY <1>3, <1>4, PidAssumption DEF Alive
<1>6. terminal \in {r.sid, NoTerminal}
  BY <1>5 DEF Init
<1>7. terminal \in Nat \cup {NoTerminal} /\ (terminal \in Pids => terminal \in Alive)
  BY <1>3, <1>5, <1>6, PidAssumption DEF NoTerminal
<1>8. \A p \in Pids : proc[p].pc \in {"gone", "back"} /\ proc[p].done = "none"
  BY <1>1, <1>3, <1>4
<1> QED
  BY <1>7, <1>8 DEF Detached, Away, Settled, Finished, Alive

(* One process goes on inside its functions, or leaves them.               *)
LEMMA OneMoves ==
  ASSUME IndInv, Detached, NEW p \in Pids, NEW r \in Processes,
         proc' = [proc EXCEPT ![p] = r], terminal' = terminal,
         proc[p].pc # "gone", r.pc # "gone", r.pgid \in {proc[p].pgid, p},
         Away(p, r), Settled(r) => Settled(proc[p])
  PROVE  Detached'
<1>1. proc'[p] = r /\ \A q \in Pids \ {p} : proc'[q] = proc[q]
  BY DEF IndInv
<1>2. Alive' = Alive /\ p \in Alive
  BY <1>1 DEF Alive
<1>3. ASSUME NEW q \in Pids
      PROVE  Away(q, proc[q])'
  <2>1. Away(q, proc'[q])
    BY <1>1 DEF Detached
  <2> QED
    BY <2>1 DEF Away
<1>4. ASSUME NEW q \in Alive, Settled(proc'[q]), NEW o \in Alive \ {q}
      PROVE  proc'[o].pgid # q
  <2>1. Settled(proc[q])
    BY <1>1, <1>4 DEF Alive
  <2>2. proc[o].pgid # q
    BY <2>1, <1>4 DEF Detached
  <2> QED
    BY <1>1, <2>2, <1>4 DEF Alive
<1> QED
  BY <1>2, <1>3, <1>4 DEF Detached, Settled, Finished

LEMMA QuietStepsDetached ==
  ASSUME IndInv, Detached, NEW p \in Pids,
         \/ IgnoreChildren(p) \/ Setsid(p) \/ Setpgid(p) \/ Chdir(p) \/ Umask(p) \/ CloseStdStreams(p)
         \/ Daemonized(p)
  PROVE  Detached'
<1> DEFINE old == proc[p]
<1>1. old \in Processes /\ p \in Nat /\ Away(p, old)
  BY PidAssumption DEF IndInv, Detached
<1> SUFFICES /\ old.pc # "gone"
             /\ \E r \in Processes :
                  /\ proc' = [proc EXCEPT ![p] = r] /\ terminal' = terminal
                  /\ r.pc # "gone" /\ r.pgid \in {old.pgid, p}
                  /\ Away(p, r) /\ (Settled(r) => Settled(old))
  BY OneMoves
<1> HIDE DEF old
<1> USE <1>1 DEF Going, DaemonStages, ForkStages, CoreStages, Away, Settled, Finished, Becomes, Same, Is
<1>2. CASE IgnoreChildren(p)
  <2> DEFINE r == [old EXCEPT !.pc = "flush", !.ignored = TRUE]
  <2>1. old.pc = "signal" /\ Becomes(p, r)
    BY <1>2 DEF IgnoreChildren, old
  <2>2. r \in Processes /\ r.pc = "flush" /\ r.pgid = old.pgid /\ r.sid = old.sid /\ r.round = old.round
    BY DEF Processes
  <2> HIDE DEF r
  <2> QED
    BY <2>1, <2>2
<1>3. CASE Setsid(p)
  <2> DEFINE r == [old EXCEPT !.pc = "signal", !.round = 1, !.sid = p, !.pgid = p]
  <2>1. old.pc = "setsid" /\ Becomes(p, r)
    BY <1>3 DEF Setsid, old
  <2>2. r \in Processes /\ r.pc = "signal" /\ r.pgid = p /\ r.sid = p
    BY DEF Processes
  <2> HIDE DEF r
  <2> QED
    BY <2>1, <2>2
<1>4. CASE Setpgid(p)
  <2> DEFINE r == [old EXCEPT !.pc = "chdir", !.pgid = p]
  <2>1. old.pc = "setpgid" /\ Becomes(p, r)
    BY <1>4 DEF Setpgid, old
  <2>2. r \in Processes /\ r.pc = "chdir" /\ r.pgid = p /\ r.sid = old.sid /\ r.buffered = old.buffered
    BY DEF Processes
  <2> HIDE DEF r
  <2> QED
    BY <2>1, <2>2
<1>5. CASE Chdir(p)
  <2> DEFINE r == [old EXCEPT !.pc = "umask", !.cwd = "given"]
  <2>1. old.pc = "chdir" /\ Becomes(p, r)
    BY <1>5 DEF Chdir, old
  <2>2. /\ r \in Processes /\ r.pc = "umask" /\ r.pgid = old.pgid /\ r.sid = old.sid
        /\ r.buffered = old.buffered /\ r.cwd = "given"
    BY DEF Processes
  <2> HIDE DEF r
  <2> QED
    BY <2>1, <2>2
<1>6. CASE Umask(p)
  <2> DEFINE r == [old EXCEPT !.pc = "stdin", !.umask = "restricted"]
  <2>1. old.pc = "umask" /\ Becomes(p, r)
    BY <1>6 DEF Umask, old
  <2>2. /\ r \in Processes /\ r.pc = "stdin" /\ r.pgid = old.pgid /\ r.sid = old.sid
        /\ r.buffered = old.buffered /\ r.cwd = old.cwd /\ r.umask = "restricted"
    BY DEF Processes
  <2> HIDE DEF r
  <2> QED
    BY <2>1, <2>2
<1>7. ASSUME NEW s \in Streams, NEW next \in {"stdout", "stderr", "daemonized"}, Reopen(p, s, next),
             <<s, next>> \in {<<"stdin", "stdout">>, <<"stdout", "stderr">>, <<"stderr", "daemonized">>}
      PROVE  /\ old.pc # "gone"
             /\ \E r \in Processes :
                  /\ proc' = [proc EXCEPT ![p] = r] /\ terminal' = terminal
                  /\ r.pc # "gone" /\ r.pgid \in {old.pgid, p}
                  /\ Away(p, r) /\ (Settled(r) => Settled(old))
  <2> DEFINE r == [old EXCEPT !.pc = next, !.null = old.null \cup {s}]
  <2>1. old.pc = s /\ Becomes(p, r)
    BY <1>7 DEF Reopen, old
  <2>2. /\ r \in Processes /\ r.pc = next /\ r.pgid = old.pgid /\ r.sid = old.sid
        /\ r.buffered = old.buffered /\ r.cwd = old.cwd /\ r.umask = old.umask
        /\ r.null = old.null \cup {s}
    BY DEF Processes
  <2> HIDE DEF r
  <2>3. s \in {"stdin", "stdout", "stderr"} /\ next = CASE s = "stdin" -> "stdout"
                                                       [] s = "stdout" -> "stderr"
                                                       [] s = "stderr" -> "daemonized"
    BY <1>7
  <2>4. Away(p, r)
    BY <2>1, <2>2, <2>3
  <2> QED
    BY <2>1, <2>2, <2>3, <2>4
<1>8. CASE Daemonized(p)
  <2> DEFINE r == [old EXCEPT !.pc = "back", !.ret = 0]
  <2>1. old.pc = "daemonized" /\ Becomes(p, r)
    BY <1>8 DEF Daemonized, Returns, old
  <2>2. /\ r \in Processes /\ r.pc = "back" /\ r.pgid = old.pgid /\ r.sid = old.sid
        /\ r.buffered = old.buffered /\ r.cwd = old.cwd /\ r.umask = old.umask
        /\ r.null = old.null
    BY DEF Processes
  <2> HIDE DEF r
  <2> QED
    BY <2>1, <2>2
<1> QED
  BY <1>2, <1>3, <1>4, <1>5, <1>6, <1>7, <1>8 DEF CloseStdStreams, Streams

(* A call begins, fails, or is one of the other functions.                 *)
LEMMA UnboundMoves ==
  ASSUME IndInv, Detached, NEW p \in Pids, NEW r \in Processes,
         proc' = [proc EXCEPT ![p] = r], terminal' = terminal, proc[p].pc # "gone",
         r.pc \in {"back"} \cup ForkStages \cup CoreStages \/ (r.pc = "signal" /\ r.round = 0),
         ~Finished(r), r.pgid = proc[p].pgid
  PROVE  Detached'
<1>1. Away(p, r) /\ ~Settled(r) /\ r.pc # "gone"
  BY DEF Away, Settled, ForkStages, CoreStages
<1> QED
  BY <1>1, OneMoves

LEMMA ReturnsDetached ==
  ASSUME IndInv, Detached, NEW p \in Pids, NEW ret \in {-1, 0},
         proc' = [proc EXCEPT ![p] = [proc[p] EXCEPT !.pc = "back", !.ret = ret]],
         terminal' = terminal, proc[p].pc # "gone",
         ret = -1 \/ proc[p].done # "daemonize"
  PROVE  Detached'
<1> DEFINE r == [proc[p] EXCEPT !.pc = "back", !.ret = ret]
<1>1. proc[p] \in Processes
  BY DEF IndInv
<1>2. r \in Processes /\ r.pc = "back" /\ r.ret = ret /\ r.done = proc[p].done /\ r.pgid = proc[p].pgid
  BY <1>1 DEF Processes, Going
<1>3. proc' = [proc EXCEPT ![p] = r]
  OBVIOUS
<1> HIDE DEF r
<1>4. ~Finished(r)
  BY <1>2 DEF Finished
<1> QED
  BY <1>2, <1>3, <1>4, UnboundMoves DEF ForkStages, CoreStages

LEMMA ReturningDetached ==
  ASSUME IndInv, Detached, NEW p \in Pids,
         Fails(p) \/ ForkFails(p) \/ TryForkFails(p) \/ GetCoreAgain(p) \/ GetCoreAgainFails(p)
  PROVE  Detached'
<1>1. proc[p] \in Processes /\ Doing(proc[p])
  BY DEF IndInv
<1>2. CASE Fails(p) \/ ForkFails(p)
  BY <1>2, ReturnsDetached DEF Fails, ForkFails, Failing, Returns, Becomes, Same, Is
<1>3. CASE TryForkFails(p) \/ GetCoreAgainFails(p)
  <2>1. proc' = [proc EXCEPT ![p] = [proc[p] EXCEPT !.pc = "back", !.ret = 0]]
        /\ terminal' = terminal /\ proc[p].pc \in {"tryfork", "getcoreagain"}
    BY <1>1, <1>3 DEF TryForkFails, GetCoreAgainFails, Is, IndInv, Processes
  <2>2. proc[p].done # "daemonize"
    BY <1>1, <2>1 DEF Doing, ForkStages, CoreStages
  <2> QED
    BY <2>1, <2>2, ReturnsDetached
<1>4. CASE GetCoreAgain(p)
  <2>1. PICK ret \in {-1, 0} : Returns(p, ret) /\ proc[p].pc = "getcoreagain"
    BY <1>4 DEF GetCoreAgain, Is
  <2>2. proc[p].done # "daemonize"
    BY <1>1, <2>1 DEF Doing, CoreStages
  <2> QED
    BY <2>1, <2>2, ReturnsDetached DEF Returns, Becomes, Same
<1> QED
  BY <1>2, <1>3, <1>4

LEMMA CallDetached ==
  ASSUME IndInv, Detached, NEW p \in Pids, NEW f, NEW stage, Call(p, f, stage),
         <<f, stage>> \in {<<"daemonize", "signal">>, <<"disable_fork", "limitfork">>,
                           <<"disable_coredumps", "limitcore">>}
  PROVE  Detached'
<1> DEFINE r == [proc[p] EXCEPT !.pc = stage, !.round = 0, !.done = f, !.ret = NoResult]
<1>1. proc[p] \in Processes
  BY DEF IndInv
<1>2. r \in Processes /\ r.pc = stage /\ r.round = 0 /\ r.pgid = proc[p].pgid
  BY <1>1 DEF Processes, Going, DaemonStages, ForkStages, CoreStages
<1>3. proc' = [proc EXCEPT ![p] = r] /\ terminal' = terminal /\ proc[p].pc = "back"
  BY <1>1 DEF Call, Is, IndInv
<1>4. stage \in {"signal", "limitfork", "limitcore"}
  OBVIOUS
<1> HIDE DEF r
<1> QED
  BY <1>2, <1>3, <1>4, UnboundMoves DEF Finished, ForkStages, CoreStages

LEMMA LimitsDetached ==
  ASSUME IndInv, Detached, NEW p \in Pids,
         LimitFork(p) \/ GetFork(p) \/ RaiseFork(p) \/ LimitCore(p) \/ GetCore(p) \/ RaiseCore(p)
  PROVE  Detached'
<1>1. proc[p].pc # "gone"
  BY LimitStages DEF ForkStages, CoreStages
<1>2. PICK r \in Processes :
        /\ Becomes(p, r) /\ r.pc \in (ForkStages \cup CoreStages) \ {"tryfork"}
        /\ r.pgid = proc[p].pgid
  BY LimitStages
<1>3. ~Finished(r)
  BY <1>2 DEF Finished, ForkStages, CoreStages
<1> QED
  BY <1>1, <1>2, <1>3, UnboundMoves DEF Becomes, Same, ForkStages, CoreStages

LEMMA FlushDetached == ASSUME IndInv, Detached, NEW p \in Pids, Flush(p) PROVE Detached'
<1> USE DEF Going, DaemonStages, ForkStages, CoreStages
<1> DEFINE next == IF Is(p, "flush") THEN "fork" ELSE "tryfork"
           r == [proc[p] EXCEPT !.pc = next, !.buffered = FALSE]
<1>1. proc[p] \in Processes /\ Away(p, proc[p]) /\ proc[p].pc \in {"flush", "flushfork"}
  BY DEF IndInv, Flush, Detached
<1>2. r \in Processes /\ r.pc = next /\ r.pgid = proc[p].pgid /\ r.sid = proc[p].sid
      /\ r.round = proc[p].round
  BY <1>1 DEF Processes
<1>3. proc' = [proc EXCEPT ![p] = r] /\ terminal' = terminal
  BY <1>1 DEF Flush, IndInv, Processes
<1>4. \/ next = "fork" /\ proc[p].pc = "flush"
      \/ next = "tryfork" /\ proc[p].pc = "flushfork"
  BY <1>1 DEF Is
<1> HIDE DEF r, next
<1>5. Away(p, r) /\ ~Settled(r)
  BY <1>1, <1>2, <1>4 DEF Away, Settled, Finished
<1> QED
  BY <1>1, <1>2, <1>3, <1>4, <1>5, OneMoves

(* A child gets a number that is free, and what its parent has.            *)
LEMMA ForkDetached == ASSUME IndInv, Detached, NEW p \in Pids, Fork(p) \/ TryFork(p) PROVE Detached'
<1> DEFINE old == proc[p]
<1>1. old \in Processes /\ Doing(old) /\ proc \in [Pids -> Processes] /\ Away(p, old)
  BY DEF IndInv, Detached
<1>2. old.pc \in {"fork", "tryfork"} /\ ~old.buffered /\ p \in Alive
  BY DEF Fork, TryFork, Is, IndInv, Once, Buffered, Alive
<1>3. \E c \in Free, r, s \in Processes :
        /\ proc' = [proc EXCEPT ![p] = r, ![c] = s] /\ terminal' = terminal
        /\ r.pc # "gone" /\ ~Settled(r) /\ Away(p, r) /\ r.pgid = old.pgid
        /\ s.pgid = old.pgid /\ s.sid = old.sid /\ ~s.buffered
        /\ \/ s.pc = "exit"
           \/ s.pc = "setsid"
           \/ s.pc = "setpgid" /\ old.pc = "fork" /\ old.round = 1
  <2>1. CASE Fork(p)
    <3>1. PICK c \in Free : proc' = [proc EXCEPT ![p].pc = "exit",
                                     ![c] = [proc[p] EXCEPT !.pc = AfterFork(proc[p].round)]]
      BY <2>1 DEF Fork
    <3> DEFINE r == [proc[p] EXCEPT !.pc = "exit"]
               s == [proc[p] EXCEPT !.pc = AfterFork(proc[p].round)]
    <3>2. r \in Processes /\ r.pc = "exit" /\ r.pgid = old.pgid
      BY <1>1 DEF Processes
    <3>3. /\ s \in Processes /\ s.pgid = old.pgid /\ s.sid = old.sid /\ ~s.buffered
          /\ s.pc = AfterFork(old.round)
      BY <1>1, <1>2 DEF Processes, AfterFork, Going, DaemonStages
    <3>4. proc' = [proc EXCEPT ![p] = r, ![c] = s]
      BY <1>1, <3>1 DEF Free
    <3>5. terminal' = terminal /\ old.pc = "fork" /\ old.round \in {0, 1}
      BY <1>1, <2>1 DEF Fork, Same, Is, Processes
    <3> HIDE DEF r, s
    <3>6. ~Settled(r) /\ Away(p, r)
      BY <3>2 DEF Settled, Finished, Away
    <3>7. s.pc = "setsid" \/ (s.pc = "setpgid" /\ old.round = 1)
      <4>1. CASE old.round = 0
        BY <3>3, <4>1 DEF AfterFork
      <4>2. CASE old.round = 1
        BY <3>3, <4>2 DEF AfterFork
      <4> QED
        BY <3>5, <4>1, <4>2
    <3> QED
      BY <3>2, <3>3, <3>4, <3>5, <3>6, <3>7
  <2>2. CASE TryFork(p)
    <3>1. PICK c \in Free : proc' = [proc EXCEPT ![p].pc = "back", ![p].ret = -1,
                                     ![c] = [proc[p] EXCEPT !.pc = "exit"]]
      BY <2>2 DEF TryFork
    <3> DEFINE r == [proc[p] EXCEPT !.pc = "back", !.ret = -1]
               s == [proc[p] EXCEPT !.pc = "exit"]
    <3>2. r \in Processes /\ r.pc = "back" /\ r.ret = -1 /\ r.pgid = old.pgid
      BY <1>1 DEF Processes, Going
    <3>3. s \in Processes /\ s.pgid = old.pgid /\ s.sid = old.sid /\ ~s.buffered /\ s.pc = "exit"
      BY <1>1, <1>2 DEF Processes
    <3>4. proc' = [proc EXCEPT ![p] = r, ![c] = s]
      BY <1>1, <3>1 DEF Free
    <3>5. terminal' = terminal
      BY <2>2 DEF TryFork, Same
    <3> HIDE DEF r, s
    <3>6. ~Settled(r) /\ Away(p, r)
      BY <3>2 DEF Settled, Finished, Away
    <3> QED
      BY <3>2, <3>3, <3>4, <3>5, <3>6
  <2> QED
    BY <2>1, <2>2
<1>4. PICK c \in Free, r \in Processes, s \in Processes :
        /\ proc' = [proc EXCEPT ![p] = r, ![c] = s] /\ terminal' = terminal
        /\ r.pc # "gone" /\ ~Settled(r) /\ Away(p, r) /\ r.pgid = old.pgid
        /\ s.pgid = old.pgid /\ s.sid = old.sid /\ ~s.buffered
        /\ \/ s.pc = "exit"
           \/ s.pc = "setsid"
           \/ s.pc = "setpgid" /\ old.pc = "fork" /\ old.round = 1
  BY <1>3
<1>5. c \in Pids /\ c \notin Alive /\ c # p /\ \A q \in Alive : c \notin {proc[q].sid, proc[q].pgid}
  BY <1>2 DEF Free
<1>6. proc'[p] = r /\ proc'[c] = s /\ \A q \in Pids \ {p, c} : proc'[q] = proc[q]
  BY <1>1, <1>4, <1>5
<1>7. Alive' = Alive \cup {c}
  BY <1>1, <1>2, <1>4, <1>5, <1>6 DEF Alive
<1>8. terminal # c
  BY <1>5 DEF Detached
<1>9. Away(c, s)
  <2>1. CASE s.pc \in {"exit", "setsid"}
    BY <1>8, <2>1 DEF Away, Settled, Finished
  <2>2. CASE s.pc = "setpgid" /\ old.pc = "fork" /\ old.round = 1
    <3>1. s.sid = p /\ terminal # p
      BY <1>1, <1>4, <2>2 DEF Away
    <3>2. s.sid \notin {c, Shell, terminal}
      BY <1>5, <3>1, PidAssumption
    <3> QED
      BY <1>4, <2>2, <3>2 DEF Away, Settled, Finished
  <2> QED
    BY <1>4, <2>1, <2>2
<1>10. ASSUME NEW q \in Pids
       PROVE  Away(q, proc[q])'
  <2>1. Away(q, proc'[q])
    BY <1>4, <1>6, <1>9 DEF Detached
  <2> QED
    BY <1>4, <2>1 DEF Away
<1>11. ASSUME NEW q \in Alive', Settled(proc'[q]), NEW o \in Alive' \ {q}
       PROVE  proc'[o].pgid # q
  <2>1. old.pgid # q
    <3>1. CASE q = c
      BY <1>2, <1>5, <3>1
    <3>2. CASE q # c
      <4>1. q \in Alive \ {p} /\ Settled(proc[q])
        BY <1>4, <1>6, <1>7, <1>11, <3>2 DEF Alive
      <4> QED
        BY <1>2, <4>1 DEF Detached
    <3> QED
      BY <3>1, <3>2
  <2>2. CASE o \in {p, c}
    BY <1>4, <1>6, <2>1, <2>2
  <2>3. CASE o \notin {p, c}
    <3>1. o \in Alive /\ proc'[o] = proc[o]
      BY <1>6, <1>7, <2>3 DEF Alive
    <3>2. CASE q = c
      BY <1>5, <3>1, <3>2
    <3>3. CASE q # c
      <4>1. q \in Alive /\ Settled(proc[q])
        BY <1>4, <1>6, <1>7, <1>11, <3>3 DEF Alive
      <4> QED
        BY <1>11, <3>1, <4>1 DEF Detached
    <3> QED
      BY <3>2, <3>3
  <2> QED
    BY <2>2, <2>3
<1> QED
  BY <1>4, <1>7, <1>10, <1>11 DEF Detached, Settled, Finished

LEMMA ExitDetached == ASSUME IndInv, Detached, NEW p \in Pids, Exit(p) PROVE Detached'
<1> DEFINE hangup == terminal = p
           ended == {q \in Alive \ {p} : hangup /\ proc[q].sid = p /\ proc[q].pgid = proc[p].pgid}
<1>1. /\ proc' = [q \in Pids |-> IF q = p \/ q \in ended THEN Nobody ELSE proc[q]]
      /\ terminal' = IF hangup THEN NoTerminal ELSE terminal
  BY DEF Exit
<1>2. Nobody.pc = "gone"
  BY DEF Nobody
<1>3. ~hangup => ended = {}
  OBVIOUS
<1> HIDE DEF ended
<1>4. \A q \in Pids : proc'[q] = proc[q] \/ proc'[q].pc = "gone"
  BY <1>1, <1>2
<1>5. Alive' \subseteq Alive /\ \A q \in Alive' : proc'[q] = proc[q]
  BY <1>4 DEF Alive
<1>6. \A q \in Pids : q # p /\ ~hangup => proc'[q] = proc[q]
  BY <1>1, <1>3
<1>7. terminal' \in Nat \cup {NoTerminal} /\ (terminal' \in Pids => terminal' \in Alive')
  <2>1. CASE hangup
    BY <1>1, <2>1, PidAssumption DEF NoTerminal
  <2>2. CASE ~hangup
    BY <1>1, <1>6, <2>2 DEF Detached, Alive
  <2> QED
    BY <2>1, <2>2
<1>8. ASSUME NEW q \in Pids
      PROVE  Away(q, proc[q])'
  <2>1. CASE proc'[q].pc = "gone"
    BY <2>1 DEF Away, Settled, Finished
  <2>2. CASE proc'[q] = proc[q]
    <3>1. Away(q, proc[q]) /\ proc[q].sid \in Nat /\ q \in Nat
      BY PidAssumption DEF Detached, IndInv, Processes
    <3>2. terminal' # terminal => terminal' \notin Nat
      BY <1>1 DEF NoTerminal
    <3>3. (terminal # q => terminal' # q) /\ (proc[q].sid # terminal => proc[q].sid # terminal')
      BY <3>1, <3>2
    <3> QED
      BY <2>2, <3>1, <3>3 DEF Away
  <2> QED
    BY <1>4, <2>1, <2>2
<1>9. \A q \in Alive' : Settled(proc'[q]) => \A o \in Alive' \ {q} : proc'[o].pgid # q
  BY <1>5 DEF Detached
<1> QED
  BY <1>7, <1>8, <1>9 DEF Detached, Settled, Finished

LEMMA NextDetached == IndInv /\ Detached /\ [Next]_vars => Detached'
<1> SUFFICES ASSUME IndInv, Detached, [Next]_vars
             PROVE  Detached'
  OBVIOUS
<1>1. CASE UNCHANGED vars
  BY <1>1 DEF vars, Detached, Away, Settled, Finished, Alive
<1>2. ASSUME NEW p \in Pids, Inside(p)
      PROVE  Detached'
  BY <1>2, QuietStepsDetached, LimitsDetached, ReturningDetached, FlushDetached, ForkDetached,
     ExitDetached DEF Inside
<1>3. ASSUME NEW p \in Pids, Calls(p)
      PROVE  Detached'
  BY <1>3, CallDetached DEF Calls, Daemonize, DisableFork, DisableCoredumps
<1> QED
  BY <1>1, <1>2, <1>3 DEF Next

(* Who is told that it is a daemon leads no session, has no terminal and   *)
(* nothing of its starter's.                                               *)
THEOREM DaemonIsDetached == Spec => []DaemonDetached
<1>1. ASSUME IndInv, Detached
      PROVE  DaemonDetached
  <2> SUFFICES ASSUME NEW p \in Alive, Is(p, "back"), proc[p].done = "daemonize", proc[p].ret = 0,
                      proc[p].null \subseteq Streams
               PROVE  /\ proc[p].sid \notin {p, Shell, terminal}
                      /\ proc[p].pgid = p
                      /\ \A q \in Alive \ {p} : proc[q].pgid # p
                      /\ proc[p].null = Streams /\ ~proc[p].buffered
                      /\ proc[p].umask = "restricted" /\ proc[p].cwd = "given"
    BY <1>1 DEF DaemonDetached, IndInv, Processes, Alive
  <2>1. Away(p, proc[p]) /\ Finished(proc[p]) /\ Settled(proc[p])
    BY <1>1 DEF Detached, Finished, Settled, Alive, Is
  <2>2. proc[p].null = Streams
    BY <2>1 DEF Away, Streams
  <2>3. \A q \in Alive \ {p} : proc[q].pgid # p
    BY <1>1, <2>1 DEF Detached
  <2> QED
    BY <2>1, <2>2, <2>3 DEF Away, Is
<1>2. IndInv /\ Detached => DaemonDetached
  BY <1>1
<1>3. Spec => [](IndInv /\ Detached)
  BY InitInv, InitDetached, NextInv, NextDetached, PTL DEF Spec
<1> QED
  BY <1>2, <1>3, PTL
=============================================================================
