---------------------------- MODULE SystemProofs ----------------------------
(***************************************************************************)
(* Proofs about the two components that depend on the system around them   *)
(* while it changes: safer_fopen and compat_chroot, and compat_mono_time.  *)
(*                                                                         *)
(* What safer_fopen and compat_chroot hold on to, and that they close what *)
(* they opened, however many files come and go under the name, and however *)
(* many calls are made.                                                    *)
(*                                                                         *)
(* compat_mono_time never runs backwards and loses no tick, whatever the   *)
(* units, the limit and the times the clock is set to.                     *)
(***************************************************************************)
EXTENDS Files, Clock, TLAPS

-----------------------------------------------------------------------------
(* Files.                                                                  *)

Behind == {"fstat", "fdopen", "fstatdir", "fchdir", "chroot", "fstatagain", "close"}
Before == {"lstat", "open", "opendir"}

Typed ==
  /\ file \in Seq(Attributes) /\ asRoot \in BOOLEAN
  /\ made \in 0..Len(file)
  /\ name \in 0..Len(file) /\ seen \in 0..Len(file) /\ fd \in 0..Len(file)
  /\ cwd \in 0..Len(file) /\ top \in 0..Len(file)

(* A call has one descriptor from its open to its end.                     *)
Balance ==
  /\ opened \in Int /\ before \in Int
  /\ pc \in {"call", "stream"} \cup Before \cup Behind
  /\ pc \in Before => opened = before /\ result = "none"
  /\ pc \in Behind => opened = before + 1 /\ result = "none"
  /\ pc = "stream" => opened = before + 1 /\ result = "stream"
  /\ pc = "call" =>
       /\ result \in {"none", "NULL", "done"} => opened = before
       /\ result = "stream" => opened = before + 1
       /\ result = "failed" => opened <= before + 1

(* What lstat saw, up to the open that must find it again.                 *)
AtOpen ==
  /\ pc = "lstat" => cut = None
  /\ pc = "open" =>
       /\ cut = None
       /\ seen # None => file[seen].type = "file" /\ (seen = name \/ moved)
       /\ seen = None => name = None \/ (name > made /\ moved)
  /\ pc = "lstat" => name = None \/ name <= made \/ moved

Streamed ==
  /\ cut # None => cut = seen \/ moved
  /\ pc \in {"fstat", "fdopen", "stream"} =>
       /\ fd # None
       /\ seen = None => fd > made
       /\ seen # None => file[seen].type = "file" /\ (fd # seen => moved)
  /\ pc \in {"fdopen", "stream"} =>
       /\ checked.writable # "world" /\ (asRoot => checked.root)
       /\ checked.type = file[fd].type
       /\ seen # None => file[fd].ino = file[seen].ino

InDir(d) == file[d].type = "dir" /\ file[d].ino = checked.ino /\ checked.writable # "world"

Rooted ==
  /\ pc \in {"fstatdir", "fchdir", "chroot", "fstatagain", "close"} =>
       fd # None /\ (fd = name \/ moved)
  /\ pc \in {"fchdir", "chroot", "fstatagain", "close"} =>
       file[fd].ino = checked.ino /\ checked.writable # "world"
  /\ pc \in {"chroot", "fstatagain", "close"} => cwd = fd /\ file[fd].type = "dir"
  /\ pc \in {"fstatagain", "close"} \/ result = "done" =>
       /\ cwd # None /\ top # None /\ InDir(cwd)
       /\ file[top].type = "dir" /\ (top # cwd => moved)

IndInv == Typed /\ Balance /\ AtOpen /\ Streamed /\ Rooted

-----------------------------------------------------------------------------
(* Balance needs nothing else.                                             *)
LEMMA InitBalance == Init => Balance
BY DEF Init, Balance, Before, Behind

LEMMA NextBalance == Balance /\ [Next]_vars => Balance'
<1> SUFFICES ASSUME Balance, [Next]_vars
             PROVE  Balance'
  OBVIOUS
<1> USE DEF Balance, Before, Behind
<1>1. CASE Environment
  BY <1>1 DEF Environment, Unlink, Make, Chmod, Others
<1>2. CASE Fopen \/ Chroot
  BY <1>2 DEF Fopen, Chroot, Begin
<1>3. CASE Lstat \/ LstatRefuses \/ Open \/ OpenFails
  BY <1>3 DEF Lstat, LstatRefuses, Open, OpenFails, Null, Return, Step
<1>4. CASE Fstat \/ FstatRefuses \/ Fdopen \/ FdopenFails \/ Keep
  BY <1>4 DEF Fstat, FstatRefuses, Fdopen, FdopenFails, Keep, NullClosed, Null, Return, Step
<1>5. CASE OpenDir \/ OpenDirFails \/ FstatDir \/ FstatDirFails \/ Fchdir \/ FchdirFails
  BY <1>5 DEF OpenDir, OpenDirFails, FstatDir, FstatDirFails, Fchdir, FchdirFails, FailsOpen,
              Failure, Return, Step, Go, history
<1>6. CASE ChangeRoot \/ ChangeRootFails \/ FstatAgain \/ FstatAgainFails \/ Close
  BY <1>6 DEF ChangeRoot, ChangeRootFails, FstatAgain, FstatAgainFails, Close, FailsOpen,
              Failure, Return, Step, Go, history
<1>7. CASE UNCHANGED vars
  BY <1>7 DEF vars, history
<1> QED
  BY <1>1, <1>2, <1>3, <1>4, <1>5, <1>6, <1>7 DEF Next, SaferFopen, CompatChroot

(* A call of safer_fopen closes what it opened when it fails, whatever     *)
(* system calls fail and whatever the name stands for; compat_chroot when  *)
(* it succeeds.                                                            *)
THEOREM DescriptorsAreClosed == Spec => []DescriptorsClosed
<1>1. Balance => DescriptorsClosed
  BY DEF Balance, DescriptorsClosed, Before, Behind
<1> QED
  BY <1>1, InitBalance, NextBalance, PTL DEF Spec

-----------------------------------------------------------------------------
(* Files keep their number, type and owner, and none is forgotten.         *)
Grown ==
  /\ Len(file') \in Nat /\ Len(file') >= Len(file)
  /\ \A f \in 1..Len(file) :
       /\ file'[f].ino = file[f].ino /\ file'[f].type = file[f].type
       /\ file'[f].root = file[f].root

LEMMA Appended ==
  ASSUME Typed, NEW a \in Attributes, file' = Append(file, a)
  PROVE  /\ Grown /\ Len(file') = Len(file) + 1 /\ file' \in Seq(Attributes)
         /\ file'[Len(file')] = a
BY DEF Typed, Grown

LEMMA Protected ==
  ASSUME Typed, name # None, NEW w \in Writers, file' = [file EXCEPT ![name].writable = w]
  PROVE  Grown /\ Len(file') = Len(file) /\ file' \in Seq(Attributes)
<1> DEFINE a == [file[name] EXCEPT !.writable = w]
<1>1. name \in 1..Len(file) /\ file[name] \in Attributes
  BY DEF Typed, None
<1>2. a \in Attributes /\ a.ino = file[name].ino /\ a.type = file[name].type
      /\ a.root = file[name].root
  BY <1>1 DEF Attributes
<1>3. file' = [file EXCEPT ![name] = a]
  OBVIOUS
<1> HIDE DEF a
<1> QED
  BY <1>1, <1>2, <1>3 DEF Typed, Grown

LEMMA Same == Typed /\ file' = file => Grown
BY DEF Typed, Grown

(* Of an open only this matters.                                           *)
LEMMA Made ==
  ASSUME Typed, Open
  PROVE  Grown /\ file' \in Seq(Attributes) /\ name' \in 0..Len(file') /\ fd' \in 1..Len(file')
<1>1. CASE name # None /\ fd' = name /\ UNCHANGED world
  BY <1>1, Same DEF Typed, world, None
<1>2. CASE /\ \E i \in Inodes \ InUse :
                file' = Append(file, [ino |-> i, type |-> "file", writable |-> "owner", root |-> asRoot])
           /\ name' = Len(file') /\ fd' = name'
  <2>1. PICK i \in Inodes \ InUse :
          file' = Append(file, [ino |-> i, type |-> "file", writable |-> "owner", root |-> asRoot])
    BY <1>2
  <2>2. [ino |-> i, type |-> "file", writable |-> "owner", root |-> asRoot] \in Attributes
    BY DEF Attributes, Types, Writers, Typed
  <2>3. Len(file) \in Nat
    BY DEF Typed
  <2> QED
    BY <1>2, <2>1, <2>2, <2>3, Appended
<1> QED
  BY <1>1, <1>2 DEF Open
-----------------------------------------------------------------------------
LEMMA InitTyped == Init => Typed
<1> SUFFICES ASSUME Init PROVE Typed
  OBVIOUS
<1>1. CASE file = <<>> /\ name = None
  BY <1>1 DEF Init, Typed, None
<1>2. ASSUME NEW a \in Attributes, file = <<a>>, name = 1
      PROVE  Typed
  <2>1. file \in Seq(Attributes) /\ Len(file) = 1
    BY <1>2
  <2> QED
    BY <1>2, <2>1 DEF Init, Typed, None
<1> QED
  BY <1>1, <1>2 DEF Init

(* Whatever moves, the numbers stay those of files.                        *)
LEMMA NextTyped ==
  ASSUME Typed, [Next]_vars
  PROVE  Typed' /\ Grown
<1>1. Len(file) \in Nat
  BY DEF Typed
<1>2. CASE Unlink
  BY <1>1, <1>2, Same DEF Unlink, Others, Typed, None
<1>3. CASE Make
  <2>1. PICK a \in Attributes : file' = Append(file, a)
    BY <1>3 DEF Make
  <2>2. Grown /\ Len(file') = Len(file) + 1 /\ file' \in Seq(Attributes)
    BY <2>1, Appended
  <2> QED
    BY <1>1, <1>3, <2>2 DEF Make, Others, Typed
<1>4. CASE Chmod
  <2>1. Grown /\ Len(file') = Len(file) /\ file' \in Seq(Attributes)
    BY <1>4, Protected DEF Chmod
  <2> QED
    BY <1>4, <2>1 DEF Chmod, Others, Typed
<1>5. CASE Open
  <2>1. Grown /\ file' \in Seq(Attributes) /\ name' \in 0..Len(file') /\ fd' \in 1..Len(file')
    BY <1>5, Made
  <2> QED
    BY <1>1, <1>5, <2>1 DEF Open, Step, Typed, Grown
<1>6. CASE Fopen \/ Chroot
  BY <1>1, <1>6, Same DEF Fopen, Chroot, Begin, Typed, None, world
<1>7. CASE Lstat \/ LstatRefuses \/ OpenFails
  BY <1>1, <1>7, Same DEF Lstat, LstatRefuses, OpenFails, Null, Return, Step, Typed, None, world
<1>8. CASE Fstat \/ FstatRefuses \/ Fdopen \/ FdopenFails \/ Keep
  BY <1>1, <1>8, Same DEF Fstat, FstatRefuses, Fdopen, FdopenFails, Keep, NullClosed, Null, Return,
                     Step, Typed, None, world
<1>9. CASE OpenDir \/ OpenDirFails \/ FstatDir \/ FstatDirFails \/ Fchdir \/ FchdirFails
  BY <1>1, <1>9, Same DEF OpenDir, OpenDirFails, FstatDir, FstatDirFails, Fchdir, FchdirFails,
                     FailsOpen, Failure, Return, Step, Go, history, Typed, None, world
<1>10. CASE ChangeRoot \/ ChangeRootFails \/ FstatAgain \/ FstatAgainFails \/ Close
  BY <1>1, <1>10, Same DEF ChangeRoot, ChangeRootFails, FstatAgain, FstatAgainFails, Close,
                      FailsOpen, Failure, Return, Step, Go, history, Typed, None, world
<1>11. CASE UNCHANGED vars
  BY <1>11, Same DEF vars, history, world, Typed
<1> QED
  BY <1>2, <1>3, <1>4, <1>5, <1>6, <1>7, <1>8, <1>9, <1>10, <1>11
     DEF Next, Environment, SaferFopen, CompatChroot
-----------------------------------------------------------------------------
LEMMA InitRest == Init => AtOpen /\ Streamed /\ Rooted
BY DEF Init, AtOpen, Streamed, Rooted, None

LEMMA EnvironmentRest ==
  ASSUME Typed, AtOpen, Streamed, Rooted, Typed', Grown, Environment
  PROVE  AtOpen' /\ Streamed' /\ Rooted'
<1>1. Len(file) \in Nat /\ made <= Len(file) /\ Others
  BY DEF Typed, Environment, Unlink, Make, Chmod
<1>2. \/ moved' = moved /\ name' = name
      \/ moved' = TRUE /\ (name' = None \/ name' > made)
  <2>1. CASE Make
    <3>1. PICK a \in Attributes : file' = Append(file, a)
      BY <2>1 DEF Make
    <3>2. Len(file') = Len(file) + 1
      BY <3>1, Appended
    <3>3. name' = Len(file') /\ moved' = TRUE
      BY <2>1 DEF Make
    <3>4. made \in Int
      BY <1>1 DEF Typed
    <3>5. name' > made
      BY <1>1, <3>2, <3>3, <3>4
    <3> QED
      BY <3>3, <3>5
  <2> QED
    BY <2>1 DEF Environment, Unlink, Chmod
<1>3. AtOpen'
  BY <1>1, <1>2 DEF AtOpen, Typed, Grown, Others, None
<1>4. Streamed'
  BY <1>1, <1>2 DEF Streamed, Typed, Grown, Others, None
<1>5. Rooted'
  BY <1>1, <1>2, SMTT(30) DEF Rooted, InDir, Typed, Grown, Others, None
<1> QED
  BY <1>3, <1>4, <1>5
LEMMA BeginRest ==
  ASSUME Typed, Fopen \/ Chroot
  PROVE  AtOpen' /\ Streamed' /\ Rooted'
<1>1. /\ pc' \in {"lstat", "opendir"} /\ cut' = None /\ made' = Len(file) /\ result' = "none"
      /\ name' = name
  BY DEF Fopen, Chroot, Begin, world
<1> QED
  BY <1>1 DEF AtOpen, Streamed, Rooted, Typed, None

LEMMA FopenRest ==
  ASSUME Typed, Balance, AtOpen, Streamed, Rooted, Grown,
         Lstat \/ LstatRefuses \/ Open \/ OpenFails \/ Fstat \/ FstatRefuses \/ Fdopen
           \/ FdopenFails \/ Keep
  PROVE  AtOpen' /\ Streamed' /\ Rooted'
<1>1. CASE Lstat
  BY <1>1 DEF Lstat, Step, world, AtOpen, Streamed, Rooted, Typed, Balance, Before, None
<1>2. CASE LstatRefuses \/ OpenFails \/ FstatRefuses \/ FdopenFails
  BY <1>2 DEF LstatRefuses, OpenFails, FstatRefuses, FdopenFails, NullClosed, Null, Return, Step,
              world, AtOpen, Streamed, Rooted, Typed, None
<1>3. CASE Open
  <2>1. CASE name # None /\ fd' = name /\ cut' \in {None, name} /\ UNCHANGED world
    BY <1>3, <2>1 DEF Open, Step, world, AtOpen, Streamed, Rooted, Balance, Before, Typed, None
  <2>2. CASE name = None /\ Len(file') = Len(file) + 1 /\ fd' = Len(file') /\ cut' = cut
    BY <1>3, <2>2 DEF Open, Step, AtOpen, Streamed, Rooted, Balance, Before, Typed, Grown, None
  <2>3. name # None => fd' = name /\ cut' \in {None, name} /\ UNCHANGED world
    BY <1>3 DEF Open
  <2>4. name = None => Len(file') = Len(file) + 1 /\ fd' = Len(file') /\ cut' = cut
    <3>1. name = None => /\ fd' = Len(file') /\ cut' = cut
                         /\ \E i \in Inodes \ InUse : file' = Append(file,
                              [ino |-> i, type |-> "file", writable |-> "owner", root |-> asRoot])
      BY <1>3 DEF Open
    <3> QED
      <4>1. ASSUME NEW a, file' = Append(file, a)
            PROVE  Len(file') = Len(file) + 1
        BY <4>1 DEF Typed
      <4> QED
        BY <3>1, <4>1
  <2> QED
    BY <2>1, <2>2, <2>3, <2>4
<1>4. CASE Fstat
  BY <1>4 DEF Fstat, Unchanged, Trusted, Step, world, AtOpen, Streamed, Rooted, Balance, Behind,
              Typed, None
<1>5. CASE Fdopen
  BY <1>5 DEF Fdopen, Step, world, AtOpen, Streamed, Rooted, Typed, None
<1>6. CASE Keep
  BY <1>6 DEF Keep, Step, world, AtOpen, Streamed, Rooted, Balance, Typed, None
<1> QED
  BY <1>1, <1>2, <1>3, <1>4, <1>5, <1>6

LEMMA ChrootRest ==
  ASSUME Typed, Balance, AtOpen, Streamed, Rooted,
         OpenDir \/ OpenDirFails \/ FstatDir \/ FstatDirFails \/ Fchdir \/ FchdirFails
           \/ ChangeRoot \/ ChangeRootFails \/ FstatAgain \/ FstatAgainFails \/ Close
  PROVE  AtOpen' /\ Streamed' /\ Rooted'
<1> USE DEF Step, Go, world, history, AtOpen, Streamed, Rooted, InDir, Typed, Balance, Before,
            Behind, None
<1>1. CASE OpenDir
  BY <1>1 DEF OpenDir
<1>2. CASE FstatDir
  BY <1>2 DEF FstatDir
<1>3. CASE Fchdir
  BY <1>3 DEF Fchdir
<1>4. CASE ChangeRoot
  BY <1>4 DEF ChangeRoot
<1>5. CASE FstatAgain
  BY <1>5 DEF FstatAgain
<1>6. CASE Close
  BY <1>6 DEF Close, Return
<1>7. CASE OpenDirFails \/ FstatDirFails \/ FchdirFails \/ ChangeRootFails \/ FstatAgainFails
  BY <1>7 DEF OpenDirFails, FstatDirFails, FchdirFails, ChangeRootFails, FstatAgainFails, FailsOpen,
              Failure, Return
<1> QED
  BY <1>1, <1>2, <1>3, <1>4, <1>5, <1>6, <1>7

LEMMA NextInv == IndInv /\ [Next]_vars => IndInv'
<1> SUFFICES ASSUME IndInv, [Next]_vars
             PROVE  IndInv'
  OBVIOUS
<1>1. Typed /\ Balance /\ AtOpen /\ Streamed /\ Rooted
  BY DEF IndInv
<1>2. Typed' /\ Grown /\ Balance'
  BY <1>1, NextTyped, NextBalance
<1>3. ASSUME UNCHANGED vars
      PROVE  AtOpen' /\ Streamed' /\ Rooted'
  BY <1>1, <1>3 DEF vars, world, history, AtOpen, Streamed, Rooted, InDir
<1>4. ASSUME Next
      PROVE  AtOpen' /\ Streamed' /\ Rooted'
  BY <1>1, <1>2, <1>4, EnvironmentRest, BeginRest, FopenRest, ChrootRest
     DEF Next, SaferFopen, CompatChroot
<1> QED
  BY <1>2, <1>3, <1>4 DEF IndInv

(* The inductive invariant of safer_fopen and compat_chroot.               *)
THEOREM FilesInvariance == Spec => []IndInv
<1>1. Init => IndInv
  BY InitTyped, InitBalance, InitRest DEF IndInv
<1> QED
  BY <1>1, NextInv, PTL DEF Spec

(* What was looked at is what is used, whatever other processes do to the  *)
(* name between any two system calls of safer_fopen and compat_chroot.     *)
THEOREM UsedAsSeen == Spec => []OpenedAsSeen
<1>1. IndInv => OpenedAsSeen
  BY DEF IndInv, Streamed, Rooted, InDir, OpenedAsSeen
<1> QED
  BY <1>1, FilesInvariance, PTL

-----------------------------------------------------------------------------
(* The clock.                                                              *)

(* What a division leaves, and that nothing else does.                     *)
LEMMA Division ==
  ASSUME NEW n \in Nat, NEW d \in Nat \ {0}
  PROVE  /\ n \div d \in Nat /\ n % d \in 0..(d - 1)
         /\ n = (n \div d) * d + (n % d)
OBVIOUS

LEMMA Quotient ==
  ASSUME NEW d \in Nat \ {0}, NEW q \in Nat, NEW r \in 0..(d - 1)
  PROVE  (q * d + r) \div d = q
OBVIOUS

LEMMA LessQuotient ==
  ASSUME NEW n \in Nat, NEW k \in Nat, NEW d \in Nat \ {0}, n < k * d
  PROVE  n \div d < k
<1> DEFINE q == n \div d
<1>1. q \in Nat /\ q * d <= n
  <2>1. n % d \in Nat
    BY Division
  <2> QED
    BY <2>1, Division
<1> HIDE DEF q
<1>2. q >= k => q * d >= k * d
  BY <1>1
<1>3. q < k
  BY <1>1, <1>2
<1> QED
  BY <1>3 DEF q

LEMMA MonotoneQuotient ==
  ASSUME NEW a \in Nat, NEW b \in Nat, NEW d \in Nat \ {0}, a <= b
  PROVE  a \div d <= b \div d
<1>1. b \div d \in Nat /\ b % d < d /\ b = (b \div d) * d + (b % d)
  BY Division
<1> DEFINE q == b \div d
<1>2. (q + 1) * d = q * d + d /\ q * d \in Nat
  BY <1>1
<1>3. a < (q + 1) * d
  BY <1>1, <1>2
<1>4. q + 1 \in Nat
  BY <1>1
<1>5. a \div d < q + 1
  BY <1>3, <1>4, LessQuotient
<1>6. a \div d \in Nat
  BY Division
<1> QED
  BY <1>1, <1>5, <1>6

LEMMA Units == TEN_E9 \in Nat \ {0} /\ Micro \in Nat \ {0} /\ PerSecond \in Nat \ {0}
BY UnitAssumption DEF TEN_E9

-----------------------------------------------------------------------------
(* A number of ticks as a struct timespec and back.                        *)
LEMMA TimespecTicks ==
  ASSUME NEW n \in Nat
  PROVE  Normalized(Timespec(n)) /\ Ticks(Timespec(n)) = n
<1> HIDE DEF TEN_E9
<1>1. n \div TEN_E9 \in Nat /\ n % TEN_E9 \in 0..(TEN_E9 - 1)
      /\ n = (n \div TEN_E9) * TEN_E9 + (n % TEN_E9)
  BY Units, Division
<1> QED
  BY <1>1, Units DEF Timespec, Normalized, Ticks

LEMMA TicksNat ==
  ASSUME NEW t, Normalized(t)
  PROVE  Ticks(t) \in Nat /\ t.sec \in Nat /\ t.nsec \in Nat /\ t.nsec < TEN_E9
<1>1. t.sec \in Nat /\ t.nsec \in Nat /\ t.nsec < TEN_E9
  BY Units DEF Normalized
<1> QED
  BY <1>1, Units DEF Ticks

(* The microseconds that are returned are the ticks, cut off.              *)
LEMMA MicrosecondsOf ==
  ASSUME NEW t, Normalized(t)
  PROVE  Microseconds(t) = Ticks(t) \div Micro /\ Microseconds(t) \in Nat
<1> DEFINE s == t.sec
           u == t.nsec \div Micro
           r == t.nsec % Micro
<1>1. s \in Nat /\ t.nsec \in Nat
  BY TicksNat
<1>2. u \in Nat /\ r \in 0..(Micro - 1) /\ t.nsec = u * Micro + r
  BY <1>1, Units, Division
<1>3. Ticks(t) = s * (PerSecond * Micro) + (u * Micro + r)
  BY <1>2 DEF Ticks, TEN_E9
<1>4. Microseconds(t) = s * PerSecond + u
  BY DEF Microseconds
<1> HIDE DEF s, u, r
<1>5. s * PerSecond + u \in Nat
  BY <1>1, <1>2, Units
<1>6. s * (PerSecond * Micro) = (s * PerSecond) * Micro
  BY <1>1, Units
<1>7. s * PerSecond \in Nat /\ Micro \in Nat
  BY <1>1, Units
<1>8. (s * PerSecond + u) * Micro = (s * PerSecond) * Micro + u * Micro
  BY <1>2, <1>7
<1>9. Ticks(t) = (s * PerSecond + u) * Micro + r
  <2>1. (s * PerSecond) * Micro \in Nat /\ u * Micro \in Nat /\ r \in Nat
    BY <1>2, <1>7, Units
  <2> QED
    BY <1>3, <1>6, <1>8, <2>1
<1>10. ((s * PerSecond + u) * Micro + r) \div Micro = s * PerSecond + u
  BY <1>2, <1>5, Units, Quotient
<1> QED
  BY <1>4, <1>5, <1>9, <1>10

(* The borrow and the carry are right.                                     *)
LEMMA AdvancedTicks ==
  ASSUME Normalized(now), Normalized(prev), NEW cur, Normalized(cur),
         Ticks(prev) <= Ticks(cur)
  PROVE  /\ Normalized(Advanced(cur))
         /\ Ticks(Advanced(cur)) = Ticks(now) + Ticks(cur) - Ticks(prev)
<1> DEFINE S == TEN_E9
           borrow == cur.nsec < prev.nsec
           nsec == now.nsec + (IF borrow THEN S ELSE 0) + cur.nsec - prev.nsec
           sec == now.sec + cur.sec - prev.sec - (IF borrow THEN 1 ELSE 0)
           a == Advanced(cur)
<1>1. S \in Nat \ {0}
  BY Units
<1>2. /\ now.sec \in Nat /\ now.nsec \in Nat /\ now.nsec < S
      /\ prev.sec \in Nat /\ prev.nsec \in Nat /\ prev.nsec < S
      /\ cur.sec \in Nat /\ cur.nsec \in Nat /\ cur.nsec < S
  BY TicksNat
<1>3. a = IF nsec >= S THEN [sec |-> sec + 1, nsec |-> nsec - S]
                       ELSE [sec |-> sec, nsec |-> nsec]
  BY DEF Advanced
<1> HIDE DEF a, S
<1>4. sec \in Int /\ nsec \in Nat /\ nsec < 2 * S
  BY <1>1, <1>2
<1>5. sec * S + nsec = (now.sec * S + now.nsec) + (cur.sec * S + cur.nsec) - (prev.sec * S + prev.nsec)
  <2>1. now.sec * S \in Nat /\ cur.sec * S \in Nat /\ prev.sec * S \in Nat
    BY <1>1, <1>2
  <2>2. CASE borrow
    <3>1. sec = now.sec + cur.sec - prev.sec - 1
      BY <2>2
    <3>2. sec * S = now.sec * S + cur.sec * S - prev.sec * S - S
      BY <1>1, <1>2, <3>1
    <3> QED
      BY <1>1, <1>2, <2>1, <2>2, <3>2
  <2>3. CASE ~borrow
    <3>1. sec = now.sec + cur.sec - prev.sec
      BY <1>2, <2>3
    <3>2. sec * S = now.sec * S + cur.sec * S - prev.sec * S
      BY <1>1, <1>2, <3>1
    <3>3. nsec = now.nsec + cur.nsec - prev.nsec
      BY <1>2, <2>3
    <3> HIDE DEF sec, nsec
    <3> QED
      BY <1>2, <2>1, <3>2, <3>3
  <2> QED
    BY <2>2, <2>3
<1> HIDE DEF sec, nsec
<1>6. a.sec \in Int /\ a.nsec \in 0..(S - 1) /\ a.sec * S + a.nsec = sec * S + nsec
  <2>1. CASE nsec >= S
    <3>1. a.sec = sec + 1 /\ a.nsec = nsec - S
      BY <1>3, <2>1
    <3>2. (sec + 1) * S = sec * S + S /\ sec * S \in Int
      BY <1>1, <1>4
    <3> QED
      BY <1>1, <1>4, <2>1, <3>1, <3>2
  <2>2. CASE ~(nsec >= S)
    BY <1>1, <1>3, <1>4, <2>2
  <2> QED
    BY <2>1, <2>2
<1>7. a.sec * S + a.nsec = Ticks(now) + Ticks(cur) - Ticks(prev)
  BY <1>5, <1>6 DEF Ticks, S
<1>8. a.sec \in Nat
  <2>1. Ticks(now) \in Nat /\ Ticks(cur) \in Nat /\ Ticks(prev) \in Nat
    BY TicksNat
  <2>2. a.sec * S + a.nsec >= 0
    BY <1>7, <2>1
  <2>3. a.sec < 0 => a.sec * S <= -S
    BY <1>1, <1>6
  <2>4. a.sec * S \in Int
    BY <1>1, <1>6
  <2> QED
    BY <1>1, <1>6, <2>2, <2>3, <2>4
<1>9. a \in [sec : Nat, nsec : 0..(S - 1)]
  <2>1. a = [sec |-> a.sec, nsec |-> a.nsec]
    BY <1>3
  <2> QED
    BY <1>6, <1>8, <2>1
<1> QED
  BY <1>7, <1>9 DEF a, S, Normalized, Ticks
-----------------------------------------------------------------------------
LEMMA ClockInitInv == ClockInit => ClockInv
<1> SUFFICES ASSUME ClockInit PROVE ClockInv
  OBVIOUS
<1>1. 0 \in Nat /\ Normalized(Timespec(0))
  BY TimespecTicks
<1>2. TypeOK
  <2>1. Normalized(now) /\ Normalized(prev)
    BY <1>1 DEF ClockInit
  <2>2. real \in 0..MaxTime /\ mono \in 0..MaxTime
    BY UnitAssumption DEF ClockInit
  <2>3. tv \in Nat \cup {-1} /\ past \in Nat /\ offset \in Int /\ highest \in Nat /\ last \in Nat
    BY DEF ClockInit
  <2>4. /\ monotonic \in BOOLEAN /\ initialized \in BOOLEAN
        /\ use_gettimeofday \in BOOLEAN /\ started \in BOOLEAN
    BY DEF ClockInit
  <2>5. step \in {"idle", "prev", "probe", "clock", "gettimeofday", "aborted"}
    BY DEF ClockInit
  <2> QED
    BY <2>1, <2>2, <2>3, <2>4, <2>5 DEF TypeOK
<1>3. Decided /\ Paced /\ Kept
  BY DEF ClockInit, Decided, Paced, Kept
<1> QED
  BY <1>2, <1>3 DEF ClockInv

LEMMA FirstCallInv ==
  ASSUME ClockInv, FirstCall
  PROVE  ClockInv'
<1>1. real \in Nat
  BY DEF ClockInv, TypeOK
<1>2. Normalized(Timespec(real))
  BY <1>1, TimespecTicks
<1>3. TypeOK'
  <2>1. Normalized(now')
    BY <1>2 DEF ClockInv, TypeOK, FirstCall
  <2> QED
    BY <2>1 DEF ClockInv, TypeOK, FirstCall, Normalized, TEN_E9, clocks
<1>4. tv = -1 /\ ~started
  BY DEF ClockInv, Decided, Paced, FirstCall
<1>5. (Decided /\ Paced /\ Kept)'
  BY <1>4 DEF ClockInv, Decided, Paced, Kept, FirstCall, clocks
<1> QED
  BY <1>3, <1>5 DEF ClockInv

LEMMA ReadPrevInv ==
  ASSUME ClockInv, ReadPrev
  PROVE  ClockInv'
<1>1. mono \in Nat /\ Ticks(now) \in Int
  BY TicksNat DEF ClockInv, TypeOK
<1>2. Normalized(Timespec(mono)) /\ Ticks(Timespec(mono)) = mono
  BY <1>1, TimespecTicks
<1>3. TypeOK'
  <2>1. Normalized(prev') /\ offset' \in Int
    BY <1>1, <1>2 DEF ReadPrev
  <2> QED
    BY <2>1 DEF ClockInv, TypeOK, ReadPrev, Normalized, TEN_E9, clocks
<1>4. Ticks(now) = Ticks(prev') + offset' /\ Ticks(prev') <= mono /\ now' = now
  BY <1>1, <1>2 DEF ReadPrev
<1>5. (Decided /\ Paced /\ Kept)'
  BY <1>4 DEF ClockInv, Decided, Paced, Kept, ReadPrev, clocks, Ticks, TEN_E9
<1> QED
  BY <1>3, <1>5 DEF ClockInv

(* What a reading of the monotonic clock does to the statics.              *)
LEMMA Reading ==
  ASSUME ClockInv, ReadClock
  PROVE  /\ Normalized(now') /\ Normalized(prev')
         /\ Ticks(prev') = mono
         /\ Ticks(now') = mono + offset
         /\ Ticks(now) <= Ticks(now')
         /\ Microseconds(now) <= Microseconds(now')
         /\ Microseconds(now') \in Nat
<1> DEFINE cur == Timespec(mono)
<1>1. mono \in Nat /\ Normalized(now) /\ Normalized(prev) /\ offset \in Int
  BY DEF ClockInv, TypeOK
<1>2. Normalized(cur) /\ Ticks(cur) = mono
  BY <1>1, TimespecTicks
<1>3. Ticks(now) = Ticks(prev) + offset /\ Ticks(prev) <= mono
  BY DEF ClockInv, Paced, ReadClock
<1>4. now' = Advanced(cur) /\ prev' = cur
  BY DEF ReadClock
<1> HIDE DEF cur
<1>5. Normalized(Advanced(cur)) /\ Ticks(Advanced(cur)) = Ticks(now) + Ticks(cur) - Ticks(prev)
  BY <1>1, <1>2, <1>3, AdvancedTicks
<1>6. Ticks(now) \in Nat /\ Ticks(prev) \in Nat /\ Ticks(Advanced(cur)) \in Nat
  BY <1>1, <1>5, TicksNat
<1>7. Ticks(Advanced(cur)) = mono + offset /\ Ticks(now) <= Ticks(Advanced(cur))
  BY <1>1, <1>2, <1>3, <1>5, <1>6
<1>8. Microseconds(now) <= Microseconds(Advanced(cur)) /\ Microseconds(Advanced(cur)) \in Nat
  <2>1. Ticks(now) \div Micro <= Ticks(Advanced(cur)) \div Micro
    BY <1>6, <1>7, Units, MonotoneQuotient
  <2> QED
    BY <1>1, <1>5, <2>1, MicrosecondsOf
<1> QED
  BY <1>2, <1>4, <1>5, <1>7, <1>8

LEMMA ReadClockInv ==
  ASSUME ClockInv, ReadClock
  PROVE  ClockInv'
<1>1. /\ step \in {"probe", "clock"} /\ initialized /\ ~use_gettimeofday /\ ~started
      /\ step = "probe" => tv = -1
  BY DEF ClockInv, Decided, Paced, ReadClock
<1>2. step = "clock" => tv' = Microseconds(now') /\ step' = "idle"
  BY DEF ReadClock
<1>3. step = "probe" => tv' = -1 /\ step' = "clock"
  BY <1>1 DEF ReadClock
<1>4. UNCHANGED <<real, mono, monotonic, initialized, use_gettimeofday, started, past, offset, highest, last>>
  BY DEF ReadClock, clocks
<1>5. TypeOK'
  BY <1>1, <1>2, <1>3, <1>4, Reading DEF ClockInv, TypeOK, Normalized, TEN_E9
<1>6. Decided'
  BY <1>1, <1>2, <1>3, <1>4 DEF Decided
<1>7. Paced'
  <2>1. Ticks(now') = Ticks(prev') + offset' /\ Ticks(prev') <= mono'
    BY <1>4, Reading DEF ClockInv, TypeOK
  <2>2. Ticks(now)' = Ticks(now') /\ Ticks(prev)' = Ticks(prev') /\ Microseconds(now)' = Microseconds(now')
    BY DEF Ticks, Microseconds, TEN_E9
  <2>3. tv' = -1 \/ (tv' = Microseconds(now') /\ step' = "idle")
    BY <1>1, <1>2, <1>3
  <2>4. step' = "idle" => tv' # -1
    BY <1>1, <1>2, <1>3, Reading
  <2> QED
    BY <1>1, <1>2, <1>3, <1>4, <2>1, <2>2, <2>3, <2>4 DEF Paced
<1>8. Kept'
  BY <1>1, <1>2, <1>3, <1>4 DEF Kept, ClockInv
<1> QED
  BY <1>5, <1>6, <1>7, <1>8 DEF ClockInv

LEMMA GetTimeOfDayInv ==
  ASSUME ClockInv, GetTimeOfDay
  PROVE  ClockInv'
<1> DEFINE reading == real \div Micro
<1>1. reading \in Nat
  <2>1. real \in Nat
    BY DEF ClockInv, TypeOK
  <2> QED
    BY <2>1, Units, Division
<1>2. /\ started' = TRUE /\ past' = Freeze(reading)
      /\ highest' = (IF reading > highest THEN reading ELSE highest) /\ last' = reading
      /\ TooFarBack(reading) => step' = "aborted" /\ tv' = tv
      /\ ~TooFarBack(reading) => step' = "idle" /\ tv' = past'
      /\ UNCHANGED <<real, mono, monotonic, initialized, use_gettimeofday, now, prev, offset>>
  BY DEF GetTimeOfDay, clocks
<1> HIDE DEF reading
<1>3. /\ initialized /\ use_gettimeofday /\ past \in Nat /\ highest \in Nat /\ Limit \in Nat
      /\ started => tv = past /\ highest = past
      /\ ~started => highest = 0 /\ past = 0 /\ tv = -1
  BY UnitAssumption DEF ClockInv, TypeOK, Decided, Kept, GetTimeOfDay
<1>4. past' \in Nat /\ highest' = past' /\ tv' = past'
  BY <1>1, <1>2, <1>3 DEF Freeze, TooFarBack
<1>5. step' = "aborted" <=> past' - last' > Limit
  <2>1. step' = "aborted" <=> TooFarBack(reading)
    BY <1>2
  <2>2. TooFarBack(reading) <=> Freeze(reading) - reading > Limit
    BY <1>1, <1>3 DEF Freeze, TooFarBack
  <2> QED
    BY <1>2, <2>1, <2>2
<1>6. step' \in {"idle", "aborted"}
  BY <1>2
<1>7. TypeOK'
  BY <1>1, <1>2, <1>4, <1>6 DEF ClockInv, TypeOK, Normalized, TEN_E9
<1>8. (Decided /\ Paced /\ Kept)'
  BY <1>2, <1>3, <1>4, <1>5, <1>6 DEF Decided, Paced, Kept
<1> QED
  BY <1>7, <1>8 DEF ClockInv

-----------------------------------------------------------------------------
(* The inductive invariant: where a call is, what the statics hold, and    *)
(* that now has kept its distance to the monotonic clock.                  *)
THEOREM ClockInvariance == ClockSpec => []ClockInv
<1>1. ClockInv /\ [ClockNext]_clockVars => ClockInv'
  <2> SUFFICES ASSUME ClockInv, [ClockNext]_clockVars PROVE ClockInv'
    OBVIOUS
  <2>1. CASE Elapse
    <3>1. /\ mono' \in 0..MaxTime /\ real' \in 0..MaxTime /\ mono <= mono'
          /\ UNCHANGED <<monotonic, statics, step, tv, offset, highest, last>>
      BY <2>1, UnitAssumption DEF ClockInv, TypeOK, Elapse
    <3>2. TypeOK'
      BY <3>1 DEF ClockInv, TypeOK, Normalized, TEN_E9, statics
    <3>3. (Decided /\ Kept)'
      BY <3>1 DEF ClockInv, Decided, Kept, statics
    <3>4. Paced'
      <4>1. Ticks(prev) \in Nat /\ mono \in Nat /\ mono' \in Nat
        BY <3>1, TicksNat DEF ClockInv, TypeOK
      <4>2. Ticks(prev) <= mono => Ticks(prev) <= mono'
        BY <3>1, <4>1
      <4>3. Ticks(now)' = Ticks(now) /\ Ticks(prev)' = Ticks(prev) /\ Microseconds(now)' = Microseconds(now)
        BY <3>1 DEF Ticks, Microseconds, TEN_E9, statics
      <4> QED
        BY <3>1, <4>2, <4>3 DEF ClockInv, Paced, statics
    <3> QED
      BY <3>2, <3>3, <3>4 DEF ClockInv
  <2>2. CASE SetClock
    BY <2>2 DEF ClockInv, TypeOK, Decided, Paced, Kept, Normalized, Ticks, Microseconds, TEN_E9, SetClock, statics
  <2>3. CASE FirstCall
    BY <2>3, FirstCallInv
  <2>4. CASE LaterCall
    BY <2>4 DEF ClockInv, TypeOK, Decided, Paced, Kept, Normalized, Ticks, Microseconds, TEN_E9, LaterCall, statics, clocks
  <2>5. CASE ReadPrev
    BY <2>5, ReadPrevInv
  <2>6. CASE ReadClock
    BY <2>6, ReadClockInv
  <2>7. CASE GetTimeOfDay
    BY <2>7, GetTimeOfDayInv
  <2>8. CASE UNCHANGED clockVars
    BY <2>8 DEF ClockInv, TypeOK, Decided, Paced, Kept, Normalized, Ticks, Microseconds, TEN_E9, clockVars, statics, clocks
  <2> QED
    BY <2>1, <2>2, <2>3, <2>4, <2>5, <2>6, <2>7, <2>8 DEF ClockNext
<1> QED
  BY <1>1, ClockInitInv, PTL DEF ClockSpec

(* compat.c:302-313: no tick is lost or gained.                            *)
THEOREM NoTickLost == ClockSpec => []KeepsPace
<1>1. ClockInv => KeepsPace
  <2> SUFFICES ASSUME ClockInv PROVE KeepsPace
    OBVIOUS
  <2>1. Microseconds(now) = Ticks(now) \div Micro
    BY MicrosecondsOf DEF ClockInv, TypeOK
  <2> QED
    BY <2>1 DEF ClockInv, Paced, KeepsPace
<1> QED
  BY <1>1, ClockInvariance, PTL

(* compat.c:264: what is returned without a monotonic clock, and when the  *)
(* program is aborted.                                                     *)
THEOREM HighestReturned == ClockSpec => []HighestOfDay
<1>1. ClockInv => HighestOfDay
  BY DEF ClockInv, Kept, HighestOfDay
<1> QED
  BY <1>1, ClockInvariance, PTL

(* compat_mono_time never runs backwards.                                  *)
THEOREM TimeIsMonotone == ClockSpec => NeverBackwards
<1>1. ClockInv /\ [ClockNext]_clockVars => [tv' >= tv]_tv
  <2> SUFFICES ASSUME ClockInv, [ClockNext]_clockVars PROVE tv' = tv \/ tv' >= tv
    BY DEF NeverBackwards
  <2>1. CASE ReadClock
    <3>1. tv' = tv \/ tv' = Microseconds(now')
      BY <2>1 DEF ReadClock
    <3>2. tv = -1 \/ tv = Microseconds(now)
      BY <2>1 DEF ClockInv, Paced, Decided, ReadClock
    <3>3. Microseconds(now) \in Nat
      BY MicrosecondsOf DEF ClockInv, TypeOK
    <3> QED
      BY <2>1, <3>1, <3>2, <3>3, Reading
  <2>2. CASE GetTimeOfDay
    <3> DEFINE reading == real \div Micro
    <3>1. reading \in Nat
      <4>1. real \in Nat
        BY DEF ClockInv, TypeOK
      <4> QED
        BY <4>1, Units, Division
    <3>2. tv' = tv \/ tv' = Freeze(reading)
      BY <2>2 DEF GetTimeOfDay
    <3> HIDE DEF reading
    <3>3. past \in Nat /\ (started => tv = past) /\ (~started => tv = -1)
      BY <2>2 DEF ClockInv, TypeOK, Decided, Kept, GetTimeOfDay
    <3> QED
      BY <3>1, <3>2, <3>3 DEF Freeze
  <2>3. CASE UNCHANGED tv
    BY <2>3
  <2> QED
    BY <2>1, <2>2, <2>3 DEF ClockNext, Elapse, SetClock, FirstCall, LaterCall, ReadPrev, clockVars
<1> QED
  BY <1>1, ClockInvariance, PTL DEF ClockSpec, NeverBackwards
=============================================================================
