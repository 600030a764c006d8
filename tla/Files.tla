------------------------------- MODULE Files --------------------------------
(***************************************************************************)
(* safer_fopen of lib/nettools.c and compat_chroot of lib/compat.c: each   *)
(* looks at a file, then uses it, and looks again, while other processes   *)
(* change what its name stands for.                                        *)
(*                                                                         *)
(* There is one name.  The files it has stood for are numbered as they     *)
(* were made; an inode number may be given to a new file as soon as no     *)
(* name and no descriptor keeps the old one.  Every system call may fail.  *)
(* For compat_chroot, which opens without O_NOFOLLOW, the name stands for  *)
(* what its links lead to; a link is then one that leads nowhere.          *)
(***************************************************************************)
EXTENDS Integers, Sequences, FiniteSets

CONSTANTS
  Inodes,     \* inode numbers
  MaxFiles,   \* files ever made
  MaxCalls    \* calls of the two functions, one after the other

ASSUME InodeAssumption == IsFiniteSet(Inodes)
ASSUME BoundAssumption == MaxFiles \in Nat /\ MaxCalls \in Nat

Types == {"file", "dir", "link", "block"}
Modes == {"RD", "WR", "RDWR", "APPEND"}
None == 0

VARIABLES
  file,     \* the files made so far: [ino, type, writable: by whom, root: owned by root]
  name,     \* the file the name stands for, or None
  asRoot,   \* getuid() = 0
  pc,       \* the next system call
  mode,     \* argument m of safer_fopen
  seen,     \* sb1: the file lstat saw, or None (is_new)
  fd,       \* the file of the local descriptor, or None
  checked,  \* sb2, or st of compat_chroot: the file as fstat saw it
  result,   \* of the last call: "stream", "NULL", "done" or "failed"
  cwd, top, \* working and root directory, None if they are as they were
  made,     \* history: how many files there were when the call began
  moved,    \* history: the name was given to another file, or none, during the call
  cut,      \* history: the file that open truncated during the call
  before,   \* history: open descriptors when the call began
  opened,   \* open descriptors of all calls
  calls

world == <<file, name>>
history == <<made, moved, cut, before>>
vars == <<world, asRoot, pc, mode, seen, fd, checked, result, cwd, top, history, opened, calls>>

(* Who may write: the owner alone, his group too, or everybody.            *)
Writers == {"owner", "group", "world"}

Attributes == [ino : Inodes, type : Types, writable : Writers, root : BOOLEAN]

NoFile == [ino |-> 0, type |-> "none", writable |-> "owner", root |-> FALSE]

(* Inode numbers that are in use.                                          *)
InUse == {file[f].ino : f \in {name, fd, cwd, top} \ {None}}

Init ==
  /\ \/ file = <<>> /\ name = None
     \/ \E a \in Attributes : file = <<a>> /\ name = 1
  /\ asRoot \in BOOLEAN
  /\ pc = "call" /\ mode = "RD" /\ seen = None /\ fd = None /\ checked = NoFile /\ result = "none"
  /\ cwd = None /\ top = None
  /\ made = 0 /\ moved = FALSE /\ cut = None /\ before = 0
  /\ opened = 0 /\ calls = 0

-----------------------------------------------------------------------------
(* Other processes.                                                        *)
Others == UNCHANGED <<asRoot, pc, mode, seen, fd, checked, result, cwd, top, made, cut, before,
                      opened, calls>>

Unlink ==
  /\ name # None
  /\ name' = None /\ moved' = TRUE
  /\ UNCHANGED file /\ Others

(* A file is made under the name, or renamed to it.                        *)
Make ==
  /\ Len(file) < MaxFiles
  /\ \E a \in Attributes :
       /\ a.ino \notin InUse
       /\ file' = Append(file, a)
  /\ name' = Len(file') /\ moved' = TRUE
  /\ Others

Chmod ==
  /\ name # None
  /\ \E w \in Writers \ {file[name].writable} : file' = [file EXCEPT ![name].writable = w]
  /\ UNCHANGED <<name, moved>> /\ Others

Environment == Unlink \/ Make \/ Chmod

-----------------------------------------------------------------------------
Begin(first) ==
  /\ pc = "call" /\ calls < MaxCalls
  /\ calls' = calls + 1
  /\ pc' = first
  /\ seen' = None /\ checked' = NoFile /\ result' = "none"
  /\ made' = Len(file) /\ moved' = FALSE /\ cut' = None /\ before' = opened
  /\ UNCHANGED <<world, asRoot, fd, cwd, top, opened>>

Fopen == \E m \in Modes : Begin("lstat") /\ mode' = m
Chroot == Begin("opendir") /\ UNCHANGED mode

Step(next) == pc' = next /\ UNCHANGED <<asRoot, mode, cwd, top, made, moved, before, calls>>

(* The end of a call; a descriptor that is dropped is closed, or not.      *)
Return(value) == result' = value /\ fd' = None /\ Step("call")

Null == Return("NULL")
NullClosed == Null /\ opened' = opened - 1

Writes == mode # "RD"
Creates == mode \in {"WR", "APPEND"}

(* What safer_fopen thinks of a file's owner and mode: a user who is not   *)
(* root may open anybody's, and the group may write.                       *)
Trusted(f) == ~(asRoot /\ ~f.root) /\ f.writable # "world"

Lstat ==
  /\ pc = "lstat"
  /\ \/ /\ name # None /\ Trusted(file[name]) /\ file[name].type = "file"
        /\ seen' = name
        /\ Step("open") /\ UNCHANGED <<world, fd, checked, result, cut, opened>>
     \/ /\ name = None /\ Writes
        /\ seen' = None
        /\ Step("open") /\ UNCHANGED <<world, fd, checked, result, cut, opened>>

(* The file is not to be opened, or lstat fails.                           *)
LstatRefuses ==
  /\ pc = "lstat"
  /\ Null /\ UNCHANGED <<world, seen, checked, cut, opened>>

(* open with O_NOFOLLOW, O_NONBLOCK and the flags of the mode.             *)
Open ==
  /\ pc = "open"
  /\ \/ /\ name # None /\ file[name].type # "link" /\ (Writes => file[name].type # "dir")
        /\ fd' = name
        /\ cut' = IF mode = "WR" /\ file[name].type = "file" THEN name ELSE None
        /\ UNCHANGED world
     \/ /\ name = None /\ Creates /\ Len(file) < MaxFiles
        /\ \E i \in Inodes \ InUse :
             file' = Append(file, [ino |-> i, type |-> "file", writable |-> "owner", root |-> asRoot])
        /\ name' = Len(file') /\ fd' = name'
        /\ UNCHANGED cut
  /\ opened' = opened + 1
  /\ Step("fstat") /\ UNCHANGED <<seen, checked, result>>

OpenFails ==
  /\ pc = "open"
  /\ Null /\ UNCHANGED <<world, seen, checked, cut, opened>>

(* Mutant: the file that was opened is not compared with the one seen.     *)
Uncompared == Trusted(file[fd])

(* The checks that are made again.                                         *)
Unchanged == Trusted(file[fd]) /\ (seen # None => file[fd].ino = file[seen].ino)

Fstat ==
  /\ pc = "fstat" /\ Unchanged
  /\ checked' = file[fd]
  /\ Step("fdopen") /\ UNCHANGED <<world, seen, fd, result, cut, opened>>

FstatRefuses ==
  /\ pc = "fstat"
  /\ NullClosed /\ UNCHANGED <<world, seen, checked, cut>>

Fdopen ==
  /\ pc = "fdopen"
  /\ result' = "stream"
  /\ Step("stream") /\ UNCHANGED <<world, seen, fd, checked, cut, opened>>

(* Mutant: the descriptor is forgotten.                                    *)
FdopenLeaks ==
  /\ pc = "fdopen"
  /\ Null /\ UNCHANGED <<world, seen, checked, cut, opened>>

FdopenFails ==
  /\ pc = "fdopen"
  /\ NullClosed /\ UNCHANGED <<world, seen, checked, cut>>

(* The caller has the stream, and uses it no more before the next call.    *)
Keep ==
  /\ pc = "stream"
  /\ fd' = None
  /\ Step("call") /\ UNCHANGED <<world, seen, checked, result, cut, opened>>

-----------------------------------------------------------------------------
(* compat_chroot in a build without fchroot.                               *)
Failure == Return("failed") /\ UNCHANGED <<world, seen, checked, cut, opened>>

(* Every return between open and close leaves the descriptor open.         *)
FailsOpen(where) == pc = where /\ Failure

OpenDir ==
  /\ pc = "opendir" /\ name # None /\ file[name].type # "link"
  /\ fd' = name /\ opened' = opened + 1
  /\ Step("fstatdir") /\ UNCHANGED <<world, seen, checked, result, cut>>

OpenDirFails == pc = "opendir" /\ Failure

(* S_IFDIR is a bit of a block device's type too.                          *)
FstatDir ==
  /\ pc = "fstatdir" /\ file[fd].type \in {"dir", "block"} /\ file[fd].writable # "world"
  /\ checked' = file[fd]
  /\ Step("fchdir") /\ UNCHANGED <<world, seen, fd, result, cut, opened>>

FstatDirFails == FailsOpen("fstatdir")

Go(next) ==
  /\ pc' = next
  /\ UNCHANGED <<world, asRoot, mode, seen, fd, checked, result, history, opened, calls>>

Fchdir ==
  /\ pc = "fchdir" /\ file[fd].type = "dir"
  /\ cwd' = fd
  /\ Go("chroot") /\ UNCHANGED top

FchdirFails == FailsOpen("fchdir")

(* chroot takes the name once more.                                        *)
ChangeRoot ==
  /\ pc = "chroot" /\ name # None /\ file[name].type = "dir"
  /\ top' = name
  /\ Go("fstatagain") /\ UNCHANGED cwd

ChangeRootFails == FailsOpen("chroot")

(* The descriptor is compared with itself.                                 *)
FstatAgain ==
  /\ pc = "fstatagain" /\ file[fd].ino = checked.ino
  /\ Go("close") /\ UNCHANGED <<cwd, top>>

FstatAgainFails == FailsOpen("fstatagain")

(* A close that fails has closed the descriptor.                           *)
Close ==
  /\ pc = "close"
  /\ \E r \in {"done", "failed"} : Return(r)
  /\ opened' = opened - 1
  /\ UNCHANGED <<world, seen, checked, cut>>

SaferFopen ==
  Fopen \/ Lstat \/ LstatRefuses \/ Open \/ OpenFails \/ Fstat \/ FstatRefuses \/ Fdopen \/ FdopenFails \/ Keep

CompatChroot ==
  Chroot \/ OpenDir \/ OpenDirFails \/ FstatDir \/ FstatDirFails \/ Fchdir \/ FchdirFails
    \/ ChangeRoot \/ ChangeRootFails \/ FstatAgain \/ FstatAgainFails \/ Close

Next == Environment \/ SaferFopen \/ CompatChroot

Spec == Init /\ [][Next]_vars

-----------------------------------------------------------------------------
(* nettools.c:2140, "Check the file again because the world may have       *)
(* changed in the meantime": whatever other processes do between the       *)
(* calls, a stream is one of a file that was not world-writable when it    *)
(* was open, nor anybody else's than root's if root opened it; and that    *)
(* file is the one that was seen before, regular then, or it has taken its *)
(* inode number; or there was none, and it was made after that.  No other  *)
(* file was truncated.  Exceptions: the comments ask for more than the     *)
(* code looks at.  The group may write to a file that root opens, where    *)
(* nettools.c:2065 says "at most root-writeable"; and a user who is not    *)
(* root gets a stream of anybody's file, where nettools.c:2120 and 2146    *)
(* say "root-owned or owned by real user".  What took the inode number or  *)
(* the free name need not be regular.                                      *)
(* Likewise the working directory that compat_chroot leaves is the one it  *)
(* has looked at.  Exception: the root directory is what the name stood    *)
(* for later (compat.c:389 compares the descriptor with itself).           *)
OpenedAsSeen ==
  /\ pc = "stream" =>
       /\ checked.writable # "world" /\ (asRoot => checked.root)
       /\ IF seen = None THEN fd > made
          ELSE /\ file[fd].ino = file[seen].ino
               /\ fd # seen => moved
               /\ fd = seen => checked.type = "file"
  /\ cut # None => cut = seen \/ moved
  /\ result = "done" =>
       /\ file[cwd].type = "dir" /\ file[cwd].ino = checked.ino /\ checked.writable # "world"
       /\ file[top].type = "dir" /\ (top # cwd => moved)

(* A call of safer_fopen that fails leaves no descriptor open, one that    *)
(* succeeds just that of the stream; compat_chroot leaves none when it     *)
(* succeeds.  Exception: when it fails behind its open, one is left        *)
(* (compat.c:364).                                                         *)
DescriptorsClosed ==
  pc \in {"call", "stream"} =>
    /\ result \in {"none", "NULL", "done"} => opened = before
    /\ result = "stream" => opened = before + 1
    /\ result = "failed" => opened <= before + 1
=============================================================================
