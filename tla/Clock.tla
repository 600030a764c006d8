------------------------------- MODULE Clock --------------------------------
(***************************************************************************)
(* compat_mono_time of lib/compat.c: a time that never runs backwards,     *)
(* taken from the system's monotonic clock or, where there is none, from   *)
(* the time of day, which others may set while the program runs.           *)
(*                                                                         *)
(* A tick is the resolution of the clocks.  A step of the module is one    *)
(* reading of a clock with the calculation behind it; time passes, and the *)
(* time of day is set, between any two of them.                            *)
(***************************************************************************)
EXTENDS Integers

CONSTANTS
  Micro,      \* ticks in a microsecond: 1000 in the code
  PerSecond,  \* microseconds in a second: 1000000 in the code
  Limit,      \* microseconds a clock may be behind: 60000000 in the code
  MaxTime     \* bound: no clock shows more ticks

ASSUME UnitAssumption ==
  /\ Micro \in Nat \ {0} /\ PerSecond \in Nat \ {0}
  /\ Limit \in Nat /\ MaxTime \in Nat

VARIABLES
  real, mono,        \* the system's clocks, in ticks
  monotonic,         \* the system has both of them
  initialized,       \* static of compat_mono_time
  use_gettimeofday,  \* static of compat_mono_time
  now, prev,         \* statics of compat_mono_time_clock_gettime
  started, past,     \* statics of compat_mono_time_gettimeofday; microseconds
  step,              \* the next reading, "idle" or "aborted"
  tv,                \* the time returned last, in microseconds; -1 at first
  offset,            \* history: now less prev when they were read first
  highest,           \* history: the highest time of day that was read
  last               \* history: the time of day that was read last

statics == <<initialized, use_gettimeofday, now, prev, started, past>>
clocks == <<real, mono, monotonic>>
clockVars == <<clocks, statics, step, tv, offset, highest, last>>

TEN_E9 == PerSecond * Micro

(* A struct timespec, and the ticks and microseconds it stands for.        *)
Timespec(ticks) == [sec |-> ticks \div TEN_E9, nsec |-> ticks % TEN_E9]
Ticks(t) == t.sec * TEN_E9 + t.nsec
Microseconds(t) == t.sec * PerSecond + t.nsec \div Micro

ClockInit ==
  /\ real \in 0..MaxTime /\ mono = 0 /\ monotonic \in BOOLEAN
  /\ initialized = FALSE /\ use_gettimeofday = FALSE
  /\ now = Timespec(0) /\ prev = Timespec(0)
  /\ started = FALSE /\ past = 0
  /\ step = "idle" /\ tv = -1
  /\ offset = 0 /\ highest = 0 /\ last = 0

Elapse ==
  /\ \E ticks \in 1..MaxTime :
       /\ mono + ticks <= MaxTime /\ real + ticks <= MaxTime
       /\ mono' = mono + ticks /\ real' = real + ticks
  /\ UNCHANGED <<monotonic, statics, step, tv, offset, highest, last>>

(* Somebody sets the time of day, or the machine has been suspended.       *)
SetClock ==
  /\ real' \in 0..MaxTime
  /\ UNCHANGED <<mono, monotonic, statics, step, tv, offset, highest, last>>

-----------------------------------------------------------------------------
(* The first call finds out whether there is a monotonic clock.            *)
FirstCall ==
  /\ step = "idle" /\ ~initialized
  /\ initialized' = TRUE
  /\ use_gettimeofday' = ~monotonic
  /\ IF monotonic
       THEN now' = Timespec(real) /\ step' = "prev"
       ELSE now' = now /\ step' = "gettimeofday"
  /\ UNCHANGED <<clocks, prev, started, past, tv, offset, highest, last>>

LaterCall ==
  /\ step = "idle" /\ initialized
  /\ step' = IF use_gettimeofday THEN "gettimeofday" ELSE "clock"
  /\ UNCHANGED <<clocks, statics, tv, offset, highest, last>>

ReadPrev ==
  /\ step = "prev"
  /\ prev' = Timespec(mono)
  /\ offset' = Ticks(now) - mono
  /\ step' = "probe"
  /\ UNCHANGED <<clocks, initialized, use_gettimeofday, now, started, past, tv, highest, last>>

(* Mutant: a borrow is not taken from the seconds.                         *)
UnborrowedAdvanced(cur) ==
  LET borrow == cur.nsec < prev.nsec
      nsec   == now.nsec + (IF borrow THEN TEN_E9 ELSE 0) + cur.nsec - prev.nsec
      sec    == now.sec + cur.sec - prev.sec
  IN  IF nsec >= TEN_E9 THEN [sec |-> sec + 1, nsec |-> nsec - TEN_E9]
                        ELSE [sec |-> sec, nsec |-> nsec]

(* now, with the time since prev added.                                    *)
Advanced(cur) ==
  LET borrow == cur.nsec < prev.nsec
      nsec   == now.nsec + (IF borrow THEN TEN_E9 ELSE 0) + cur.nsec - prev.nsec
      sec    == now.sec + cur.sec - prev.sec - (IF borrow THEN 1 ELSE 0)
  IN  IF nsec >= TEN_E9 THEN [sec |-> sec + 1, nsec |-> nsec - TEN_E9]
                        ELSE [sec |-> sec, nsec |-> nsec]

(* The first call reads the clock once to probe and once more to answer.   *)
ReadClock ==
  /\ step \in {"probe", "clock"}
  /\ now' = Advanced(Timespec(mono))
  /\ prev' = Timespec(mono)
  /\ IF step = "clock" THEN tv' = Microseconds(now') /\ step' = "idle"
                       ELSE tv' = tv /\ step' = "clock"
  /\ UNCHANGED <<clocks, initialized, use_gettimeofday, started, past, offset, highest, last>>

(* Mutant: the time of day is passed on as it is.                          *)
ThawedFreeze(reading) == reading

(* A time of day that lies behind the last one is not passed on.           *)
Freeze(reading) == IF started /\ reading < past THEN past ELSE reading

(* Mutant: the limit is seen from the wrong side.                          *)
EagerTooFarBack(reading) == started /\ reading - past < Limit

TooFarBack(reading) == started /\ reading - past < -Limit

GetTimeOfDay ==
  /\ step = "gettimeofday"
  /\ LET reading == real \div Micro
     IN  /\ started' = TRUE
         /\ past' = Freeze(reading)
         /\ highest' = IF reading > highest THEN reading ELSE highest
         /\ last' = reading
         /\ IF TooFarBack(reading)
              THEN step' = "aborted" /\ tv' = tv
              ELSE step' = "idle" /\ tv' = past'
  /\ UNCHANGED <<clocks, initialized, use_gettimeofday, now, prev, offset>>

ClockNext ==
  \/ Elapse \/ SetClock
  \/ FirstCall \/ LaterCall \/ ReadPrev \/ ReadClock \/ GetTimeOfDay

ClockSpec == ClockInit /\ [][ClockNext]_clockVars

-----------------------------------------------------------------------------
Normalized(t) == t \in [sec : Nat, nsec : 0..(TEN_E9 - 1)]

(* Types and ranges; the nanoseconds are less than a second.               *)
TypeOK ==
  /\ real \in 0..MaxTime /\ mono \in 0..MaxTime /\ monotonic \in BOOLEAN
  /\ initialized \in BOOLEAN /\ use_gettimeofday \in BOOLEAN /\ started \in BOOLEAN
  /\ Normalized(now) /\ Normalized(prev)
  /\ past \in Nat /\ tv \in Nat \cup {-1} /\ offset \in Int
  /\ highest \in Nat /\ last \in Nat
  /\ step \in {"idle", "prev", "probe", "clock", "gettimeofday", "aborted"}

(* No call returns a time earlier than the call before it, however the     *)
(* time of day is set between them.                                        *)
NeverBackwards == [][tv' >= tv]_tv

(* compat.c:302-313: the borrow and the carry lose no tick over any number *)
(* of calls: now keeps the distance to the monotonic clock it had at first,*)
(* and what is returned is now, cut to microseconds.                       *)
KeepsPace ==
  /\ step \in {"probe", "clock"} => Ticks(now) = Ticks(prev) + offset
  /\ step = "idle" /\ tv # -1 /\ ~use_gettimeofday =>
       /\ Ticks(now) = Ticks(prev) + offset
       /\ tv = Ticks(now) \div Micro

(* compat.c:264: without a monotonic clock a call returns the highest time *)
(* of day that was ever read, and the program is aborted if and only if    *)
(* the time of day that was read last is behind it by more than the limit. *)
HighestOfDay ==
  /\ use_gettimeofday /\ tv # -1 => tv = highest
  /\ started => (step = "aborted" <=> highest - last > Limit)
  /\ step = "aborted" => started /\ tv = highest

(* Where a call is decides what the statics hold.                          *)
Decided ==
  /\ ~initialized => step = "idle" /\ ~use_gettimeofday
  /\ step \in {"prev", "probe", "clock"} => initialized /\ ~use_gettimeofday
  /\ step \in {"gettimeofday", "aborted"} => initialized /\ use_gettimeofday
  /\ started => use_gettimeofday

(* The monotonic clock is where prev left it or ahead, and now with it.    *)
Paced ==
  /\ step \in {"probe", "clock"} \/ (initialized /\ step = "idle" /\ ~use_gettimeofday) =>
       Ticks(now) = Ticks(prev) + offset /\ Ticks(prev) <= mono
  /\ step \in {"prev", "probe"} => tv = -1
  /\ ~use_gettimeofday /\ tv # -1 => tv = Microseconds(now) /\ initialized
  /\ initialized /\ ~use_gettimeofday /\ step = "idle" => tv # -1

(* The time of day that is kept is the highest one, and the one returned.  *)
Kept ==
  /\ started => tv = past /\ highest = past /\ (step = "aborted" <=> past - last > Limit)
  /\ ~started => highest = 0 /\ past = 0 /\ (use_gettimeofday => tv = -1)
  /\ step = "aborted" => started

(* What makes the properties above inductive.                              *)
ClockInv == TypeOK /\ Decided /\ Paced /\ Kept
=============================================================================
