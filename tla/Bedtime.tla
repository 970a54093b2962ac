------------------------------ MODULE Bedtime ------------------------------
(***************************************************************************)
(* The blocking switch: Bedtime of internal/service/bedtime.go, and its    *)
(* callers, the resolver (IsDisabled for every query) and the handlers of  *)
(* api/dns_control.go (a command, if it is a POST, then Status).  The      *)
(* switch is one atomic word.  A caller that looks loads it, reads the     *)
(* clock and swaps in separate steps; one that asks for a pause reads the  *)
(* clock and stores in two: other commands and ticks fall between them.    *)
(*                                                                         *)
(* The wall clock does not step back.  A time.Duration is a signed integer *)
(* that wraps modulo DurationModulus (2^64 of them, in nanoseconds).       *)
(***************************************************************************)
EXTENDS Integers

CONSTANTS
    Caller,           \* goroutines that use the switch
    TicksPerSecond,   \* the resolution of time.Now()
    DurationModulus,  \* the number of values of a time.Duration
    Timer,            \* values of "timer" a POST carries, in seconds
    MaxTime           \* bound: the clock stops there

ASSUME BedtimeAssumption ==
    /\ TicksPerSecond \in Nat \ {0}
    /\ DurationModulus \in Nat \ {0}
    /\ Timer \subseteq Int
    /\ MaxTime \in Nat

disabledIndefinitely == -1

VARIABLES
    now,            \* the wall clock, in ticks
    disabledUntil,  \* 0, disabledIndefinitely, or a second
    pc,             \* where a call is: idle, store, load, check or swap
    asked,          \* the pause a call is about to store: its timer, and the clock
    method,         \* IsDisabled or Status
    v,              \* what the call loaded
    answer,         \* what the last call of a goroutine returned, if it did
    command,        \* history: the last command to reach the word, with its timer
                    \* and the clock it goes by
    seen            \* history: whether blocking was off, at each instant of a look

callVars == <<pc, asked, method, v, answer>>
vars == <<now, disabledUntil, callVars, command, seen>>

Second(t) == t \div TicksPerSecond

Off ==
    \/ disabledUntil = disabledIndefinitely
    \/ disabledUntil > 0 /\ Second(now) < disabledUntil

\* int64 arithmetic.
Wrapped(n) ==
    LET m == n % DurationModulus IN
    IF 2 * m < DurationModulus THEN m ELSE m - DurationModulus

\* time.Duration(timer) * time.Second
Duration(timer) == Wrapped(timer * TicksPerSecond)

\* A call is looking at the switch: IsDisabled or Status.
Looking(label) == label \in {"load", "check", "swap"}

\* What a look sees of the switch: its first instant, and each one after.
Watch ==
    seen' = [c \in Caller |->
               IF ~Looking(pc[c]) /\ ~Looking(pc'[c]) THEN seen[c]
               ELSE IF ~Looking(pc[c]) THEN {Off'} ELSE seen[c] \cup {Off'}]

NothingAsked == [at |-> 0, timer |-> 0]

Start(c, m) ==
    /\ pc[c] = "idle"
    /\ pc' = [pc EXCEPT ![c] = "load"]
    /\ method' = [method EXCEPT ![c] = m]
    /\ answer' = [answer EXCEPT ![c] = "none"]
    /\ UNCHANGED <<v, asked>>

Return(c, disabled) ==
    /\ pc' = [pc EXCEPT ![c] = "idle"]
    /\ answer' = [answer EXCEPT ![c] = IF disabled THEN "off" ELSE "on"]
    /\ v' = [v EXCEPT ![c] = 0]
    /\ UNCHANGED asked

-----------------------------------------------------------------------------
(* handleBlockingPost: a command, then Status *)

Enable(c) ==
    /\ Start(c, "Status")
    /\ disabledUntil' = 0
    /\ command' = [what |-> "enable", at |-> now, timer |-> 0]
    /\ UNCHANGED now
    /\ Watch

\* A duration that is not positive switches blocking off until further notice,
\* any other one first reads the clock.
Disable(c, timer) ==
    /\ \/ /\ Duration(timer) <= 0
          /\ Start(c, "Status")
          /\ disabledUntil' = disabledIndefinitely
          /\ command' = [what |-> "disable", at |-> now, timer |-> timer]
       \/ /\ Duration(timer) > 0
          /\ pc[c] = "idle"
          /\ pc' = [pc EXCEPT ![c] = "store"]
          /\ asked' = [asked EXCEPT ![c] = [at |-> now, timer |-> timer]]
          /\ answer' = [answer EXCEPT ![c] = "none"]
          /\ UNCHANGED <<disabledUntil, method, v, command>>
    /\ UNCHANGED now
    /\ Watch

\* The second a pause of d from t ends at; the mutant rounds it up.
MutDeadline(t, d) == Second(t + d) + 1
Deadline(t, d) == Second(t + d)

\* What was asked for reaches the word, however late.
Store(c) ==
    LET t == asked[c].timer IN
    /\ pc[c] = "store"
    /\ disabledUntil' = Deadline(asked[c].at, Duration(t))
    /\ command' = [what |-> "disable", at |-> asked[c].at, timer |-> t]
    /\ asked' = [asked EXCEPT ![c] = NothingAsked]
    /\ pc' = [pc EXCEPT ![c] = "load"]
    /\ method' = [method EXCEPT ![c] = "Status"]
    /\ UNCHANGED <<now, v, answer>>
    /\ Watch

-----------------------------------------------------------------------------
(* IsDisabled, for a query; Status, for a GET or after a command *)

Call(c, m) ==
    /\ Start(c, m)
    /\ UNCHANGED <<now, disabledUntil, command>>
    /\ Watch

Load(c) ==
    /\ pc[c] = "load"
    /\ \/ /\ disabledUntil \in {0, disabledIndefinitely}
          /\ Return(c, disabledUntil = disabledIndefinitely)
       \/ /\ disabledUntil \notin {0, disabledIndefinitely}
          /\ v' = [v EXCEPT ![c] = disabledUntil]
          /\ pc' = [pc EXCEPT ![c] = "check"]
          /\ UNCHANGED <<answer, asked>>
    /\ UNCHANGED <<now, disabledUntil, method, command>>
    /\ Watch

\* The answer comes from what is stored by now, not from what was loaded.
MutCheck(c) ==
    /\ pc[c] = "check"
    /\ \/ Second(now) < v[c] /\ Return(c, TRUE)
       \/ Second(now) >= v[c] /\ Return(c, disabledUntil # 0)
    /\ UNCHANGED <<now, disabledUntil, method, command>>
    /\ Watch

Check(c) ==
    /\ pc[c] = "check"
    /\ \/ /\ Second(now) < v[c]
          /\ Return(c, TRUE)
       \/ /\ Second(now) >= v[c] /\ method[c] = "Status"
          /\ Return(c, FALSE)
       \/ /\ Second(now) >= v[c] /\ method[c] = "IsDisabled"
          /\ pc' = [pc EXCEPT ![c] = "swap"]
          /\ UNCHANGED <<v, answer, asked>>
    /\ UNCHANGED <<now, disabledUntil, method, command>>
    /\ Watch

\* A store in the place of the compare-and-swap.
MutSwapped(c) == 0
Swapped(c) == IF disabledUntil = v[c] THEN 0 ELSE disabledUntil

CompareAndSwap(c) ==
    /\ pc[c] = "swap"
    /\ disabledUntil' = Swapped(c)
    /\ Return(c, FALSE)
    /\ UNCHANGED <<now, method, command>>
    /\ Watch

-----------------------------------------------------------------------------
Tick ==
    /\ now < MaxTime
    /\ now' = now + 1
    /\ UNCHANGED <<disabledUntil, callVars, command>>
    /\ Watch

Init ==
    /\ now \in 0..(TicksPerSecond - 1)
    /\ disabledUntil = 0
    /\ pc = [c \in Caller |-> "idle"]
    /\ asked = [c \in Caller |-> NothingAsked]
    /\ method = [c \in Caller |-> "Status"]
    /\ v = [c \in Caller |-> 0]
    /\ answer = [c \in Caller |-> "none"]
    /\ command = [what |-> "enable", at |-> now, timer |-> 0]
    /\ seen = [c \in Caller |-> {}]

Next ==
    \/ \E c \in Caller :
         \/ Enable(c)
         \/ \E timer \in Timer : Disable(c, timer)
         \/ Store(c)
         \/ \E m \in {"IsDisabled", "Status"} : Call(c, m)
         \/ Load(c)
         \/ Check(c)
         \/ CompareAndSwap(c)
    \/ Tick

Spec == Init /\ [][Next]_vars

-----------------------------------------------------------------------------
(* Properties *)

\* Words, calls and histories are of their types.
TypeOK ==
    /\ now \in Nat
    /\ disabledUntil \in Nat \cup {disabledIndefinitely}
    /\ pc \in [Caller -> {"idle", "store", "load", "check", "swap"}]
    /\ asked \in [Caller -> [at : Nat, timer : Int]]
    /\ method \in [Caller -> {"IsDisabled", "Status"}]
    /\ v \in [Caller -> Nat]
    /\ answer \in [Caller -> {"none", "on", "off"}]
    /\ command \in [what : {"enable", "disable"}, at : Nat, timer : Int]
    /\ seen \in [Caller -> SUBSET BOOLEAN]

\* The switch as a whole: the clock ends a pause, not the caller who swaps, and the
\* word is what the last command to reach it asked for, by the clock of its asking.
Switch == INSTANCE BlockingSwitch WITH
    pause <- IF Off THEN disabledUntil ELSE 0,
    last <- command.what,
    span <- IF command.what = "disable" THEN Duration(command.timer) ELSE 0,
    waiting <- [c \in Caller |-> [at |-> asked[c].at, span |-> Duration(asked[c].timer)]]
SwitchSpec == Switch!Spec

\* Timers that fit a time.Duration.
Fits(timer) == Duration(timer) = timer * TicksPerSecond

\* The last command to reach the word is obeyed: after an enable blocking is on; after a disable
\* without timer it is off; after one with a timer, off until less than a
\* second before the time asked for, and on from that time, by the clock it was
\* asked at.  No late call that found an older pause over takes the new one away.
CommandObeyed ==
    LET t == command.timer
        end == command.at + t * TicksPerSecond
    IN /\ command.what = "enable" => ~Off
       /\ command.what = "disable" /\ t <= 0 /\ Fits(t) => Off
       /\ command.what = "disable" /\ t > 0 /\ Fits(t) =>
            /\ now >= end => ~Off
            /\ now + TicksPerSecond <= end => Off

\* Whoever was told that blocking is off was told so of an instant of its look.
OffWasTrue == \A c \in Caller : answer[c] = "off" => TRUE \in seen[c]
=============================================================================
