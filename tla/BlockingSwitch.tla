--------------------------- MODULE BlockingSwitch ---------------------------
(***************************************************************************)
(* What the blocking switch of internal/service/bedtime.go promises: it is *)
(* on, off until somebody turns it on, or off until a given second.  Only  *)
(* a command and the clock change it, and a command leaves nothing of the  *)
(* one before it: a caller who looks changes nothing.  A pause is counted  *)
(* from the instant it was asked for, and takes effect some time later; a  *)
(* command that takes effect meanwhile is replaced by it.                  *)
(***************************************************************************)
EXTENDS Integers

CONSTANTS
    Caller,           \* who gives commands
    TicksPerSecond    \* the resolution of time.Now()

On == 0
Indefinitely == -1

\* Time.Unix
Second(t) == t \div TicksPerSecond

VARIABLES
    now,      \* the wall clock, in ticks
    pause,    \* On, Indefinitely, or the second at which blocking resumes
    last,     \* the last command to take effect, "enable" or "disable"
    span,     \* the duration it came with, in ticks
    waiting   \* a pause somebody asked for that has not taken effect: when, and how long

NoPause == [at |-> 0, span |-> 0]

Init ==
    /\ now \in Nat
    /\ pause = On /\ last = "enable" /\ span = 0
    /\ waiting = [c \in Caller |-> NoPause]

TurnOn ==
    /\ last' = "enable" /\ span' = 0
    /\ pause' = On
    /\ UNCHANGED <<now, waiting>>

TurnOffIndefinitely ==
    /\ last' = "disable" /\ span' \in Int /\ span' <= 0
    /\ pause' = Indefinitely
    /\ UNCHANGED <<now, waiting>>

\* A pause is asked for.
Ask(c) ==
    /\ waiting[c] = NoPause
    /\ waiting' = [waiting EXCEPT ![c] = waiting'[c]]
    /\ waiting'[c].at = now /\ waiting'[c].span > 0
    /\ UNCHANGED <<now, pause, last, span>>

\* It takes effect, unless its time is over by then.
TurnOff(c) ==
    LET until == Second(waiting[c].at + waiting[c].span) IN
    /\ waiting[c].span > 0
    /\ last' = "disable" /\ span' = waiting[c].span
    /\ pause' = IF Second(now) < until THEN until ELSE On
    /\ waiting' = [waiting EXCEPT ![c] = NoPause]
    /\ UNCHANGED now

Elapse ==
    /\ now' = now + 1
    /\ pause' = IF pause > 0 /\ Second(now') >= pause THEN On ELSE pause
    /\ UNCHANGED <<last, span, waiting>>

Next ==
    \/ TurnOn \/ TurnOffIndefinitely
    \/ \E c \in Caller : Ask(c) \/ TurnOff(c)
    \/ Elapse

Spec == Init /\ [][Next]_<<now, pause, last, span, waiting>>
=============================================================================
