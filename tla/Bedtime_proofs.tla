--------------------------- MODULE Bedtime_proofs ---------------------------
(***************************************************************************)
(* Proofs about Bedtime, for any callers, timers, resolution of the clock  *)
(* and width of a duration.  The inductive invariant BedtimeInv says of    *)
(* the word that it is what the last command left, or 0 once the time of   *)
(* that command is over, and of a call about to swap that what it loaded   *)
(* is over: the clock only goes forward, so a command that stores that     *)
(* value again is over as well, and the swap takes no pause away that is   *)
(* not.                                                                    *)
(***************************************************************************)
EXTENDS Bedtime, TLAPS

\* What the solvers know of a quotient.
LEMMA DivFacts ==
  ASSUME NEW n \in Nat, NEW k \in Nat \ {0}
  PROVE  n \div k \in Nat /\ k * (n \div k) <= n /\ n < k * (n \div k) + k
  OBVIOUS

\* A product is not above another one when its factor is not.
LEMMA MulLess ==
  ASSUME NEW k \in Nat \ {0}, NEW a \in Nat, NEW b \in Nat, k * a < k * b + k
  PROVE  a <= b
<1> SUFFICES ASSUME b + 1 <= a PROVE FALSE
  OBVIOUS
<1>1. k * (b + 1) <= k * a
  OBVIOUS
<1>2. k * (b + 1) = k * b + k
  OBVIOUS
<1> QED
  BY <1>1, <1>2

\* Whole seconds of the clock: the second of a tick, and of a tick that many
\* seconds later.
LEMMA SecondFacts ==
  ASSUME NEW m \in Nat, NEW n \in Nat
  PROVE  /\ Second(m) \in Nat
         /\ m <= n => Second(m) <= Second(n)
         /\ m + TicksPerSecond <= n => Second(m) < Second(n)
<1> DEFINE k == TicksPerSecond
           a == m \div k
           b == n \div k
<1>k. k \in Nat \ {0}
  BY BedtimeAssumption
<1>1. a \in Nat /\ k * a <= m /\ m < k * a + k
  BY <1>k, DivFacts
<1>2. b \in Nat /\ k * b <= n /\ n < k * b + k
  BY <1>k, DivFacts
<1>3. k * a \in Nat /\ k * b \in Nat
  BY <1>k, <1>1, <1>2
<1> HIDE DEF a, b, k
<1>4. ASSUME m <= n PROVE a <= b
  <2>1. k * a < k * b + k
    BY <1>k, <1>1, <1>2, <1>3, <1>4
  <2> QED
    BY <1>k, <1>1, <1>2, <2>1, MulLess
<1>5. ASSUME m + k <= n PROVE a + 1 <= b
  <2>1. k * (a + 1) = k * a + k /\ a + 1 \in Nat
    BY <1>k, <1>1
  <2>2. k * (a + 1) < k * b + k
    BY <1>k, <1>1, <1>2, <1>3, <1>5, <2>1
  <2> QED
    BY <1>k, <1>2, <2>1, <2>2, MulLess
<1> QED
  BY <1>1, <1>2, <1>4, <1>5 DEF Second, a, b, k

\* int64 arithmetic yields an int64.
LEMMA WrappedInt == ASSUME NEW n \in Int PROVE Wrapped(n) \in Int
  BY BedtimeAssumption DEF Wrapped

\* A timer converts to some duration, whatever it overflows to.
LEMMA DurationInt == ASSUME NEW t \in Timer PROVE Duration(t) \in Int
  BY BedtimeAssumption, WrappedInt DEF Duration

\* The deadline of a positive duration is not before the second it is asked in.
LEMMA DeadlineNat ==
  ASSUME NEW t \in Nat, NEW d \in Int, d > 0
  PROVE  Deadline(t, d) \in Nat
<1>1. t + d \in Nat
  OBVIOUS
<1> QED
  BY <1>1, SecondFacts DEF Deadline

-----------------------------------------------------------------------------
\* The word is what the last command left, or 0 once its time is over.
WordInv ==
    LET d == Duration(command.timer) IN
    /\ command.at <= now
    /\ command.what = "enable" => disabledUntil = 0
    /\ command.what = "disable" =>
         /\ command.timer \in Timer
         /\ d <= 0 => disabledUntil = disabledIndefinitely
         /\ d > 0 => \/ disabledUntil = Second(command.at + d)
                     \/ disabledUntil = 0 /\ Second(now) >= Second(command.at + d)

\* A pause that is about to be stored was asked for by this clock.
AskedInv ==
    \A c \in Caller :
        IF pc[c] = "store"
          THEN /\ asked[c].at <= now /\ asked[c].timer \in Timer
               /\ Duration(asked[c].timer) > 0
          ELSE asked[c] = NothingAsked

\* What a call about to swap has loaded is a time that is over.
SwapInv ==
    \A c \in Caller :
        /\ pc[c] \in {"check", "swap"} => v[c] > 0
        /\ pc[c] = "swap" => Second(now) >= v[c]

\* A call that will find a pause not over has seen it from its load on.
SeenInv ==
    \A c \in Caller :
        /\ pc[c] = "check" /\ Second(now) < v[c] => TRUE \in seen[c]
        /\ pc[c] # "idle" => answer[c] = "none"

BedtimeInv == TypeOK /\ WordInv /\ AskedInv /\ SwapInv /\ SeenInv /\ OffWasTrue

\* The initial state satisfies the inductive invariant.
LEMMA BedtimeInitInv == Init => BedtimeInv
<1> SUFFICES ASSUME Init PROVE BedtimeInv
  OBVIOUS
<1>1. now \in Nat
  BY BedtimeAssumption DEF Init
<1>2. TypeOK
  BY <1>1 DEF Init, TypeOK, NothingAsked
<1>3. WordInv /\ AskedInv /\ SwapInv /\ SeenInv /\ OffWasTrue
  BY <1>1 DEF Init, WordInv, AskedInv, SwapInv, SeenInv, OffWasTrue
<1> QED
  BY <1>2, <1>3 DEF BedtimeInv

\* What a call has seen of the switch are truth values.
LEMMA WatchType == TypeOK /\ Watch => seen' \in [Caller -> SUBSET BOOLEAN]
<1> SUFFICES ASSUME TypeOK, Watch PROVE seen' \in [Caller -> SUBSET BOOLEAN]
  OBVIOUS
<1> DEFINE off == Off'
<1>1. off \in BOOLEAN
  BY Zenon DEF Off
<1> HIDE DEF off
<1>2. {off} \subseteq BOOLEAN
  BY <1>1
<1>3. \A c \in Caller : seen[c] \subseteq BOOLEAN
  BY DEF TypeOK
<1>4. seen' = [c \in Caller |->
                 IF ~Looking(pc[c]) /\ ~Looking(pc'[c]) THEN seen[c]
                 ELSE IF ~Looking(pc[c]) THEN {off} ELSE seen[c] \cup {off}]
  BY DEF Watch, off
<1> QED
  BY <1>2, <1>3, <1>4

\* A call that is not looking yet, or looks on, keeps what it has seen.
LEMMA WatchKeeps ==
  ASSUME TypeOK, Watch, NEW c \in Caller, pc'[c] = pc[c] \/ Looking(pc[c])
  PROVE  seen[c] \subseteq seen'[c]
  BY DEF TypeOK, Watch

\* A step in which one call starts to look and no other moves keeps what is known
\* of the looks.
LEMMA StartKeepsLooks ==
  ASSUME TypeOK, SwapInv, SeenInv, OffWasTrue, NEW c \in Caller,
         pc' = [pc EXCEPT ![c] = pc'[c]], pc'[c] \in {"load", "store"},
         answer' = [answer EXCEPT ![c] = "none"],
         UNCHANGED <<now, v>>, Watch
  PROVE  SwapInv' /\ SeenInv' /\ OffWasTrue'
<1>1. SwapInv'
  BY DEF SwapInv, TypeOK
<1>2. \A e \in Caller : e # c => /\ seen[e] \subseteq seen'[e]
                               /\ UNCHANGED <<pc[e], v[e], answer[e]>>
  BY WatchKeeps DEF TypeOK
<1>3. pc'[c] # "check" /\ answer'[c] = "none"
  BY DEF TypeOK
<1>4. SeenInv' /\ OffWasTrue'
  BY <1>2, <1>3 DEF SeenInv, OffWasTrue
<1> QED
  BY <1>1, <1>4

\* Enable keeps the inductive invariant.
LEMMA EnableInv ==
  ASSUME BedtimeInv, NEW c \in Caller, Enable(c)
  PROVE  BedtimeInv'
<1>a. TypeOK /\ WordInv /\ AskedInv /\ SwapInv /\ SeenInv /\ OffWasTrue
  BY DEF BedtimeInv
<1>1. TypeOK'
  BY <1>a, WatchType DEF Enable, Start, TypeOK
<1>2. WordInv'
  BY <1>a DEF Enable, WordInv, TypeOK
<1>3. AskedInv'
  BY <1>a DEF Enable, Start, AskedInv, TypeOK
<1>4. SwapInv' /\ SeenInv' /\ OffWasTrue'
  BY <1>a, StartKeepsLooks DEF Enable, Start, TypeOK
<1> QED
  BY <1>1, <1>2, <1>3, <1>4 DEF BedtimeInv

\* Disable keeps it, whether it stores or only reads the clock.
LEMMA DisableInv ==
  ASSUME BedtimeInv, NEW c \in Caller, NEW timer \in Timer, Disable(c, timer)
  PROVE  BedtimeInv'
<1> DEFINE d == Duration(timer)
<1>a. TypeOK /\ WordInv /\ AskedInv /\ SwapInv /\ SeenInv /\ OffWasTrue
  BY DEF BedtimeInv
<1>b. d \in Int /\ now \in Nat /\ timer \in Int
  BY <1>a, DurationInt, BedtimeAssumption DEF TypeOK
<1>1. CASE d <= 0
  <2>0. /\ disabledUntil' = disabledIndefinitely
        /\ command' = [what |-> "disable", at |-> now, timer |-> timer]
        /\ now' = now /\ Start(c, "Status") /\ Watch
    BY <1>1, <1>b DEF Disable
  <2>1. Duration(command'.timer) = d
    BY <2>0
  <2> HIDE DEF d
  <2>2. WordInv'
    BY <1>1, <1>b, <2>0, <2>1 DEF WordInv, Duration, Wrapped
  <2>3. TypeOK'
    BY <1>a, <1>b, <2>0, WatchType DEF Start, TypeOK
  <2>4. AskedInv'
    BY <1>a, <2>0 DEF Start, AskedInv, TypeOK
  <2>5. SwapInv' /\ SeenInv' /\ OffWasTrue'
    BY <1>a, <2>0, StartKeepsLooks DEF Start, TypeOK
  <2> QED
    BY <2>2, <2>3, <2>4, <2>5 DEF BedtimeInv
<1>2. CASE d > 0
  <2>0. /\ pc[c] = "idle" /\ pc' = [pc EXCEPT ![c] = "store"]
        /\ asked' = [asked EXCEPT ![c] = [at |-> now, timer |-> timer]]
        /\ answer' = [answer EXCEPT ![c] = "none"]
        /\ UNCHANGED <<now, disabledUntil, method, v, command>>
        /\ Watch
    BY <1>2, <1>b DEF Disable
  <2>1. AskedInv'
    <3>1. \A e \in Caller : e # c => pc'[e] = pc[e] /\ asked'[e] = asked[e]
      BY <1>a, <2>0 DEF TypeOK
    <3>2. asked'[c].at = now /\ asked'[c].timer = timer
      BY <1>a, <2>0 DEF TypeOK
    <3> HIDE DEF d
    <3>3. now' = now
      BY <2>0
    <3>4. \A e \in Caller : pc'[e] = "store" =>
            asked'[e].at <= now' /\ asked'[e].timer \in Timer /\ Duration(asked'[e].timer) > 0
      BY <1>a, <1>b, <1>2, <3>1, <3>2, <3>3 DEF AskedInv, d
    <3>5. \A e \in Caller : pc'[e] # "store" => asked'[e] = NothingAsked
      BY <1>a, <2>0, <3>1 DEF AskedInv, TypeOK
    <3> QED
      BY <3>4, <3>5 DEF AskedInv, NothingAsked
  <2> HIDE DEF d
  <2>2. WordInv'
    BY <1>a, <2>0 DEF WordInv
  <2>3. TypeOK'
    BY <1>a, <1>b, <2>0, WatchType DEF TypeOK
  <2>4. SwapInv' /\ SeenInv' /\ OffWasTrue'
    BY <1>a, <2>0, StartKeepsLooks DEF TypeOK
  <2> QED
    BY <2>1, <2>2, <2>3, <2>4 DEF BedtimeInv
<1> QED
  BY <1>b, <1>1, <1>2

\* The store of a pause keeps it, even when the pause is over by then.
LEMMA StoreInv ==
  ASSUME BedtimeInv, NEW c \in Caller, Store(c)
  PROVE  BedtimeInv'
<1> DEFINE t == asked[c].timer
           d == Duration(t)
<1>a. TypeOK /\ WordInv /\ AskedInv /\ SwapInv /\ SeenInv /\ OffWasTrue
  BY DEF BedtimeInv
<1>b. /\ t \in Timer /\ d > 0 /\ d \in Int
      /\ asked[c].at \in Nat /\ asked[c].at <= now /\ t \in Int
  BY <1>a, DurationInt DEF Store, AskedInv, TypeOK
<1>c. /\ disabledUntil' = Deadline(asked[c].at, d)
      /\ command' = [what |-> "disable", at |-> asked[c].at, timer |-> t]
      /\ now' = now
  BY DEF Store
<1>d. Deadline(asked[c].at, d) \in Nat
  BY <1>b, DeadlineNat
<1>0. /\ asked' = [asked EXCEPT ![c] = NothingAsked]
      /\ pc' = [pc EXCEPT ![c] = "load"] /\ pc[c] = "store"
      /\ method' = [method EXCEPT ![c] = "Status"]
      /\ UNCHANGED <<v, answer>> /\ Watch
  BY DEF Store
<1> HIDE DEF d
<1>1. TypeOK'
  <2>1. disabledUntil' \in Nat \cup {disabledIndefinitely}
    BY <1>c, <1>d
  <2>2. command' \in [what : {"enable", "disable"}, at : Nat, timer : Int]
    BY <1>b, <1>c
  <2>3. asked' \in [Caller -> [at : Nat, timer : Int]]
    BY <1>a, <1>0 DEF TypeOK, NothingAsked
  <2> QED
    BY <1>a, <1>0, <1>c, <2>1, <2>2, <2>3, WatchType DEF TypeOK
<1>2. WordInv'
  <2>1. /\ command'.what = "disable" /\ command'.at = asked[c].at /\ command'.timer = t
        /\ Duration(command'.timer) = d
    BY <1>c DEF d
  <2> HIDE DEF t
  <2>2. disabledUntil' = Second(command'.at + d) /\ command'.at <= now'
    BY <1>b, <1>c, <2>1 DEF Deadline
  <2> QED
    BY <1>b, <2>1, <2>2 DEF WordInv, Duration, Wrapped, Second
<1>3. AskedInv'
  BY <1>a, <1>0, <1>c DEF AskedInv, TypeOK
<1>4. SwapInv' /\ SeenInv' /\ OffWasTrue'
  <2>1. answer' = [answer EXCEPT ![c] = "none"]
    BY <1>a, <1>0 DEF SeenInv, TypeOK
  <2> QED
    BY <1>a, <1>0, <1>c, <2>1, StartKeepsLooks DEF TypeOK
<1> QED
  BY <1>1, <1>2, <1>3, <1>4 DEF BedtimeInv

\* The start of a call of IsDisabled or Status keeps it.
LEMMA CallInv ==
  ASSUME BedtimeInv, NEW c \in Caller, NEW m \in {"IsDisabled", "Status"}, Call(c, m)
  PROVE  BedtimeInv'
<1>a. TypeOK /\ WordInv /\ AskedInv /\ SwapInv /\ SeenInv /\ OffWasTrue
  BY DEF BedtimeInv
<1>1. TypeOK'
  BY <1>a, WatchType DEF Call, Start, TypeOK
<1>2. WordInv'
  BY <1>a DEF Call, WordInv
<1>3. AskedInv'
  BY <1>a DEF Call, Start, AskedInv, TypeOK
<1>4. SwapInv' /\ SeenInv' /\ OffWasTrue'
  BY <1>a, StartKeepsLooks DEF Call, Start, TypeOK
<1> QED
  BY <1>1, <1>2, <1>3, <1>4 DEF BedtimeInv

\* The load of the word keeps it.
LEMMA LoadInv ==
  ASSUME BedtimeInv, NEW c \in Caller, Load(c)
  PROVE  BedtimeInv'
<1>a. TypeOK /\ WordInv /\ AskedInv /\ SwapInv /\ SeenInv /\ OffWasTrue
  BY DEF BedtimeInv
<1>b. UNCHANGED <<now, disabledUntil, method, command>> /\ Watch /\ pc[c] = "load"
  BY DEF Load
<1>c. Off' = Off
  BY <1>b DEF Off
<1>1. TypeOK'
  BY <1>a, WatchType DEF Load, Return, TypeOK
<1>2. WordInv'
  BY <1>a, <1>b DEF WordInv
<1>3. SwapInv'
  BY <1>a DEF Load, Return, SwapInv, TypeOK
<1>4. TRUE \in seen'[c] \/ ~Off
  BY <1>a, <1>b, <1>c DEF Watch, Looking, TypeOK
<1>5. \A e \in Caller : seen[e] \subseteq seen'[e]
  BY <1>a, <1>b DEF Watch, Looking, TypeOK, Load, Return
<1>6. \A e \in Caller : e # c => UNCHANGED <<pc[e], v[e], answer[e]>>
  BY <1>a DEF Load, Return, TypeOK
<1>7. SeenInv'
  <2>1. pc'[c] = "check" => disabledUntil > 0 /\ v'[c] = disabledUntil /\ answer'[c] = answer[c]
    BY <1>a, <1>b DEF Load, Return, TypeOK
  <2>2. pc'[c] = "check" /\ Second(now') < v'[c] => TRUE \in seen'[c]
    BY <1>b, <1>4, <2>1 DEF Off
  <2>3. pc'[c] # "idle" => answer'[c] = "none"
    BY <1>a, <1>b DEF Load, Return, SeenInv, TypeOK
  <2> QED
    BY <1>a, <1>b, <1>5, <1>6, <2>2, <2>3 DEF SeenInv
<1>8. OffWasTrue'
  <2>1. answer'[c] = "off" => Off
    BY <1>a, <1>b DEF Load, Return, SeenInv, TypeOK, Off
  <2> QED
    BY <1>a, <1>4, <1>5, <1>6, <2>1 DEF OffWasTrue
<1>9. AskedInv'
  BY <1>a DEF Load, Return, AskedInv, TypeOK
<1> QED
  BY <1>1, <1>2, <1>9, <1>3, <1>7, <1>8 DEF BedtimeInv

\* The comparison with the clock keeps it.
LEMMA CheckInv ==
  ASSUME BedtimeInv, NEW c \in Caller, Check(c)
  PROVE  BedtimeInv'
<1>a. TypeOK /\ WordInv /\ AskedInv /\ SwapInv /\ SeenInv /\ OffWasTrue
  BY DEF BedtimeInv
<1>b. UNCHANGED <<now, disabledUntil, method, command>> /\ Watch /\ pc[c] = "check"
  BY DEF Check
<1>1. TypeOK'
  BY <1>a, WatchType DEF Check, Return, TypeOK
<1>2. WordInv'
  BY <1>a, <1>b DEF WordInv
<1>3. SwapInv'
  BY <1>a, <1>b DEF Check, Return, SwapInv, TypeOK
<1>5. \A e \in Caller : seen[e] \subseteq seen'[e]
  BY <1>a, <1>b DEF Watch, Looking, TypeOK, Check, Return
<1>6. \A e \in Caller : e # c => UNCHANGED <<pc[e], v[e], answer[e]>>
  BY <1>a DEF Check, Return, TypeOK
<1>7. SeenInv'
  <2>1. pc'[c] # "check" /\ (pc'[c] # "idle" => answer'[c] = "none")
    BY <1>a, <1>b DEF Check, Return, SeenInv, TypeOK
  <2> QED
    BY <1>a, <1>b, <1>5, <1>6, <2>1 DEF SeenInv
<1>8. OffWasTrue'
  <2>1. answer'[c] = "off" => TRUE \in seen[c]
    BY <1>a, <1>b DEF Check, Return, SeenInv, TypeOK
  <2> QED
    BY <1>a, <1>5, <1>6, <2>1 DEF OffWasTrue
<1>9. AskedInv'
  BY <1>a DEF Check, Return, AskedInv, TypeOK
<1> QED
  BY <1>1, <1>2, <1>9, <1>3, <1>7, <1>8 DEF BedtimeInv

\* The swap keeps it: it only ever takes away a pause that is over.
LEMMA CompareAndSwapInv ==
  ASSUME BedtimeInv, NEW c \in Caller, CompareAndSwap(c)
  PROVE  BedtimeInv'
<1>a. TypeOK /\ WordInv /\ AskedInv /\ SwapInv /\ SeenInv /\ OffWasTrue
  BY DEF BedtimeInv
<1>b. /\ UNCHANGED <<now, method, command>> /\ Watch /\ pc[c] = "swap"
      /\ disabledUntil' = IF disabledUntil = v[c] THEN 0 ELSE disabledUntil
  BY DEF CompareAndSwap, Swapped
<1>1. TypeOK'
  BY <1>a, <1>b, WatchType DEF CompareAndSwap, Return, TypeOK
<1>2. WordInv'
  <2>1. v[c] > 0 /\ Second(now) >= v[c]
    BY <1>a, <1>b DEF SwapInv
  <2> QED
    BY <1>a, <1>b, <2>1 DEF WordInv, disabledIndefinitely
<1>3. SwapInv'
  BY <1>a, <1>b DEF CompareAndSwap, Return, SwapInv, TypeOK
<1>5. \A e \in Caller : seen[e] \subseteq seen'[e]
  BY <1>a, <1>b DEF Watch, Looking, TypeOK, CompareAndSwap, Return
<1>6. /\ \A e \in Caller : e # c => UNCHANGED <<pc[e], v[e], answer[e]>>
      /\ pc'[c] = "idle" /\ answer'[c] = "on"
  BY <1>a DEF CompareAndSwap, Return, TypeOK
<1>7. SeenInv' /\ OffWasTrue'
  BY <1>a, <1>b, <1>5, <1>6 DEF SeenInv, OffWasTrue
<1>9. AskedInv'
  BY <1>a DEF CompareAndSwap, Return, AskedInv, TypeOK
<1> QED
  BY <1>1, <1>2, <1>9, <1>3, <1>7 DEF BedtimeInv

\* A tick of the clock keeps it.
LEMMA TickInv ==
  ASSUME BedtimeInv, Tick
  PROVE  BedtimeInv'
<1>a. TypeOK /\ WordInv /\ AskedInv /\ SwapInv /\ SeenInv /\ OffWasTrue
  BY DEF BedtimeInv
<1>b. now' = now + 1 /\ UNCHANGED <<disabledUntil, pc, asked, method, v, answer, command>> /\ Watch
  BY DEF Tick, callVars
<1>c. now \in Nat /\ now' \in Nat /\ now <= now'
  BY <1>a, <1>b DEF TypeOK
<1>d. Second(now) \in Nat /\ Second(now') \in Nat /\ Second(now) <= Second(now')
  BY <1>c, SecondFacts
<1>1. TypeOK'
  BY <1>a, <1>b, WatchType DEF TypeOK
<1>2. WordInv'
  <2>1. command.what = "disable" /\ Duration(command.timer) > 0
          => Second(command.at + Duration(command.timer)) \in Nat
    <3> SUFFICES ASSUME command.what = "disable", Duration(command.timer) > 0
                 PROVE  Second(command.at + Duration(command.timer)) \in Nat
      OBVIOUS
    <3>1. Duration(command.timer) \in Int
      BY <1>a, DurationInt DEF WordInv
    <3>2. command.at + Duration(command.timer) \in Nat
      BY <1>a, <3>1 DEF TypeOK
    <3> QED
      BY <3>2, SecondFacts
  <2>2. command.at \in Nat
    BY <1>a DEF TypeOK
  <2> HIDE DEF Second, Duration
  <2> QED
    BY <1>a, <1>b, <1>c, <1>d, <2>1, <2>2 DEF WordInv
<1>3. SwapInv'
  BY <1>a, <1>b, <1>d DEF SwapInv, TypeOK
<1>4. \A e \in Caller : seen[e] \subseteq seen'[e]
  BY <1>a, <1>b DEF Watch, TypeOK
<1>5. SeenInv'
  <2>1. \A e \in Caller : v[e] \in Nat /\ v'[e] = v[e] /\ pc'[e] = pc[e] /\ answer'[e] = answer[e]
    BY <1>a, <1>b DEF TypeOK
  <2>2. \A e \in Caller : Second(now') < v'[e] => Second(now) < v[e]
    BY <1>d, <2>1
  <2> HIDE DEF Second
  <2> QED
    BY <1>a, <1>4, <2>1, <2>2 DEF SeenInv
<1>6. OffWasTrue'
  BY <1>a, <1>b, <1>4 DEF OffWasTrue
<1>7. AskedInv'
  <2>1. \A e \in Caller : asked[e].at \in Nat
    BY <1>a DEF TypeOK
  <2> HIDE DEF Duration
  <2> QED
    BY <1>a, <1>b, <1>c, <2>1 DEF AskedInv
<1> QED
  BY <1>1, <1>2, <1>3, <1>5, <1>6, <1>7 DEF BedtimeInv

\* Every step keeps it.
LEMMA BedtimeNextInv == BedtimeInv /\ [Next]_vars => BedtimeInv'
<1> SUFFICES ASSUME BedtimeInv, [Next]_vars PROVE BedtimeInv'
  OBVIOUS
<1>1. CASE UNCHANGED vars
  BY <1>1 DEF vars, callVars, BedtimeInv, TypeOK, WordInv, AskedInv, SwapInv, SeenInv,
     OffWasTrue
<1>2. CASE Next
  BY <1>2, EnableInv, DisableInv, StoreInv, CallInv, LoadInv, CheckInv, CompareAndSwapInv, TickInv
     DEF Next
<1> QED
  BY <1>1, <1>2

\* Whoever was told that blocking is off was told the truth of some instant.
THEOREM OffWasTrueTheorem == Spec => [](TypeOK /\ OffWasTrue)
<1>1. Spec => []BedtimeInv
  BY BedtimeInitInv, BedtimeNextInv, PTL DEF Spec
<1> QED
  BY <1>1, PTL DEF BedtimeInv

-----------------------------------------------------------------------------
\* What the invariant says of the word is what the last command asked for.
LEMMA WordObeys == TypeOK /\ WordInv => CommandObeyed
<1> SUFFICES ASSUME TypeOK, WordInv PROVE CommandObeyed
  OBVIOUS
<1> DEFINE t == command.timer
           d == Duration(t)
           end == command.at + t * TicksPerSecond
<1>t. now \in Nat /\ command.at \in Nat /\ t \in Int
  BY DEF TypeOK
<1>k. TicksPerSecond \in Nat \ {0}
  BY BedtimeAssumption
<1>1. command.what = "enable" => ~Off
  BY DEF WordInv, Off, disabledIndefinitely
<1>2. ASSUME command.what = "disable", t <= 0, Fits(t) PROVE Off
  <2>1. d <= 0
    <3>1. t * TicksPerSecond <= 0
      BY <1>t, <1>k, <1>2
    <3> QED
      BY <1>2, <3>1 DEF Fits
  <2> QED
    BY <1>2, <2>1 DEF WordInv, Off
<1>3. ASSUME command.what = "disable", t > 0, Fits(t)
      PROVE  /\ now >= end => ~Off
             /\ now + TicksPerSecond <= end => Off
  <2>1. d > 0 /\ d \in Int /\ command.at + d = end /\ end \in Nat
    <3>1. t * TicksPerSecond \in Nat /\ t * TicksPerSecond > 0
      BY <1>t, <1>k, <1>3
    <3> QED
      BY <1>t, <1>3, <3>1 DEF Fits
  <2>2. \/ disabledUntil = Second(end)
        \/ disabledUntil = 0 /\ Second(now) >= Second(end)
    BY <1>3, <2>1 DEF WordInv
  <2>3. /\ Second(now) \in Nat /\ Second(end) \in Nat
        /\ now >= end => Second(now) >= Second(end)
        /\ now + TicksPerSecond <= end => Second(now) < Second(end)
    BY <1>t, <2>1, SecondFacts
  <2> HIDE DEF end
  <2> QED
    BY <2>2, <2>3 DEF Off, disabledIndefinitely
<1> QED
  BY <1>1, <1>2, <1>3 DEF CommandObeyed

\* The last command is obeyed whatever calls are under way, and a pause of a
\* number of seconds ends less than a second before its time, and not after it.
THEOREM CommandObeyedTheorem == Spec => []CommandObeyed
<1>1. Spec => []BedtimeInv
  BY BedtimeInitInv, BedtimeNextInv, PTL DEF Spec
<1>2. BedtimeInv => CommandObeyed
  BY WordObeys DEF BedtimeInv
<1> QED
  BY <1>1, <1>2, PTL

-----------------------------------------------------------------------------
\* What the abstract switch sees of the word, of the commands and of those who are
\* about to store one.
SwitchPause == IF Off THEN disabledUntil ELSE 0
SwitchSpan == IF command.what = "disable" THEN Duration(command.timer) ELSE 0
SwitchWaiting == [c \in Caller |-> [at |-> asked[c].at, span |-> Duration(asked[c].timer)]]
SwitchVars == <<now, SwitchPause, command.what, SwitchSpan, SwitchWaiting>>

\* Nothing asked is nothing waited for.
LEMMA NothingWaits == Duration(0) = 0
<1>1. 0 * TicksPerSecond = 0 /\ 0 % DurationModulus = 0
  BY BedtimeAssumption
<1> QED
  BY <1>1, BedtimeAssumption DEF Duration, Wrapped

\* The initial switch is the abstract one.
LEMMA SwitchInit == Init => Switch!Init
<1> SUFFICES ASSUME Init PROVE Switch!Init
  OBVIOUS
<1>1. SwitchWaiting = [c \in Caller |-> Switch!NoPause]
  BY NothingWaits DEF SwitchWaiting, Init, NothingAsked, Switch!NoPause
<1>2. now \in Nat /\ SwitchPause = 0 /\ command.what = "enable"
  BY BedtimeAssumption DEF Init, SwitchPause, Off, disabledIndefinitely
<1> QED
  BY <1>1, <1>2 DEF Switch!Init, Switch!On, SwitchWaiting, SwitchPause

\* A pause that is asked for is waited for, and nothing else changes.
LEMMA AskStep ==
  ASSUME BedtimeInv, NEW c \in Caller, NEW timer \in Timer, Duration(timer) > 0,
         pc[c] = "idle",
         asked' = [asked EXCEPT ![c] = [at |-> now, timer |-> timer]],
         UNCHANGED <<now, disabledUntil, command>>
  PROVE  Switch!Ask(c)
<1>1. asked[c] = NothingAsked /\ asked \in [Caller -> [at : Nat, timer : Int]]
  BY DEF BedtimeInv, AskedInv, TypeOK
<1>2. SwitchWaiting[c] = Switch!NoPause
  BY <1>1, NothingWaits DEF SwitchWaiting, NothingAsked, Switch!NoPause
<1> DEFINE new == [at |-> now, span |-> Duration(timer)]
<1>3. SwitchWaiting' = [SwitchWaiting EXCEPT ![c] = new]
  BY <1>1 DEF SwitchWaiting
<1>4. SwitchWaiting'[c] = new
  BY <1>3 DEF SwitchWaiting
<1>5. /\ SwitchWaiting' = [SwitchWaiting EXCEPT ![c] = SwitchWaiting'[c]]
      /\ SwitchWaiting'[c].at = now /\ SwitchWaiting'[c].span > 0
  <2>1. new.at = now /\ new.span > 0
    OBVIOUS
  <2> HIDE DEF new
  <2> QED
    BY <1>3, <1>4, <2>1
<1>6. UNCHANGED <<now, SwitchPause, command.what, SwitchSpan>>
  BY DEF SwitchPause, SwitchSpan, Off
<1> QED
  BY <1>2, <1>5, <1>6 DEF Switch!Ask, SwitchWaiting, SwitchPause, SwitchSpan

\* It takes effect when it is stored, by the clock of its asking.
LEMMA StoreStep ==
  ASSUME BedtimeInv, NEW c \in Caller, Store(c)
  PROVE  Switch!TurnOff(c)
<1> DEFINE t == asked[c].timer
           d == Duration(t)
           until == Second(asked[c].at + d)
<1>t. TypeOK /\ AskedInv
  BY DEF BedtimeInv
<1>1. /\ now' = now /\ disabledUntil' = until
      /\ command' = [what |-> "disable", at |-> asked[c].at, timer |-> t]
      /\ asked' = [asked EXCEPT ![c] = NothingAsked]
  BY DEF Store, Deadline
<1>2. d > 0 /\ d \in Int /\ asked[c].at \in Nat /\ now \in Nat
  BY <1>t, DurationInt DEF Store, AskedInv, TypeOK
<1>3. until \in Nat /\ Second(now) \in Nat
  BY <1>2, DeadlineNat, SecondFacts DEF Deadline
<1>4. SwitchWaiting[c].at = asked[c].at /\ SwitchWaiting[c].span = d
  BY DEF SwitchWaiting
<1>5. SwitchWaiting' = [SwitchWaiting EXCEPT ![c] = Switch!NoPause]
  BY <1>t, <1>1, NothingWaits DEF SwitchWaiting, TypeOK, NothingAsked, Switch!NoPause
<1>6. SwitchSpan' = d /\ command'.what = "disable"
  BY <1>1 DEF SwitchSpan
<1> HIDE DEF d, until
<1>7. SwitchPause' = IF Second(now) < until THEN until ELSE 0
  <2>1. Off' <=> Second(now) < until
    BY <1>1, <1>3 DEF Off, disabledIndefinitely, Second
  <2> QED
    BY <1>1, <2>1 DEF SwitchPause
<1>8. until = Second(SwitchWaiting[c].at + SwitchWaiting[c].span)
  BY <1>4 DEF until, d
<1> QED
  BY <1>1, <1>2, <1>4, <1>5, <1>6, <1>7, <1>8
     DEF Switch!TurnOff, Switch!Second, Second, Switch!On, SwitchWaiting, SwitchPause, SwitchSpan

\* Every step is a step of the abstract switch or invisible to it.
LEMMA SwitchStep ==
  BedtimeInv /\ [Next]_vars => [Switch!Next]_SwitchVars
<1> SUFFICES ASSUME BedtimeInv, [Next]_vars PROVE [Switch!Next]_SwitchVars
  OBVIOUS
<1>t. TypeOK /\ WordInv /\ SwapInv
  BY DEF BedtimeInv
<1>w. now \in Nat /\ disabledUntil \in Nat \cup {-1}
  BY <1>t DEF TypeOK, disabledIndefinitely
<1>1. ASSUME UNCHANGED <<now, disabledUntil, command, asked>> PROVE UNCHANGED SwitchVars
  BY <1>1 DEF Off, SwitchVars, SwitchPause, SwitchSpan, SwitchWaiting
<1>2. ASSUME NEW c \in Caller, Enable(c) PROVE Switch!TurnOn
  BY <1>2 DEF Enable, Start, Switch!TurnOn, Switch!On, Off, disabledIndefinitely
<1>3. ASSUME NEW c \in Caller, NEW timer \in Timer, Disable(c, timer)
      PROVE  Switch!TurnOffIndefinitely \/ Switch!Ask(c)
  <2>1. Duration(timer) \in Int
    BY DurationInt
  <2>2. CASE Duration(timer) <= 0
    <3>1. /\ UNCHANGED <<now, asked>> /\ disabledUntil' = -1
          /\ command'.what = "disable" /\ command'.timer = timer
      BY <1>3, <2>1, <2>2 DEF Disable, Start, disabledIndefinitely
    <3>2. SwitchPause' = -1 /\ SwitchSpan' = Duration(timer) /\ SwitchWaiting' = SwitchWaiting
      BY <3>1 DEF SwitchPause, SwitchSpan, SwitchWaiting, Off, disabledIndefinitely
    <3> QED
      BY <2>1, <2>2, <3>1, <3>2 DEF Switch!TurnOffIndefinitely, Switch!Indefinitely,
         SwitchPause, SwitchSpan, SwitchWaiting
  <2>3. CASE Duration(timer) > 0
    BY <1>3, <2>1, <2>3, AskStep DEF Disable
  <2> QED
    BY <2>1, <2>2, <2>3
<1>4. ASSUME NEW c \in Caller, CompareAndSwap(c) PROVE UNCHANGED SwitchVars
  <2>1. v[c] > 0 /\ Second(now) >= v[c] /\ v[c] \in Nat /\ Second(now) \in Nat
    BY <1>4, <1>t, <1>w, SecondFacts DEF CompareAndSwap, SwapInv, TypeOK
  <2>2. /\ now' = now /\ command' = command /\ asked' = asked
        /\ disabledUntil' = IF disabledUntil = v[c] THEN 0 ELSE disabledUntil
    BY <1>4 DEF CompareAndSwap, Return, Swapped
  <2> QED
    BY <2>1, <2>2 DEF Off, disabledIndefinitely, SwitchVars, SwitchPause, SwitchSpan,
       SwitchWaiting
<1>5. ASSUME Tick PROVE Switch!Elapse
  <2>1. /\ now' = now + 1
        /\ disabledUntil' = disabledUntil /\ command' = command /\ asked' = asked
    BY <1>5 DEF Tick, callVars
  <2>2. Second(now) \in Nat /\ Second(now') \in Nat /\ Second(now) <= Second(now')
    BY <1>w, <2>1, SecondFacts
  <2>3. SwitchSpan' = SwitchSpan /\ SwitchWaiting' = SwitchWaiting
    BY <2>1 DEF SwitchSpan, SwitchWaiting
  <2>4. SwitchPause' =
          IF SwitchPause > 0 /\ Second(now') >= SwitchPause THEN 0 ELSE SwitchPause
    <3> HIDE DEF Second
    <3> QED
      BY <1>w, <2>1, <2>2 DEF SwitchPause, Off, disabledIndefinitely
  <2> QED
    BY <2>1, <2>3, <2>4 DEF Switch!Elapse, Switch!On, Switch!Second, Second,
       SwitchPause, SwitchSpan, SwitchWaiting
<1>6. CASE \E c \in Caller : Load(c) \/ Check(c)
              \/ \E m \in {"IsDisabled", "Status"} : Call(c, m)
  BY <1>1, <1>6 DEF Load, Check, Call, Return, Start
<1>7. CASE UNCHANGED vars
  BY <1>1, <1>7 DEF vars, callVars
<1> QED
  BY <1>2, <1>3, StoreStep, <1>4, <1>5, <1>6, <1>7 DEF Next, Switch!Next, SwitchVars

\* The word with its callers implements the switch the clock turns on, for any number
\* of callers that command and look at once: loads, checks and swaps are invisible,
\* and a pause takes effect as it is stored, counted from when it was asked for.
THEOREM SwitchTheorem == Spec => SwitchSpec
<1>1. Spec => []BedtimeInv
  BY BedtimeInitInv, BedtimeNextInv, PTL DEF Spec
<1> QED
  BY <1>1, SwitchInit, SwitchStep, PTL
     DEF Spec, SwitchSpec, Switch!Spec, SwitchVars, SwitchPause, SwitchSpan, SwitchWaiting
=============================================================================
