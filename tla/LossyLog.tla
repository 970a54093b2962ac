------------------------------ MODULE LossyLog ------------------------------
(***************************************************************************)
(* What the query log of internal/db/query_store.go promises those who     *)
(* call it.  A call never waits: it is taken at once, or refused, which is *)
(* only allowed while a buffer's worth is waiting.  What waits is stored   *)
(* in the order of the calls, several at a time, all of them or none; a    *)
(* write that fails loses exactly those it was to store.  How it waits, in *)
(* a channel and in a batch, is left open, and so is when it is stored.    *)
(***************************************************************************)
EXTENDS Integers, Sequences

CONSTANT BufferSize   \* how many a log must hold before it may refuse

VARIABLES
    calls,       \* how often it was called
    waiting,     \* the calls that were taken and are not yet stored, in order
    stored,      \* the calls that were stored, in order
    refused,     \* how many calls were refused
    forgotten,   \* the calls whose write failed
    open         \* FALSE once the log has ended

Init ==
    /\ calls = 0 /\ refused = 0
    /\ waiting = <<>> /\ stored = <<>>
    /\ forgotten = {}
    /\ open = TRUE

Accept ==
    /\ calls' = calls + 1
    /\ waiting' = Append(waiting, calls')
    /\ UNCHANGED <<stored, refused, forgotten, open>>

Refuse ==
    /\ Len(waiting) >= BufferSize
    /\ calls' = calls + 1
    /\ refused' = refused + 1
    /\ UNCHANGED <<waiting, stored, forgotten, open>>

Store(n) ==
    /\ stored' = stored \o SubSeq(waiting, 1, n)
    /\ waiting' = SubSeq(waiting, n + 1, Len(waiting))
    /\ UNCHANGED <<calls, refused, forgotten, open>>

Forget(n) ==
    /\ forgotten' = forgotten \cup {waiting[i] : i \in 1..n}
    /\ waiting' = SubSeq(waiting, n + 1, Len(waiting))
    /\ UNCHANGED <<calls, stored, refused, open>>

End ==
    /\ open' = FALSE
    /\ UNCHANGED <<calls, waiting, stored, refused, forgotten>>

Next ==
    /\ open
    /\ \/ Accept \/ Refuse
       \/ \E n \in 1..Len(waiting) : Store(n) \/ Forget(n)
       \/ End

Spec == Init /\ [][Next]_<<calls, waiting, stored, refused, forgotten, open>>
=============================================================================
