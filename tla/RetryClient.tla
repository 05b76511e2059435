----------------------------- MODULE RetryClient -----------------------------
(***************************************************************************)
(* One RPC call of internal/chain/client.go as its caller sees it:         *)
(* attempts with a deadline each, exponential backoff with jitter between  *)
(* them, a budget for all of them, and the error of the last attempt when  *)
(* the budget is used up or the error is not worth a retry.  The caller    *)
(* says what an attempt comes to; see Paginator.                           *)
(*                                                                         *)
(* Time is counted in units of any length.                                 *)
(***************************************************************************)
EXTENDS Integers

CONSTANTS
    InitialInterval, MaxInterval,  \* of the backoff
    MaxElapsed,                    \* the budget of a call
    CallTimeout                    \* the deadline of an attempt

ASSUME RetryAssumption ==
    /\ InitialInterval \in Nat \ {0} /\ MaxInterval \in Nat
    /\ InitialInterval <= MaxInterval
    /\ MaxElapsed \in Nat /\ CallTimeout \in Nat \ {0}

VARIABLE call  \* the call in progress: the time it has taken, the next interval,
               \* and whether it waits for its next attempt

FirstAttempt == [elapsed |-> 0, interval |-> InitialInterval, waiting |-> FALSE]

\* What an attempt may fail with: the provider's refusal of the request, another
\* fault, or its own deadline.  An error is transient if its kind or its text
\* says so; the text of a refusal may, by the digits of the numbers in it.
Error == [kind : {"refusal", "fault"}, transient : BOOLEAN]
         \cup [kind : {"deadline"}, transient : {FALSE}]

\* isRetryableEthError: a context error is the caller's, and permanent.
IsRetryable(e) == e.kind # "deadline" /\ e.transient

\* executeWithRetry: the attempt's own deadline is no reason to give up.
WorthRetry(e) == e.kind = "deadline" \/ IsRetryable(e)

\* How long an attempt may take that ends with e.
Durations(e) == IF e.kind = "deadline" THEN {CallTimeout} ELSE 0..CallTimeout

\* NextBackOff (external): half of the interval to one and a half.
Waits == {w \in 0..(2 * MaxInterval) : call.interval <= 2 * w /\ 2 * w <= 3 * call.interval}
NextInterval == IF 2 * call.interval <= MaxInterval THEN 2 * call.interval ELSE MaxInterval

InBudget(d, w) == call.elapsed + d + w <= MaxElapsed

\* Mutant: the budget starts anew with every attempt.
TriedAgainForgetting(e) ==
    /\ WorthRetry(e)
    /\ \E d \in Durations(e), w \in Waits :
        /\ InBudget(d, w)
        /\ call' = [elapsed |-> 0, interval |-> NextInterval, waiting |-> TRUE]

\* The attempt fails and another one follows, after the wait.
TriedAgain(e) ==
    /\ WorthRetry(e)
    /\ \E d \in Durations(e), w \in Waits :
        /\ InBudget(d, w)
        /\ call' = [elapsed |-> call.elapsed + d + w, interval |-> NextInterval, waiting |-> TRUE]

WaitEnds == call.waiting /\ call' = [call EXCEPT !.waiting = FALSE]

\* The attempt fails and the caller gets its error, ...
Failed(e) ==
    /\ WorthRetry(e) => \E d \in Durations(e), w \in Waits : ~InBudget(d, w)
    /\ call' = FirstAttempt

\* ... or it succeeds.
Succeeded == call' = FirstAttempt
=============================================================================
