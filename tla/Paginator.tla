----------------------------- MODULE Paginator -----------------------------
(***************************************************************************)
(* The fetch of all logs of a block range (internal/ingestion/fetcher.go)  *)
(* through windows of adaptive size (internal/chain/pagination.go): halved *)
(* when the provider refuses a window, doubled after an answer, never past *)
(* a span the provider is known to refuse; a block that is refused on its  *)
(* own is read from its receipts and the blocks beside it are walked anew. *)
(*                                                                         *)
(* Heights and steps are unsigned integers of a fixed width, as in the     *)
(* code.  An answer holds all logs of the blocks asked for, so the result  *)
(* is how many times the logs of each block are in it; their order is made *)
(* by a final sort.                                                        *)
(***************************************************************************)
EXTENDS RetryClient, Sequences, Functions

CONSTANTS
    FromBlock, ToBlock,  \* the range to fetch
    Width,               \* the integers are those below Width (2^64)
    DefaultStep,         \* the first step without a configured cap
    SpanCap,             \* the configured span cap, 0 if unknown
    ProviderSpans,       \* largest spans (to - from) a provider may accept
    MaxResults,          \* most logs the provider returns for one window
    Densities            \* how many logs each block may have

Wanted == FromBlock..ToBlock

ASSUME WidthAssumption ==
    /\ Width \in Nat /\ FromBlock \in Nat /\ ToBlock \in Nat
    /\ FromBlock <= ToBlock /\ ToBlock < Width
    /\ DefaultStep \in 1..(Width - 1) /\ SpanCap \in 0..(Width - 1)
ASSUME ProviderAssumption ==
    /\ ProviderSpans \subseteq Nat
    /\ MaxResults \in Nat
    /\ Densities \subseteq [Wanted -> Nat]
\* Heights and steps are far from the largest integer, so nothing wraps around:
\* not the end of a window, not the doubled step, not the step of a cap.
ASSUME RoomAssumption ==
    /\ ToBlock + DefaultStep < Width /\ 2 * DefaultStep < Width
    /\ SpanCap + 1 < Width

VARIABLES
    provider,  \* [span, density]: what the provider accepts (fixed)
    todo,      \* the ranges and dense blocks still to be fetched, in order
    walk,      \* the walk over the first of them
    result,    \* block -> how often its logs are in the result
    outcome    \* "running", "done" or "failed"

fetch == <<provider, todo, walk, result, outcome>>
vars == <<fetch, call>>

Wrap(n) == n % Width
Smaller(a, b) == IF a <= b THEN a ELSE b

\* A dense block is a task of its own, read from its receipts.
RangeTask(from, to) == [kind |-> "range", from |-> from, to |-> to]
DenseTask(n) == [kind |-> "dense", from |-> n, to |-> n]
Task == [kind : {"range", "dense"}, from : Wanted, to : Wanted]

NoLogs == [n \in Wanted |-> 0]
AddOnce(bag, S) == [n \in Wanted |-> IF n \in S THEN bag[n] + 1 ELSE bag[n]]
AddAll(bag, more) == [n \in Wanted |-> bag[n] + more[n]]

\* The largest step whose span a cap accepts is one more than the cap.
InitialStep ==
    IF SpanCap > 0 /\ DefaultStep > Wrap(SpanCap + 1) THEN Wrap(SpanCap + 1) ELSE DefaultStep

\* The provider (external).
SpanRefused(from, to) == to - from > provider.span
ResultsRefused(from, to) ==
    SumFunctionOnSet(provider.density, from..to) > MaxResults
Accepted(from, to) == ~SpanRefused(from, to) /\ ~ResultsRefused(from, to)

-----------------------------------------------------------------------------
\* A walk: the outer position and step; the end of the window, the position, the
\* step and its ceiling in it; what was fetched.  refused is history: the least
\* span that the provider has refused, as a span, in this walk.
NoWalk == [op |-> "none", at |-> 0, step |-> 0, end |-> 0, pos |-> 0, cur |-> 0, max |-> 0,
           got |-> NoLogs, refused |-> Width]

StartWalk ==
    /\ walk.op = "none" /\ todo # <<>> /\ Head(todo).kind = "range"
    /\ walk' = [NoWalk EXCEPT !.op = "outer", !.at = Head(todo).from, !.step = InitialStep]
    /\ UNCHANGED <<provider, todo, result, outcome, call>>

\* The last block of the window of `step` blocks, but not past limit.
WindowEnd(from, step, limit) == Smaller(Wrap(from + step + Width - 1), limit)

\* FilterLogs: the next outer window.
OpenWindow ==
    /\ walk.op = "outer" /\ walk.at <= Head(todo).to
    /\ walk' = [walk EXCEPT !.op = "inner", !.end = WindowEnd(walk.at, walk.step, Head(todo).to),
                            !.pos = walk.at, !.cur = walk.step, !.max = walk.step]
    /\ UNCHANGED <<provider, todo, result, outcome, call>>

\* Mutant: the next window starts from the old step.
StepKept == walk.step

\* A discovered span cap holds for the rest of the walk.
NextStep == Smaller(walk.step, walk.max)

CloseWindow ==
    /\ walk.op = "inner" /\ walk.pos > walk.end
    /\ walk' = [walk EXCEPT !.op = "outer", !.at = Wrap(walk.end + 1),
                            !.step = NextStep,
                            !.end = 0, !.pos = 0, !.cur = 0, !.max = 0]
    /\ UNCHANGED <<provider, todo, result, outcome, call>>

WalkEnds ==
    /\ walk.op = "outer" /\ walk.at > Head(todo).to
    /\ result' = AddAll(result, walk.got)
    /\ walk' = NoWalk
    /\ todo' = Tail(todo)
    /\ UNCHANGED <<provider, outcome, call>>

\* walkWindow: the window asked for next.
Asking == walk.op = "inner" /\ walk.pos <= walk.end
AskedTo == WindowEnd(walk.pos, walk.cur, walk.end)

\* Every call is one of the retrying client.
Calling == ~call.waiting /\ (Asking \/ (walk.op = "none" /\ todo # <<>> /\ Head(todo).kind = "dense"))

\* A request is refused if the provider does not accept it.
Refused == Asking /\ ~Accepted(walk.pos, AskedTo)

\* An attempt may fail, ...
AttemptFails ==
    /\ Calling
    /\ \E e \in Error : (e.kind = "refusal" => Refused) /\ TriedAgain(e)
    /\ UNCHANGED fetch

BackoffEnds == WaitEnds /\ UNCHANGED fetch

\* ... and an error that is returned and is no refusal ends the fetch.
CallFails ==
    /\ Calling
    /\ \E e \in Error : e.kind # "refusal" /\ Failed(e)
    /\ outcome' = "failed"
    /\ todo' = <<>> /\ walk' = NoWalk /\ result' = NoLogs
    /\ UNCHANGED provider

\* IsTooManyResultsError: the refusal is told from the text, wrapped or not.
RefusalReturned == \E e \in Error : e.kind = "refusal" /\ Failed(e)

WindowAnswered ==
    /\ Calling /\ Asking /\ Accepted(walk.pos, AskedTo)
    /\ walk' = [walk EXCEPT !.got = AddOnce(walk.got, walk.pos..AskedTo),
                            !.pos = Wrap(AskedTo + 1),
                            !.cur = Smaller(Wrap(walk.cur * 2), walk.max)]
    /\ Succeeded
    /\ UNCHANGED <<provider, todo, result, outcome>>

Halved == walk.cur \div 2

\* Mutant: a window of two blocks is taken for one.
NearlySingleBlock == AskedTo - walk.pos <= 1

SingleBlock == walk.pos = AskedTo

\* A refusal halves the step; one of the span lowers its ceiling as well.  (The
\* error of a step that is halved to 0 is unreachable: see TypeOK.)
WindowRefused ==
    /\ Calling /\ Asking /\ ~SingleBlock
    /\ \/ /\ SpanRefused(walk.pos, AskedTo)
          /\ walk' = [walk EXCEPT !.cur = Halved, !.max = Halved,
                                  !.refused = Smaller(walk.refused, AskedTo - walk.pos)]
       \/ /\ ResultsRefused(walk.pos, AskedTo)
          /\ walk' = [walk EXCEPT !.cur = Halved]
    /\ RefusalReturned
    /\ UNCHANGED <<provider, todo, result, outcome>>

\* Mutant: the range on the left still holds the dense block.
AroundOverlapping(t, n) ==
    (IF n > t.from THEN <<RangeTask(t.from, n)>> ELSE <<>>)
    \o <<DenseTask(n)>>
    \o (IF n < t.to THEN <<RangeTask(n + 1, t.to)>> ELSE <<>>)

\* fetchAroundDenseBlock: the task t is done by way of the block n in it: what
\* lies on its left, the block from its receipts, what lies on its right.
Around(t, n) ==
    (IF n > t.from THEN <<RangeTask(t.from, n - 1)>> ELSE <<>>)
    \o <<DenseTask(n)>>
    \o (IF n < t.to THEN <<RangeTask(n + 1, t.to)>> ELSE <<>>)

\* Mutant: what the walk has fetched is kept.
SingleBlockOverflowKeeps ==
    /\ Calling /\ Asking /\ SingleBlock
    /\ ~Accepted(walk.pos, AskedTo)
    /\ todo' = Around(Head(todo), walk.pos) \o Tail(todo)
    /\ result' = AddAll(result, walk.got)
    /\ walk' = NoWalk
    /\ RefusalReturned
    /\ UNCHANGED <<provider, outcome>>

\* SingleBlockOverflowError: the walk is given up, with what it has fetched.
SingleBlockOverflow ==
    /\ Calling /\ Asking /\ SingleBlock
    /\ ~Accepted(walk.pos, AskedTo)
    /\ todo' = Around(Head(todo), walk.pos) \o Tail(todo)
    /\ walk' = NoWalk
    /\ RefusalReturned
    /\ UNCHANGED <<provider, result, outcome>>

\* denseBlockLogs.
ReadReceipts ==
    /\ Calling /\ ~Asking
    /\ result' = AddOnce(result, {Head(todo).from})
    /\ todo' = Tail(todo)
    /\ Succeeded
    /\ UNCHANGED <<provider, walk, outcome>>

FetchEnds ==
    /\ outcome = "running" /\ todo = <<>>
    /\ outcome' = "done"
    /\ UNCHANGED <<provider, todo, walk, result, call>>

\* The caller gives up, or the deadline of the fetch: nothing is returned.
FetchFails ==
    /\ outcome = "running"
    /\ outcome' = "failed"
    /\ todo' = <<>> /\ walk' = NoWalk /\ result' = NoLogs
    /\ call' = FirstAttempt
    /\ UNCHANGED provider

-----------------------------------------------------------------------------
Init ==
    /\ provider \in [span : ProviderSpans, density : Densities]
    /\ todo = <<RangeTask(FromBlock, ToBlock)>>
    /\ walk = NoWalk
    /\ result = NoLogs
    /\ outcome = "running"
    /\ call = FirstAttempt

Step ==
    \/ StartWalk \/ OpenWindow \/ CloseWindow \/ WalkEnds
    \/ WindowAnswered \/ WindowRefused \/ SingleBlockOverflow \/ ReadReceipts
    \/ AttemptFails \/ BackoffEnds \/ CallFails \/ FetchEnds

Next == Step \/ FetchFails
Spec == Init /\ [][Next]_vars
FairSpec == Spec /\ WF_vars(Step)

-----------------------------------------------------------------------------
\* Shapes; the tasks are in the range and in ascending order.
TypeOK ==
    /\ \A i \in 1..Len(todo) : todo[i] \in Task /\ todo[i].from <= todo[i].to
    /\ \A i \in 1..(Len(todo) - 1) : todo[i].to < todo[i + 1].from
    /\ {walk.at, walk.step, walk.end, walk.pos, walk.cur, walk.max} \subseteq 0..(Width - 1)
    /\ result \in [Wanted -> Nat] /\ walk.got \in [Wanted -> Nat]
    /\ outcome \in {"running", "done", "failed"}
    /\ call.elapsed \in 0..MaxElapsed /\ call.interval \in InitialInterval..MaxInterval
    \* A window of more than one block has a step of more than one.
    /\ Asking /\ ~SingleBlock => walk.cur > 1

\* The logs of every block of the range are fetched once: however windows are
\* halved, widened and clipped, and whatever is fetched again around a dense
\* block, none is skipped and none is duplicated (FetchIngestionLogs).
EachBlockOnce == outcome = "done" => result = [n \in Wanted |-> 1]

\* Once the provider has refused a span as too wide, the walk asks for narrower
\* windows only, in the same outer window or a later one (maxStepSize, hoisted by
\* FilterLogs) - but for the last window of the range: the end of the range cuts
\* it short of the step, and it is asked for unchanged until the halved step is
\* shorter.
NoRefusedSpan ==
    Asking => \/ AskedTo - walk.pos < walk.refused
              \/ /\ AskedTo - walk.pos = walk.refused
                 /\ walk.pos = walk.at /\ AskedTo = Head(todo).to

\* The receipts of a block are read only if it alone has too many logs.
ReceiptsOnlyIfDense ==
    \A i \in 1..Len(todo) : todo[i].kind = "dense" => provider.density[todo[i].from] > MaxResults

\* The fetch comes to an end by itself, without its deadline: windows that are
\* halved and widened get on, and a provider that only ever fails, or never
\* answers, uses up the budget of a call (executeWithRetry).
FetchTerminates == <>(outcome # "running")
=============================================================================
