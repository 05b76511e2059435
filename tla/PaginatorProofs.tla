-------------------------- MODULE PaginatorProofs --------------------------
(***************************************************************************)
(* Proofs about module Paginator: the fetch has every block once, asks     *)
(* again for a span that was refused only where the range ends, and reads  *)
(* receipts only of a dense block, for every range, cap, provider and      *)
(* density of logs.                                                        *)
(***************************************************************************)
EXTENDS Paginator, SequenceTheorems, TLAPS

-----------------------------------------------------------------------------
(* The inductive invariant.                                                *)

\* The call in progress is within its budget.
CallInv ==
    /\ call.elapsed \in 0..MaxElapsed
    /\ call.interval \in InitialInterval..MaxInterval

ProviderInv == provider.span \in Nat /\ provider.density \in [Wanted -> Nat]

GoodTask(t, density) ==
    /\ t \in Task /\ t.from <= t.to
    /\ t.kind = "dense" => t.from = t.to /\ density[t.from] > MaxResults

\* The tasks follow each other without a gap, and the last ends the range.
Partition(tasks, density) ==
    /\ tasks \in Seq(Task)
    /\ \A i \in 1..Len(tasks) : GoodTask(tasks[i], density)
    /\ \A i \in 1..(Len(tasks) - 1) : tasks[i].to + 1 = tasks[i + 1].from
    /\ tasks # <<>> => tasks[Len(tasks)].to = ToBlock

\* The first block that is not in the result.
Frontier(tasks) == IF tasks = <<>> THEN ToBlock + 1 ELSE Head(tasks).from

\* Each block of from..to once.
Once(from, to) == [n \in Wanted |-> IF n \in from..to THEN 1 ELSE 0]

\* The tasks are what is left of the range, the result is what lies before them.
TasksInv ==
    /\ Partition(todo, provider.density)
    /\ outcome \in {"running", "done", "failed"}
    /\ outcome # "running" => todo = <<>>
    /\ result = IF outcome = "failed" THEN NoLogs ELSE Once(FromBlock, Frontier(todo) - 1)

WalkRecord == [op : {"none", "outer", "inner"}, at : Nat, step : Nat, end : Nat, pos : Nat,
               cur : Nat, max : Nat, got : [Wanted -> Nat], refused : Nat]

\* A walk has fetched each block of its task before its position once.
WalkInv ==
    /\ walk \in WalkRecord
    /\ walk.op = "none" => walk = NoWalk
    /\ walk.op # "none" =>
        /\ todo # <<>> /\ Head(todo).kind = "range"
        /\ Head(todo).from <= walk.at /\ walk.at <= Head(todo).to + 1
        /\ 1 <= walk.step /\ walk.step <= DefaultStep
    /\ walk.op = "outer" =>
        /\ walk.got = Once(Head(todo).from, walk.at - 1)
        /\ walk.end = 0 /\ walk.pos = 0 /\ walk.cur = 0 /\ walk.max = 0
    /\ walk.op = "inner" =>
        /\ walk.at <= walk.pos /\ walk.pos <= walk.end + 1
        /\ walk.at <= walk.end /\ walk.end <= Head(todo).to
        /\ 1 <= walk.cur /\ walk.cur <= walk.max /\ walk.max <= walk.step
        /\ walk.got = Once(Head(todo).from, walk.pos - 1)

\* Every step is shorter than a refused span, unless the window is the last of the
\* task; nothing of that one is refused twice but the whole of it.  Any other
\* window that is cut short has at most twice the blocks of one that was accepted.
SpanInv ==
    /\ walk.op = "outer" /\ walk.at <= Head(todo).to => walk.step - 1 < walk.refused
    /\ walk.op = "inner" =>
        /\ \/ walk.max - 1 < walk.refused
           \/ /\ walk.end = Head(todo).to /\ walk.end - walk.pos <= walk.refused
              /\ walk.end - walk.pos = walk.refused => walk.pos = walk.at
        /\ walk.pos <= walk.end =>
            \/ walk.end = Head(todo).to /\ walk.pos = walk.at
            \/ walk.pos + walk.cur - 1 <= walk.end
            \/ walk.cur <= 2 * (provider.span + 1)

FetchInv == CallInv /\ ProviderInv /\ TasksInv /\ WalkInv /\ SpanInv

-----------------------------------------------------------------------------
(* Facts about the operators.                                              *)

(* Nothing wraps around below the width.                                   *)
LEMMA WrapSmall ==
    ASSUME NEW n \in 0..(Width - 1)
    PROVE  Wrap(n) = n
BY WidthAssumption, SMTT(30) DEF Wrap

(* The end of a window is the block that its step leads to, or the limit.  *)
LEMMA WindowEndIs ==
    ASSUME NEW from \in Nat, from <= ToBlock, NEW step \in 1..DefaultStep, NEW limit \in Nat
    PROVE  WindowEnd(from, step, limit) = Smaller(from + step - 1, limit)
<1>1. ASSUME NEW n \in 1..(Width - 1)
      PROVE  (n + Width - 1) % Width = n - 1
  BY WidthAssumption, SMTT(30)
<1>2. from + step \in 1..(Width - 1)
  BY WidthAssumption, RoomAssumption
<1> QED
  BY <1>1, <1>2 DEF WindowEnd, Wrap

(* The first step covers a block at least.                                 *)
LEMMA InitialStepIs == InitialStep \in 1..DefaultStep
<1>1. Wrap(SpanCap + 1) = SpanCap + 1
  BY WrapSmall, WidthAssumption, RoomAssumption
<1> QED
  BY <1>1, WidthAssumption DEF InitialStep

(* A refusal of more than one block leaves a step of a block at least.     *)
LEMMA HalfOf ==
    ASSUME NEW n \in Nat
    PROVE  /\ n \div 2 \in Nat
           /\ 2 * (n \div 2) <= n /\ n <= 2 * (n \div 2) + 1
BY SMTT(30)

(* The sum over one block is what that block has.                          *)
LEMMA SumOfOne ==
    ASSUME NEW f, NEW n, f[n] \in Nat
    PROVE  SumFunctionOnSet(f, {n}) = f[n]
<1> DEFINE First(s) == CHOOSE x \in s : TRUE
           IsSum(g) == g = [s \in SUBSET {n} |->
                                IF s = {} THEN 0 ELSE f[First(s)] + g[s \ {First(s)}]]
           G == [s \in SUBSET {n} |-> IF s = {} THEN 0 ELSE f[n]]
           H == CHOOSE g : IsSum(g)
<1>1. First({n}) = n
  OBVIOUS
<1>2. IsSum(G)
  <2>1. SUBSET {n} = {{}, {n}}
    OBVIOUS
  <2>2. ASSUME NEW s \in SUBSET {n}
        PROVE  G[s] = IF s = {} THEN 0 ELSE f[First(s)] + G[s \ {First(s)}]
    <3>1. CASE s = {}
      BY <3>1
    <3>2. CASE s = {n}
      <4>1. s \ {First(s)} = {}
        BY <3>2, <1>1
      <4>2. G[s] = f[n] /\ G[{}] = 0
        BY <3>2
      <4>3. First(s) = n /\ s # {}
        BY <3>2, <1>1
      <4> HIDE DEF G, First
      <4>4. f[First(s)] + G[s \ {First(s)}] = f[n]
        BY <4>1, <4>2, <4>3
      <4> QED
        BY <4>2, <4>3, <4>4
    <3> QED
      BY <2>1, <3>1, <3>2
  <2> HIDE DEF First
  <2> QED
    BY <2>2
<1>3. IsSum(H)
  <2> HIDE DEF IsSum
  <2> QED
    BY <1>2
<1>4. H[{n}] = f[n]
  <2>1. H[{}] = 0
    BY <1>3
  <2>2. H[{n}] = f[First({n})] + H[{n} \ {First({n})}]
    <3> HIDE DEF H, First
    <3> QED
      BY <1>3
  <2>3. {n} \ {First({n})} = {}
    BY <1>1
  <2> HIDE DEF H, First
  <2> QED
    BY <2>1, <2>2, <2>3, <1>1
<1>5. SumFunctionOnSet(f, {n}) = H[{n}]
  BY DEF SumFunctionOnSet, FoldFunctionOnSet, MapThenFoldSet
<1> QED
  BY <1>4, <1>5

(* A block that is refused on its own has too many logs.                   *)
LEMMA RefusedAlone ==
    ASSUME ProviderInv, NEW n \in Wanted, ~Accepted(n, n)
    PROVE  provider.density[n] > MaxResults
<1>1. ~SpanRefused(n, n)
  BY WidthAssumption DEF SpanRefused, ProviderInv, Wanted
<1>2. n..n = {n}
  BY WidthAssumption DEF Wanted
<1>3. SumFunctionOnSet(provider.density, n..n) = provider.density[n]
  BY <1>2, SumOfOne DEF ProviderInv
<1> QED
  BY <1>1, <1>3 DEF Accepted, ResultsRefused

(* Blocks once, and then the blocks behind them once.                      *)
LEMMA OnceAndOnce ==
    ASSUME NEW from \in Nat, NEW to \in Nat, NEW k \in Nat, from <= k, k <= to + 1
    PROVE  /\ AddOnce(Once(from, k - 1), k..to) = Once(from, to)
           /\ AddAll(Once(from, k - 1), Once(k, to)) = Once(from, to)
           /\ Once(from, from - 1) = NoLogs
           /\ Once(from, to) \in [Wanted -> Nat]
BY WidthAssumption DEF AddOnce, AddAll, Once, NoLogs, Wanted

-----------------------------------------------------------------------------
(* The tasks.                                                              *)

(* A first task that leads up to the others.                               *)
LEMMA ConsPartition ==
    ASSUME NEW tasks, NEW density, Partition(tasks, density),
           NEW t, GoodTask(t, density), Frontier(tasks) = t.to + 1
    PROVE  /\ Partition(<<t>> \o tasks, density)
           /\ <<t>> \o tasks # <<>> /\ Head(<<t>> \o tasks) = t
           /\ Tail(<<t>> \o tasks) = tasks
           /\ Frontier(<<t>> \o tasks) = t.from
<1> DEFINE all == <<t>> \o tasks
<1>1. tasks \in Seq(Task) /\ t \in Task /\ <<t>> \in Seq(Task) /\ Len(tasks) \in Nat
  BY DEF Partition, GoodTask
<1>2. /\ all \in Seq(Task) /\ Len(all) = Len(tasks) + 1
      /\ all[1] = t
      /\ \A i \in 1..Len(tasks) : all[i + 1] = tasks[i]
  BY <1>1
<1>3. all # <<>> /\ Head(all) = t
  BY <1>1, <1>2
<1>4. Tail(all) = tasks
  BY <1>1, <1>2
<1>5. Frontier(all) = t.from
  BY <1>3 DEF Frontier
<1> HIDE DEF all
<1>6. ASSUME NEW i \in 1..Len(all)
      PROVE  GoodTask(all[i], density)
  <2>1. CASE i = 1
    BY <2>1, <1>2
  <2>2. CASE i # 1
    <3>1. i - 1 \in 1..Len(tasks) /\ all[i] = tasks[i - 1]
      <4>1. i - 1 \in 1..Len(tasks) /\ (i - 1) + 1 = i
        BY <2>2, <1>1, <1>2
      <4> QED
        BY <4>1, <1>2
    <3> QED
      BY <3>1 DEF Partition
  <2> QED
    BY <2>1, <2>2
<1>7. ASSUME NEW i \in 1..(Len(all) - 1)
      PROVE  all[i].to + 1 = all[i + 1].from
  <2>1. CASE i = 1
    <3>1. all[1] = t /\ all[2] = tasks[1] /\ tasks # <<>> /\ 1 \in 1..Len(tasks)
      BY <2>1, <1>1, <1>2
    <3>2. Head(tasks) = tasks[1]
      BY <3>1, <1>1
    <3> QED
      BY <2>1, <3>1, <3>2 DEF Frontier
  <2>2. CASE i # 1
    <3>1. i - 1 \in 1..(Len(tasks) - 1) /\ (i - 1) + 1 = i
      BY <2>2, <1>1, <1>2
    <3>2. all[i] = tasks[i - 1] /\ all[i + 1] = tasks[i]
      BY <3>1, <1>1, <1>2
    <3> QED
      BY <3>1, <3>2 DEF Partition
  <2> QED
    BY <2>1, <2>2
<1>8. all[Len(all)].to = ToBlock
  <2>1. CASE tasks = <<>>
    <3>1. Len(all) = 1 /\ t.to + 1 = ToBlock + 1 /\ t.to \in Int
      BY <2>1, <1>1, <1>2, WidthAssumption DEF Frontier, Task, Wanted
    <3> QED
      BY <3>1, <1>2, WidthAssumption
  <2>2. CASE tasks # <<>>
    <3>1. Len(tasks) \in 1..Len(tasks)
      BY <2>2, <1>1
    <3>2. all[Len(all)] = tasks[Len(tasks)]
      BY <3>1, <1>2
    <3> QED
      BY <2>2, <3>2 DEF Partition
  <2> QED
    BY <2>1, <2>2
<1> QED
  BY <1>2, <1>3, <1>4, <1>5, <1>6, <1>7, <1>8 DEF Partition, all

(* What is left after the first task.                                      *)
LEMMA TailPartition ==
    ASSUME NEW tasks, NEW density, Partition(tasks, density), tasks # <<>>
    PROVE  /\ GoodTask(Head(tasks), density)
           /\ Partition(Tail(tasks), density)
           /\ Frontier(Tail(tasks)) = Head(tasks).to + 1
           /\ Frontier(tasks) = Head(tasks).from
<1> DEFINE rest == Tail(tasks)
<1>1. /\ tasks \in Seq(Task) /\ Len(tasks) \in Nat \ {0}
      /\ Head(tasks) = tasks[1] /\ 1 \in 1..Len(tasks)
  BY DEF Partition
<1>2. /\ rest \in Seq(Task) /\ Len(rest) = Len(tasks) - 1
      /\ \A i \in 1..Len(rest) : rest[i] = tasks[i + 1]
  BY <1>1
<1>3. GoodTask(Head(tasks), density)
  BY <1>1 DEF Partition
<1>4. Frontier(tasks) = Head(tasks).from
  BY DEF Frontier
<1> HIDE DEF rest
<1>5. ASSUME NEW i \in 1..Len(rest)
      PROVE  GoodTask(rest[i], density)
  <2>1. i + 1 \in 1..Len(tasks) /\ rest[i] = tasks[i + 1]
    BY <1>1, <1>2
  <2> QED
    BY <2>1 DEF Partition
<1>6. ASSUME NEW i \in 1..(Len(rest) - 1)
      PROVE  rest[i].to + 1 = rest[i + 1].from
  <2>1. i + 1 \in 1..(Len(tasks) - 1)
    BY <1>1, <1>2
  <2>2. rest[i] = tasks[i + 1] /\ rest[i + 1] = tasks[(i + 1) + 1]
    BY <1>1, <1>2
  <2> QED
    BY <2>1, <2>2 DEF Partition
<1>7. rest # <<>> => rest[Len(rest)].to = ToBlock
  <2> SUFFICES ASSUME rest # <<>>
               PROVE  rest[Len(rest)].to = ToBlock
    OBVIOUS
  <2>1. Len(rest) \in 1..Len(rest)
    BY <1>2
  <2>2. rest[Len(rest)] = tasks[Len(tasks)]
    BY <2>1, <1>1, <1>2
  <2> QED
    BY <2>2 DEF Partition
<1>8. Frontier(rest) = Head(tasks).to + 1
  <2>1. CASE rest = <<>>
    <3>1. Len(tasks) = 1
      BY <2>1, <1>1, <1>2
    <3> QED
      BY <2>1, <3>1, <1>1 DEF Frontier, Partition
  <2>2. CASE rest # <<>>
    <3>1. Len(rest) \in Nat /\ Len(rest) # 0
      BY <2>2, <1>2
    <3>2. 1 \in 1..Len(rest) /\ Head(rest) = rest[1] /\ rest[1] = tasks[2]
      BY <3>1, <2>2, <1>2
    <3>3. 1 \in 1..(Len(tasks) - 1)
      BY <3>1, <1>1, <1>2
    <3>4. tasks[1].to + 1 = tasks[1 + 1].from
      BY <3>3 DEF Partition
    <3> QED
      BY <2>2, <3>2, <3>4, <1>1 DEF Frontier
  <2> QED
    BY <2>1, <2>2
<1> QED
  BY <1>2, <1>3, <1>4, <1>5, <1>6, <1>7, <1>8 DEF Partition, rest

(* Tasks are put in front of others one after the other, or together.      *)
LEMMA ConcatTasks ==
    \A s, t, u \in Seq(Task) : (s \o t) \o u = s \o (t \o u)
<1> SUFFICES ASSUME NEW s \in Seq(Task), NEW t \in Seq(Task), NEW u \in Seq(Task)
             PROVE  (s \o t) \o u = s \o (t \o u)
  OBVIOUS
<1> QED
  BY ConcatAssociative

(* A dense block in the first task: what lies around it, and the rest.     *)
LEMMA AroundPartition ==
    ASSUME NEW tasks, NEW density, Partition(tasks, density), tasks # <<>>,
           NEW n \in Head(tasks).from..Head(tasks).to, density[n] > MaxResults
    PROVE  /\ Partition(Around(Head(tasks), n) \o Tail(tasks), density)
           /\ Frontier(Around(Head(tasks), n) \o Tail(tasks)) = Frontier(tasks)
<1> DEFINE t == Head(tasks)
           rest == Tail(tasks)
           dense == DenseTask(n)
           left == RangeTask(t.from, n - 1)
           right == RangeTask(n + 1, t.to)
           Left == IF n > t.from THEN <<left>> ELSE <<>>
           Right == IF n < t.to THEN <<right>> ELSE <<>>
<1>1. /\ GoodTask(t, density) /\ t \in Task
      /\ Partition(rest, density) /\ rest \in Seq(Task) /\ Frontier(rest) = t.to + 1
      /\ Frontier(tasks) = t.from
  BY TailPartition DEF Partition, GoodTask
<1>2. /\ t.from \in Wanted /\ t.to \in Wanted /\ t.from \in Int /\ t.to \in Int
      /\ n \in Int /\ t.from <= n /\ n <= t.to
  BY <1>1, WidthAssumption DEF Task, Wanted
<1>3. GoodTask(dense, density) /\ dense.from = n /\ dense.to = n
  BY <1>2, WidthAssumption DEF GoodTask, DenseTask, Task, Wanted
<1>4. n > t.from => GoodTask(left, density) /\ left.from = t.from /\ left.to = n - 1
  BY <1>2, WidthAssumption DEF GoodTask, RangeTask, Task, Wanted
<1>5. n < t.to => GoodTask(right, density) /\ right.from = n + 1 /\ right.to = t.to
  BY <1>2, WidthAssumption DEF GoodTask, RangeTask, Task, Wanted
<1>6. /\ Left \in Seq(Task) /\ Right \in Seq(Task) /\ <<dense>> \in Seq(Task)
  BY <1>3, <1>4, <1>5 DEF GoodTask
<1>7. Around(t, n) = (Left \o <<dense>>) \o Right
  BY DEF Around
<1> HIDE DEF left, right, dense, t, rest
<1>8. Around(t, n) \o rest = Left \o (<<dense>> \o (Right \o rest))
  <2> DEFINE Mid == <<dense>>
  <2> HIDE DEF Mid, Left, Right
  <2>0. Left \in Seq(Task) /\ Mid \in Seq(Task)
    BY <1>6 DEF Mid
  <2>1. Left \o Mid \in Seq(Task) /\ Right \o rest \in Seq(Task)
    BY <2>0, <1>1, <1>6
  <2>2. ((Left \o Mid) \o Right) \o rest = (Left \o Mid) \o (Right \o rest)
    BY <2>1, <1>1, <1>6, ConcatTasks
  <2>3. (Left \o Mid) \o (Right \o rest) = Left \o (Mid \o (Right \o rest))
    BY <2>0, <2>1, ConcatTasks
  <2> QED
    BY <1>7, <2>2, <2>3 DEF Mid
<1>9. Partition(Right \o rest, density) /\ Frontier(Right \o rest) = n + 1
  <2>1. CASE n < t.to
    BY <2>1, <1>1, <1>5, ConsPartition
  <2>2. CASE ~(n < t.to)
    <3>1. Right \o rest = rest
      BY <2>2, <1>1, ConcatEmptySeq
    <3>2. n = t.to
      BY <2>2, <1>2
    <3> QED
      BY <3>1, <3>2, <1>1
  <2> QED
    BY <2>1, <2>2
<1> HIDE DEF Right
<1>10. /\ Partition(<<dense>> \o (Right \o rest), density)
       /\ Frontier(<<dense>> \o (Right \o rest)) = n
  BY <1>3, <1>9, ConsPartition
<1>11. CASE n > t.from
  <2>1. Frontier(<<dense>> \o (Right \o rest)) = left.to + 1
    BY <1>2, <1>4, <1>10, <1>11
  <2> QED
    BY <2>1, <1>1, <1>4, <1>8, <1>10, <1>11, ConsPartition DEF t, rest
<1>12. CASE ~(n > t.from)
  <2>1. <<dense>> \o (Right \o rest) \in Seq(Task)
    BY <1>10 DEF Partition
  <2>2. Around(t, n) \o rest = <<dense>> \o (Right \o rest)
    BY <2>1, <1>8, <1>12, ConcatEmptySeq
  <2>3. n = t.from
    BY <1>2, <1>12
  <2> QED
    BY <2>2, <2>3, <1>1, <1>10 DEF t, rest
<1> QED
  BY <1>11, <1>12

-----------------------------------------------------------------------------
(* The steps.                                                              *)

(* A call stays within its budget.                                         *)
LEMMA CallStep ==
    ASSUME CallInv, [Next]_vars
    PROVE  CallInv'
<1> USE RetryAssumption DEF CallInv
<1>1. call' = FirstAttempt => CallInv'
  BY DEF FirstAttempt
<1>2. call' = call => CallInv'
  OBVIOUS
<1>3. ASSUME NEW e \in Error, TriedAgain(e)
      PROVE  CallInv'
  <2>1. PICK d \in Durations(e), w \in Waits :
            /\ InBudget(d, w)
            /\ call' = [elapsed |-> call.elapsed + d + w, interval |-> NextInterval,
                        waiting |-> TRUE]
    BY <1>3 DEF TriedAgain
  <2>2. d \in Nat /\ w \in Nat
    BY DEF Durations, Waits
  <2>3. NextInterval \in InitialInterval..MaxInterval
    BY DEF NextInterval
  <2> QED
    BY <2>1, <2>2, <2>3 DEF InBudget
<1>4. WaitEnds => CallInv'
  <2> SUFFICES ASSUME WaitEnds
               PROVE  call'.elapsed = call.elapsed /\ call'.interval = call.interval
    OBVIOUS
  <2> QED
    BY DEF WaitEnds
<1> QED
  BY <1>1, <1>2, <1>3, <1>4
  DEF Next, Step, vars, StartWalk, OpenWindow, CloseWindow, WalkEnds, WindowAnswered,
      WindowRefused, SingleBlockOverflow, ReadReceipts, AttemptFails, BackoffEnds, CallFails,
      FetchEnds, FetchFails, Succeeded, Failed, RefusalReturned

(* The first task is a stretch of the range.                               *)
LEMMA HeadTask ==
    ASSUME TasksInv, todo # <<>>
    PROVE  /\ Head(todo) \in Task
           /\ Head(todo).from \in Nat /\ Head(todo).to \in Nat
           /\ FromBlock <= Head(todo).from /\ Head(todo).from <= Head(todo).to
           /\ Head(todo).to <= ToBlock
           /\ Frontier(todo) = Head(todo).from
<1>1. GoodTask(Head(todo), provider.density) /\ Frontier(todo) = Head(todo).from
  BY TailPartition DEF TasksInv
<1> QED
  BY <1>1, WidthAssumption DEF GoodTask, Task, Wanted

(* The window asked for: it lies in the outer window, and spans at most    *)
(* the step and what is left of the outer window.                          *)
LEMMA AskedToIs ==
    ASSUME TasksInv, WalkInv, Asking
    PROVE  /\ walk.pos \in Wanted /\ AskedTo \in Wanted
           /\ walk.pos <= AskedTo /\ AskedTo <= walk.end
           /\ AskedTo = IF walk.pos + walk.cur - 1 <= walk.end
                        THEN walk.pos + walk.cur - 1 ELSE walk.end
           /\ todo # <<>> /\ Head(todo).kind = "range"
           /\ walk.pos \in Head(todo).from..Head(todo).to
<1>1. todo # <<>> /\ Head(todo).kind = "range"
  BY DEF Asking, WalkInv
<1>2. /\ walk.pos \in Nat /\ walk.end \in Nat /\ walk.cur \in Nat /\ walk.max \in Nat
      /\ walk.step \in Nat /\ walk.at \in Nat
  BY DEF WalkInv, WalkRecord
<1>3. /\ walk.pos <= walk.end /\ walk.end <= Head(todo).to
      /\ Head(todo).from <= walk.at /\ walk.at <= walk.pos
      /\ 1 <= walk.cur /\ walk.cur <= walk.max /\ walk.max <= walk.step
      /\ walk.step <= DefaultStep
  BY DEF Asking, WalkInv
<1>4. /\ Head(todo).from \in Nat /\ Head(todo).to \in Nat
      /\ FromBlock <= Head(todo).from /\ Head(todo).to <= ToBlock
  BY <1>1, HeadTask
<1>5. walk.pos <= ToBlock /\ walk.cur \in 1..DefaultStep
  BY <1>2, <1>3, <1>4, WidthAssumption
<1>6. AskedTo = Smaller(walk.pos + walk.cur - 1, walk.end)
  BY <1>2, <1>5, WindowEndIs DEF AskedTo
<1>7. AskedTo = IF walk.pos + walk.cur - 1 <= walk.end
                THEN walk.pos + walk.cur - 1 ELSE walk.end
  BY <1>6 DEF Smaller
<1>8. AskedTo \in Nat /\ walk.pos <= AskedTo /\ AskedTo <= walk.end
  BY <1>2, <1>3, <1>7
<1>9. walk.pos \in Wanted /\ AskedTo \in Wanted
  BY <1>2, <1>3, <1>4, <1>8, WidthAssumption DEF Wanted
<1> QED
  BY <1>1, <1>2, <1>3, <1>4, <1>7, <1>8, <1>9

(* All but the call.                                                       *)
RangeInv == ProviderInv /\ TasksInv /\ WalkInv /\ SpanInv

(* A walk starts.                                                          *)
LEMMA StartWalkStep ==
    ASSUME RangeInv, StartWalk
    PROVE  RangeInv'
<1> USE DEF RangeInv
<1>1. ProviderInv' /\ TasksInv'
  BY DEF StartWalk, ProviderInv, TasksInv
<1>2. walk' = [op |-> "outer", at |-> Head(todo).from, step |-> InitialStep, end |-> 0, pos |-> 0,
               cur |-> 0, max |-> 0, got |-> NoLogs, refused |-> Width]
  BY DEF StartWalk, NoWalk
<1>3. /\ todo' = todo /\ todo # <<>> /\ Head(todo).kind = "range"
  BY DEF StartWalk
<1>4. NoLogs = Once(Head(todo).from, Head(todo).from - 1) /\ NoLogs \in [Wanted -> Nat]
  BY <1>3, HeadTask, OnceAndOnce DEF NoLogs
<1>5. WalkInv'
  BY <1>2, <1>3, <1>4, HeadTask, InitialStepIs, WidthAssumption DEF WalkInv, WalkRecord
<1>6. SpanInv'
  BY <1>2, InitialStepIs, WidthAssumption DEF SpanInv
<1> QED
  BY <1>1, <1>5, <1>6

(* The next outer window.                                                  *)
LEMMA OpenWindowStep ==
    ASSUME RangeInv, OpenWindow
    PROVE  RangeInv'
<1> USE DEF RangeInv
<1>1. ProviderInv' /\ TasksInv'
  BY DEF OpenWindow, ProviderInv, TasksInv
<1> DEFINE E == WindowEnd(walk.at, walk.step, Head(todo).to)
<1>2. /\ walk.op = "outer" /\ walk.at <= Head(todo).to /\ todo' = todo
      /\ walk' = [walk EXCEPT !.op = "inner", !.end = E,
                              !.pos = walk.at, !.cur = walk.step, !.max = walk.step]
  BY DEF OpenWindow
<1>3. /\ walk \in WalkRecord /\ todo # <<>> /\ walk.at \in Nat /\ walk.step \in 1..DefaultStep
      /\ walk.refused \in Nat
  BY <1>2 DEF WalkInv, WalkRecord
<1>4. E = Smaller(walk.at + walk.step - 1, Head(todo).to)
  <2>1. Head(todo).to \in Nat /\ Head(todo).to <= ToBlock
    BY <1>3, HeadTask
  <2>2. walk.at <= ToBlock
    BY <2>1, <1>2, <1>3, WidthAssumption
  <2> QED
    BY <2>1, <2>2, <1>3, WindowEndIs
<1> HIDE DEF E
<1>5. /\ E \in Nat /\ walk.at <= E /\ E <= Head(todo).to
      /\ E = Head(todo).to \/ E = walk.at + walk.step - 1
  BY <1>2, <1>3, <1>4, HeadTask DEF Smaller
<1>6. /\ walk'.op = "inner" /\ walk'.at = walk.at /\ walk'.step = walk.step /\ walk'.end = E
      /\ walk'.pos = walk.at /\ walk'.cur = walk.step /\ walk'.max = walk.step
      /\ walk'.got = walk.got /\ walk'.refused = walk.refused /\ walk' \in WalkRecord
  BY <1>2, <1>3, <1>5 DEF WalkRecord
<1>7. WalkInv'
  BY <1>2, <1>3, <1>5, <1>6 DEF WalkInv
<1>8. SpanInv'
  BY <1>2, <1>3, <1>5, <1>6 DEF SpanInv
<1> QED
  BY <1>1, <1>7, <1>8

(* The window is done: a discovered cap holds for the next one.            *)
LEMMA CloseWindowStep ==
    ASSUME RangeInv, CloseWindow
    PROVE  RangeInv'
<1> USE DEF RangeInv
<1>1. ProviderInv' /\ TasksInv'
  BY DEF CloseWindow, ProviderInv, TasksInv
<1>2. /\ walk.op = "inner" /\ walk.pos > walk.end /\ todo' = todo
      /\ walk' = [walk EXCEPT !.op = "outer", !.at = Wrap(walk.end + 1), !.step = NextStep,
                              !.end = 0, !.pos = 0, !.cur = 0, !.max = 0]
  BY DEF CloseWindow
<1>3. /\ walk \in WalkRecord /\ todo # <<>> /\ walk.end \in Nat /\ walk.step \in 1..DefaultStep
      /\ walk.refused \in Nat /\ walk.max \in 1..walk.step /\ walk.pos \in Nat
      /\ walk.pos = walk.end + 1 /\ walk.end <= Head(todo).to /\ walk.at \in Nat
      /\ walk.at <= walk.end /\ Head(todo).from <= walk.at
  BY <1>2 DEF WalkInv, WalkRecord
<1>4. Wrap(walk.end + 1) = walk.end + 1
  BY <1>3, HeadTask, WrapSmall, WidthAssumption, RoomAssumption
<1>5. NextStep = walk.max
  BY <1>3 DEF NextStep, Smaller
<1>6. /\ walk'.op = "outer" /\ walk'.at = walk.end + 1 /\ walk'.step = walk.max /\ walk'.end = 0
      /\ walk'.pos = 0 /\ walk'.cur = 0 /\ walk'.max = 0
      /\ walk'.got = walk.got /\ walk'.refused = walk.refused /\ walk' \in WalkRecord
  BY <1>2, <1>3, <1>4, <1>5 DEF WalkRecord
<1>7. Head(todo).from \in Nat /\ Head(todo).to \in Nat /\ Head(todo).kind = "range"
  BY <1>2, <1>3, HeadTask DEF WalkInv
<1>8. walk.got = Once(Head(todo).from, walk.end) /\ walk.end + 1 - 1 = walk.end
  BY <1>2, <1>3 DEF WalkInv
<1>9. WalkInv'
  <2>1. /\ Head(todo).from <= walk.end + 1 /\ walk.end + 1 <= Head(todo).to + 1
        /\ 1 <= walk.max /\ walk.max <= DefaultStep
    BY <1>3, <1>7, WidthAssumption
  <2> QED
    BY <2>1, <1>2, <1>3, <1>6, <1>7, <1>8 DEF WalkInv
<1>10. SpanInv'
  BY <1>2, <1>3, <1>6, <1>7 DEF SpanInv
<1> QED
  BY <1>1, <1>9, <1>10

(* The walk is done: its blocks are in the result, the task is not left.   *)
LEMMA WalkEndsStep ==
    ASSUME RangeInv, WalkEnds
    PROVE  RangeInv'
<1> USE DEF RangeInv
<1>1. /\ walk.op = "outer" /\ walk.at > Head(todo).to /\ todo' = Tail(todo) /\ walk' = NoWalk
      /\ result' = AddAll(result, walk.got) /\ provider' = provider /\ outcome' = outcome
      /\ todo # <<>>
  BY DEF WalkEnds, WalkInv
<1>2. /\ Head(todo).from \in Nat /\ Head(todo).to \in Nat /\ walk.at \in Nat
      /\ walk.at = Head(todo).to + 1 /\ FromBlock <= Head(todo).from
      /\ Head(todo).from <= Head(todo).to
  BY <1>1, HeadTask DEF WalkInv, WalkRecord
<1>3. /\ Partition(Tail(todo), provider.density) /\ Frontier(Tail(todo)) = Head(todo).to + 1
  BY <1>1, TailPartition DEF TasksInv
<1>4. /\ walk.got = Once(Head(todo).from, Head(todo).to)
      /\ outcome = "running" /\ result = Once(FromBlock, Head(todo).from - 1)
  BY <1>1, <1>2, HeadTask DEF WalkInv, TasksInv
<1>5. result' = Once(FromBlock, Head(todo).to)
  <2>1. FromBlock \in Nat /\ Head(todo).from <= Head(todo).to + 1
    BY <1>2, WidthAssumption
  <2>2. AddAll(Once(FromBlock, Head(todo).from - 1), Once(Head(todo).from, Head(todo).to))
            = Once(FromBlock, Head(todo).to)
    BY <2>1, <1>2, OnceAndOnce
  <2> QED
    BY <2>2, <1>1, <1>4
<1>6. ProviderInv' /\ TasksInv'
  BY <1>1, <1>2, <1>3, <1>4, <1>5 DEF ProviderInv, TasksInv
<1>7. WalkInv' /\ SpanInv'
  BY <1>1, WidthAssumption DEF WalkInv, SpanInv, NoWalk, WalkRecord, NoLogs
<1> QED
  BY <1>6, <1>7

(* The provider answers: each block of the window once more, and on.       *)
LEMMA WindowAnsweredStep ==
    ASSUME RangeInv, WindowAnswered
    PROVE  RangeInv'
<1> USE DEF RangeInv
<1>1. ProviderInv' /\ TasksInv'
  BY DEF WindowAnswered, ProviderInv, TasksInv
<1> DEFINE A == AskedTo
           C == Smaller(Wrap(walk.cur * 2), walk.max)
           G == AddOnce(walk.got, walk.pos..A)
<1>2. /\ Asking /\ walk.op = "inner" /\ walk.pos <= walk.end /\ Accepted(walk.pos, A)
      /\ walk' = [walk EXCEPT !.got = G, !.pos = Wrap(A + 1), !.cur = C]
      /\ todo' = todo /\ provider' = provider
  BY DEF WindowAnswered, Asking
<1>3. /\ walk \in WalkRecord /\ walk.pos \in Nat /\ walk.end \in Nat /\ walk.cur \in Nat
      /\ walk.max \in Nat /\ walk.step \in Nat /\ walk.at \in Nat /\ walk.refused \in Nat
      /\ 1 <= walk.cur /\ walk.cur <= walk.max /\ walk.max <= walk.step
      /\ walk.step <= DefaultStep /\ walk.at <= walk.pos /\ walk.end <= Head(todo).to
      /\ Head(todo).from <= walk.at
      /\ walk.got = Once(Head(todo).from, walk.pos - 1)
  BY <1>2 DEF WalkInv, WalkRecord
<1>4. /\ A \in Wanted /\ A \in Nat /\ walk.pos <= A /\ A <= walk.end /\ A <= ToBlock
      /\ A = IF walk.pos + walk.cur - 1 <= walk.end THEN walk.pos + walk.cur - 1 ELSE walk.end
  BY <1>2, AskedToIs, WidthAssumption DEF Wanted
<1>5. /\ todo # <<>> /\ Head(todo).kind = "range"
      /\ Head(todo).from \in Nat /\ Head(todo).to \in Nat
  BY <1>2, AskedToIs, HeadTask
<1>6. A - walk.pos <= provider.span /\ provider.span \in Nat
  BY <1>2, <1>3, <1>4 DEF Accepted, SpanRefused, ProviderInv
<1> HIDE DEF A
<1>7. Wrap(A + 1) = A + 1
  BY <1>4, WrapSmall, WidthAssumption, RoomAssumption
<1>8. C \in Nat /\ 1 <= C /\ C <= walk.max /\ C <= 2 * walk.cur
  <2>1. walk.cur * 2 \in 0..(Width - 1)
    BY <1>3, WidthAssumption, RoomAssumption
  <2>2. Wrap(walk.cur * 2) = walk.cur * 2
    BY <2>1, WrapSmall
  <2> QED
    BY <2>2, <1>3 DEF Smaller
<1> HIDE DEF C
<1>9. G = Once(Head(todo).from, A) /\ G \in [Wanted -> Nat]
  <2> DEFINE f == Head(todo).from
             k == walk.pos
  <2>1. f \in Nat /\ k \in Nat /\ A \in Nat /\ f <= k /\ k <= A + 1
    BY <1>3, <1>4, <1>5
  <2>2. walk.got = Once(f, k - 1)
    BY <1>3
  <2> HIDE DEF f, k
  <2>3. /\ AddOnce(Once(f, k - 1), k..A) = Once(f, A)
        /\ Once(f, A) \in [Wanted -> Nat]
    BY <2>1, OnceAndOnce
  <2> QED
    BY <2>2, <2>3 DEF f, k
<1> HIDE DEF G
<1>10. /\ walk'.op = "inner" /\ walk'.at = walk.at /\ walk'.step = walk.step
       /\ walk'.end = walk.end /\ walk'.pos = A + 1 /\ walk'.cur = C /\ walk'.max = walk.max
       /\ walk'.got = G /\ walk'.refused = walk.refused /\ walk' \in WalkRecord
  <2>1. walk' = [walk EXCEPT !.got = G, !.pos = A + 1, !.cur = C]
    BY <1>2, <1>7
  <2>2. G \in [Wanted -> Nat] /\ A + 1 \in Nat /\ C \in Nat
    BY <1>4, <1>8, <1>9
  <2> QED
    BY <2>1, <2>2, <1>2, <1>3 DEF WalkRecord
<1>11. WalkInv'
  <2>1. walk'.pos - 1 = A
    BY <1>4, <1>10
  <2>2. walk.at <= A + 1 /\ A + 1 <= walk.end + 1 /\ walk.at <= walk.end
    BY <1>3, <1>4
  <2>3. walk.at <= Head(todo).to + 1
    BY <2>2, <1>3, <1>5
  <2> QED
    BY <2>1, <2>2, <2>3, <1>2, <1>3, <1>5, <1>8, <1>9, <1>10 DEF WalkInv
<1>12. SpanInv'
  <2>1. \/ walk.max - 1 < walk.refused
        \/ walk.end = Head(todo).to /\ walk.end - (A + 1) < walk.refused
    BY <1>2, <1>3, <1>4 DEF SpanInv
  <2>2. A + 1 <= walk.end => C <= 2 * (provider.span + 1)
    BY <1>3, <1>4, <1>6, <1>8
  <2>3. \/ walk.max - 1 < walk.refused
        \/ /\ walk.end = Head(todo).to /\ walk.end - (A + 1) <= walk.refused
           /\ walk.end - (A + 1) = walk.refused => A + 1 = walk.at
    BY <2>1, <1>3, <1>4
  <2> QED
    BY <2>2, <2>3, <1>2, <1>10 DEF SpanInv
<1> QED
  BY <1>1, <1>11, <1>12

(* The provider refuses more than one block: the step is halved, and so is *)
(* its ceiling if the span was too wide.                                   *)
LEMMA WindowRefusedStep ==
    ASSUME RangeInv, WindowRefused
    PROVE  RangeInv'
<1> USE DEF RangeInv
<1>1. ProviderInv' /\ TasksInv'
  BY DEF WindowRefused, ProviderInv, TasksInv
<1> DEFINE A == AskedTo
           H == Halved
           R == Smaller(walk.refused, A - walk.pos)
<1>2. /\ Asking /\ walk.op = "inner" /\ walk.pos <= walk.end /\ walk.pos # A
      /\ todo' = todo /\ provider' = provider
      /\ \/ /\ SpanRefused(walk.pos, A)
            /\ walk' = [walk EXCEPT !.cur = H, !.max = H, !.refused = R]
         \/ walk' = [walk EXCEPT !.cur = H]
  BY DEF WindowRefused, Asking, SingleBlock
<1>3. /\ walk \in WalkRecord /\ walk.pos \in Nat /\ walk.end \in Nat /\ walk.cur \in Nat
      /\ walk.max \in Nat /\ walk.step \in Nat /\ walk.at \in Nat /\ walk.refused \in Nat
      /\ 1 <= walk.cur /\ walk.cur <= walk.max /\ walk.max <= walk.step
      /\ walk.got = Once(Head(todo).from, walk.pos - 1)
  BY <1>2 DEF WalkInv, WalkRecord
<1>4. /\ A \in Nat /\ walk.pos <= A /\ A <= walk.end
      /\ A = IF walk.pos + walk.cur - 1 <= walk.end THEN walk.pos + walk.cur - 1 ELSE walk.end
      /\ walk.end <= Head(todo).to
  BY <1>2, AskedToIs, WidthAssumption DEF Wanted, WalkInv
<1>5. H \in Nat /\ 1 <= H /\ 2 * H <= walk.cur
  <2>1. walk.cur > 1
    BY <1>2, <1>3, <1>4
  <2>2. /\ walk.cur \div 2 \in Nat
        /\ 2 * (walk.cur \div 2) <= walk.cur /\ walk.cur <= 2 * (walk.cur \div 2) + 1
    BY <1>3, HalfOf
  <2> QED
    BY <2>1, <2>2, <1>3 DEF Halved
<1>6. SpanRefused(walk.pos, A) => A - walk.pos > provider.span
  BY DEF SpanRefused
<1>7. provider.span \in Nat /\ Head(todo).to \in Nat
  BY <1>2, AskedToIs, HeadTask DEF ProviderInv
<1> HIDE DEF A, H
<1>8. R \in Nat /\ R <= walk.refused /\ R <= A - walk.pos /\ (R = walk.refused \/ R = A - walk.pos)
  BY <1>3, <1>4 DEF Smaller
<1> HIDE DEF R
<1>9. CASE walk' = [walk EXCEPT !.cur = H]
  <2>1. /\ walk'.op = "inner" /\ walk'.at = walk.at /\ walk'.step = walk.step
        /\ walk'.end = walk.end /\ walk'.pos = walk.pos /\ walk'.cur = H /\ walk'.max = walk.max
        /\ walk'.got = walk.got /\ walk'.refused = walk.refused /\ walk' \in WalkRecord
    BY <1>2, <1>3, <1>5, <1>9 DEF WalkRecord
  <2>2. WalkInv'
    BY <2>1, <1>2, <1>3, <1>5 DEF WalkInv
  <2>3. SpanInv'
    BY <2>1, <1>2, <1>3, <1>5, <1>7 DEF SpanInv
  <2> QED
    BY <2>2, <2>3, <1>1
<1>10. CASE /\ SpanRefused(walk.pos, A)
            /\ walk' = [walk EXCEPT !.cur = H, !.max = H, !.refused = R]
  <2>1. /\ walk'.op = "inner" /\ walk'.at = walk.at /\ walk'.step = walk.step
        /\ walk'.end = walk.end /\ walk'.pos = walk.pos /\ walk'.cur = H /\ walk'.max = H
        /\ walk'.got = walk.got /\ walk'.refused = R /\ walk' \in WalkRecord
    BY <1>2, <1>3, <1>5, <1>8, <1>10 DEF WalkRecord
  <2>2. WalkInv'
    BY <2>1, <1>2, <1>3, <1>5 DEF WalkInv
  <2>3. \/ H - 1 < R
        \/ /\ walk.end = Head(todo).to /\ walk.end - walk.pos <= R
           /\ walk.pos = walk.at
    <3>1. CASE walk.pos + walk.cur - 1 <= walk.end
      <4>1. A - walk.pos = walk.cur - 1
        BY <3>1, <1>3, <1>4
      <4>2. walk.max - 1 < walk.refused \/ walk.cur - 1 <= walk.refused
        BY <3>1, <1>2, <1>3 DEF SpanInv
      <4> QED
        BY <4>1, <4>2, <1>3, <1>5, <1>8
    <3>2. CASE ~(walk.pos + walk.cur - 1 <= walk.end)
      <4>1. A = walk.end
        BY <3>2, <1>4
      <4>2. CASE walk.end = Head(todo).to /\ walk.pos = walk.at
        BY <4>1, <4>2, <3>2, <1>2, <1>3, <1>8 DEF SpanInv
      <4>3. CASE ~(walk.end = Head(todo).to /\ walk.pos = walk.at)
        <5>1. /\ walk.cur <= 2 * (provider.span + 1)
              /\ walk.max - 1 < walk.refused \/ walk.end - walk.pos <= walk.refused
          BY <4>3, <3>2, <1>2 DEF SpanInv
        <5>2. H <= provider.span + 1
          BY <5>1, <1>3, <1>5, <1>7
        <5> QED
          BY <4>1, <5>1, <5>2, <1>3, <1>4, <1>5, <1>6, <1>7, <1>8, <1>10
      <4> QED
        BY <4>2, <4>3
    <3> QED
      BY <3>1, <3>2
  <2>4. \/ walk.end = Head(todo).to /\ walk.pos = walk.at
        \/ walk.pos + H - 1 <= walk.end
        \/ H <= 2 * (provider.span + 1)
    BY <1>2, <1>3, <1>5, <1>7 DEF SpanInv
  <2>5. SpanInv'
    BY <2>1, <2>3, <2>4, <1>2 DEF SpanInv
  <2> QED
    BY <2>2, <2>5, <1>1
<1> QED
  BY <1>2, <1>9, <1>10

(* A dense block: the walk is given up, what is left is the same.          *)
LEMMA SingleBlockOverflowStep ==
    ASSUME RangeInv, SingleBlockOverflow
    PROVE  RangeInv'
<1> USE DEF RangeInv
<1>1. /\ Asking /\ walk.pos = AskedTo /\ ~Accepted(walk.pos, walk.pos)
      /\ todo' = Around(Head(todo), walk.pos) \o Tail(todo)
      /\ walk' = NoWalk /\ provider' = provider /\ result' = result /\ outcome' = outcome
  BY DEF SingleBlockOverflow, SingleBlock
<1>2. walk.pos \in Wanted /\ todo # <<>> /\ walk.pos \in Head(todo).from..Head(todo).to
  BY <1>1, AskedToIs
<1>3. provider.density[walk.pos] > MaxResults
  BY <1>1, <1>2, RefusedAlone
<1>4. Partition(todo', provider.density) /\ Frontier(todo') = Frontier(todo)
  BY <1>1, <1>2, <1>3, AroundPartition DEF TasksInv
<1>5. outcome = "running"
  BY <1>2 DEF TasksInv
<1>6. ProviderInv' /\ TasksInv'
  BY <1>1, <1>4, <1>5 DEF ProviderInv, TasksInv
<1>7. WalkInv' /\ SpanInv'
  BY <1>1, WidthAssumption DEF WalkInv, SpanInv, NoWalk, WalkRecord, NoLogs
<1> QED
  BY <1>6, <1>7

(* The block is read from its receipts.                                    *)
LEMMA ReadReceiptsStep ==
    ASSUME RangeInv, ReadReceipts
    PROVE  RangeInv'
<1> USE DEF RangeInv
<1>1. /\ walk.op = "none" /\ todo # <<>> /\ Head(todo).kind = "dense"
      /\ result' = AddOnce(result, {Head(todo).from}) /\ todo' = Tail(todo)
      /\ provider' = provider /\ walk' = walk /\ outcome' = outcome
  BY DEF ReadReceipts, Calling
<1>2. /\ Head(todo).from = Head(todo).to /\ Partition(Tail(todo), provider.density)
      /\ Frontier(Tail(todo)) = Head(todo).to + 1
  BY <1>1, TailPartition DEF TasksInv, GoodTask
<1>3. Head(todo).to \in Nat /\ FromBlock <= Head(todo).to /\ FromBlock \in Nat
  BY <1>1, <1>2, HeadTask, WidthAssumption
<1>4. outcome = "running" /\ result = Once(FromBlock, Head(todo).to - 1)
  BY <1>1, <1>2, HeadTask DEF TasksInv
<1>5. result' = Once(FromBlock, Head(todo).to)
  <2>1. {Head(todo).from} = Head(todo).to..Head(todo).to
    BY <1>2, <1>3
  <2>2. ASSUME NEW k \in Nat, FromBlock <= k
        PROVE  AddOnce(Once(FromBlock, k - 1), k..k) = Once(FromBlock, k)
    <3>1. FromBlock \in Nat /\ k <= k + 1
      BY WidthAssumption
    <3> QED
      BY <2>2, <3>1, OnceAndOnce
  <2> QED
    BY <2>1, <2>2, <1>1, <1>3, <1>4
<1>6. ProviderInv' /\ TasksInv'
  BY <1>1, <1>2, <1>3, <1>4, <1>5 DEF ProviderInv, TasksInv
<1>7. WalkInv' /\ SpanInv'
  BY <1>1 DEF WalkInv, SpanInv
<1> QED
  BY <1>6, <1>7

(* The fetch fails: nothing of it is left.                                 *)
LEMMA FailureStep ==
    ASSUME RangeInv, CallFails \/ FetchFails
    PROVE  RangeInv'
<1> USE DEF RangeInv
<1>1. /\ provider' = provider /\ todo' = <<>> /\ walk' = NoWalk /\ result' = NoLogs
      /\ outcome' = "failed"
  BY DEF CallFails, FetchFails
<1>2. ProviderInv' /\ TasksInv'
  BY <1>1 DEF ProviderInv, TasksInv, Partition
<1>3. WalkInv' /\ SpanInv'
  BY <1>1, WidthAssumption DEF WalkInv, SpanInv, NoWalk, WalkRecord, NoLogs
<1> QED
  BY <1>2, <1>3

(* The fetch ends with the whole range.                                    *)
LEMMA FetchEndsStep ==
    ASSUME RangeInv, FetchEnds
    PROVE  RangeInv'
<1> USE DEF RangeInv
<1>1. ProviderInv' /\ TasksInv' /\ WalkInv' /\ SpanInv'
  BY DEF FetchEnds, ProviderInv, TasksInv, WalkInv, SpanInv
<1> QED
  BY <1>1

(* An attempt or a wait changes the call alone.                            *)
LEMMA CallOnlyStep ==
    ASSUME RangeInv, UNCHANGED fetch
    PROVE  RangeInv'
BY DEF RangeInv, fetch, ProviderInv, TasksInv, WalkInv, SpanInv

-----------------------------------------------------------------------------
(* FetchInv is inductive.                                                  *)
LEMMA FetchInvHolds == Spec => []FetchInv
<1>1. Init => FetchInv
  <2> SUFFICES ASSUME Init
               PROVE  FetchInv
    OBVIOUS
  <2>1. CallInv
    BY RetryAssumption DEF Init, CallInv, FirstAttempt
  <2>2. ProviderInv
    BY ProviderAssumption DEF Init, ProviderInv
  <2>3. TasksInv
    <3> DEFINE t == RangeTask(FromBlock, ToBlock)
    <3>1. GoodTask(t, provider.density) /\ t.from = FromBlock /\ t.to = ToBlock
      BY WidthAssumption DEF GoodTask, RangeTask, Task, Wanted
    <3> HIDE DEF t
    <3>2. Partition(<<t>>, provider.density) /\ Frontier(<<t>>) = FromBlock
      BY <3>1, WidthAssumption DEF Partition, Frontier, GoodTask
    <3>3. Once(FromBlock, FromBlock - 1) = NoLogs
      BY OnceAndOnce, WidthAssumption
    <3> QED
      BY <3>2, <3>3 DEF Init, TasksInv, t
  <2>4. WalkInv /\ SpanInv
    BY WidthAssumption DEF Init, WalkInv, SpanInv, NoWalk, WalkRecord, NoLogs
  <2> QED
    BY <2>1, <2>2, <2>3, <2>4 DEF FetchInv
<1>2. FetchInv /\ [Next]_vars => FetchInv'
  <2> SUFFICES ASSUME FetchInv, [Next]_vars
               PROVE  CallInv' /\ RangeInv'
    BY DEF FetchInv, RangeInv
  <2>1. CallInv'
    BY CallStep DEF FetchInv
  <2>2. RangeInv
    BY DEF FetchInv, RangeInv
  <2>3. RangeInv'
    <3>1. CASE StartWalk
      BY <2>2, <3>1, StartWalkStep
    <3>2. CASE OpenWindow
      BY <2>2, <3>2, OpenWindowStep
    <3>3. CASE CloseWindow
      BY <2>2, <3>3, CloseWindowStep
    <3>4. CASE WalkEnds
      BY <2>2, <3>4, WalkEndsStep
    <3>5. CASE WindowAnswered
      BY <2>2, <3>5, WindowAnsweredStep
    <3>6. CASE WindowRefused
      BY <2>2, <3>6, WindowRefusedStep
    <3>7. CASE SingleBlockOverflow
      BY <2>2, <3>7, SingleBlockOverflowStep
    <3>8. CASE ReadReceipts
      BY <2>2, <3>8, ReadReceiptsStep
    <3>9. CASE AttemptFails
      BY <2>2, <3>9, CallOnlyStep DEF AttemptFails
    <3>10. CASE BackoffEnds
      BY <2>2, <3>10, CallOnlyStep DEF BackoffEnds
    <3>11. CASE CallFails
      BY <2>2, <3>11, FailureStep
    <3>12. CASE FetchEnds
      BY <2>2, <3>12, FetchEndsStep
    <3>13. CASE FetchFails
      BY <2>2, <3>13, FailureStep
    <3>14. CASE UNCHANGED vars
      BY <2>2, <3>14, CallOnlyStep DEF vars
    <3> QED
      BY <3>1, <3>2, <3>3, <3>4, <3>5, <3>6, <3>7, <3>8, <3>9, <3>10, <3>11, <3>12, <3>13,
         <3>14 DEF Next, Step
  <2> QED
    BY <2>1, <2>3
<1> QED
  BY <1>1, <1>2, PTL DEF Spec

(* Shapes: every height and step stays below the width, the tasks stay in  *)
(* order, and a window of more than one block never has a step of one, so  *)
(* that the error of a step halved to 0 is unreachable (walkWindow).       *)
THEOREM PaginatorTypeCorrect == Spec => []TypeOK
<1>1. FetchInv => TypeOK
  <2> SUFFICES ASSUME FetchInv
               PROVE  TypeOK
    OBVIOUS
  <2>1. ASSUME NEW i \in 1..Len(todo)
        PROVE  todo[i] \in Task /\ todo[i].from <= todo[i].to
    BY DEF FetchInv, TasksInv, Partition, GoodTask
  <2>2. ASSUME NEW i \in 1..(Len(todo) - 1)
        PROVE  todo[i].to < todo[i + 1].from
    <3>1. todo \in Seq(Task) /\ todo[i].to + 1 = todo[i + 1].from
      BY DEF FetchInv, TasksInv, Partition
    <3>2. i \in 1..Len(todo)
      BY <3>1
    <3>3. todo[i].to \in Int
      BY <2>1, <3>2, WidthAssumption DEF Task, Wanted
    <3> QED
      BY <3>1, <3>3
  <2>3. {walk.at, walk.step, walk.end, walk.pos, walk.cur, walk.max} \subseteq 0..(Width - 1)
    <3>1. CASE walk.op = "none"
      BY <3>1, WidthAssumption DEF FetchInv, WalkInv, NoWalk
    <3>2. CASE walk.op # "none"
      <4>1. /\ walk.op \in {"outer", "inner"}
            /\ walk.at \in Nat /\ walk.step \in Nat /\ walk.end \in Nat /\ walk.pos \in Nat
            /\ walk.cur \in Nat /\ walk.max \in Nat
        BY <3>2 DEF FetchInv, WalkInv, WalkRecord
      <4>2. todo # <<>> /\ walk.at <= Head(todo).to + 1 /\ walk.step <= DefaultStep
        BY <3>2 DEF FetchInv, WalkInv
      <4>3. Head(todo).to \in Nat /\ Head(todo).to <= ToBlock
        BY <4>2, HeadTask DEF FetchInv
      <4>4. \/ walk.end = 0 /\ walk.pos = 0 /\ walk.cur = 0 /\ walk.max = 0
            \/ /\ walk.pos <= walk.end + 1 /\ walk.end <= Head(todo).to
               /\ walk.cur <= walk.max /\ walk.max <= walk.step
        BY <4>1 DEF FetchInv, WalkInv
      <4> QED
        BY <4>1, <4>2, <4>3, <4>4, WidthAssumption, RoomAssumption
    <3> QED
      BY <3>1, <3>2
  <2>4. result \in [Wanted -> Nat] /\ walk.got \in [Wanted -> Nat]
    BY DEF FetchInv, TasksInv, WalkInv, WalkRecord, Once, NoLogs
  <2>5. Asking /\ ~SingleBlock => walk.cur > 1
    <3> SUFFICES ASSUME Asking, walk.pos # AskedTo
                 PROVE  walk.cur > 1
      BY DEF SingleBlock
    <3>1. /\ walk.pos \in Nat /\ walk.cur \in Nat /\ 1 <= walk.cur /\ walk.end \in Nat
      BY DEF FetchInv, WalkInv, WalkRecord, Asking
    <3>2. /\ walk.pos <= AskedTo /\ AskedTo <= walk.end
          /\ AskedTo = IF walk.pos + walk.cur - 1 <= walk.end
                       THEN walk.pos + walk.cur - 1 ELSE walk.end
      BY AskedToIs DEF FetchInv
    <3> QED
      BY <3>1, <3>2
  <2> QED
    BY <2>1, <2>2, <2>3, <2>4, <2>5 DEF TypeOK, FetchInv, CallInv, TasksInv
<1> QED
  BY <1>1, FetchInvHolds, PTL

(* The logs of every block of the range are fetched once, whatever the     *)
(* provider refuses, and however windows are halved, doubled, clipped and  *)
(* given up for a dense block (FetchIngestionLogs).                        *)
THEOREM FetchedOnce == Spec => []EachBlockOnce
<1>1. FetchInv => EachBlockOnce
  <2> SUFFICES ASSUME FetchInv, outcome = "done"
               PROVE  result = [n \in Wanted |-> 1]
    BY DEF EachBlockOnce
  <2>0. todo = <<>> /\ outcome # "failed"
    BY DEF FetchInv, TasksInv
  <2>1. result = Once(FromBlock, ToBlock + 1 - 1)
    BY <2>0, WidthAssumption DEF FetchInv, TasksInv, Frontier
  <2> QED
    BY <2>1, WidthAssumption DEF Once, Wanted
<1> QED
  BY <1>1, FetchInvHolds, PTL

(* Once a span is refused as too wide the walk asks for narrower windows   *)
(* only (maxStepSize, hoisted by FilterLogs), with one exception: the last *)
(* window of a range, cut short by its end, is asked for unchanged while   *)
(* the halved step still reaches that end.                                 *)
THEOREM NeverReprobed == Spec => []NoRefusedSpan
<1>1. FetchInv => NoRefusedSpan
  <2> SUFFICES ASSUME FetchInv, Asking
               PROVE  \/ AskedTo - walk.pos < walk.refused
                      \/ /\ AskedTo - walk.pos = walk.refused
                         /\ walk.pos = walk.at /\ AskedTo = Head(todo).to
    BY DEF NoRefusedSpan
  <2>1. /\ walk.pos \in Nat /\ walk.cur \in Nat /\ walk.max \in Nat /\ walk.end \in Nat
        /\ walk.refused \in Nat /\ walk.cur <= walk.max
    BY DEF FetchInv, WalkInv, WalkRecord, Asking
  <2>2. /\ walk.pos <= AskedTo /\ AskedTo <= walk.end
        /\ AskedTo = IF walk.pos + walk.cur - 1 <= walk.end
                     THEN walk.pos + walk.cur - 1 ELSE walk.end
    BY AskedToIs DEF FetchInv
  <2>3. \/ walk.max - 1 < walk.refused
        \/ /\ walk.end = Head(todo).to /\ walk.end - walk.pos <= walk.refused
           /\ walk.end - walk.pos = walk.refused => walk.pos = walk.at
    BY DEF FetchInv, SpanInv, Asking
  <2> QED
    BY <2>1, <2>2, <2>3
<1> QED
  BY <1>1, FetchInvHolds, PTL

(* Receipts are read of no block but one that alone has more logs than an  *)
(* answer may have (fetchAroundDenseBlock).                                *)
THEOREM OnlyDense == Spec => []ReceiptsOnlyIfDense
<1>1. FetchInv => ReceiptsOnlyIfDense
  BY DEF FetchInv, TasksInv, Partition, GoodTask, ReceiptsOnlyIfDense
<1> QED
  BY <1>1, FetchInvHolds, PTL
=============================================================================
