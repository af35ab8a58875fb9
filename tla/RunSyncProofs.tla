----------------------------- MODULE RunSyncProofs -----------------------------
(***************************************************************************)
(* Proofs about RunSync for any number of calls, branches and awaits.      *)
(* Wakeups are kept whatever the branches do; that RunSync returns in      *)
(* order assumes that no branch awaits on the context a RunSync that       *)
(* threw left behind (~AwaitsDirty).                                       *)
(***************************************************************************)
EXTENDS RunSync, SequenceTheorems, TLAPS

LEMMA Initially == Init => IInv
  BY RunSyncAssumption DEF Init, IInv, TypeOK, NoLostWakeup, Context, Item, LoopState, BranchState

LEMMA LoopTyped == TypeOK => \A c \in Call : loop[c] \in LoopState
  BY DEF TypeOK

(* A step that changes the locals of one loop. *)
LEMMA LoopChanged ==
  ASSUME TypeOK, NEW c \in Call, NEW pc, NEW r \in LoopState,
         loop' = [loop EXCEPT ![c] = r], r.pc = pc
  PROVE  /\ loop' \in [Call -> LoopState] /\ loop'[c].pc = pc
         /\ \A d \in Call : d # c => loop'[d] = loop[d]
  BY DEF TypeOK

(* The stack is never empty in a step of the innermost call. *)
LEMMA PoppedType ==
  ASSUME TypeOK, stack # <<>>
  PROVE  Popped \in Seq(Call)
  <1>1. stack \in Seq(Call) /\ Len(stack) \in Nat \ {0}
    BY EmptySeq DEF TypeOK
  <1>2. Len(stack) - 1 \in Nat /\ Len(stack) - 1 <= Len(stack)
    BY <1>1
  <1> QED BY <1>1, <1>2 DEF Popped

(* Post of the loop's own thread signals, that of a pool thread will.      *)
LEMMA PostHereKeeps ==
  ASSUME IInv, NEW c \in Call, NEW item \in Item, PostHere(c, item)
  PROVE  /\ queue' \in [Call -> Seq(Item)] /\ signalled' \in [Call -> BOOLEAN]
         /\ \A d \in Call : d # c => queue'[d] = queue[d] /\ signalled'[d] = signalled[d]
         /\ signalled'[c]
  BY DEF IInv, TypeOK, PostHere, Enqueued

LEMMA PostThereKeeps ==
  ASSUME IInv, NEW c \in Call, NEW item \in Item, PostThere(c, item)
  PROVE  /\ queue' \in [Call -> Seq(Item)] /\ posting' \in [Call -> Nat]
         /\ \A d \in Call : d # c => queue'[d] = queue[d] /\ posting'[d] = posting[d]
         /\ posting'[c] > 0
  BY DEF IInv, TypeOK, PostThere, Enqueued

LEMMA Preserved ==
  ASSUME IInv, [Next]_vars
  PROVE  IInv'
  <1> USE DEF IInv
  <1>1. CASE UNCHANGED vars
    BY <1>1 DEF vars, TypeOK, NoLostWakeup
  <1>2. CASE Finish
    BY <1>2 DEF Finish, vars, TypeOK, NoLostWakeup
  <1>3. ASSUME NEW c \in Call, Set(c) PROVE IInv'
    <2>1. TypeOK'
      BY <1>3 DEF Set, TypeOK
    <2>2. NoLostWakeup'
      <3> SUFFICES ASSUME NEW d \in Call, loop[d].pc \in {"empty", "wait"}, queue[d] # <<>>
                   PROVE  signalled'[d] \/ posting'[d] > 0
        BY <1>3 DEF Set, NoLostWakeup
      <3>1. CASE d = c
        BY <3>1, <1>3 DEF Set, TypeOK
      <3>2. CASE d # c
        BY <3>2, <1>3 DEF Set, TypeOK, NoLostWakeup
      <3> QED BY <3>1, <3>2
    <2> QED BY <2>1, <2>2
  <1>4. ASSUME NEW c \in Call, Begin(c) PROVE IInv'
    <2>1. /\ queue' \in [Call -> Seq(Item)] /\ signalled' \in [Call -> BOOLEAN]
          /\ \A d \in Call : d # c => queue'[d] = queue[d] /\ signalled'[d] = signalled[d]
      BY <1>4, PostHereKeeps DEF Begin, Item
    <2>2. loop' \in [Call -> LoopState] /\ loop'[c].pc = "take"
          /\ \A d \in Call : d # c => loop'[d] = loop[d]
      <3>1. loop[c] \in LoopState
        BY LoopTyped
      <3> DEFINE r == [loop[c] EXCEPT !.pc = "take", !.oldContext = current]
      <3>2. r \in LoopState /\ r.pc = "take"
        BY <3>1 DEF LoopState, Item, Context, TypeOK
      <3>3. loop' = [loop EXCEPT ![c] = r]
        BY <1>4 DEF Begin
      <3> QED BY <3>2, <3>3, LoopChanged
    <2>3. TypeOK'
      BY <1>4, <2>1, <2>2 DEF Begin, TypeOK, Context
    <2>4. NoLostWakeup'
      BY <1>4, <2>1, <2>2 DEF Begin, NoLostWakeup
    <2> QED BY <2>3, <2>4
  <1>5. ASSUME NEW c \in Call, Take(c) PROVE IInv'
    <2>1. CASE queue[c] # <<>>
      <3>1. Head(queue[c]) \in Item /\ Tail(queue[c]) \in Seq(Item)
        BY <2>1, HeadTailProperties DEF TypeOK
      <3>2. /\ loop' \in [Call -> LoopState] /\ loop'[c].pc = "run"
            /\ \A d \in Call : d # c => loop'[d] = loop[d]
        <4>1. loop[c] \in LoopState
          BY LoopTyped
        <4> DEFINE r == [loop[c] EXCEPT !.pc = "run", !.item = Head(queue[c])]
        <4>2. r \in LoopState /\ r.pc = "run"
          BY <4>1, <3>1 DEF LoopState, Item, Context, TypeOK
        <4>3. loop' = [loop EXCEPT ![c] = r]
          BY <1>5, <2>1 DEF Take
        <4> QED BY <4>2, <4>3, LoopChanged
      <3>3. /\ queue' \in [Call -> Seq(Item)]
            /\ \A d \in Call : d # c => queue'[d] = queue[d]
        BY <1>5, <2>1, <3>1 DEF Take, TypeOK
      <3> QED BY <1>5, <3>2, <3>3 DEF Take, TypeOK, NoLostWakeup
    <2>2. CASE queue[c] = <<>>
      <3>1. /\ loop' \in [Call -> LoopState]
            /\ \A d \in Call : d # c => loop'[d] = loop[d]
        <4>1. loop[c] \in LoopState
          BY LoopTyped
        <4> DEFINE r == [loop[c] EXCEPT !.pc = "empty"]
        <4>2. r \in LoopState /\ r.pc = "empty"
          BY <4>1 DEF LoopState, Item, Context, TypeOK
        <4>3. loop' = [loop EXCEPT ![c] = r]
          BY <1>5, <2>2 DEF Take
        <4> QED BY <4>2, <4>3, LoopChanged
      <3> QED BY <1>5, <2>2, <3>1 DEF Take, TypeOK, NoLostWakeup
    <2> QED BY <2>1, <2>2
  <1>6. ASSUME NEW c \in Call, Block(c) PROVE IInv'
    <2>1. loop' \in [Call -> LoopState]
          /\ \A d \in Call : loop'[d].pc \in {"empty", "wait"} => loop[d].pc \in {"empty", "wait"}
      <3>1. loop[c] \in LoopState /\ loop[c].pc = "empty"
        BY LoopTyped, <1>6 DEF Block
      <3> DEFINE r == [loop[c] EXCEPT !.pc = "wait"]
      <3>2. r \in LoopState /\ r.pc = "wait"
        BY <3>1 DEF LoopState, Item, Context, TypeOK
      <3>3. loop' = [loop EXCEPT ![c] = r]
        BY <1>6 DEF Block
      <3>4. /\ loop' \in [Call -> LoopState] /\ loop'[c].pc = "wait"
            /\ \A d \in Call : d # c => loop'[d] = loop[d]
        BY <3>2, <3>3, LoopChanged
      <3> QED BY <3>1, <3>4
    <2> QED BY <1>6, <2>1 DEF Block, TypeOK, NoLostWakeup
  <1>7. ASSUME NEW c \in Call, WaitOne(c) PROVE IInv'
    <2>1. /\ loop' \in [Call -> LoopState] /\ loop'[c].pc = "take"
          /\ signalled' \in [Call -> BOOLEAN]
          /\ \A d \in Call : d # c => loop'[d] = loop[d] /\ signalled'[d] = signalled[d]
      <3>1. loop[c] \in LoopState
        BY LoopTyped
      <3> DEFINE r == [loop[c] EXCEPT !.pc = "take"]
      <3>2. r \in LoopState /\ r.pc = "take"
        BY <3>1 DEF LoopState, Item, Context, TypeOK
      <3>3. loop' = [loop EXCEPT ![c] = r]
        BY <1>7 DEF WaitOne
      <3>4. /\ loop' \in [Call -> LoopState] /\ loop'[c].pc = "take"
            /\ \A d \in Call : d # c => loop'[d] = loop[d]
        BY <3>2, <3>3, LoopChanged
      <3> QED BY <1>7, <3>4 DEF WaitOne, TypeOK
    <2> QED BY <1>7, <2>1 DEF WaitOne, TypeOK, NoLostWakeup
  <1>8. ASSUME NEW c \in Call, RunEnd(c) \/ Return(c) \/ Catch(c) PROVE IInv'
    <2>1. PICK r \in LoopState : /\ loop' = [loop EXCEPT ![c] = r]
                                /\ r.pc \in {"take", "returned", "run"}
      <3>1. loop[c] \in LoopState
        BY LoopTyped
      <3>2. CASE RunEnd(c)
        <4> DEFINE r == [loop[c] EXCEPT !.done = TRUE, !.pc = "take"]
        <4>1. r \in LoopState /\ r.pc = "take"
          BY <3>1 DEF LoopState
        <4>2. loop' = [loop EXCEPT ![c] = r]
          BY <3>2 DEF RunEnd
        <4> QED BY <4>1, <4>2
      <3>3. CASE Return(c)
        <4> DEFINE r == [loop[c] EXCEPT !.pc = "returned"]
        <4>1. r \in LoopState /\ r.pc = "returned"
          BY <3>1 DEF LoopState
        <4>2. loop' = [loop EXCEPT ![c] = r]
          BY <3>3 DEF Return
        <4> QED BY <4>1, <4>2
      <3>4. CASE Catch(c)
        <4> DEFINE r == [loop[c] EXCEPT !.nested = "caught"]
        <4>1. r \in LoopState /\ r.pc = "run"
          BY <3>1, <3>4 DEF LoopState, Catch, Running
        <4>2. loop' = [loop EXCEPT ![c] = r]
          BY <3>4 DEF Catch
        <4> QED BY <4>1, <4>2
      <3> QED BY <1>8, <3>2, <3>3, <3>4
    <2>3. /\ loop' \in [Call -> LoopState] /\ loop'[c].pc \in {"take", "returned", "run"}
          /\ \A d \in Call : d # c => loop'[d] = loop[d]
      BY <2>1, LoopChanged
    <2>2. current' \in Context /\ stack' \in Seq(Call)
      BY <1>8, PoppedType DEF RunEnd, Return, Catch, TypeOK, LoopState, Innermost, ContextAfter
    <2> QED BY <1>8, <2>2, <2>3 DEF RunEnd, Return, Catch, TypeOK, NoLostWakeup
  <1>9. ASSUME NEW c \in Call, Throw(c) PROVE IInv'
    <2>1. \A d \in Call : loop'[d] \in LoopState
             /\ (loop'[d].pc \in {"empty", "wait"} => loop[d].pc \in {"empty", "wait"})
      <3> SUFFICES ASSUME NEW d \in Call
                   PROVE  loop'[d] \in LoopState
                     /\ (loop'[d].pc \in {"empty", "wait"} => loop[d].pc \in {"empty", "wait"})
        OBVIOUS
      <3>1. loop[d] \in LoopState
        BY DEF TypeOK
      <3>2. \/ loop'[d] = [loop[d] EXCEPT !.pc = "threw"]
            \/ loop'[d] = [loop[d] EXCEPT !.nested = "threw"]
            \/ loop'[d] = loop[d]
        BY <1>9 DEF Throw
      <3> QED BY <3>1, <3>2 DEF LoopState
    <2>2. loop' \in [Call -> LoopState]
      BY <1>9, <2>1 DEF Throw
    <2>3. stack' \in Seq(Call)
      BY <1>9, PoppedType DEF Throw, Innermost
    <2> QED BY <1>9, <2>1, <2>2, <2>3 DEF Throw, TypeOK, NoLostWakeup
  <1>10. ASSUME NEW c \in Call, RunFinish(c) PROVE IInv'
    <2>1. /\ queue' \in [Call -> Seq(Item)] /\ signalled' \in [Call -> BOOLEAN]
          /\ \A d \in Call : d # c => queue'[d] = queue[d] /\ signalled'[d] = signalled[d]
          /\ signalled'[c]
      BY <1>10, PostHereKeeps DEF RunFinish, Item
    <2>2. /\ loop' \in [Call -> LoopState]
          /\ \A d \in Call : d # c => loop'[d] = loop[d]
      <3> DEFINE pc == AfterFinish(loop[c].failed)
      <3>1. loop[c] \in LoopState /\ pc \in {"throw", "take"}
        BY LoopTyped DEF AfterFinish
      <3> HIDE DEF pc
      <3> DEFINE r == [loop[c] EXCEPT !.pc = pc]
      <3>2. r \in LoopState /\ r.pc = pc
        BY <3>1 DEF LoopState
      <3>3. loop' = [loop EXCEPT ![c] = r]
        BY <1>10 DEF RunFinish, pc
      <3> QED BY <3>2, <3>3, LoopChanged
    <2> QED BY <1>10, <2>1, <2>2 DEF RunFinish, TypeOK, NoLostWakeup
  <1>11. ASSUME NEW c \in Call, NEW b \in Branch, NEW context \in {current, NoContext},
                Await(c, b, context)
         PROVE  IInv'
    <2>1. AfterSegment(c, b) \in {"run", "take"}
      BY DEF AfterSegment
    <2>2. loop[c] \in LoopState /\ loop[c].left - 1 \in 0 .. MaxAwaits
      BY <1>11, RunSyncAssumption DEF Await, TypeOK, LoopState
    <2>3. loop' \in [Call -> LoopState] /\ loop'[c].pc \in {"run", "take"}
          /\ \A d \in Call : d # c => loop'[d] = loop[d]
      BY <1>11, <2>1, <2>2 DEF Await, TypeOK, LoopState
    <2>4. context \in Context
      BY DEF TypeOK, Context
    <2>5. branch' \in [Call -> [Branch -> BranchState]]
      BY <1>11, <2>4 DEF Await, TypeOK, BranchState
    <2> QED BY <1>11, <2>3, <2>5 DEF Await, TypeOK, NoLostWakeup, Context
  <1>12. ASSUME NEW c \in Call, NEW b \in Branch, NEW fails \in BOOLEAN, Complete(c, b, fails)
         PROVE  IInv'
    <2>1. /\ queue' \in [Call -> Seq(Item)] /\ signalled' \in [Call -> BOOLEAN]
          /\ \A d \in Call : d # c => queue'[d] = queue[d] /\ signalled'[d] = signalled[d]
      <3>1. CASE Completes(c, b)
        <4>1. PICK item \in Item : PostHere(c, item)
          BY <1>12, <3>1 DEF Complete, Item
        <4> QED BY <4>1, PostHereKeeps
      <3>2. CASE ~Completes(c, b)
        BY <1>12, <3>2 DEF Complete, TypeOK
      <3> QED BY <3>1, <3>2
    <2>2. AfterSegment(c, b) \in {"run", "take"} /\ \A f : AfterFinish(f) \in {"throw", "take"}
      BY DEF AfterSegment, AfterFinish
    <2>3. PICK pc \in {"run", "take", "throw"}, failed \in BOOLEAN :
             loop' = [loop EXCEPT ![c].failed = failed, ![c].nested = "fine", ![c].pc = pc]
      <3>1. loop[c].failed \in BOOLEAN
        BY DEF TypeOK, LoopState
      <3> DEFINE inline == current = c \/ loop[c].item = "start"
                 failed == loop[c].failed \/ fails
                 pc == IF Completes(c, b) /\ inline THEN AfterFinish(failed)
                       ELSE AfterSegment(c, b)
      <3>2. pc \in {"run", "take", "throw"}
        BY <2>2
      <3>3. failed \in BOOLEAN
        BY <3>1
      <3>4. loop' = [loop EXCEPT ![c].failed = failed, ![c].nested = "fine", ![c].pc = pc]
        BY <1>12 DEF Complete
      <3> QED BY <3>2, <3>3, <3>4
    <2>4. loop' \in [Call -> LoopState] /\ loop'[c].pc \in {"run", "take", "throw"}
          /\ \A d \in Call : d # c => loop'[d] = loop[d]
      <3>1. loop[c] \in LoopState
        BY LoopTyped
      <3> DEFINE r == [loop[c] EXCEPT !.failed = failed, !.nested = "fine", !.pc = pc]
      <3>2. r \in LoopState /\ r.pc = pc
        BY <2>3, <3>1 DEF LoopState
      <3>3. loop' = [loop EXCEPT ![c] = r]
        BY <2>3
      <3> QED BY <2>3, <3>2, <3>3, LoopChanged
    <2>5. branch' \in [Call -> [Branch -> BranchState]]
      BY <1>12 DEF Complete, Finished, TypeOK, BranchState, Context
    <2> QED BY <1>12, <2>1, <2>4, <2>5 DEF Complete, TypeOK, NoLostWakeup, Context
  <1>13. ASSUME NEW c \in Call, NEW b \in Branch, Resume(c, b) PROVE IInv'
    <2> DEFINE context == branch[c][b].context
    <2>1. branch[c][b] \in BranchState
      BY DEF TypeOK
    <2>2. context \in Call /\ b \in Item /\ PostThere(context, b)
      BY <1>13, <2>1 DEF Resume, BranchState, Context, Item
    <2>3. /\ queue' \in [Call -> Seq(Item)] /\ posting' \in [Call -> Nat]
          /\ \A d \in Call : d # context => queue'[d] = queue[d] /\ posting'[d] = posting[d]
          /\ posting'[context] > 0
      BY <2>2, PostThereKeeps
    <2>4. branch' \in [Call -> [Branch -> BranchState]]
      BY <1>13, <2>1 DEF Resume, TypeOK, BranchState
    <2> QED BY <1>13, <2>3, <2>4 DEF Resume, TypeOK, NoLostWakeup
  <1>14. ASSUME NEW c \in Call, NEW b \in Branch, NEW fails \in BOOLEAN,
                PoolComplete(c, b, fails)
         PROVE  IInv'
    <2>1. /\ queue' \in [Call -> Seq(Item)] /\ posting' \in [Call -> Nat]
          /\ \A d \in Call : \/ queue'[d] = queue[d] /\ posting'[d] = posting[d]
                             \/ posting'[d] > 0
      <3>1. CASE Completes(c, b)
        BY <1>14, <3>1, PostThereKeeps DEF PoolComplete, Item
      <3>2. CASE ~Completes(c, b)
        BY <1>14, <3>2 DEF PoolComplete, TypeOK
      <3> QED BY <3>1, <3>2
    <2>2. loop' \in [Call -> LoopState] /\ \A d \in Call : loop'[d].pc = loop[d].pc
      <3>1. loop[c] \in LoopState /\ (loop[c].failed \/ fails) \in BOOLEAN
        BY DEF TypeOK, LoopState
      <3> QED BY <1>14, <3>1 DEF PoolComplete, TypeOK, LoopState
    <2>3. branch' \in [Call -> [Branch -> BranchState]]
      BY <1>14 DEF PoolComplete, Finished, TypeOK, BranchState, Context
    <2> QED BY <1>14, <2>1, <2>2, <2>3 DEF PoolComplete, TypeOK, NoLostWakeup
  <1> QED
    BY <1>1, <1>2, <1>3, <1>4, <1>5, <1>6, <1>7, <1>8, <1>9, <1>10, <1>11, <1>12, <1>13, <1>14
    DEF Next, Thread, Pool

-------------------------------------------------------------------------------
(* The inductive invariant holds of every run: any number of calls, nested *)
(* to any depth, and of pool threads that post at once.                    *)
THEOREM InvariantHolds == Spec => []IInv
  BY Initially, Preserved, PTL DEF Spec

(* AsyncHelpers.cs:83 and :114: no wakeup of the message loop is lost.     *)
THEOREM WakeupsAreKept == Spec => []NoLostWakeup
  <1>1. IInv => NoLostWakeup
    BY DEF IInv
  <1> QED BY InvariantHolds, <1>1, PTL

-------------------------------------------------------------------------------
(* Nested calls, as long as a branch does not await on the context that a  *)
(* RunSync that threw has left behind.                                     *)

(* The calls a thread is in are distinct, all but the innermost are in a   *)
(* segment of a branch, and unless a nested call threw the context of a    *)
(* call is what the one in it found, or, of the innermost, current.        *)
ContextsNest ==
  LET n == Len(stack)
  IN /\ \A i \in 1 .. n : loop[stack[i]].pc \notin {"idle", "returned", "threw"}
     /\ \A i, j \in 1 .. n : stack[i] = stack[j] => i = j
     /\ \A i \in 1 .. n - 1 :
          /\ loop[stack[i]].pc = "run" /\ loop[stack[i]].item \notin {"finish", "end"}
          /\ loop[stack[i]].nested = "fine" => loop[stack[i + 1]].oldContext = stack[i]
     /\ n > 0 /\ loop[stack[n]].nested = "fine" => current = stack[n]

NestedIsWithinSegment ==
  \A c \in Call :
    loop[c].nested # "fine" => loop[c].pc = "run" /\ loop[c].item \notin {"finish", "end"}

In(x, q) == \E i \in 1 .. Len(q) : q[i] = x
Once(q) == \A i, j \in 1 .. Len(q) : q[i] = q[j] /\ q[i] \in Branch => i = j
Whole(br) == \A b \in Branch : br[b].at = "done"

(* An item of the loop with locals l and queue q, waiting or in hand.      *)
InLoop(x, l, q) == In(x, q) \/ (l.pc = "run" /\ l.item = x)

(* The continuation of a branch is in the loop once at most, and only      *)
(* while the branch is due to go on; what ends the loop is in it only when *)
(* the task is whole, and "end" is reached only if it succeeded.           *)
Sound(l, q, br) ==
  /\ Once(q)
  /\ \A b \in Branch : InLoop(b, l, q) => br[b].at = "queued"
  /\ \A b \in Branch : l.pc = "run" /\ l.item = b => ~In(b, q)
  /\ InLoop("end", l, q) => Whole(br) /\ (l.failed => l.pc \in {"throw", "threw"})
  /\ InLoop("finish", l, q) => Whole(br)
  /\ l.done => Whole(br) /\ ~l.failed
  /\ l.pc \in {"throw", "threw"} => Whole(br) /\ l.failed
  /\ l.pc = "returned" => l.done

AllSound == \A c \in Call : Sound(loop[c], queue[c], branch[c])

Orderly == ContextsNest /\ NestedIsWithinSegment /\ NothingStranded /\ AllSound

(* Queues. *)

LEMMA Posted ==
  ASSUME NEW q \in Seq(Item), NEW e \in Item
  PROVE  /\ \A x : In(x, Append(q, e)) <=> In(x, q) \/ x = e
         /\ Once(q) /\ (e \in Branch => ~In(e, q)) => Once(Append(q, e))
<1> DEFINE r == Append(q, e)
           n == Len(q)
<1>1. n \in Nat /\ Len(r) = n + 1 /\ r[n + 1] = e /\ \A i \in 1 .. n : r[i] = q[i]
  BY LenProperties
<1> HIDE DEF r, n
<1>2. ASSUME NEW x PROVE In(x, r) <=> In(x, q) \/ x = e
  <2>1. n = Len(q)
    BY DEF n
  <2>2. ASSUME NEW i \in 1 .. n + 1, r[i] = x PROVE x = e \/ \E j \in 1 .. n : q[j] = x
    <3>1. i \in 1 .. n \/ i = n + 1
      BY <1>1
    <3> QED
      BY <1>1, <2>2, <3>1
  <2>3. ASSUME NEW i \in 1 .. n, q[i] = x PROVE \E j \in 1 .. n + 1 : r[j] = x
    <3>1. i \in 1 .. n + 1
      BY <1>1
    <3> QED
      BY <1>1, <2>3, <3>1
  <2>4. n + 1 \in 1 .. n + 1
    BY <1>1
  <2> QED
    BY <1>1, <2>1, <2>2, <2>3, <2>4 DEF In
<1>3. ASSUME Once(q), e \in Branch => ~In(e, q),
             NEW i \in 1 .. n + 1, NEW j \in 1 .. n + 1, r[i] = r[j], r[i] \in Branch
      PROVE  i = j
  <2>1. n = Len(q)
    BY DEF n
  <2>2. CASE i \in 1 .. n /\ j \in 1 .. n
    BY <1>1, <1>3, <2>1, <2>2 DEF Once
  <2>3. CASE i \in 1 .. n /\ j = n + 1
    BY <1>1, <1>3, <2>1, <2>3 DEF In
  <2>4. CASE i = n + 1 /\ j \in 1 .. n
    BY <1>1, <1>3, <2>1, <2>4 DEF In
  <2> QED
    BY <1>1, <2>2, <2>3, <2>4
<1>4. Once(q) /\ (e \in Branch => ~In(e, q)) => Once(r)
  BY <1>1, <1>3 DEF Once
<1> QED
  BY <1>2, <1>4 DEF r

LEMMA Fetched ==
  ASSUME NEW q \in Seq(Item), q # <<>>
  PROVE  /\ In(Head(q), q)
         /\ \A x : In(x, Tail(q)) => In(x, q)
         /\ Once(q) => Once(Tail(q)) /\ (Head(q) \in Branch => ~In(Head(q), Tail(q)))
<1> DEFINE t == Tail(q)
           n == Len(q)
<1>1. /\ n \in Nat /\ n > 0 /\ Len(t) = n - 1 /\ Head(q) = q[1]
      /\ \A i \in 1 .. n - 1 : t[i] = q[i + 1] /\ i + 1 \in 1 .. n /\ i + 1 # 1
      /\ 1 \in 1 .. n
  BY HeadTailProperties, EmptySeq, LenProperties
<1>2. n = Len(q)
  OBVIOUS
<1> HIDE DEF t, n
<1>3. In(Head(q), q)
  BY <1>1, <1>2 DEF In
<1>4. ASSUME NEW x, In(x, t) PROVE In(x, q)
  BY <1>1, <1>2, <1>4 DEF In
<1>5. ASSUME Once(q) PROVE Once(t)
  <2> SUFFICES ASSUME NEW i \in 1 .. n - 1, NEW j \in 1 .. n - 1, t[i] = t[j], t[i] \in Branch
               PROVE  i = j
    BY <1>1 DEF Once
  <2>1. i + 1 = j + 1
    BY <1>1, <1>2, <1>5 DEF Once
  <2> QED
    BY <2>1
<1>6. ASSUME Once(q), Head(q) \in Branch PROVE ~In(Head(q), t)
  BY <1>1, <1>2, <1>6 DEF Once, In
<1> QED
  BY <1>3, <1>4, <1>5, <1>6 DEF t

(* Soundness of one loop, whatever it runs. *)

LEMMA SoundAsBefore ==
  ASSUME NEW l, NEW l2, NEW q, NEW br, Sound(l, q, br),
         l2.pc = l.pc, l2.item = l.item, l2.done = l.done, l2.failed = l.failed
  PROVE  Sound(l2, q, br)
BY DEF Sound, InLoop

LEMMA SoundLooking ==
  ASSUME NEW l, NEW l2, NEW q, NEW br, Sound(l, q, br),
         l.pc \in {"take", "empty", "wait"}, l2.pc \in {"take", "empty", "wait"},
         l2.done = l.done, l2.failed = l.failed
  PROVE  Sound(l2, q, br)
BY DEF Sound, InLoop

LEMMA SoundBegun ==
  ASSUME NEW l, NEW l2, NEW q \in Seq(Item), NEW br, Sound(l, q, br),
         l.pc = "idle", l2.pc = "take", l2.done = l.done, l2.failed = l.failed
  PROVE  Sound(l2, Append(q, "start"), br)
<1>1. \A b \in Branch : b # "start"
  BY RunSyncAssumption
<1>2. /\ \A x : In(x, Append(q, "start")) <=> In(x, q) \/ x = "start"
      /\ Once(Append(q, "start"))
  BY <1>1, Posted DEF Sound, Item
<1> QED
  BY <1>1, <1>2 DEF Sound, InLoop

LEMMA SoundTaken ==
  ASSUME NEW l, NEW l2, NEW q \in Seq(Item), NEW br, Sound(l, q, br), q # <<>>,
         l.pc = "take", l2.pc = "run", l2.item = Head(q), l2.done = l.done, l2.failed = l.failed
  PROVE  Sound(l2, Tail(q), br)
<1>1. /\ In(Head(q), q)
      /\ \A x : In(x, Tail(q)) => In(x, q)
      /\ Once(Tail(q)) /\ (Head(q) \in Branch => ~In(Head(q), Tail(q)))
  BY Fetched DEF Sound
<1>2. \A x : InLoop(x, l2, Tail(q)) => InLoop(x, l, q)
  BY <1>1 DEF InLoop
<1>3. ~(l.failed /\ InLoop("end", l, q))
  BY DEF Sound
<1> QED
  BY <1>1, <1>2, <1>3 DEF Sound

LEMMA SoundEnded ==
  ASSUME NEW l, NEW l2, NEW q, NEW br, Sound(l, q, br),
         l.pc = "run", l.item = "end", l2.pc = "take", l2.done, l2.failed = l.failed
  PROVE  Sound(l2, q, br)
<1>1. Whole(br) /\ ~l.failed
  BY DEF Sound, InLoop
<1> QED
  BY <1>1 DEF Sound, InLoop

LEMMA SoundFinished ==
  ASSUME NEW l, NEW l2, NEW q \in Seq(Item), NEW br, Sound(l, q, br),
         l.pc = "run", l.item = "finish", l2.pc = AfterFinish(l.failed),
         l2.done = l.done, l2.failed = l.failed
  PROVE  Sound(l2, Append(q, "end"), br)
<1>1. \A b \in Branch : b # "end"
  BY RunSyncAssumption
<1>2. /\ \A x : In(x, Append(q, "end")) <=> In(x, q) \/ x = "end"
      /\ Once(Append(q, "end"))
  BY <1>1, Posted DEF Sound, Item
<1>3. Whole(br)
  BY DEF Sound, InLoop
<1>4. (l.failed => l2.pc = "throw") /\ (~l.failed => l2.pc = "take")
  BY DEF AfterFinish
<1> QED
  BY <1>1, <1>2, <1>3, <1>4 DEF Sound, InLoop

(* A branch in hand is not done, and its continuation no longer waits.     *)
LEMMA SegmentInHand ==
  ASSUME NEW l, NEW q, NEW br, Sound(l, q, br), NEW b \in Branch, l.pc = "run",
         l.item = b \/ (l.item = "start" /\ br[b].at = "new")
  PROVE  /\ ~Whole(br) /\ ~In(b, q) /\ ~l.done /\ ~In("end", q) /\ ~In("finish", q)
         /\ l.item \notin {"end", "finish"}
<1>1. br[b].at \in {"new", "queued"} /\ ~In(b, q)
  BY DEF Sound, InLoop
<1>2. ~Whole(br)
  BY <1>1 DEF Whole
<1>3. l.item \notin {"end", "finish"}
  BY RunSyncAssumption
<1> QED
  BY <1>1, <1>2, <1>3 DEF Sound, InLoop

(* The end of a segment: an await, or the end of a branch but the last.    *)
LEMMA SegmentEnds ==
  ASSUME NEW l, NEW l2, NEW q, NEW br, NEW br2, Sound(l, q, br), NEW b \in Branch, l.pc = "run",
         l.item = b \/ (l.item = "start" /\ br[b].at = "new"),
         \A x \in Branch \ {b} : br2[x] = br[x],
         l2.pc = "take" \/ (l2.pc = "run" /\ l.item = "start"), l2.item = l.item,
         l2.done = l.done
  PROVE  Sound(l2, q, br2)
<1>1. /\ ~Whole(br) /\ ~In(b, q) /\ ~l.done /\ ~In("end", q) /\ ~In("finish", q)
  BY SegmentInHand
<1>2. \A x \in Branch : ~InLoop(x, l2, q) \/ (x # b /\ InLoop(x, l, q))
  BY <1>1, RunSyncAssumption DEF InLoop
<1>3. ~InLoop("end", l2, q) /\ ~InLoop("finish", l2, q)
  BY <1>1 DEF InLoop
<1> QED
  BY <1>1, <1>2, <1>3, RunSyncAssumption DEF Sound

(* The end of the last branch, on the context or off it.                   *)
LEMMA TaskEnds ==
  ASSUME NEW l, NEW l2, NEW q \in Seq(Item), NEW br, NEW br2, NEW item,
         Sound(l, q, br), NEW b \in Branch, l.pc = "run",
         l.item = b \/ (l.item = "start" /\ br[b].at = "new"),
         Whole(br2), \A x \in Branch \ {b} : br2[x] = br[x],
         l2.item = l.item, l2.done = l.done,
         \/ item = "end" /\ l2.pc = AfterFinish(l2.failed)
         \/ item = "finish" /\ l2.pc = "take"
  PROVE  Sound(l2, Append(q, item), br2)
<1>1. /\ ~Whole(br) /\ ~In(b, q) /\ ~l.done /\ ~In("end", q) /\ ~In("finish", q)
  BY SegmentInHand
<1>2. \A x \in Branch : x # item
  BY RunSyncAssumption
<1>3. /\ \A x : In(x, Append(q, item)) <=> In(x, q) \/ x = item
      /\ Once(Append(q, item))
  BY <1>2, Posted DEF Sound, Item
<1>4. l2.pc \in {"take", "throw"} /\ (l2.pc = "throw" => l2.failed)
      /\ (item = "end" /\ l2.failed => l2.pc = "throw")
  BY DEF AfterFinish
<1>5. \A x \in Branch : InLoop(x, l2, Append(q, item)) => x # b /\ In(x, q)
  BY <1>1, <1>2, <1>3, <1>4 DEF InLoop
<1>6. InLoop("end", l2, Append(q, item)) => item = "end"
  BY <1>1, <1>3, <1>4 DEF InLoop
<1> QED
  BY <1>1, <1>3, <1>4, <1>5, <1>6 DEF Sound, InLoop

(* A continuation is posted. *)
LEMMA SoundResumed ==
  ASSUME NEW l, NEW q \in Seq(Item), NEW br, NEW br2, Sound(l, q, br), NEW b \in Branch,
         br[b].at = "await", br2[b].at = "queued", \A x \in Branch \ {b} : br2[x] = br[x]
  PROVE  Sound(l, Append(q, b), br2)
<1>1. ~InLoop(b, l, q)
  BY DEF Sound
<1>2. ~Whole(br)
  BY DEF Whole
<1>3. b \notin {"end", "finish"} /\ b \in Item
  BY RunSyncAssumption DEF Item
<1>4. /\ \A x : In(x, Append(q, b)) <=> In(x, q) \/ x = b
      /\ Once(Append(q, b))
  BY <1>1, <1>3, Posted DEF Sound, InLoop
<1>5. /\ \A x \in Branch : InLoop(x, l, Append(q, b)) => x = b \/ InLoop(x, l, q)
      /\ ~InLoop("end", l, Append(q, b)) /\ ~InLoop("finish", l, Append(q, b))
  BY <1>2, <1>3, <1>4 DEF Sound, InLoop
<1>6. \A x \in Branch : l.pc = "run" /\ l.item = x => ~In(x, Append(q, b))
  BY <1>1, <1>4 DEF Sound, InLoop
<1> QED
  BY <1>2, <1>4, <1>5, <1>6 DEF Sound

(* The rest of a branch has run on the pool, and was the last or not.      *)
LEMMA SoundOnPool ==
  ASSUME NEW l, NEW l2, NEW q \in Seq(Item), NEW q2, NEW br, NEW br2, Sound(l, q, br),
         NEW b \in Branch, br[b].at = "await", \A x \in Branch \ {b} : br2[x] = br[x],
         l2.pc = l.pc, l2.item = l.item, l2.done = l.done,
         q2 = q \/ (Whole(br2) /\ q2 = Append(q, "finish"))
  PROVE  Sound(l2, q2, br2)
<1>1. ~InLoop(b, l, q)
  BY DEF Sound
<1>2. ~Whole(br)
  BY DEF Whole
<1>3. /\ ~l.done /\ l.pc \notin {"throw", "threw", "returned"}
      /\ ~InLoop("end", l, q) /\ ~InLoop("finish", l, q)
  BY <1>2 DEF Sound
<1>4. \A x \in Branch : x # "finish"
  BY RunSyncAssumption
<1>5. /\ Once(q2) /\ \A x \in Branch : In(x, q2) <=> In(x, q)
      /\ ~In("end", q2) /\ (In("finish", q2) => Whole(br2))
  <2>1. CASE q2 = q
    BY <1>3, <2>1 DEF Sound, InLoop
  <2>2. CASE q2 = Append(q, "finish") /\ Whole(br2)
    <3>1. /\ \A x : In(x, q2) <=> In(x, q) \/ x = "finish"
          /\ Once(q2)
      BY <1>4, <2>2, Posted DEF Sound, Item
    <3> QED
      BY <1>3, <1>4, <2>2, <3>1 DEF InLoop
  <2> QED
    BY <2>1, <2>2
<1>6. /\ \A x \in Branch : InLoop(x, l2, q2) => x # b /\ InLoop(x, l, q)
      /\ ~InLoop("end", l2, q2) /\ (InLoop("finish", l2, q2) => Whole(br2))
  BY <1>1, <1>3, <1>5 DEF InLoop
<1> QED
  BY <1>3, <1>5, <1>6 DEF Sound

(* The thread, in the innermost call. *)

LEMMA StackIs ==
  ASSUME TypeOK
  PROVE  /\ Len(stack) \in Nat /\ \A i \in 1 .. Len(stack) : stack[i] \in Call
         /\ stack # <<>> => Len(stack) > 0 /\ Len(stack) \in 1 .. Len(stack)
BY EmptySeq, LenProperties, ElementOfSeq DEF TypeOK

LEMMA OneCallMoves ==
  ASSUME IInv, Orderly, NEW c \in Call, Innermost(c), stack' = stack,
         \A d \in Call \ {c} : loop'[d] = loop[d] /\ queue'[d] = queue[d] /\ branch'[d] = branch[d],
         loop'[c].oldContext = loop[c].oldContext,
         loop'[c].pc \notin {"idle", "returned", "threw"},
         loop'[c].nested = "fine" => current' = c,
         loop'[c].nested # "fine" => loop'[c].pc = "run" /\ loop'[c].item \notin {"finish", "end"},
         \A b \in Branch : branch'[c][b].at \in {"await", "queued"} =>
                             branch'[c][b].context \in {c, NoContext},
         Sound(loop'[c], queue'[c], branch'[c])
  PROVE  Orderly'
<1> DEFINE n == Len(stack)
<1>1. n \in 1 .. n /\ n \in Nat /\ stack[n] = c /\ \A i \in 1 .. n : stack[i] \in Call
  BY StackIs DEF IInv, Innermost
<1>2. \A i \in 1 .. n - 1 : i \in 1 .. n /\ i + 1 \in 1 .. n /\ i # n
  BY <1>1
<1>3. \A i \in 1 .. n - 1 : stack[i] # c
  BY <1>1, <1>2 DEF Orderly, ContextsNest
<1>4. \A d \in Call : loop'[d].oldContext = loop[d].oldContext
  OBVIOUS
<1>5. ContextsNest'
  <2>1. \A i \in 1 .. n : loop'[stack[i]].pc \notin {"idle", "returned", "threw"}
    BY <1>1 DEF Orderly, ContextsNest
  <2>2. \A i, j \in 1 .. n : stack[i] = stack[j] => i = j
    BY DEF Orderly, ContextsNest
  <2>3. ASSUME NEW i \in 1 .. n - 1
        PROVE  /\ loop'[stack[i]].pc = "run" /\ loop'[stack[i]].item \notin {"finish", "end"}
               /\ loop'[stack[i]].nested = "fine" => loop'[stack[i + 1]].oldContext = stack[i]
    <3>1. loop'[stack[i]] = loop[stack[i]] /\ stack[i + 1] \in Call
      BY <1>1, <1>2, <1>3
    <3> QED
      BY <1>4, <3>1 DEF Orderly, ContextsNest
  <2> QED
    BY <1>1, <2>1, <2>2, <2>3 DEF ContextsNest
<1>6. NestedIsWithinSegment'
  BY DEF Orderly, NestedIsWithinSegment
<1>7. NothingStranded'
  BY DEF Orderly, NothingStranded
<1>8. AllSound'
  BY DEF Orderly, AllSound
<1> QED
  BY <1>5, <1>6, <1>7, <1>8 DEF Orderly

(* While a call looks for work or waits for it, its context is current.    *)
LEMMA FineAtTheLoop ==
  ASSUME IInv, Orderly, NEW c \in Call, Innermost(c),
         loop[c].pc # "run" \/ loop[c].item \in {"finish", "end"}
  PROVE  loop[c].nested = "fine" /\ current = c
<1>1. loop[c].nested = "fine"
  BY DEF Orderly, NestedIsWithinSegment
<1>2. Len(stack) > 0
  BY StackIs DEF IInv, Innermost
<1> QED
  BY <1>1, <1>2 DEF Orderly, ContextsNest, Innermost

LEMMA LoopActsOrderly ==
  ASSUME IInv, Orderly, NEW c \in Call,
         Take(c) \/ Block(c) \/ WaitOne(c) \/ RunEnd(c) \/ RunFinish(c) \/ Catch(c)
  PROVE  Orderly'
<1>1. /\ TypeOK /\ loop[c] \in LoopState /\ queue[c] \in Seq(Item)
      /\ Sound(loop[c], queue[c], branch[c]) /\ Innermost(c)
      /\ \A b \in Branch : branch[c][b].at \in {"await", "queued"} =>
                             branch[c][b].context \in {c, NoContext}
  BY DEF IInv, TypeOK, Orderly, AllSound, NothingStranded,
         Take, Block, WaitOne, RunEnd, RunFinish, Catch, Running
<1>2. ASSUME NEW r, loop' = [loop EXCEPT ![c] = r]
      PROVE  loop'[c] = r /\ \A d \in Call \ {c} : loop'[d] = loop[d]
  BY <1>1, <1>2 DEF TypeOK
<1>3. CASE Take(c) /\ queue[c] # <<>>
  <2> DEFINE r == [loop[c] EXCEPT !.pc = "run", !.item = Head(queue[c])]
  <2>1. /\ loop' = [loop EXCEPT ![c] = r] /\ queue' = [queue EXCEPT ![c] = Tail(@)]
        /\ stack' = stack /\ current' = current /\ branch' = branch /\ loop[c].pc = "take"
    BY <1>3 DEF Take
  <2>2. /\ r.pc = "run" /\ r.item = Head(queue[c]) /\ r.done = loop[c].done
        /\ r.failed = loop[c].failed /\ r.nested = loop[c].nested
        /\ r.oldContext = loop[c].oldContext
    BY <1>1 DEF LoopState
  <2> HIDE DEF r
  <2>3. loop'[c] = r /\ \A d \in Call \ {c} : loop'[d] = loop[d]
    BY <1>2, <2>1
  <2>4. queue'[c] = Tail(queue[c]) /\ \A d \in Call \ {c} : queue'[d] = queue[d]
    BY <1>1, <2>1 DEF TypeOK
  <2>5. Sound(r, Tail(queue[c]), branch[c])
    BY <1>1, <1>3, <2>1, <2>2, SoundTaken
  <2>6. loop[c].nested = "fine" /\ current = c
    BY <1>1, <2>1, FineAtTheLoop
  <2> QED
    BY <1>1, <2>1, <2>2, <2>3, <2>4, <2>5, <2>6, OneCallMoves
<1>4. CASE Block(c) \/ WaitOne(c) \/ (Take(c) /\ queue[c] = <<>>)
  <2>1. PICK pc \in {"take", "empty", "wait"} : loop' = [loop EXCEPT ![c].pc = pc]
    BY <1>4 DEF Take, Block, WaitOne
  <2> DEFINE r == [loop[c] EXCEPT !.pc = pc]
  <2>2. /\ loop' = [loop EXCEPT ![c] = r] /\ queue' = queue
        /\ stack' = stack /\ current' = current /\ branch' = branch
        /\ loop[c].pc \in {"take", "empty", "wait"}
    BY <1>4, <2>1 DEF Take, Block, WaitOne
  <2>3. /\ r.pc = pc /\ r.done = loop[c].done /\ r.failed = loop[c].failed
        /\ r.nested = loop[c].nested /\ r.oldContext = loop[c].oldContext
    BY <1>1 DEF LoopState
  <2> HIDE DEF r
  <2>4. loop'[c] = r /\ \A d \in Call \ {c} : loop'[d] = loop[d]
    BY <1>2, <2>2
  <2>5. Sound(r, queue[c], branch[c])
    BY <1>1, <2>2, <2>3, SoundLooking
  <2>6. loop[c].nested = "fine" /\ current = c
    BY <1>1, <2>2, FineAtTheLoop
  <2> QED
    BY <1>1, <2>2, <2>3, <2>4, <2>5, <2>6, OneCallMoves
<1>5. CASE RunEnd(c)
  <2> DEFINE r == [loop[c] EXCEPT !.done = TRUE, !.pc = "take"]
  <2>1. /\ loop' = [loop EXCEPT ![c] = r] /\ queue' = queue
        /\ stack' = stack /\ current' = current /\ branch' = branch
        /\ loop[c].pc = "run" /\ loop[c].item = "end"
    BY <1>5 DEF RunEnd, Running
  <2>2. /\ r.pc = "take" /\ r.done /\ r.failed = loop[c].failed
        /\ r.nested = loop[c].nested /\ r.oldContext = loop[c].oldContext
    BY <1>1 DEF LoopState
  <2> HIDE DEF r
  <2>3. loop'[c] = r /\ \A d \in Call \ {c} : loop'[d] = loop[d]
    BY <1>2, <2>1
  <2>4. Sound(r, queue[c], branch[c])
    BY <1>1, <2>1, <2>2, SoundEnded
  <2>5. loop[c].nested = "fine" /\ current = c
    BY <1>1, <2>1, FineAtTheLoop
  <2> QED
    BY <1>1, <2>1, <2>2, <2>3, <2>4, <2>5, OneCallMoves
<1>6. CASE RunFinish(c)
  <2> DEFINE pc == AfterFinish(loop[c].failed)
             r == [loop[c] EXCEPT !.pc = pc]
  <2>1. /\ loop' = [loop EXCEPT ![c] = r] /\ queue' = [queue EXCEPT ![c] = Append(@, "end")]
        /\ stack' = stack /\ current' = current /\ branch' = branch
        /\ loop[c].pc = "run" /\ loop[c].item = "finish"
    BY <1>6 DEF RunFinish, Running, PostHere, Enqueued
  <2>2. /\ r.pc = pc /\ r.done = loop[c].done /\ r.failed = loop[c].failed
        /\ r.nested = loop[c].nested /\ r.oldContext = loop[c].oldContext
    BY <1>1 DEF LoopState
  <2>3. pc \in {"take", "throw"}
    BY DEF AfterFinish
  <2>4. Sound(r, Append(queue[c], "end"), branch[c])
    <3>1. r.pc = AfterFinish(loop[c].failed)
      BY <2>2
    <3> HIDE DEF r, pc
    <3> QED
      BY <1>1, <2>1, <2>2, <3>1, SoundFinished
  <2> HIDE DEF r, pc
  <2>5. loop'[c] = r /\ \A d \in Call \ {c} : loop'[d] = loop[d]
    BY <1>2, <2>1
  <2>6. queue'[c] = Append(queue[c], "end") /\ \A d \in Call \ {c} : queue'[d] = queue[d]
    BY <1>1, <2>1 DEF TypeOK
  <2>7. loop[c].nested = "fine" /\ current = c
    BY <1>1, <2>1, FineAtTheLoop
  <2> QED
    BY <1>1, <2>1, <2>2, <2>3, <2>4, <2>5, <2>6, <2>7, OneCallMoves
<1>7. CASE Catch(c)
  <2> DEFINE r == [loop[c] EXCEPT !.nested = "caught"]
  <2>1. /\ loop' = [loop EXCEPT ![c] = r] /\ queue' = queue
        /\ stack' = stack /\ branch' = branch /\ loop[c].pc = "run" /\ loop[c].nested # "fine"
    BY <1>7 DEF Catch, Running
  <2>2. /\ r.pc = loop[c].pc /\ r.item = loop[c].item /\ r.done = loop[c].done
        /\ r.failed = loop[c].failed /\ r.nested = "caught"
        /\ r.oldContext = loop[c].oldContext
    BY <1>1 DEF LoopState
  <2> HIDE DEF r
  <2>3. loop'[c] = r /\ \A d \in Call \ {c} : loop'[d] = loop[d]
    BY <1>2, <2>1
  <2>4. Sound(r, queue[c], branch[c])
    BY <1>1, <2>2, SoundAsBefore
  <2>5. loop[c].item \notin {"finish", "end"}
    BY <2>1 DEF Orderly, NestedIsWithinSegment
  <2> QED
    BY <1>1, <2>1, <2>2, <2>3, <2>4, <2>5, OneCallMoves
<1> QED
  BY <1>3, <1>4, <1>5, <1>6, <1>7

LEMMA InHandIs ==
  ASSUME Orderly, NEW c \in Call, NEW b \in Branch, InHand(c, b)
  PROVE  /\ Innermost(c) /\ loop[c].pc = "run" /\ Sound(loop[c], queue[c], branch[c])
         /\ loop[c].item = b \/ (loop[c].item = "start" /\ branch[c][b].at = "new")
         /\ loop[c].item \notin {"end", "finish"}
<1>1. /\ Innermost(c) /\ loop[c].pc = "run" /\ Sound(loop[c], queue[c], branch[c])
      /\ loop[c].item = b \/ (loop[c].item = "start" /\ branch[c][b].at = "new")
  BY DEF Orderly, AllSound, InHand, Running
<1> QED
  BY <1>1, RunSyncAssumption

LEMMA AwaitOrderly ==
  ASSUME ~AwaitsDirty, IInv, Orderly, NEW c \in Call, NEW b \in Branch,
         NEW context \in {current, NoContext}, Await(c, b, context)
  PROVE  Orderly'
<1> DEFINE pc == AfterSegment(c, b)
           r == [loop[c] EXCEPT !.pc = pc, !.nested = "fine", !.left = @ - 1]
           br2 == [branch[c] EXCEPT ![b] = [at |-> "await", context |-> context]]
<1>1. /\ TypeOK /\ loop[c] \in LoopState /\ branch[c] \in [Branch -> BranchState]
      /\ \A x \in Branch : branch[c][x].at \in {"await", "queued"} =>
                             branch[c][x].context \in {c, NoContext}
  BY DEF IInv, TypeOK, Orderly, NothingStranded
<1>2. /\ Innermost(c) /\ loop[c].pc = "run" /\ Sound(loop[c], queue[c], branch[c])
      /\ loop[c].item = b \/ (loop[c].item = "start" /\ branch[c][b].at = "new")
      /\ loop[c].item \notin {"end", "finish"}
  BY InHandIs DEF Await
<1>3. /\ loop' = [loop EXCEPT ![c] = r] /\ queue' = queue /\ stack' = stack /\ current' = c
      /\ branch' = [branch EXCEPT ![c] = br2]
  BY DEF Await
<1>4. pc = "take" \/ (pc = "run" /\ loop[c].item = "start")
  BY DEF AfterSegment
<1>5. context \in {c, NoContext}
  <2>1. Len(stack) > 0 /\ stack[Len(stack)] = c
    BY <1>1, <1>2, StackIs DEF Innermost
  <2>2. loop[c].nested = "fine" => current = c
    BY <2>1 DEF Orderly, ContextsNest
  <2> QED
    BY <2>2 DEF Await
<1>6. /\ r.pc = pc /\ r.item = loop[c].item /\ r.done = loop[c].done
      /\ r.nested = "fine" /\ r.oldContext = loop[c].oldContext
  BY <1>1 DEF LoopState
<1>7. br2[b] = [at |-> "await", context |-> context] /\ \A x \in Branch \ {b} : br2[x] = branch[c][x]
  BY <1>1
<1> HIDE DEF r, pc, br2
<1>8. /\ loop'[c] = r /\ \A d \in Call \ {c} : loop'[d] = loop[d]
      /\ branch'[c] = br2 /\ \A d \in Call \ {c} : branch'[d] = branch[d]
  BY <1>1, <1>3 DEF TypeOK
<1>9. Sound(r, queue[c], br2)
  BY <1>2, <1>4, <1>6, <1>7, SegmentEnds
<1>10. \A x \in Branch : br2[x].at \in {"await", "queued"} => br2[x].context \in {c, NoContext}
  BY <1>1, <1>5, <1>7
<1>11. r.pc \notin {"idle", "returned", "threw"}
  BY <1>4, <1>6
<1> QED
  BY <1>2, <1>3, <1>6, <1>8, <1>9, <1>10, <1>11, OneCallMoves

LEMMA CompleteOrderly ==
  ASSUME IInv, Orderly, NEW c \in Call, NEW b \in Branch, NEW fails \in BOOLEAN,
         Complete(c, b, fails)
  PROVE  Orderly'
<1> DEFINE failed == loop[c].failed \/ fails
           inline == current = c \/ loop[c].item = "start"
           item == IF inline THEN "end" ELSE "finish"
           pc == IF Completes(c, b) /\ inline THEN AfterFinish(failed) ELSE AfterSegment(c, b)
           r == [loop[c] EXCEPT !.failed = failed, !.nested = "fine", !.pc = pc]
           br2 == [branch[c] EXCEPT ![b] = Finished]
           q2 == IF Completes(c, b) THEN Append(queue[c], item) ELSE queue[c]
<1>1. /\ TypeOK /\ loop[c] \in LoopState /\ branch[c] \in [Branch -> BranchState]
      /\ queue[c] \in Seq(Item)
      /\ \A x \in Branch : branch[c][x].at \in {"await", "queued"} =>
                             branch[c][x].context \in {c, NoContext}
  BY DEF IInv, TypeOK, Orderly, NothingStranded
<1>2. /\ Innermost(c) /\ loop[c].pc = "run" /\ Sound(loop[c], queue[c], branch[c])
      /\ loop[c].item = b \/ (loop[c].item = "start" /\ branch[c][b].at = "new")
      /\ loop[c].item \notin {"end", "finish"}
  BY InHandIs DEF Complete
<1>3. /\ loop' = [loop EXCEPT ![c] = r] /\ stack' = stack /\ current' = c
      /\ branch' = [branch EXCEPT ![c] = br2]
  BY DEF Complete
<1>4. queue'[c] = q2 /\ \A d \in Call \ {c} : queue'[d] = queue[d]
  <2>1. queue' = [queue EXCEPT ![c] = q2]
    <3>1. CASE Completes(c, b)
      BY <3>1 DEF Complete, PostHere, Enqueued
    <3>2. CASE ~Completes(c, b)
      BY <1>1, <3>2 DEF Complete, TypeOK
    <3> QED
      BY <3>1, <3>2
  <2> HIDE DEF q2
  <2> QED
    BY <1>1, <2>1 DEF TypeOK
<1>5. AfterSegment(c, b) = "take" \/ (AfterSegment(c, b) = "run" /\ loop[c].item = "start")
  BY DEF AfterSegment
<1>6. /\ r.pc = pc /\ r.item = loop[c].item /\ r.done = loop[c].done /\ r.failed = failed
      /\ r.nested = "fine" /\ r.oldContext = loop[c].oldContext
  BY <1>1 DEF LoopState
<1>7. br2[b].at = "done" /\ \A x \in Branch \ {b} : br2[x] = branch[c][x]
  BY <1>1 DEF Finished
<1> HIDE DEF r, br2
<1>8. /\ loop'[c] = r /\ \A d \in Call \ {c} : loop'[d] = loop[d]
      /\ branch'[c] = br2 /\ \A d \in Call \ {c} : branch'[d] = branch[d]
  BY <1>1, <1>3 DEF TypeOK
<1>9. Sound(r, q2, br2)
  <2>1. CASE Completes(c, b)
    <3>1. Whole(br2)
      BY <1>7, <2>1 DEF Completes, Whole
    <3>2. \/ item = "end" /\ r.pc = AfterFinish(r.failed)
          \/ item = "finish" /\ r.pc = "take"
      BY <1>5, <1>6, <2>1
    <3>3. q2 = Append(queue[c], item)
      BY <2>1
    <3> HIDE DEF item, q2
    <3> QED
      BY <1>1, <1>2, <1>6, <1>7, <3>1, <3>2, <3>3, TaskEnds
  <2>2. CASE ~Completes(c, b)
    <3>1. r.pc = "take" \/ (r.pc = "run" /\ loop[c].item = "start")
      BY <1>5, <1>6, <2>2
    <3>2. q2 = queue[c]
      BY <2>2
    <3> QED
      BY <1>2, <1>6, <1>7, <3>1, <3>2, SegmentEnds
  <2> QED
    BY <2>1, <2>2
<1>10. \A x \in Branch : br2[x].at \in {"await", "queued"} => br2[x].context \in {c, NoContext}
  BY <1>1, <1>7
<1>11. r.pc \notin {"idle", "returned", "threw"}
  BY <1>5, <1>6 DEF AfterFinish
<1> HIDE DEF q2
<1> QED
  BY <1>2, <1>3, <1>4, <1>6, <1>8, <1>9, <1>10, <1>11, OneCallMoves

(* A call, its return, and the exception that leaves it. *)
LEMMA BeginOrderly ==
  ASSUME IInv, Orderly, NEW c \in Call, Begin(c)
  PROVE  Orderly'
<1> DEFINE n == Len(stack)
           r == [loop[c] EXCEPT !.pc = "take", !.oldContext = current]
<1>1. /\ TypeOK /\ loop[c] \in LoopState /\ queue[c] \in Seq(Item) /\ stack \in Seq(Call)
      /\ Sound(loop[c], queue[c], branch[c]) /\ loop[c].pc = "idle"
  BY DEF IInv, TypeOK, Orderly, AllSound, Begin
<1>2. n \in Nat /\ \A i \in 1 .. n : stack[i] \in Call
  BY <1>1, StackIs
<1>3. /\ loop' = [loop EXCEPT ![c] = r] /\ queue' = [queue EXCEPT ![c] = Append(@, "start")]
      /\ stack' = Append(stack, c) /\ current' = c /\ branch' = branch
  BY DEF Begin, PostHere, Enqueued
<1>4. /\ r.pc = "take" /\ r.done = loop[c].done /\ r.failed = loop[c].failed
      /\ r.nested = loop[c].nested /\ r.oldContext = current
  BY <1>1 DEF LoopState
<1> HIDE DEF r
<1>5. /\ loop'[c] = r /\ \A d \in Call \ {c} : loop'[d] = loop[d]
      /\ queue'[c] = Append(queue[c], "start") /\ \A d \in Call \ {c} : queue'[d] = queue[d]
  BY <1>1, <1>3 DEF TypeOK
<1>6. loop[c].nested = "fine" /\ \A i \in 1 .. n : stack[i] # c
  BY <1>1 DEF Orderly, NestedIsWithinSegment, ContextsNest
<1>7. Len(stack') = n + 1 /\ stack'[n + 1] = c /\ \A i \in 1 .. n : stack'[i] = stack[i]
  BY <1>1, <1>2, <1>3
<1>8. n > 0 => /\ loop[stack[n]].pc = "run" /\ loop[stack[n]].item \notin {"finish", "end"}
               /\ n \in 1 .. n
  <2> SUFFICES ASSUME n > 0
               PROVE  loop[stack[n]].pc = "run" /\ loop[stack[n]].item \notin {"finish", "end"}
    BY <1>2
  <2>1. stack # <<>>
    BY EmptySeq
  <2>2. PICK d \in Call, b \in Branch : InHand(d, b)
    BY <2>1 DEF Begin
  <2>3. d = stack[n] /\ loop[d].pc = "run" /\ loop[d].item \notin {"finish", "end"}
    BY <2>2, InHandIs DEF Innermost
  <2> QED
    BY <2>3
<1>9. ContextsNest'
  <2>1. \A i \in 1 .. n + 1 : loop'[stack'[i]].pc \notin {"idle", "returned", "threw"}
    <3> TAKE i \in 1 .. n + 1
    <3>1. CASE i \in 1 .. n
      BY <1>2, <1>5, <1>6, <1>7, <3>1 DEF Orderly, ContextsNest
    <3>2. CASE i = n + 1
      BY <1>4, <1>5, <1>7, <3>2
    <3> QED
      BY <1>2, <3>1, <3>2
  <2>2. ASSUME NEW i \in 1 .. n + 1, NEW j \in 1 .. n + 1, stack'[i] = stack'[j] PROVE i = j
    <3>1. i \in 1 .. n \/ i = n + 1
      BY <1>2
    <3>2. j \in 1 .. n \/ j = n + 1
      BY <1>2
    <3>3. \A k, m \in 1 .. n : stack[k] = stack[m] => k = m
      BY DEF Orderly, ContextsNest
    <3> QED
      BY <1>6, <1>7, <2>2, <3>1, <3>2, <3>3
  <2>3. ASSUME NEW i \in 1 .. n
        PROVE  /\ loop'[stack'[i]].pc = "run" /\ loop'[stack'[i]].item \notin {"finish", "end"}
               /\ loop'[stack'[i]].nested = "fine" => loop'[stack'[i + 1]].oldContext = stack'[i]
    <3>1. loop'[stack'[i]] = loop[stack[i]] /\ stack'[i] = stack[i]
      BY <1>2, <1>5, <1>6, <1>7
    <3>2. CASE i = n
      <4>1. loop'[stack'[i + 1]].oldContext = current
        BY <1>4, <1>5, <1>7, <3>2
      <4>2. n > 0 /\ (loop[stack[n]].nested = "fine" => current = stack[n])
        BY <1>2, <3>2 DEF Orderly, ContextsNest
      <4> QED
        BY <1>8, <3>1, <3>2, <4>1, <4>2
    <3>3. CASE i \in 1 .. n - 1
      <4>1. i + 1 \in 1 .. n
        BY <1>2, <3>3
      <4>2. loop'[stack'[i + 1]] = loop[stack[i + 1]]
        BY <1>2, <1>5, <1>6, <1>7, <4>1
      <4> QED
        BY <3>1, <3>3, <4>2 DEF Orderly, ContextsNest
    <3> QED
      BY <1>2, <3>2, <3>3
  <2>4. n + 1 - 1 = n
    BY <1>2
  <2> QED
    BY <1>3, <1>7, <2>1, <2>2, <2>3, <2>4 DEF ContextsNest
<1>10. NestedIsWithinSegment'
  BY <1>4, <1>5, <1>6 DEF Orderly, NestedIsWithinSegment
<1>11. NothingStranded'
  BY <1>3 DEF Orderly, NothingStranded
<1>12. AllSound'
  <2>1. Sound(r, Append(queue[c], "start"), branch[c])
    BY <1>1, <1>4, SoundBegun
  <2> QED
    BY <1>3, <1>5, <2>1 DEF Orderly, AllSound
<1> QED
  BY <1>9, <1>10, <1>11, <1>12 DEF Orderly

LEMMA PoppedIs ==
  ASSUME TypeOK, NEW n, n = Len(stack), n > 0
  PROVE  Len(Popped) = n - 1 /\ \A i \in 1 .. n - 1 : Popped[i] = stack[i]
<1>1. stack \in Seq(Call) /\ n \in Nat /\ \A i \in 1 .. n : stack[i] \in Call
  BY StackIs DEF TypeOK
<1>2. /\ Len(SubSeq(stack, 1, n - 1)) = IF 1 <= n - 1 THEN n - 1 - 1 + 1 ELSE 0
      /\ \A i \in 1 .. n - 1 - 1 + 1 : SubSeq(stack, 1, n - 1)[i] = stack[1 + i - 1]
  <2>1. \A i \in 1 .. n - 1 : stack[i] \in Call
    BY <1>1
  <2> QED
    BY <1>1, <2>1, SubSeqProperties
<1>3. Popped = SubSeq(stack, 1, n - 1)
  BY DEF Popped
<1>4. (IF 1 <= n - 1 THEN n - 1 - 1 + 1 ELSE 0) = n - 1
  BY <1>1
<1>5. ASSUME NEW i \in 1 .. n - 1 PROVE Popped[i] = stack[i]
  <2>1. 1 + i - 1 = i /\ i \in 1 .. n - 1 - 1 + 1
    BY <1>1
  <2>2. Popped[i] = stack[1 + i - 1]
    BY <1>2, <1>3, <2>1
  <2> QED
    BY <2>1, <2>2
<1> QED
  BY <1>2, <1>3, <1>4, <1>5

(* A call that is over leaves the one that it was made in. *)
LEMMA CallIsOver ==
  ASSUME IInv, Orderly, NEW c \in Call, Innermost(c), stack' = Popped,
         queue' = queue, branch' = branch, NEW n, n = Len(stack),
         \A d \in Call \ {c} :
           /\ loop'[d].pc = loop[d].pc /\ loop'[d].item = loop[d].item
           /\ loop'[d].done = loop[d].done /\ loop'[d].failed = loop[d].failed
           /\ loop'[d].oldContext = loop[d].oldContext
           /\ loop'[d].nested = loop[d].nested \/ (n > 1 /\ d = stack[n - 1]),
         n > 1 /\ loop'[stack[n - 1]].nested = "fine" => current' = stack[n - 1],
         loop'[c].nested = "fine", Sound(loop'[c], queue[c], branch[c])
  PROVE  Orderly'
<1>1. /\ n \in Nat /\ n > 0 /\ n \in 1 .. n /\ stack[n] = c
      /\ \A i \in 1 .. n : stack[i] \in Call
  BY StackIs DEF IInv, Innermost
<1>2. Len(stack') = n - 1 /\ \A i \in 1 .. n - 1 : stack'[i] = stack[i]
  BY <1>1, PoppedIs DEF IInv
<1>3. \A i, j \in 1 .. n : stack[i] = stack[j] => i = j
  BY DEF Orderly, ContextsNest
<1>4. \A i \in 1 .. n - 1 : i \in 1 .. n /\ i # n
  BY <1>1
<1>5. \A i \in 1 .. n - 1 : stack[i] \in Call \ {c} /\ stack'[i] = stack[i]
  BY <1>1, <1>2, <1>3, <1>4
<1>6. ContextsNest'
  <2>1. ASSUME NEW i \in 1 .. n - 1
        PROVE  loop'[stack'[i]].pc \notin {"idle", "returned", "threw"}
    <3>1. loop'[stack'[i]].pc = loop[stack[i]].pc
      BY <1>5
    <3>2. loop[stack[i]].pc \notin {"idle", "returned", "threw"}
      BY <1>4 DEF Orderly, ContextsNest
    <3> QED
      BY <3>1, <3>2
  <2>2. \A i, j \in 1 .. n - 1 : stack'[i] = stack'[j] => i = j
    BY <1>3, <1>4, <1>5
  <2>3. ASSUME NEW i \in 1 .. n - 1 - 1
        PROVE  /\ loop'[stack'[i]].pc = "run" /\ loop'[stack'[i]].item \notin {"finish", "end"}
               /\ loop'[stack'[i]].nested = "fine" => loop'[stack'[i + 1]].oldContext = stack'[i]
    <3>1. i \in 1 .. n - 1 /\ i + 1 \in 1 .. n - 1 /\ n - 1 \in 1 .. n - 1 /\ i # n - 1
      BY <1>1
    <3>2. stack[i] # stack[n - 1]
      BY <1>3, <1>4, <3>1
    <3>3. loop'[stack'[i]].nested = loop[stack[i]].nested
      BY <1>5, <3>1, <3>2
    <3>4. loop'[stack'[i + 1]].oldContext = loop[stack[i + 1]].oldContext
      BY <1>5, <3>1
    <3> QED
      BY <1>5, <3>1, <3>3, <3>4 DEF Orderly, ContextsNest
  <2>4. n - 1 > 0 /\ loop'[stack'[n - 1]].nested = "fine" => current' = stack'[n - 1]
    <3>1. n - 1 > 0 => n > 1 /\ n - 1 \in 1 .. n - 1
      BY <1>1
    <3> QED
      BY <1>5, <3>1
  <2> QED
    BY <1>2, <2>1, <2>2, <2>3, <2>4 DEF ContextsNest
<1>7. NestedIsWithinSegment'
  <2> SUFFICES ASSUME NEW d \in Call, loop'[d].nested # "fine"
               PROVE  loop'[d].pc = "run" /\ loop'[d].item \notin {"finish", "end"}
    BY DEF NestedIsWithinSegment
  <2>1. d \in Call \ {c}
    OBVIOUS
  <2>2. CASE loop'[d].nested = loop[d].nested
    BY <2>1, <2>2 DEF Orderly, NestedIsWithinSegment
  <2>3. CASE n > 1 /\ d = stack[n - 1]
    <3>1. n - 1 \in 1 .. n - 1
      BY <1>1, <2>3
    <3>2. loop[d].pc = "run" /\ loop[d].item \notin {"finish", "end"}
      BY <2>3, <3>1 DEF Orderly, ContextsNest
    <3> QED
      BY <2>1, <3>2
  <2> QED
    BY <2>1, <2>2, <2>3
<1>8. NothingStranded'
  BY DEF Orderly, NothingStranded
<1>9. AllSound'
  <2> SUFFICES ASSUME NEW d \in Call PROVE Sound(loop'[d], queue[d], branch[d])
    BY DEF AllSound
  <2>1. Sound(loop[d], queue[d], branch[d])
    BY DEF Orderly, AllSound
  <2>2. CASE d = c
    BY <2>2
  <2>3. CASE d # c
    <3>1. /\ loop'[d].pc = loop[d].pc /\ loop'[d].item = loop[d].item
          /\ loop'[d].done = loop[d].done /\ loop'[d].failed = loop[d].failed
      BY <2>3
    <3> QED
      BY <2>1, <3>1, SoundAsBefore
  <2> QED
    BY <2>2, <2>3
<1> QED
  BY <1>6, <1>7, <1>8, <1>9 DEF Orderly

LEMMA ReturnOrderly ==
  ASSUME IInv, Orderly, NEW c \in Call, Return(c)
  PROVE  Orderly'
<1> DEFINE n == Len(stack)
           r == [loop[c] EXCEPT !.pc = "returned"]
<1>1. /\ TypeOK /\ loop[c] \in LoopState /\ Sound(loop[c], queue[c], branch[c]) /\ Innermost(c)
      /\ loop[c].pc = "take" /\ loop[c].done
  BY DEF IInv, TypeOK, Orderly, AllSound, Return
<1>2. /\ loop' = [loop EXCEPT ![c] = r] /\ stack' = Popped /\ current' = loop[c].oldContext
      /\ queue' = queue /\ branch' = branch
  BY DEF Return, ContextAfter
<1>3. r.pc = "returned" /\ r.done /\ r.failed = loop[c].failed /\ r.nested = loop[c].nested
  BY <1>1 DEF LoopState
<1> HIDE DEF r
<1>4. loop'[c] = r /\ \A d \in Call \ {c} : loop'[d] = loop[d]
  BY <1>1, <1>2 DEF TypeOK
<1>5. loop[c].nested = "fine"
  BY <1>1, FineAtTheLoop
<1>6. Sound(r, queue[c], branch[c])
  <2>1. Whole(branch[c]) /\ ~loop[c].failed
    BY <1>1 DEF Sound
  <2> QED
    BY <1>1, <1>3, <2>1 DEF Sound, InLoop
<1>7. n > 1 /\ loop'[stack[n - 1]].nested = "fine" => current' = stack[n - 1]
  <2> SUFFICES ASSUME n > 1, loop'[stack[n - 1]].nested = "fine" PROVE current' = stack[n - 1]
    OBVIOUS
  <2>1. /\ n \in Nat /\ n - 1 \in 1 .. n - 1 /\ n - 1 \in 1 .. n /\ n \in 1 .. n /\ n - 1 # n
        /\ stack[n - 1] \in Call /\ stack[n] = c /\ n - 1 + 1 = n
    <3>1. n \in Nat /\ n - 1 \in 1 .. n
      BY <1>1, StackIs
    <3> QED
      BY <1>1, <3>1, StackIs DEF Innermost
  <2>2. stack[n - 1] # c
    BY <2>1 DEF Orderly, ContextsNest
  <2>3. loop[stack[n - 1]].nested = "fine"
    BY <1>4, <2>1, <2>2
  <2>4. loop[stack[n - 1 + 1]].oldContext = stack[n - 1]
    BY <2>1, <2>3 DEF Orderly, ContextsNest
  <2> QED
    BY <1>2, <2>1, <2>4
<1>8. n = Len(stack)
  OBVIOUS
<1> HIDE DEF n
<1> QED
  BY <1>1, <1>2, <1>3, <1>4, <1>5, <1>6, <1>7, <1>8, CallIsOver

LEMMA ThrowOrderly ==
  ASSUME IInv, Orderly, NEW c \in Call, Throw(c)
  PROVE  Orderly'
<1> DEFINE n == Len(stack)
<1>1. /\ TypeOK /\ loop \in [Call -> LoopState] /\ Sound(loop[c], queue[c], branch[c])
      /\ Innermost(c) /\ loop[c].pc = "throw"
  BY DEF IInv, TypeOK, Orderly, AllSound, Throw
<1>2. /\ stack' = Popped /\ queue' = queue /\ branch' = branch
  BY DEF Throw
<1>3. /\ n \in Nat /\ n > 0 /\ stack[n] = c
      /\ Len(Popped) = n - 1 /\ \A i \in 1 .. n - 1 : Popped[i] = stack[i]
  <2>1. n \in Nat /\ n > 0 /\ stack[n] = c
    BY <1>1, StackIs DEF Innermost
  <2>2. n = Len(stack)
    OBVIOUS
  <2> HIDE DEF n
  <2> QED
    BY <1>1, <2>1, <2>2, PoppedIs
<1>4. loop'[c] = [loop[c] EXCEPT !.pc = "threw"]
  BY DEF Throw
<1>5. ASSUME NEW d \in Call \ {c}
      PROVE  \/ loop'[d] = loop[d]
             \/ n > 1 /\ d = stack[n - 1] /\ loop'[d] = [loop[d] EXCEPT !.nested = "threw"]
  <2>1. CASE Popped # <<>> /\ d = Popped[Len(Popped)]
    <3>1. n > 1 /\ n - 1 \in 1 .. n - 1
      <4>1. n - 1 # 0
        BY <1>3, <2>1, EmptySeq, PoppedType, <1>1 DEF Innermost
      <4> QED
        BY <1>3, <4>1
    <3>2. d = stack[n - 1]
      BY <1>3, <2>1, <3>1
    <3>3. loop'[d] = [loop[d] EXCEPT !.nested = "threw"]
      BY <2>1 DEF Throw
    <3> QED
      BY <3>1, <3>2, <3>3
  <2>2. CASE ~(Popped # <<>> /\ d = Popped[Len(Popped)])
    BY <2>2 DEF Throw
  <2> QED
    BY <2>1, <2>2
<1>6. n > 1 => /\ stack[n - 1] \in Call \ {c} /\ n - 1 \in 1 .. n - 1
               /\ loop'[stack[n - 1]] = [loop[stack[n - 1]] EXCEPT !.nested = "threw"]
  <2> SUFFICES ASSUME n > 1
               PROVE  /\ stack[n - 1] \in Call \ {c} /\ n - 1 \in 1 .. n - 1
                      /\ loop'[stack[n - 1]] = [loop[stack[n - 1]] EXCEPT !.nested = "threw"]
    OBVIOUS
  <2>1. n - 1 \in 1 .. n /\ n - 1 \in 1 .. n - 1 /\ n \in 1 .. n /\ n - 1 # n
    BY <1>3
  <2>2. stack[n - 1] \in Call
    BY <1>1, <2>1, StackIs
  <2>3. stack[n - 1] # c
    BY <1>3, <2>1 DEF Orderly, ContextsNest
  <2>4. Popped # <<>> /\ stack[n - 1] = Popped[Len(Popped)]
    BY <1>3, <2>1, EmptySeq
  <2>5. loop'[stack[n - 1]] = [loop[stack[n - 1]] EXCEPT !.nested = "threw"]
    BY <2>2, <2>3, <2>4 DEF Throw
  <2> QED
    BY <2>1, <2>2, <2>3, <2>5
<1>7. \A d \in Call \ {c} :
           /\ loop'[d].pc = loop[d].pc /\ loop'[d].item = loop[d].item
           /\ loop'[d].done = loop[d].done /\ loop'[d].failed = loop[d].failed
           /\ loop'[d].oldContext = loop[d].oldContext
           /\ loop'[d].nested = loop[d].nested \/ (n > 1 /\ d = stack[n - 1])
  <2> TAKE d \in Call \ {c}
  <2>1. loop[d] \in LoopState
    BY <1>1
  <2> HIDE DEF n
  <2> QED
    BY <1>5, <2>1 DEF LoopState
<1>8. n > 1 => loop'[stack[n - 1]].nested = "threw"
  <2> SUFFICES ASSUME n > 1 PROVE loop'[stack[n - 1]].nested = "threw"
    OBVIOUS
  <2>1. loop[stack[n - 1]] \in LoopState
    BY <1>1, <1>6
  <2> QED
    BY <1>6, <2>1 DEF LoopState
<1>9. /\ loop'[c].pc = "threw" /\ loop'[c].nested = loop[c].nested /\ loop'[c].item = loop[c].item
      /\ loop'[c].done = loop[c].done /\ loop'[c].failed = loop[c].failed
  <2>1. loop[c] \in LoopState
    BY <1>1
  <2> QED
    BY <1>4, <2>1 DEF LoopState
<1>10. loop[c].nested = "fine"
  BY <1>1, FineAtTheLoop
<1>11. Sound(loop'[c], queue[c], branch[c])
  BY <1>1, <1>9 DEF Sound, InLoop
<1>12. n = Len(stack)
  OBVIOUS
<1> HIDE DEF n
<1> QED
  BY <1>1, <1>2, <1>7, <1>8, <1>9, <1>10, <1>11, <1>12, CallIsOver

(* The pool. *)

(* A step that leaves the nesting of the calls alone. *)
LEMMA NestingStays ==
  ASSUME IInv, Orderly, stack' = stack, current' = current,
         \A d \in Call : /\ loop'[d].pc = loop[d].pc /\ loop'[d].item = loop[d].item
                         /\ loop'[d].nested = loop[d].nested
                         /\ loop'[d].oldContext = loop[d].oldContext
  PROVE  ContextsNest' /\ NestedIsWithinSegment'
<1> DEFINE n == Len(stack)
<1>1. n \in Nat /\ (\A i \in 1 .. n : stack[i] \in Call) /\ (n > 0 => n \in 1 .. n)
      /\ \A i \in 1 .. n - 1 : i \in 1 .. n /\ i + 1 \in 1 .. n
  BY StackIs DEF IInv
<1>2. ContextsNest'
  <2>1. \A i \in 1 .. n : loop'[stack[i]].pc \notin {"idle", "returned", "threw"}
    BY <1>1 DEF Orderly, ContextsNest
  <2>2. ASSUME NEW i \in 1 .. n - 1
        PROVE  /\ loop'[stack[i]].pc = "run" /\ loop'[stack[i]].item \notin {"finish", "end"}
               /\ loop'[stack[i]].nested = "fine" => loop'[stack[i + 1]].oldContext = stack[i]
    <3>1. stack[i] \in Call /\ stack[i + 1] \in Call
      BY <1>1
    <3> QED
      BY <3>1 DEF Orderly, ContextsNest
  <2>3. n > 0 /\ loop'[stack[n]].nested = "fine" => current = stack[n]
    BY <1>1 DEF Orderly, ContextsNest
  <2>4. \A i, j \in 1 .. n : stack[i] = stack[j] => i = j
    BY DEF Orderly, ContextsNest
  <2> QED
    BY <2>1, <2>2, <2>3, <2>4 DEF ContextsNest
<1>3. NestedIsWithinSegment'
  BY DEF Orderly, NestedIsWithinSegment
<1> QED
  BY <1>2, <1>3

LEMMA ResumeOrderly ==
  ASSUME IInv, Orderly, NEW c \in Call, NEW b \in Branch, Resume(c, b)
  PROVE  Orderly'
<1> DEFINE br2 == [branch[c] EXCEPT ![b].at = "queued"]
<1>1. /\ TypeOK /\ branch[c] \in [Branch -> BranchState] /\ queue[c] \in Seq(Item)
      /\ Sound(loop[c], queue[c], branch[c]) /\ branch[c][b].at = "await"
      /\ branch[c][b].context = c
      /\ \A x \in Branch : branch[c][x].at \in {"await", "queued"} =>
                             branch[c][x].context \in {c, NoContext}
  BY DEF IInv, TypeOK, Orderly, AllSound, NothingStranded, Resume
<1>2. /\ queue' = [queue EXCEPT ![c] = Append(@, b)] /\ branch' = [branch EXCEPT ![c] = br2]
      /\ stack' = stack /\ current' = current /\ loop' = loop
  BY <1>1 DEF Resume, PostThere, Enqueued
<1>3. br2[b].at = "queued" /\ br2[b].context = c /\ \A x \in Branch \ {b} : br2[x] = branch[c][x]
  BY <1>1 DEF BranchState
<1> HIDE DEF br2
<1>4. /\ queue'[c] = Append(queue[c], b) /\ \A d \in Call \ {c} : queue'[d] = queue[d]
      /\ branch'[c] = br2 /\ \A d \in Call \ {c} : branch'[d] = branch[d]
  BY <1>1, <1>2 DEF TypeOK
<1>5. Sound(loop[c], Append(queue[c], b), br2)
  BY <1>1, <1>3, SoundResumed
<1>6. AllSound'
  BY <1>2, <1>4, <1>5 DEF Orderly, AllSound
<1>7. NothingStranded'
  <2>1. \A x \in Branch : br2[x].at \in {"await", "queued"} => br2[x].context \in {c, NoContext}
    BY <1>1, <1>3
  <2> QED
    BY <1>4, <2>1 DEF Orderly, NothingStranded
<1>8. ContextsNest' /\ NestedIsWithinSegment'
  BY <1>2, NestingStays
<1> QED
  BY <1>6, <1>7, <1>8 DEF Orderly

LEMMA PoolCompleteOrderly ==
  ASSUME IInv, Orderly, NEW c \in Call, NEW b \in Branch, NEW fails \in BOOLEAN,
         PoolComplete(c, b, fails)
  PROVE  Orderly'
<1> DEFINE br2 == [branch[c] EXCEPT ![b] = Finished]
           r == [loop[c] EXCEPT !.failed = @ \/ fails]
           q2 == IF Completes(c, b) THEN Append(queue[c], "finish") ELSE queue[c]
<1>1. /\ TypeOK /\ branch[c] \in [Branch -> BranchState] /\ queue[c] \in Seq(Item)
      /\ loop[c] \in LoopState
      /\ Sound(loop[c], queue[c], branch[c]) /\ branch[c][b].at = "await"
      /\ \A x \in Branch : branch[c][x].at \in {"await", "queued"} =>
                             branch[c][x].context \in {c, NoContext}
  BY DEF IInv, TypeOK, Orderly, AllSound, NothingStranded, PoolComplete
<1>2. /\ branch' = [branch EXCEPT ![c] = br2] /\ loop' = [loop EXCEPT ![c] = r]
      /\ stack' = stack /\ current' = current
  BY DEF PoolComplete
<1>3. queue' = [queue EXCEPT ![c] = q2]
  <2>1. CASE Completes(c, b)
    BY <2>1 DEF PoolComplete, PostThere, Enqueued
  <2>2. CASE ~Completes(c, b)
    BY <1>1, <2>2 DEF PoolComplete, TypeOK
  <2> QED
    BY <2>1, <2>2
<1>4. br2[b].at = "done" /\ \A x \in Branch \ {b} : br2[x] = branch[c][x]
  BY <1>1 DEF Finished
<1>5. q2 = queue[c] \/ (Whole(br2) /\ q2 = Append(queue[c], "finish"))
  <2>1. Completes(c, b) => Whole(br2)
    BY <1>4 DEF Completes, Whole
  <2> QED
    BY <2>1
<1>6. /\ r.pc = loop[c].pc /\ r.item = loop[c].item /\ r.done = loop[c].done
      /\ r.nested = loop[c].nested /\ r.oldContext = loop[c].oldContext
  BY <1>1 DEF LoopState
<1> HIDE DEF br2, r, q2
<1>7. /\ queue'[c] = q2 /\ \A d \in Call \ {c} : queue'[d] = queue[d]
      /\ branch'[c] = br2 /\ \A d \in Call \ {c} : branch'[d] = branch[d]
      /\ loop'[c] = r /\ \A d \in Call \ {c} : loop'[d] = loop[d]
  BY <1>1, <1>2, <1>3 DEF TypeOK
<1>8. Sound(r, q2, br2)
  <2> DEFINE l == loop[c]
             q == queue[c]
             br == branch[c]
  <2>1. Sound(l, q, br) /\ q \in Seq(Item) /\ br[b].at = "await"
    BY <1>1
  <2>2. r.pc = l.pc /\ r.item = l.item /\ r.done = l.done
    BY <1>6
  <2>3. \A x \in Branch \ {b} : br2[x] = br[x]
    BY <1>4
  <2>4. q2 = q \/ (Whole(br2) /\ q2 = Append(q, "finish"))
    BY <1>5
  <2> HIDE DEF l, q, br
  <2> QED
    BY <2>1, <2>2, <2>3, <2>4, SoundOnPool
<1>9. AllSound'
  BY <1>7, <1>8 DEF Orderly, AllSound
<1>10. NothingStranded'
  <2>1. \A x \in Branch : br2[x].at \in {"await", "queued"} => br2[x].context \in {c, NoContext}
    BY <1>1, <1>4
  <2> QED
    BY <1>7, <2>1 DEF Orderly, NothingStranded
<1>11. ContextsNest' /\ NestedIsWithinSegment'
  <2>1. \A d \in Call : /\ loop'[d].pc = loop[d].pc /\ loop'[d].item = loop[d].item
                        /\ loop'[d].nested = loop[d].nested
                        /\ loop'[d].oldContext = loop[d].oldContext
    BY <1>6, <1>7
  <2> QED
    BY <1>2, <2>1, NestingStays
<1> QED
  BY <1>9, <1>10, <1>11 DEF Orderly

LEMMA InitiallyOrderly == Init => Orderly
<1> SUFFICES ASSUME Init PROVE Orderly
  OBVIOUS
<1>1. ContextsNest
  BY EmptySeq DEF Init, ContextsNest
<1>2. NestedIsWithinSegment /\ NothingStranded
  BY DEF Init, NestedIsWithinSegment, NothingStranded
<1>3. \A x : ~In(x, <<>>)
  BY EmptySeq DEF In
<1>4. Once(<<>>)
  BY EmptySeq DEF Once
<1>5. AllSound
  BY <1>3, <1>4 DEF Init, AllSound, Sound, InLoop
<1> QED
  BY <1>1, <1>2, <1>5 DEF Orderly

LEMMA StaysOrderly ==
  ASSUME ~AwaitsDirty, IInv, Orderly, [Next]_vars
  PROVE  Orderly'
<1>1. CASE UNCHANGED vars
  BY <1>1 DEF vars, Orderly, ContextsNest, NestedIsWithinSegment, NothingStranded, AllSound
<1>2. CASE Thread
  <2>1. PICK c \in Call :
          \/ Begin(c) \/ Take(c) \/ Block(c) \/ WaitOne(c) \/ RunEnd(c) \/ Return(c) \/ Throw(c)
          \/ RunFinish(c) \/ Catch(c)
          \/ \E b \in Branch :
               \/ \E context \in {current, NoContext} : Await(c, b, context)
               \/ \E fails \in BOOLEAN : Complete(c, b, fails)
    BY <1>2 DEF Thread
  <2> QED
    BY <2>1, BeginOrderly, LoopActsOrderly, ReturnOrderly, ThrowOrderly, AwaitOrderly,
       CompleteOrderly
<1>3. ASSUME NEW c \in Call, Set(c) PROVE Orderly'
  BY <1>3 DEF Set, Orderly, ContextsNest, NestedIsWithinSegment, NothingStranded, AllSound
<1>4. ASSUME NEW c \in Call, NEW b \in Branch, Pool(c, b) PROVE Orderly'
  BY <1>4, ResumeOrderly, PoolCompleteOrderly DEF Pool
<1> QED
  BY <1>1, <1>2, <1>3, <1>4 DEF Next, Finish

LEMMA AlwaysOrderly == ~AwaitsDirty => (Spec => []Orderly)
<1> DEFINE Safe == ~AwaitsDirty /\ IInv /\ Orderly
<1>1. ~AwaitsDirty /\ Init => Safe
  BY Initially, InitiallyOrderly
<1>2. Safe /\ [Next]_vars => Safe'
  BY Preserved, StaysOrderly
<1>3. Safe => Orderly
  OBVIOUS
<1> HIDE DEF Safe
<1> QED
  BY <1>1, <1>2, <1>3, PTL DEF Spec

(* AsyncHelpers.cs:33: however deep the calls nest, and whatever those     *)
(* within threw, a branch awaits on its own call's context or on none.     *)
THEOREM NoBranchIsStranded == ~AwaitsDirty => (Spec => []NothingStranded)
<1>1. Orderly => NothingStranded
  BY DEF Orderly
<1> QED
  BY <1>1, AlwaysOrderly, PTL

(* AsyncHelpers.cs:45: RunSync returns only when the whole task is over    *)
(* and succeeded, and throws only when it is over and failed.              *)
THEOREM ComesBackWhenDone == ~AwaitsDirty => (Spec => []ReturnsWhenDone)
<1>1. Orderly => ReturnsWhenDone
  <2> SUFFICES ASSUME Orderly, NEW c \in Call, loop[c].pc \in {"returned", "threw"}
               PROVE  AllDone(c) /\ (loop[c].pc = "threw" <=> loop[c].failed)
    BY DEF ReturnsWhenDone
  <2>1. Sound(loop[c], queue[c], branch[c])
    BY DEF Orderly, AllSound
  <2> QED
    BY <2>1 DEF Sound, Whole, AllDone
<1> QED
  BY <1>1, AlwaysOrderly, PTL

================================================================================
