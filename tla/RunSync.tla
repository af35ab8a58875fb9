-------------------------------- MODULE RunSync --------------------------------
(***************************************************************************)
(* AsyncHelpers.RunSync (src/Infra.Core/Infrastructure/AsyncHelpers.cs): a *)
(* thread runs an async task to its end on a message loop of its own, the  *)
(* ExclusiveSynchronizationContext, while pool threads post continuations  *)
(* to it.                                                                  *)
(*                                                                         *)
(* A call stands for its context too.  Its task is a Task.WhenAll of       *)
(* branches: async methods that await, on the context or off it            *)
(* (ConfigureAwait(false)), call RunSync in turn, and return or throw.     *)
(* A segment is what a branch does between two awaits.                     *)
(***************************************************************************)
EXTENDS Naturals, Sequences

CONSTANTS
  Call,         \* calls of RunSync one thread may make, nested or in turn
  Branch,       \* branches of the task of each
  NoContext,    \* null
  MaxAwaits,    \* bound: awaits on the loop in a call
  MayFail,      \* may a branch throw of its own accord?
  AwaitsDirty   \* may it await on the context a RunSync that threw left behind?

ASSUME RunSyncAssumption ==
  /\ NoContext \notin Call
  /\ Branch \cap {"start", "finish", "end"} = {}
  /\ Branch # {}
  /\ MaxAwaits \in Nat /\ MayFail \in BOOLEAN /\ AwaitsDirty \in BOOLEAN

VARIABLES
  current,    \* SynchronizationContext.Current of the thread
  stack,      \* the calls it is in, the innermost last
  loop,       \* each call's locals and message loop
  queue,      \* items
  signalled,  \* workItemsWaiting, an AutoResetEvent
  posting,    \* pool threads inside Post, between Enqueue and Set
  branch      \* where the branches of each call's task stand

vars == <<current, stack, loop, queue, signalled, posting, branch>>

Context == Call \cup {NoContext}

(* "start" begins the task, "finish" resumes RunSync's own await of it,    *)
(* "end" sets done, and a branch goes on with that branch.                 *)
Item == {"start", "finish", "end"} \cup Branch

(* nested: what the last RunSync within the running segment threw.         *)
LoopState == [pc : {"idle", "take", "empty", "wait", "run", "throw", "returned", "threw"},
              item : Item, done : BOOLEAN, failed : BOOLEAN,
              nested : {"fine", "threw", "caught"},
              oldContext : Context, left : 0 .. MaxAwaits]

BranchState == [at : {"new", "await", "queued", "done"}, context : Context]

TypeOK ==
  /\ current \in Context
  /\ stack \in Seq(Call)
  /\ loop \in [Call -> LoopState]
  /\ queue \in [Call -> Seq(Item)]
  /\ signalled \in [Call -> BOOLEAN]
  /\ posting \in [Call -> Nat]
  /\ branch \in [Call -> [Branch -> BranchState]]

Init ==
  /\ current = NoContext /\ stack = <<>>
  /\ loop = [c \in Call |-> [pc |-> "idle", item |-> "start", done |-> FALSE,
       failed |-> FALSE, nested |-> "fine", oldContext |-> NoContext,
       left |-> MaxAwaits]]
  /\ queue = [c \in Call |-> <<>>]
  /\ signalled = [c \in Call |-> FALSE]
  /\ posting = [c \in Call |-> 0]
  /\ branch = [c \in Call |-> [b \in Branch |->
       [at |-> "new", context |-> NoContext]]]

(* The thread is in the innermost call only. *)
Innermost(c) == stack # <<>> /\ stack[Len(stack)] = c
Popped == SubSeq(stack, 1, Len(stack) - 1)
Running(c) == Innermost(c) /\ loop[c].pc = "run"

(* The branches the item in hand runs a segment of: the first segments of  *)
(* all of them, or one continuation.                                       *)
InHand(c, b) ==
  /\ Running(c)
  /\ loop[c].item = b \/ (loop[c].item = "start" /\ branch[c][b].at = "new")

-------------------------------------------------------------------------------
(* Post *)

Enqueued(c, item) == [queue EXCEPT ![c] = Append(@, item)]

(* By the loop's own thread: nobody sees a state between the two steps. *)
PostHere(c, item) ==
  /\ queue' = Enqueued(c, item)
  /\ signalled' = [signalled EXCEPT ![c] = TRUE]

(* By a pool thread: under the lock, and then Set. *)
PostThere(c, item) ==
  /\ queue' = Enqueued(c, item)
  /\ posting' = [posting EXCEPT ![c] = @ + 1]

Set_Pulses(c) ==
  /\ posting[c] > 0
  /\ posting' = [posting EXCEPT ![c] = @ - 1]
  /\ signalled' = [signalled EXCEPT ![c] = loop[c].pc = "wait"]
  /\ UNCHANGED <<current, stack, loop, queue, branch>>
Set(c) ==
  /\ posting[c] > 0
  /\ posting' = [posting EXCEPT ![c] = @ - 1]
  /\ signalled' = [signalled EXCEPT ![c] = TRUE]
  /\ UNCHANGED <<current, stack, loop, queue, branch>>

-------------------------------------------------------------------------------
(* RunSync: from the thread's own code, or from a segment of a branch.     *)
Begin(c) ==
  /\ loop[c].pc = "idle"
  /\ stack = <<>> \/ \E d \in Call, b \in Branch : InHand(d, b) /\ loop[d].nested # "threw"
  /\ loop' = [loop EXCEPT ![c].pc = "take", ![c].oldContext = current]
  /\ current' = c
  /\ stack' = Append(stack, c)
  /\ PostHere(c, "start")
  /\ UNCHANGED <<posting, branch>>

(* BeginMessageLoop: under the lock, the next item or none. *)
Take(c) ==
  /\ Innermost(c) /\ loop[c].pc = "take" /\ ~loop[c].done
  /\ \/ /\ queue[c] # <<>>
        /\ loop' = [loop EXCEPT ![c].pc = "run", ![c].item = Head(queue[c])]
        /\ queue' = [queue EXCEPT ![c] = Tail(@)]
     \/ /\ queue[c] = <<>>
        /\ loop' = [loop EXCEPT ![c].pc = "empty"]
        /\ UNCHANGED queue
  /\ UNCHANGED <<current, stack, signalled, posting, branch>>

(* No longer under it, WaitOne: the thread blocks until it is signalled.   *)
Block(c) ==
  /\ Innermost(c) /\ loop[c].pc = "empty"
  /\ loop' = [loop EXCEPT ![c].pc = "wait"]
  /\ UNCHANGED <<current, stack, queue, signalled, posting, branch>>

WaitOne(c) ==
  /\ Innermost(c) /\ loop[c].pc = "wait" /\ signalled[c]
  /\ signalled' = [signalled EXCEPT ![c] = FALSE]
  /\ loop' = [loop EXCEPT ![c].pc = "take"]
  /\ UNCHANGED <<current, stack, queue, posting, branch>>

(* The item of EndMessageLoop. *)
RunEnd(c) ==
  /\ Running(c) /\ loop[c].item = "end"
  /\ loop' = [loop EXCEPT ![c].done = TRUE, ![c].pc = "take"]
  /\ UNCHANGED <<current, stack, queue, signalled, posting, branch>>

(* The loop is left, and the caller's context put back. *)
ContextAfter_Kept(c) == current
ContextAfter(c) == loop[c].oldContext

Return(c) ==
  /\ Innermost(c) /\ loop[c].pc = "take" /\ loop[c].done
  /\ current' = ContextAfter(c)
  /\ stack' = Popped
  /\ loop' = [loop EXCEPT ![c].pc = "returned"]
  /\ UNCHANGED <<queue, signalled, posting, branch>>

(* The AggregateException leaves the loop, and the context as it is. *)
Throw(c) ==
  /\ Innermost(c) /\ loop[c].pc = "throw"
  /\ stack' = Popped
  /\ loop' = [d \in Call |->
       IF d = c THEN [loop[d] EXCEPT !.pc = "threw"]
       ELSE IF Popped # <<>> /\ d = Popped[Len(Popped)]
         THEN [loop[d] EXCEPT !.nested = "threw"]
       ELSE loop[d]]
  /\ UNCHANGED <<current, queue, signalled, posting, branch>>

-------------------------------------------------------------------------------
(* The rest of the lambda RunSync posts: catch, and finally EndMessageLoop.*)
(* If the task failed the loop throws as soon as this item is over (what   *)
(* the async void lambda rethrows is posted behind "end" and never run).   *)
AfterFinish(failed) == IF failed THEN "throw" ELSE "take"

RunFinish(c) ==
  /\ Running(c) /\ loop[c].item = "finish"
  /\ PostHere(c, "end")
  /\ loop' = [loop EXCEPT ![c].pc = AfterFinish(loop[c].failed)]
  /\ UNCHANGED <<current, stack, posting, branch>>

(* The task is complete once this branch is: RunSync's await resumes.      *)
Completes_AtOnce(c, b) == TRUE
Completes(c, b) == \A other \in Branch \ {b} : branch[c][other].at = "done"

Others(c, b) == \E other \in Branch \ {b} : branch[c][other].at = "new"

(* Where the loop goes when the segment of b is over. *)
AfterSegment(c, b) ==
  IF loop[c].item = "start" /\ Others(c, b) THEN "run" ELSE "take"

(* A segment ends with an await, on the context that is current or on none.*)
(* The runtime puts the loop's context back after each segment.            *)
Await(c, b, context) ==
  /\ InHand(c, b) /\ loop[c].left > 0
  /\ \/ loop[c].nested = "fine"
     \/ loop[c].nested = "caught" /\ (context = NoContext \/ AwaitsDirty)
  /\ branch' = [branch EXCEPT ![c][b] = [at |-> "await", context |-> context]]
  /\ current' = c
  /\ loop' = [loop EXCEPT ![c].pc = AfterSegment(c, b), ![c].nested = "fine",
       ![c].left = @ - 1]
  /\ UNCHANGED <<stack, queue, signalled, posting>>

(* It may catch what a nested RunSync threw, and go on with the segment. *)
Catch(c) ==
  /\ Running(c) /\ loop[c].nested = "threw"
  /\ loop' = [loop EXCEPT ![c].nested = "caught"]
  /\ UNCHANGED <<current, stack, queue, signalled, posting, branch>>

Finished == [at |-> "done", context |-> NoContext]

(* Or with the end of the branch.  If it is the last, RunSync's await goes *)
(* on in the same item, or through Post if the context was left dirty.     *)
Complete(c, b, fails) ==
  LET failed == loop[c].failed \/ fails
      inline == current = c \/ loop[c].item = "start"
  IN /\ InHand(c, b)
     /\ loop[c].nested = "threw" => fails
     /\ fails => MayFail \/ loop[c].nested = "threw"
     /\ branch' = [branch EXCEPT ![c][b] = Finished]
     /\ current' = c
     /\ IF Completes(c, b)
          THEN PostHere(c, IF inline THEN "end" ELSE "finish")
          ELSE UNCHANGED <<queue, signalled>>
     /\ loop' = [loop EXCEPT ![c].failed = failed, ![c].nested = "fine",
          ![c].pc = IF Completes(c, b) /\ inline THEN AfterFinish(failed)
                    ELSE AfterSegment(c, b)]
     /\ UNCHANGED <<stack, posting>>

-------------------------------------------------------------------------------
(* Pool threads: what a branch awaits is over. *)

(* Its continuation is posted to the context it captured ... *)
Resume(c, b) ==
  LET context == branch[c][b].context
  IN /\ branch[c][b].at = "await" /\ context # NoContext
     /\ PostThere(context, b)
     /\ branch' = [branch EXCEPT ![c][b].at = "queued"]
     /\ UNCHANGED <<current, stack, loop, signalled>>

(* ... or the rest of the branch runs on the pool, awaits and all. *)
PoolComplete(c, b, fails) ==
  /\ branch[c][b].at = "await" /\ branch[c][b].context = NoContext
  /\ fails => MayFail
  /\ branch' = [branch EXCEPT ![c][b] = Finished]
  /\ loop' = [loop EXCEPT ![c].failed = @ \/ fails]
  /\ IF Completes(c, b) THEN PostThere(c, "finish") ELSE UNCHANGED <<queue, posting>>
  /\ UNCHANGED <<current, stack, signalled>>

-------------------------------------------------------------------------------
(* The thread. *)
Thread ==
  \E c \in Call :
    \/ Begin(c) \/ Take(c) \/ Block(c) \/ WaitOne(c) \/ RunEnd(c) \/ Return(c) \/ Throw(c)
    \/ RunFinish(c) \/ Catch(c)
    \/ \E b \in Branch :
         \/ \E context \in {current, NoContext} : Await(c, b, context)
         \/ \E fails \in BOOLEAN : Complete(c, b, fails)

Pool(c, b) ==
  Resume(c, b) \/ \E fails \in BOOLEAN : PoolComplete(c, b, fails)

(* The thread has made all its calls. *)
Finish == /\ stack = <<>> /\ \A c \in Call : loop[c].pc # "idle"
          /\ UNCHANGED vars

Next == \/ Thread \/ Finish
        \/ \E c \in Call : Set(c) \/ \E b \in Branch : Pool(c, b)

Spec == Init /\ [][Next]_vars

(* Threads are scheduled, and what is awaited comes to an end. *)
Fairness == /\ WF_vars(Thread)
            /\ \A c \in Call : WF_vars(Set(c)) /\ \A b \in Branch : WF_vars(Pool(c, b))
FairSpec == Spec /\ Fairness

-------------------------------------------------------------------------------
(* A loop that is going to wait although it has work has been signalled,   *)
(* or will be: an item posted between the empty look and WaitOne is not missed,    *)
(* nor is one whose Set was swallowed together with another's              *)
(* (AsyncHelpers.cs:83, :114).                                             *)
NoLostWakeup ==
  \A c \in Call : loop[c].pc \in {"empty", "wait"} /\ queue[c] # <<>> => signalled[c] \/ posting[c] > 0

(* Inductive: see RunSyncProofs. *)
IInv == TypeOK /\ NoLostWakeup

(* RunSync comes back only when the whole task is over, and normally only  *)
(* if it succeeded: the value it returns was assigned (AsyncHelpers.cs:45).*)
AllDone(c) == \A b \in Branch : branch[c][b].at = "done"
ReturnsWhenDone ==
  \A c \in Call : loop[c].pc \in {"returned", "threw"}
                  => AllDone(c) /\ (loop[c].pc = "threw" <=> loop[c].failed)

(* No branch waits for a loop that is over or another call's: the context  *)
(* it awaits on is its own call's, at every depth (AsyncHelpers.cs:33).    *)
NothingStranded ==
  \A c \in Call, b \in Branch :
    branch[c][b].at \in {"await", "queued"} => branch[c][b].context \in {c, NoContext}

(* Every RunSync comes back: no loop is left in WaitOne for ever.          *)
EveryCallReturns ==
  \A c \in Call : loop[c].pc # "idle" ~> loop[c].pc \in {"returned", "threw"}
================================================================================
