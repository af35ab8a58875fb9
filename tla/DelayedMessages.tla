---------------------------- MODULE DelayedMessages ----------------------------
(***************************************************************************)
(* Delayed messages of a message bus: AddDelayedMessageAsync and           *)
(* DoMaintenanceAsync of src/Infra.Core/Messaging/MessageBusBase.cs, run   *)
(* by the ScheduledTimer of MaintenanceBase.cs.                            *)
(*                                                                         *)
(* A message is published with a delay, waits in _delayedMessages, and is  *)
(* published without a delay by the maintenance callback once it is due.   *)
(* That second PublishAsync cannot fail in InMemoryMessageBus; in          *)
(* RedisMessageBus it can.                                                 *)
(***************************************************************************)
EXTENDS ScheduledTimer

CONSTANTS
  Message,
  Horizon,   \* bound: no message is due after this time
  Batch,     \* DoMaintenanceAsync's 50 ms: how early a message may be sent
  MayFail    \* can PublishAsync throw?

ASSUME DelayedAssumption ==
  /\ Horizon \in Nat /\ Horizon <= MaxTime
  /\ Batch \in Nat /\ MayFail \in BOOLEAN

VARIABLES
  pending,   \* keys of _delayedMessages
  sendTime,  \* their SendTime, which outlives the entry here
  due,       \* each thread's messagesToSend, what is left of it
  sent,      \* how often a message was published
  sentAt,    \* when it was published last
  lost       \* its publication threw

messageVars == <<pending, sendTime, due, sent, sentAt, lost>>
vars == <<timerVars, messageVars>>

TypeOK ==
  /\ TimerTypeOK
  /\ pending \subseteq Message /\ lost \subseteq Message
  /\ sendTime \in [Message -> Nat] /\ sent \in [Message -> Nat] /\ sentAt \in [Message -> Nat]
  /\ due \in [Worker -> SUBSET Message]

Init ==
  /\ TimerInit
  /\ pending = {} /\ lost = {}
  /\ sendTime = [m \in Message |-> Never]
  /\ sent = [m \in Message |-> 0] /\ sentAt = [m \in Message |-> 0]
  /\ due = [w \in Worker |-> {}]

New(m) == sendTime[m] = Never

-------------------------------------------------------------------------------
(* PublishAsync with a delay: AddDelayedMessageAsync, up to its call of    *)
(* ScheduleNext.  Also after Dispose: nothing stops the caller.            *)
AddDelayedMessage(w, m, delay) ==
  /\ At(w, "idle") /\ New(m) /\ now + delay <= Horizon /\ ~TimerFirst
  /\ pending' = pending \cup {m}
  /\ sendTime' = [sendTime EXCEPT ![m] = now + delay]
  /\ thread' = [thread EXCEPT ![w] = Scheduling(@, now + delay, "idle")]
  /\ UNCHANGED <<now, next, deadline, disposed, running, again, rerun, due, sent, sentAt, lost>>

(* DoMaintenanceAsync: what is due, and when the next one is. *)
DueBy_Everything(t) == pending
DueBy(t) == {m \in pending : sendTime[m] <= t}

NextSendTime_Skips(t) == Never
NextSendTime(t) ==
  LET later == {sendTime[m] : m \in pending \ DueBy(t)}
  IN IF later = {} THEN Never ELSE CHOOSE x \in later : \A y \in later : x <= y

Scan(w) ==
  /\ At(w, "callback")
  /\ due' = [due EXCEPT ![w] = DueBy(now + Batch)]
  /\ thread' = [thread EXCEPT ![w].pc = "decide", ![w].result = NextSendTime(now + Batch)]
  /\ rerun' = "none"
  /\ UNCHANGED <<now, next, deadline, disposed, running, again>>
  /\ UNCHANGED <<pending, sendTime, sent, sentAt, lost>>

(* TryRemove decides which of two callbacks publishes a message. *)
Claims_Always(m) == TRUE
Claims(m) == m \in pending

(* What is out of the table once m is being published: nothing more. *)
Removed_WholeBatch(w, m) == due[w]
Removed(w, m) == {m}

SendDue(w, m) ==
  /\ At(w, "decide") /\ m \in due[w]
  /\ due' = [due EXCEPT ![w] = @ \ {m}]
  /\ pending' = pending \ Removed(w, m)
  /\ IF Claims(m)
       THEN sent' = [sent EXCEPT ![m] = @ + 1] /\ sentAt' = [sentAt EXCEPT ![m] = now]
       ELSE UNCHANGED <<sent, sentAt>>
  /\ UNCHANGED <<timerVars, sendTime, lost>>

(* PublishAsync throws: the message is gone, the rest of the batch stays   *)
(* pending, and RunCallbackAsync asks for another run.                     *)
SendFails(w, m) ==
  /\ MayFail /\ At(w, "decide") /\ m \in due[w] /\ Claims(m)
  /\ due' = [due EXCEPT ![w] = {}]
  /\ pending' = pending \ Removed(w, m) /\ lost' = lost \cup {m}
  /\ again' = TRUE /\ rerun' = "asked"
  /\ thread' = [thread EXCEPT ![w].result = Null]
  /\ UNCHANGED <<now, next, deadline, disposed, running, sendTime, sent, sentAt>>

(* Dispose: the timer, then the messages.  A callback that runs goes on.   *)
DisposeTimer(w) ==
  /\ At(w, "idle") /\ ~disposed
  /\ disposed' = TRUE /\ deadline' = Never
  /\ Go(w, "clear")
  /\ UNCHANGED <<now, next, running, again, rerun, messageVars>>

ClearMessages(w) ==
  /\ At(w, "clear")
  /\ pending' = {}
  /\ Finish(w)
  /\ UNCHANGED <<now, next, deadline, disposed, running, again, rerun>>
  /\ UNCHANGED <<sendTime, due, sent, sentAt, lost>>

(* The callback schedules the next run only once its batch is sent. *)
Step(w) ==
  \/ due[w] = {} /\ TimerStep(w) /\ UNCHANGED messageVars
  \/ Scan(w)
  \/ \E m \in Message : SendDue(w, m) \/ SendFails(w, m)
  \/ ClearMessages(w)

FireOn(w) == Fire(w) /\ UNCHANGED messageVars
PassTime == Tick /\ UNCHANGED messageVars

Next ==
  \/ \E w \in Worker :
       \/ Step(w)
       \/ FireOn(w)
       \/ DisposeTimer(w)
       \/ \E m \in Message, delay \in 1 .. MaxDelay : AddDelayedMessage(w, m, delay)
  \/ PassTime

Spec == Init /\ [][Next]_vars

(* Threads run on, time passes, and a due timer gets a pool thread. *)
Fairness ==
  /\ \A w \in Worker : WF_vars(Step(w))
  /\ WF_vars(\E w \in Worker : FireOn(w))
  /\ WF_vars(PassTime)
FairSpec == Spec /\ Fairness

-------------------------------------------------------------------------------
(* The inductive invariant behind the theorems of DelayedMessagesProofs.   *)

SampledBeforeDate == \A w \in Worker : At(w, "lock") => thread[w].utcNow <= thread[w].date
ClearsOnceDisposed == \A w \in Worker : At(w, "clear") => disposed

(* What waits, or was never handed in, was not published yet; what a       *)
(* callback listed was close to its time.                                  *)
PendingIsUnsent ==
  \A m \in Message :
    /\ m \in pending => ~New(m) /\ sent[m] = 0
    /\ New(m) => sent[m] = 0
DueIsClose ==
  \A w \in Worker : \A m \in due[w] : ~New(m) /\ sendTime[m] <= now + Batch

-------------------------------------------------------------------------------
(* No message is published twice, even though two callbacks may run at     *)
(* once and may both have listed it (MessageBusBase.cs:121).               *)
PublishedAtMostOnce == \A m \in Message : sent[m] <= 1

(* Nor more than the batching interval before its time.                    *)
NotBeforeItsTime == \A m \in Message : sent[m] > 0 => sendTime[m] <= sentAt[m] + Batch

(* A message only leaves the table by being published, unless its          *)
(* publication threw or the bus was disposed of.                           *)
NoneDropped ==
  disposed \/ \A m \in Message : New(m) \/ m \in pending \/ sent[m] > 0 \/ m \in lost

(* The strengthening that makes the three inductive. *)
IInv == /\ TypeOK /\ SampledBeforeDate /\ ClearsOnceDisposed
        /\ PendingIsUnsent /\ DueIsClose
        /\ PublishedAtMostOnce /\ NotBeforeItsTime /\ NoneDropped

(* Every message that is accepted is published in the end, unless its      *)
(* publication throws or the bus is disposed of.                           *)
EveryMessageIsSent ==
  \A m \in Message : m \in pending ~> sent[m] > 0 \/ m \in lost \/ disposed

(* That holds of a timer that is never early and of delays that fit an     *)
(* int, however slow the threads are and however callbacks overlap, but    *)
(* for a callback that was told to run again, too late for it to notice    *)
(* (ScheduledTimer.cs:137), if no other one looks at the table ever after. *)
SentUnlessIgnored ==
  \A m \in Message :
    [](m \in pending => <>(sent[m] > 0 \/ m \in lost \/ disposed \/ [](rerun = "ignored")))

(* ScheduleNext is on its way to set the timer: its date is not MaxValue,  *)
(* nor one it is going to find scheduled.                                  *)
WillSet(ts) ==
  \/ /\ ts.pc = "schedule" /\ ts.date < Never
     /\ ~AlreadyScheduled(IF ts.date < now THEN now ELSE ts.date, now)
  \/ ts.pc = "lock" /\ ~AlreadyScheduled(ts.date, ts.utcNow)

(* A callback on its way to the scan, one that has the message in its      *)
(* list, that was told to run again in time or is to return a date, or a   *)
(* thread about to set the timer.                                          *)
WillLook(w, m) ==
  \/ thread[w].pc \in {"note", "check", "enter", "start", "callback"}
  \/ /\ thread[w].pc = "decide"
     /\ m \in due[w] \/ thread[w].result < Never \/ (again /\ rerun = "asked")
  \/ WillSet(thread[w])

(* While a message waits, something will look at it.  There is nothing     *)
(* only after a request to run again that no callback noticed, until the   *)
(* next scan (ScheduledTimer.cs:137).                                      *)
PendingHasWakeUp ==
  \A m \in pending :
    deadline # Never \/ (\E w \in Worker : WillLook(w, m)) \/ disposed \/ rerun = "ignored"
================================================================================
