------------------------- MODULE DelayedMessagesProofs -------------------------
(***************************************************************************)
(* Proofs about DelayedMessages for any number of threads and messages,    *)
(* any delays, and a timer as early, as late and as slow as it likes; but  *)
(* NoneForgotten is about a timer that is never early and delays that fit  *)
(* an int.                                                                 *)
(***************************************************************************)
EXTENDS DelayedMessagesRefinement, WellFoundedInduction, TLAPS

LEMMA Constants ==
  /\ Never \in Nat /\ Null \in Nat /\ Horizon \in Nat /\ Horizon < Never
  /\ Batch \in Nat /\ Grace \in Nat /\ Early \in Nat
  BY TimerAssumption, DelayedAssumption DEF Never, Null

(* A nonempty set of naturals has a least element: NextSendTime is one.   *)
LEMMA SmallestOf ==
  ASSUME NEW T, T \subseteq Nat, T # {}
  PROVE  \E x \in T : \A y \in T : x <= y
  <1> DEFINE R == OpToRel(<, Nat)
  <1>1. IsWellFoundedOn(R, Nat)
    BY NatLessThanWellFounded DEF OpToRel
  <1>2. \A x, y \in Nat : y < x => <<y, x>> \in R
    BY DEF OpToRel
  <1> HIDE DEF R
  <1>3. PICK x \in T : \A y \in T : ~ (<<y, x>> \in R)
    BY <1>1, WFMin
  <1>4. \A y \in T : ~(y < x)
    BY <1>2, <1>3
  <1>5. x \in Nat /\ \A y \in T : y \in Nat
    OBVIOUS
  <1>6. \A y \in T : x <= y
    BY <1>4, <1>5
  <1> QED BY <1>6

LEMMA AtRestType == AtRest \in ThreadState /\ AtRest.pc = "idle"
  BY DEF AtRest, ThreadState

LEMMA InitKeeps == Init => IInv
  <1> SUFFICES ASSUME Init
               PROVE  IInv
    OBVIOUS
  <1>1. TypeOK
    BY Constants, AtRestType DEF Init, TimerInit, TypeOK, TimerTypeOK
  <1>2. SampledBeforeDate /\ ClearsOnceDisposed
    BY AtRestType DEF Init, TimerInit, SampledBeforeDate, ClearsOnceDisposed, At
  <1>3. PendingIsUnsent /\ DueIsClose /\ PublishedAtMostOnce /\ NotBeforeItsTime /\ NoneDropped
    BY DEF Init, PendingIsUnsent, DueIsClose, PublishedAtMostOnce, NotBeforeItsTime,
           NoneDropped, New
  <1> QED BY <1>1, <1>2, <1>3 DEF IInv

--------------------------------------------------------------------------------
(* What the steps of the timer may do to the messages' invariant: nothing, *)
(* as long as time does not run backwards and Dispose is not undone.       *)
LEMMA TimerKeepsMessages ==
  ASSUME IInv, UNCHANGED messageVars, now' \in Nat, now <= now', disposed' = disposed
  PROVE  /\ PendingIsUnsent' /\ DueIsClose' /\ PublishedAtMostOnce'
         /\ NotBeforeItsTime' /\ NoneDropped'
  <1>1. /\ pending' = pending /\ sendTime' = sendTime /\ due' = due
        /\ sent' = sent /\ sentAt' = sentAt /\ lost' = lost
    BY DEF messageVars
  <1>2. PendingIsUnsent' /\ PublishedAtMostOnce' /\ NotBeforeItsTime' /\ NoneDropped'
    BY <1>1 DEF IInv, PendingIsUnsent, PublishedAtMostOnce, NotBeforeItsTime, NoneDropped, New
  <1>3. DueIsClose'
    <2> SUFFICES ASSUME NEW w \in Worker, NEW m \in due[w]
                 PROVE  ~New(m) /\ sendTime[m] <= now' + Batch
      BY <1>1 DEF DueIsClose, New
    <2>1. ~New(m) /\ sendTime[m] <= now + Batch /\ m \in Message
      BY DEF IInv, DueIsClose, TypeOK
    <2>2. sendTime[m] \in Nat /\ now \in Nat
      BY <2>1 DEF IInv, TypeOK, TimerTypeOK
    <2> QED BY <2>1, <2>2, Constants
  <1> QED BY <1>2, <1>3

(* A step of one thread: its new state is typed, and the claims about a    *)
(* thread at "lock" or "clear" hold of it.                                 *)
LEMMA ThreadStep ==
  ASSUME IInv, NEW w \in Worker, NEW new \in ThreadState,
         thread' = [thread EXCEPT ![w] = new],
         new.pc = "lock" => new.utcNow <= new.date,
         new.pc = "clear" => disposed',
         disposed => disposed'
  PROVE  thread' \in [Worker -> ThreadState] /\ SampledBeforeDate' /\ ClearsOnceDisposed'
  <1>1. thread \in [Worker -> ThreadState] /\ SampledBeforeDate /\ ClearsOnceDisposed
    BY DEF IInv, TypeOK, TimerTypeOK
  <1>2. /\ thread' \in [Worker -> ThreadState] /\ thread'[w] = new
        /\ \A v \in Worker \ {w} : thread'[v] = thread[v]
    BY <1>1
  <1>3. SampledBeforeDate'
    BY <1>1, <1>2 DEF SampledBeforeDate, At
  <1>4. ClearsOnceDisposed'
    BY <1>1, <1>2 DEF ClearsOnceDisposed, At
  <1> QED BY <1>2, <1>3, <1>4

LEMMA ReturnedType ==
  ASSUME NEW ts \in ThreadState
  PROVE  Returned(ts) \in ThreadState /\ Returned(ts).pc \in {"idle", "finally"}
  BY DEF Returned, AtRest, ThreadState

(* One step of the timer, as the rest of the proof needs it. *)
LEMMA TimerStepEffect ==
  ASSUME IInv, NEW w \in Worker, TimerStep(w)
  PROVE  \E new \in ThreadState :
           /\ thread' = [thread EXCEPT ![w] = new]
           /\ new.pc = "lock" => new.utcNow <= new.date
           /\ new.pc # "clear"
           /\ now' = now /\ disposed' = disposed
           /\ next' \in Nat /\ deadline' \in Nat /\ running' \in BOOLEAN /\ again' \in BOOLEAN
           /\ rerun' \in {"none", "asked", "ignored"}
  <1> DEFINE ts == thread[w]
  <1>1. /\ ts \in ThreadState /\ now \in Nat /\ next \in Nat /\ deadline \in Nat
        /\ running \in BOOLEAN /\ again \in BOOLEAN /\ SampledBeforeDate
        /\ rerun \in {"none", "asked", "ignored"}
    BY DEF IInv, TypeOK, TimerTypeOK
  <1>2. CASE SampleNow(w)
    <2>1. CASE ts.date = Never
      <3>1. thread' = [thread EXCEPT ![w] = Returned(ts)]
        BY <1>2, <2>1 DEF SampleNow
      <3> QED BY <1>1, <1>2, <3>1, ReturnedType DEF SampleNow
    <2>2. CASE ts.date # Never
      <3>1. thread' = [thread EXCEPT ![w] = Sampled(ts, now)]
        BY <1>2, <2>2 DEF SampleNow
      <3> HIDE DEF ts
      <3>2. ts.date \in Nat
        BY <1>1 DEF ThreadState
      <3>3. /\ Sampled(ts, now) \in ThreadState /\ Sampled(ts, now).pc = "lock"
            /\ Sampled(ts, now).utcNow <= Sampled(ts, now).date
        <4>1. PICK d \in Nat : now <= d /\ d = (IF ts.date < now THEN now ELSE ts.date)
          BY <1>1, <3>2
        <4>2. Sampled(ts, now) = [ts EXCEPT !.pc = "lock", !.utcNow = now, !.date = d]
          BY <4>1 DEF Sampled
        <4> QED BY <1>1, <4>1, <4>2 DEF ThreadState
      <3> QED BY <1>1, <1>2, <3>1, <3>3 DEF SampleNow
    <2> QED BY <2>1, <2>2
  <1>3. CASE SetTimer(w)
    <2>1. thread' = [thread EXCEPT ![w] = Returned(ts)]
      BY <1>3 DEF SetTimer
    <2>2. ts.date \in Nat /\ ts.utcNow \in Nat /\ ts.utcNow <= ts.date
      BY <1>1, <1>3 DEF SetTimer, SampledBeforeDate, At, ThreadState
    <2>3. now + DelayOf(ts.date - ts.utcNow) \in Nat
      BY <1>1, <2>2 DEF DelayOf
    <2>4. next' \in Nat /\ deadline' \in Nat
      BY <1>1, <1>3, <2>2, <2>3, Constants DEF SetTimer
    <2> QED BY <1>1, <1>3, <2>1, <2>4, ReturnedType DEF SetTimer
  <1>4. CASE CheckRunning(w)
    <2>0. PICK pc \in {"note", "enter"} : pc = IF running THEN "note" ELSE "enter"
      OBVIOUS
    <2>1. thread' = [thread EXCEPT ![w] = [ts EXCEPT !.pc = pc]]
      BY <1>4, <2>0 DEF CheckRunning, Go
    <2>2. [ts EXCEPT !.pc = pc] \in ThreadState /\ [ts EXCEPT !.pc = pc].pc = pc
      BY <1>1, <2>0 DEF ThreadState
    <2> QED BY <1>1, <1>4, <2>0, <2>1, <2>2 DEF CheckRunning
  <1>5. CASE NoteAgain(w)
    BY <1>1, <1>5, AtRestType DEF NoteAgain, Requested, Finish
  <1>6. CASE EnterLocked(w)
    <2>1. CASE running
      BY <1>1, <1>6, <2>1, AtRestType DEF EnterLocked, Requested, Finish
    <2>2. CASE ~running
      <3>1. thread' = [thread EXCEPT ![w] = [ts EXCEPT !.pc = "start"]]
        BY <1>6, <2>2 DEF EnterLocked, Go
      <3>2. [ts EXCEPT !.pc = "start"] \in ThreadState /\ [ts EXCEPT !.pc = "start"].pc = "start"
        BY <1>1 DEF ThreadState
      <3> QED BY <1>1, <1>6, <2>2, <3>1, <3>2 DEF EnterLocked
    <2> QED BY <2>1, <2>2
  <1>7. CASE StartRunning(w)
    <2>1. thread' = [thread EXCEPT ![w] = [ts EXCEPT !.pc = "callback"]]
      BY <1>7 DEF StartRunning, Go
    <2>2. /\ [ts EXCEPT !.pc = "callback"] \in ThreadState
          /\ [ts EXCEPT !.pc = "callback"].pc = "callback"
      BY <1>1 DEF ThreadState
    <2> QED BY <1>1, <1>7, <2>1, <2>2 DEF StartRunning
  <1>8. CASE Decide(w)
    <2>1. PICK d \in Nat :
            \/ thread' = [thread EXCEPT ![w] = Scheduling(ts, d, "finally")]
            \/ thread' = [thread EXCEPT ![w] = [ts EXCEPT !.pc = "finally"]]
      <3>1. now + Grace \in Nat /\ ts.result \in Nat
        BY <1>1, Constants DEF ThreadState
      <3> QED BY <1>8, <3>1 DEF Decide
    <2>2. /\ Scheduling(ts, d, "finally") \in ThreadState
          /\ Scheduling(ts, d, "finally").pc = "schedule"
          /\ [ts EXCEPT !.pc = "finally"] \in ThreadState
          /\ [ts EXCEPT !.pc = "finally"].pc = "finally"
      BY <1>1 DEF Scheduling, ThreadState
    <2> QED BY <1>1, <1>8, <2>1, <2>2 DEF Decide
  <1>9. CASE StopRunning(w)
    <2>1. thread' = [thread EXCEPT ![w] = [ts EXCEPT !.pc = "reset"]]
      BY <1>9 DEF StopRunning, Go
    <2>2. [ts EXCEPT !.pc = "reset"] \in ThreadState /\ [ts EXCEPT !.pc = "reset"].pc = "reset"
      BY <1>1 DEF ThreadState
    <2> QED BY <1>1, <1>9, <2>1, <2>2 DEF StopRunning
  <1>10. CASE ResetAgain(w)
    BY <1>1, <1>10, AtRestType DEF ResetAgain, Finish
  <1> QED BY <1>2, <1>3, <1>4, <1>5, <1>6, <1>7, <1>8, <1>9, <1>10 DEF TimerStep

LEMMA TimerStepKeeps ==
  ASSUME IInv, NEW w \in Worker, TimerStep(w), UNCHANGED messageVars
  PROVE  IInv'
  <1>1. PICK new \in ThreadState :
           /\ thread' = [thread EXCEPT ![w] = new]
           /\ new.pc = "lock" => new.utcNow <= new.date
           /\ new.pc # "clear"
           /\ now' = now /\ disposed' = disposed
           /\ next' \in Nat /\ deadline' \in Nat /\ running' \in BOOLEAN /\ again' \in BOOLEAN
           /\ rerun' \in {"none", "asked", "ignored"}
    BY TimerStepEffect
  <1>2. thread' \in [Worker -> ThreadState] /\ SampledBeforeDate' /\ ClearsOnceDisposed'
    BY <1>1, ThreadStep
  <1>3. TypeOK'
    BY <1>1, <1>2 DEF IInv, TypeOK, TimerTypeOK, messageVars
  <1>4. now' \in Nat /\ now <= now'
    BY <1>1 DEF IInv, TypeOK, TimerTypeOK
  <1> QED BY <1>1, <1>2, <1>3, <1>4, TimerKeepsMessages DEF IInv

--------------------------------------------------------------------------------
(* The other actions. *)

LEMMA FireKeeps ==
  ASSUME IInv, NEW w \in Worker, FireOn(w)
  PROVE  IInv'
  <1> DEFINE new == [thread[w] EXCEPT !.pc = "check"]
  <1>1. /\ thread' = [thread EXCEPT ![w] = new] /\ deadline' = Never
        /\ UNCHANGED <<now, next, disposed, running, again, rerun>> /\ UNCHANGED messageVars
    BY DEF FireOn, Fire, Go
  <1>2. new \in ThreadState /\ new.pc = "check"
    BY DEF IInv, TypeOK, TimerTypeOK, ThreadState
  <1> HIDE DEF new
  <1>3. thread' \in [Worker -> ThreadState] /\ SampledBeforeDate' /\ ClearsOnceDisposed'
    BY <1>1, <1>2, ThreadStep
  <1>4. TypeOK' /\ now' \in Nat /\ now <= now'
    BY <1>1, <1>3, Constants DEF IInv, TypeOK, TimerTypeOK, messageVars
  <1> QED BY <1>1, <1>3, <1>4, TimerKeepsMessages DEF IInv

LEMMA TickKeeps ==
  ASSUME IInv, PassTime
  PROVE  IInv'
  <1>1. /\ now' = now + 1 /\ UNCHANGED <<next, deadline, disposed, running, again, rerun, thread>>
        /\ UNCHANGED messageVars
    BY DEF PassTime, Tick
  <1>2. SampledBeforeDate' /\ ClearsOnceDisposed'
    BY <1>1 DEF IInv, SampledBeforeDate, ClearsOnceDisposed, At
  <1>3. TypeOK' /\ now' \in Nat /\ now <= now'
    BY <1>1 DEF IInv, TypeOK, TimerTypeOK, messageVars
  <1> QED BY <1>1, <1>2, <1>3, TimerKeepsMessages DEF IInv

LEMMA AddDelayedMessageKeeps ==
  ASSUME IInv, NEW w \in Worker, NEW m \in Message, NEW delay \in 1 .. MaxDelay,
         AddDelayedMessage(w, m, delay)
  PROVE  IInv'
  <1> DEFINE date == now + delay
             new == Scheduling(thread[w], date, "idle")
  <1>1. TypeOK /\ TimerTypeOK
    BY DEF IInv, TypeOK
  <1>2. /\ New(m) /\ date <= Horizon
        /\ pending' = pending \cup {m} /\ sendTime' = [sendTime EXCEPT ![m] = date]
        /\ thread' = [thread EXCEPT ![w] = new]
        /\ UNCHANGED <<now, next, deadline, disposed, running, again, rerun, due, sent, sentAt, lost>>
    BY DEF AddDelayedMessage
  <1>3. date \in Nat /\ date # Never
    BY <1>1, <1>2, Constants, TimerAssumption DEF TimerTypeOK
  <1> HIDE DEF date
  <1>4. new \in ThreadState /\ new.pc = "schedule"
    BY <1>1, <1>3 DEF TimerTypeOK, ThreadState, Scheduling
  <1> HIDE DEF new
  <1>5. thread' \in [Worker -> ThreadState] /\ SampledBeforeDate' /\ ClearsOnceDisposed'
    BY <1>2, <1>4, ThreadStep
  <1>6. TypeOK'
    BY <1>1, <1>2, <1>3, <1>5 DEF TypeOK, TimerTypeOK
  <1>7. /\ sendTime'[m] = date /\ ~New(m)' /\ \A x \in Message \ {m} : sendTime'[x] = sendTime[x]
        /\ sent[m] = 0
    BY <1>1, <1>2, <1>3 DEF TypeOK, New, IInv, PendingIsUnsent
  <1>8. PendingIsUnsent'
    BY <1>2, <1>7 DEF IInv, PendingIsUnsent, New
  <1>9. DueIsClose'
    <2> SUFFICES ASSUME NEW v \in Worker, NEW x \in due[v]
                 PROVE  ~New(x)' /\ sendTime'[x] <= now + Batch
      BY <1>2 DEF DueIsClose
    <2>1. ~New(x) /\ sendTime[x] <= now + Batch /\ x \in Message
      BY <1>1 DEF IInv, DueIsClose, TypeOK
    <2> QED BY <1>2, <1>7, <2>1 DEF New
  <1>10. PublishedAtMostOnce' /\ NotBeforeItsTime' /\ NoneDropped'
    BY <1>2, <1>7 DEF IInv, PublishedAtMostOnce, NotBeforeItsTime, NoneDropped, New
  <1> QED BY <1>5, <1>6, <1>8, <1>9, <1>10 DEF IInv

LEMMA ScanKeeps ==
  ASSUME IInv, NEW w \in Worker, Scan(w)
  PROVE  IInv'
  <1> DEFINE t == now + Batch
             new == [thread[w] EXCEPT !.pc = "decide", !.result = NextSendTime(t)]
  <1>1. TypeOK /\ TimerTypeOK
    BY DEF IInv, TypeOK
  <1>2. /\ due' = [due EXCEPT ![w] = DueBy(t)] /\ thread' = [thread EXCEPT ![w] = new]
        /\ rerun' = "none" /\ UNCHANGED <<now, next, deadline, disposed, running, again>>
        /\ UNCHANGED <<pending, sendTime, sent, sentAt, lost>>
    BY DEF Scan
  <1>3. NextSendTime(t) \in Nat
    <2> DEFINE later == {sendTime[m] : m \in pending \ DueBy(t)}
    <2>1. later \subseteq Nat
      BY <1>1 DEF TypeOK
    <2>2. CASE later = {}
      BY <2>2, Constants DEF NextSendTime
    <2>3. CASE later # {}
      <3>1. \E x \in later : \A y \in later : x <= y
        BY <2>1, <2>3, SmallestOf
      <3>2. (CHOOSE x \in later : \A y \in later : x <= y) \in later
        BY <3>1
      <3> QED BY <2>1, <2>3, <3>2 DEF NextSendTime
    <2> QED BY <2>2, <2>3
  <1>4. new \in ThreadState /\ new.pc = "decide"
    BY <1>1, <1>3 DEF TimerTypeOK, ThreadState
  <1> HIDE DEF new
  <1>5. thread' \in [Worker -> ThreadState] /\ SampledBeforeDate' /\ ClearsOnceDisposed'
    BY <1>2, <1>4, ThreadStep
  <1>6. DueBy(t) \subseteq pending /\ \A m \in DueBy(t) : sendTime[m] <= t
    BY DEF DueBy
  <1>7. TypeOK'
    BY <1>1, <1>2, <1>5, <1>6 DEF TypeOK, TimerTypeOK
  <1>8. PendingIsUnsent' /\ PublishedAtMostOnce' /\ NotBeforeItsTime' /\ NoneDropped'
    BY <1>2 DEF IInv, PendingIsUnsent, PublishedAtMostOnce, NotBeforeItsTime, NoneDropped, New
  <1>9. DueIsClose'
    BY <1>1, <1>2, <1>6 DEF IInv, TypeOK, DueIsClose, PendingIsUnsent, New
  <1> QED BY <1>5, <1>7, <1>8, <1>9 DEF IInv

LEMMA SendDueKeeps ==
  ASSUME IInv, NEW w \in Worker, NEW m \in Message, SendDue(w, m)
  PROVE  IInv'
  <1>1. TypeOK /\ TimerTypeOK
    BY DEF IInv, TypeOK
  <1>2. /\ m \in due[w] /\ due' = [due EXCEPT ![w] = @ \ {m}] /\ pending' = pending \ {m}
        /\ UNCHANGED <<timerVars, sendTime, lost>>
        /\ \/ /\ m \in pending
              /\ sent' = [sent EXCEPT ![m] = @ + 1] /\ sentAt' = [sentAt EXCEPT ![m] = now]
           \/ m \notin pending /\ sent' = sent /\ sentAt' = sentAt
    BY DEF SendDue, Claims, Removed
  <1>3. TypeOK'
    BY <1>1, <1>2 DEF TypeOK, TimerTypeOK, timerVars
  <1>4. SampledBeforeDate' /\ ClearsOnceDisposed'
    BY <1>2 DEF IInv, SampledBeforeDate, ClearsOnceDisposed, At, timerVars
  <1>5. ~New(m) /\ sendTime[m] <= now + Batch
    BY <1>2 DEF IInv, DueIsClose
  <1>6. /\ \A x \in Message \ {m} : sent'[x] = sent[x] /\ sentAt'[x] = sentAt[x]
        /\ m \in pending => sent[m] = 0 /\ sent'[m] = 1 /\ sentAt'[m] = now
        /\ m \notin pending => sent'[m] = sent[m] /\ sentAt'[m] = sentAt[m]
    BY <1>1, <1>2 DEF TypeOK, IInv, PendingIsUnsent
  <1>7. PendingIsUnsent'
    BY <1>2, <1>5, <1>6 DEF IInv, PendingIsUnsent, New
  <1>8. DueIsClose'
    BY <1>1, <1>2 DEF IInv, TypeOK, DueIsClose, New, timerVars
  <1>9. PublishedAtMostOnce'
    BY <1>6 DEF IInv, PublishedAtMostOnce
  <1>10. NotBeforeItsTime'
    BY <1>2, <1>5, <1>6 DEF IInv, NotBeforeItsTime
  <1>11. NoneDropped'
    BY <1>2, <1>5, <1>6 DEF IInv, NoneDropped, New, timerVars
  <1> QED BY <1>3, <1>4, <1>7, <1>8, <1>9, <1>10, <1>11 DEF IInv

LEMMA SendFailsKeeps ==
  ASSUME IInv, NEW w \in Worker, NEW m \in Message, SendFails(w, m)
  PROVE  IInv'
  <1> DEFINE new == [thread[w] EXCEPT !.result = Null]
  <1>1. TypeOK /\ TimerTypeOK
    BY DEF IInv, TypeOK
  <1>2. /\ thread[w].pc = "decide" /\ m \in due[w]
        /\ due' = [due EXCEPT ![w] = {}] /\ pending' = pending \ {m}
        /\ lost' = lost \cup {m} /\ again' = TRUE /\ rerun' = "asked"
        /\ thread' = [thread EXCEPT ![w] = new]
        /\ UNCHANGED <<now, next, deadline, disposed, running, sendTime, sent, sentAt>>
    BY DEF SendFails, Claims, Removed, At
  <1>3. new \in ThreadState /\ new.pc = "decide"
    BY <1>1, <1>2, Constants DEF TimerTypeOK, ThreadState
  <1> HIDE DEF new
  <1>4. thread' \in [Worker -> ThreadState] /\ SampledBeforeDate' /\ ClearsOnceDisposed'
    BY <1>2, <1>3, ThreadStep
  <1>5. TypeOK'
    BY <1>1, <1>2, <1>4 DEF TypeOK, TimerTypeOK
  <1>6. PendingIsUnsent' /\ PublishedAtMostOnce' /\ NotBeforeItsTime'
    BY <1>2 DEF IInv, PendingIsUnsent, PublishedAtMostOnce, NotBeforeItsTime, New
  <1>7. DueIsClose'
    BY <1>1, <1>2 DEF IInv, TypeOK, DueIsClose, New
  <1>8. NoneDropped'
    BY <1>2 DEF IInv, NoneDropped, New
  <1> QED BY <1>4, <1>5, <1>6, <1>7, <1>8 DEF IInv

LEMMA DisposeTimerKeeps ==
  ASSUME IInv, NEW w \in Worker, DisposeTimer(w)
  PROVE  IInv'
  <1> DEFINE new == [thread[w] EXCEPT !.pc = "clear"]
  <1>1. TypeOK /\ TimerTypeOK
    BY DEF IInv, TypeOK
  <1>2. /\ disposed' = TRUE /\ deadline' = Never /\ thread' = [thread EXCEPT ![w] = new]
        /\ UNCHANGED <<now, next, running, again, rerun, pending, sendTime, due, sent, sentAt, lost>>
    BY DEF DisposeTimer, Go, messageVars
  <1>3. new \in ThreadState /\ new.pc = "clear"
    BY <1>1 DEF TimerTypeOK, ThreadState
  <1> HIDE DEF new
  <1>4. thread' \in [Worker -> ThreadState] /\ SampledBeforeDate' /\ ClearsOnceDisposed'
    BY <1>2, <1>3, ThreadStep
  <1>5. TypeOK'
    BY <1>1, <1>2, <1>4, Constants DEF TypeOK, TimerTypeOK
  <1>6. PendingIsUnsent' /\ DueIsClose' /\ PublishedAtMostOnce' /\ NotBeforeItsTime' /\ NoneDropped'
    BY <1>2 DEF IInv, PendingIsUnsent, DueIsClose, PublishedAtMostOnce, NotBeforeItsTime,
                NoneDropped, New
  <1> QED BY <1>4, <1>5, <1>6 DEF IInv

LEMMA ClearMessagesKeeps ==
  ASSUME IInv, NEW w \in Worker, ClearMessages(w)
  PROVE  IInv'
  <1>1. TypeOK /\ TimerTypeOK /\ disposed
    BY DEF IInv, TypeOK, ClearMessages, ClearsOnceDisposed
  <1>2. /\ pending' = {} /\ thread' = [thread EXCEPT ![w] = AtRest]
        /\ UNCHANGED <<now, next, deadline, disposed, running, again, rerun, sendTime, due, sent, sentAt, lost>>
    BY DEF ClearMessages, Finish
  <1>3. thread' \in [Worker -> ThreadState] /\ SampledBeforeDate' /\ ClearsOnceDisposed'
    BY <1>2, AtRestType, ThreadStep
  <1>4. TypeOK'
    BY <1>1, <1>2, <1>3 DEF TypeOK, TimerTypeOK
  <1>5. PendingIsUnsent' /\ DueIsClose' /\ PublishedAtMostOnce' /\ NotBeforeItsTime' /\ NoneDropped'
    BY <1>1, <1>2 DEF IInv, PendingIsUnsent, DueIsClose, PublishedAtMostOnce, NotBeforeItsTime,
                      NoneDropped, New
  <1> QED BY <1>3, <1>4, <1>5 DEF IInv

LEMMA StutterKeeps ==
  ASSUME IInv, UNCHANGED vars
  PROVE  IInv'
  <1>1. UNCHANGED timerVars /\ UNCHANGED messageVars
    BY DEF vars
  <1>2. SampledBeforeDate' /\ ClearsOnceDisposed'
    BY <1>1 DEF IInv, SampledBeforeDate, ClearsOnceDisposed, At, timerVars
  <1>3. TypeOK' /\ now' \in Nat /\ now <= now' /\ disposed' = disposed
    BY <1>1 DEF IInv, TypeOK, TimerTypeOK, messageVars, timerVars
  <1> QED BY <1>1, <1>2, <1>3, TimerKeepsMessages DEF IInv

--------------------------------------------------------------------------------
(* The theorems. *)

LEMMA NextKeeps == IInv /\ [Next]_vars => IInv'
  <1> SUFFICES ASSUME IInv, [Next]_vars
               PROVE  IInv'
    OBVIOUS
  <1>1. ASSUME NEW w \in Worker, Step(w)
        PROVE  IInv'
    <2>1. CASE TimerStep(w) /\ UNCHANGED messageVars
      BY <2>1, TimerStepKeeps
    <2>2. CASE Scan(w)
      BY <2>2, ScanKeeps
    <2>3. ASSUME NEW m \in Message, SendDue(w, m)
          PROVE  IInv'
      BY <2>3, SendDueKeeps
    <2>4. ASSUME NEW m \in Message, SendFails(w, m)
          PROVE  IInv'
      BY <2>4, SendFailsKeeps
    <2>5. CASE ClearMessages(w)
      BY <2>5, ClearMessagesKeeps
    <2> QED BY <1>1, <2>1, <2>2, <2>3, <2>4, <2>5 DEF Step
  <1>2. ASSUME NEW w \in Worker, FireOn(w)
        PROVE  IInv'
    BY <1>2, FireKeeps
  <1>3. ASSUME NEW w \in Worker, DisposeTimer(w)
        PROVE  IInv'
    BY <1>3, DisposeTimerKeeps
  <1>4. ASSUME NEW w \in Worker, NEW m \in Message, NEW delay \in 1 .. MaxDelay,
               AddDelayedMessage(w, m, delay)
        PROVE  IInv'
    BY <1>4, AddDelayedMessageKeeps
  <1>5. CASE PassTime
    BY <1>5, TickKeeps
  <1>6. CASE UNCHANGED vars
    BY <1>6, StutterKeeps
  <1> QED BY <1>1, <1>2, <1>3, <1>4, <1>5, <1>6 DEF Next

(* The strengthening holds in every reachable state of the bus and its     *)
(* timer, however its threads interleave.                                  *)
THEOREM InvariantHolds == Spec => []IInv
  BY InitKeeps, NextKeeps, PTL DEF Spec

(* The timer's and the messages' state stays in its types.                 *)
THEOREM TypeCorrect == Spec => []TypeOK
  <1>1. IInv => TypeOK
    BY DEF IInv
  <1> QED BY <1>1, InvariantHolds, PTL

(* TryRemove (MessageBusBase.cs:121) is enough against double publication. *)
THEOREM AtMostOnce == Spec => []PublishedAtMostOnce
  <1>1. IInv => PublishedAtMostOnce
    BY DEF IInv
  <1> QED BY <1>1, InvariantHolds, PTL

(* No message is published before its time, less the 50 ms of the batch    *)
(* (MessageBusBase.cs:110).                                                *)
THEOREM NotEarly == Spec => []NotBeforeItsTime
  <1>1. IInv => NotBeforeItsTime
    BY DEF IInv
  <1> QED BY <1>1, InvariantHolds, PTL

(* Unless the bus is disposed of, the message of the publication that      *)
(* throws is the only one that leaves the table unpublished.               *)
THEOREM NothingDropped == Spec => []NoneDropped
  <1>1. IInv => NoneDropped
    BY DEF IInv
  <1> QED BY <1>1, InvariantHolds, PTL

--------------------------------------------------------------------------------
(* What waits will be looked at.  Three facts carry it: the timer is armed *)
(* while _next lies in the future, so that ScheduleNext may ignore a later *)
(* date; a request to run again that counts as asked is in the flag, and a *)
(* callback has yet to read it; and dates are near, so that no delay       *)
(* overflows.                                                              *)

Near(date, t) == date < Never /\ (date <= t + MaxDelay \/ date <= t + Grace)

NearIn(ts, t) ==
  /\ ts.pc = "schedule" => ts.date = Never \/ Near(ts.date, t)
  /\ ts.pc = "lock" => Near(ts.date, ts.utcNow) /\ ts.utcNow <= t
  /\ ts.pc = "decide" => ts.result = Null \/ ts.result = Never \/ Near(ts.result, t)

DatesAreNear ==
  /\ now <= MaxTime /\ \A m \in pending : sendTime[m] <= Horizon /\ sendTime[m] <= now + MaxDelay
  /\ \A w \in Worker : NearIn(thread[w], now)

Armed ==
  /\ deadline # Never => next <= deadline
  /\ disposed \/ deadline # Never \/ next <= now \/ next = Never

Reads(ts) == ts.pc \in {"callback", "decide"}
AskedIsHeard == rerun = "asked" => again /\ \E w \in Worker : Reads(thread[w])

Timely == IInv /\ DatesAreNear /\ Armed /\ AskedIsHeard /\ PendingHasWakeUp

(* The timer is never early, and no delay is too long for an int. *)
Exact == Early = 0 /\ MaxDelay <= MaxInt

LEMMA Types ==
  ASSUME IInv
  PROVE  /\ now \in Nat /\ next \in Nat /\ deadline \in Nat
         /\ disposed \in BOOLEAN /\ running \in BOOLEAN /\ again \in BOOLEAN
         /\ thread \in [Worker -> ThreadState]
         /\ pending \subseteq Message /\ sendTime \in [Message -> Nat]
         /\ due \in [Worker -> SUBSET Message]
BY DEF IInv, TypeOK, TimerTypeOK

LEMMA Times ==
  /\ MaxTime \in Nat /\ MaxDelay \in Nat /\ Grace \in Nat /\ 0 < Grace /\ Grace <= MaxInt
  /\ MaxInt \in Nat /\ Late \in Nat /\ Early \in Nat
  /\ Never \in Nat /\ Null = Never + 1 /\ Horizon \in Nat /\ Horizon < Never /\ Batch \in Nat
  /\ \A t \in Nat : t <= MaxTime => t < Never /\ t + Grace < Never /\ t + MaxDelay < Never
BY TimerAssumption, DelayedAssumption DEF Never, Null

LEMMA InitTimely == Init => Timely
<1> SUFFICES ASSUME Init PROVE Timely
  OBVIOUS
<1>1. IInv
  BY InitKeeps
<1>2. DatesAreNear
  BY Times, AtRestType DEF Init, TimerInit, DatesAreNear, NearIn
<1>3. Armed /\ AskedIsHeard /\ PendingHasWakeUp
  BY DEF Init, TimerInit, Armed, AskedIsHeard, PendingHasWakeUp
<1> QED
  BY <1>1, <1>2, <1>3 DEF Timely

LEMMA RestIsNear == \A t : NearIn(AtRest, t) /\ ~Reads(AtRest)
BY DEF AtRest, NearIn, Reads

(* A step of one thread keeps the dates of all near. *)
LEMMA StayNear ==
  ASSUME Timely, NEW w \in Worker, NEW new \in ThreadState,
         thread' = [thread EXCEPT ![w] = new], now' = now,
         pending' \subseteq pending, sendTime' = sendTime, NearIn(new, now)
  PROVE  DatesAreNear'
<1>1. /\ thread \in [Worker -> ThreadState]
      /\ thread'[w] = new /\ \A v \in Worker \ {w} : thread'[v] = thread[v]
  BY Types DEF Timely
<1> QED
  BY <1>1 DEF Timely, DatesAreNear, NearIn, Near

(* Whoever is about to look at a message, still is. *)
LEMMA StillLooks ==
  ASSUME NEW m, NEW v \in Worker, WillLook(v, m),
         thread'[v] = thread[v], due'[v] = due[v], next' = next, now' = now,
         again /\ rerun = "asked" => again' /\ rerun' = "asked"
  PROVE  WillLook(v, m)'
BY DEF WillLook, WillSet, AlreadyScheduled

(* A request that counts as asked makes a callback look at everything. *)
LEMMA AskedLooks ==
  ASSUME AskedIsHeard', rerun' = "asked", NEW m
  PROVE  \E v \in Worker : WillLook(v, m)'
BY DEF AskedIsHeard, Reads, WillLook

(* A date in the future that ScheduleNext does not set, because there is   *)
(* an earlier one or the same, is covered by an armed timer.               *)
LEMMA SetsUnlessArmed ==
  ASSUME Timely, NEW w \in Worker, NEW m,
         thread'[w].pc = "schedule", now < thread'[w].date, thread'[w].date < Never,
         thread'[w].date \in Nat, next' = next, now' = now, deadline = Never, ~disposed
  PROVE  WillLook(w, m)'
<1>1. now \in Nat /\ next \in Nat /\ (next <= now \/ next = Never) /\ Never \in Nat
  BY Types, Times DEF Timely, Armed
<1> DEFINE date == thread'[w].date
<1>2. ~AlreadyScheduled(date, now)
  BY <1>1 DEF AlreadyScheduled
<1>3. ~(date < now)
  BY <1>1
<1> QED
  BY <1>2, <1>3 DEF WillLook, WillSet, AlreadyScheduled

(* A step of one thread that makes no request to run again, nor answers    *)
(* one: what it was about to look at must still be looked at.              *)
LEMMA StillWatched ==
  ASSUME Timely, NEW w \in Worker, NEW new, thread' = [thread EXCEPT ![w] = new],
         UNCHANGED <<now, next, deadline, disposed, pending, due>>,
         rerun' = "ignored" \/ (rerun' = rerun /\ (rerun = "asked" => again' = again)),
         \A m \in pending : WillLook(w, m) => deadline # Never \/ disposed \/ WillLook(w, m)'
  PROVE  PendingHasWakeUp'
<1> SUFFICES ASSUME NEW m \in pending, deadline = Never, ~disposed, rerun' # "ignored"
             PROVE  \E v \in Worker : WillLook(v, m)'
  BY DEF PendingHasWakeUp
<1>1. PICK v \in Worker : WillLook(v, m)
  BY DEF Timely, PendingHasWakeUp
<1>2. CASE v = w
  BY <1>1, <1>2
<1>3. CASE v # w
  <2>1. thread'[v] = thread[v] /\ (again /\ rerun = "asked" => again' /\ rerun' = "asked")
    BY <1>3, Types DEF Timely
  <2> QED
    BY <1>1, <2>1, StillLooks
<1> QED
  BY <1>2, <1>3

LEMMA SampleNowTimely ==
  ASSUME Timely, IInv', NEW w \in Worker, SampleNow(w), UNCHANGED messageVars
  PROVE  Timely'
<1> DEFINE ts == thread[w]
           date == IF ts.date < now THEN now ELSE ts.date
           new == IF ts.date = Never THEN Returned(ts) ELSE Sampled(ts, now)
<1>1. /\ ts \in ThreadState /\ now \in Nat /\ thread \in [Worker -> ThreadState]
      /\ NearIn(ts, now) /\ now <= MaxTime /\ Armed /\ AskedIsHeard
  BY Types DEF Timely, DatesAreNear
<1>2. /\ ts.pc = "schedule" /\ thread' = [thread EXCEPT ![w] = new]
      /\ UNCHANGED <<now, next, deadline, disposed, running, again, rerun>>
      /\ UNCHANGED <<pending, sendTime, due>>
  BY DEF SampleNow, At, messageVars
<1>3. new \in ThreadState
  BY <1>1, <1>2, ReturnedType DEF Sampled, ThreadState
<1>4. /\ ts.date # Never => new.pc = "lock" /\ new.date = date /\ new.utcNow = now
      /\ ts.date = Never => new.pc \in {"idle", "finally"}
  BY <1>1, ReturnedType DEF Sampled, ThreadState
<1> HIDE DEF new
<1>5. NearIn(new, now)
  <2>1. ts.date # Never => date \in Nat /\ Near(date, now)
    BY <1>1, <1>2, Times DEF NearIn, Near, ThreadState
  <2> HIDE DEF date
  <2> QED
    BY <1>1, <1>4, <2>1, Times DEF NearIn
<1>6. DatesAreNear'
  BY <1>2, <1>3, <1>5, StayNear
<1>7. Armed' /\ AskedIsHeard'
  <2>1. \A v \in Worker : Reads(thread[v]) => thread'[v] = thread[v]
    BY <1>1, <1>2 DEF Reads
  <2> QED
    BY <1>1, <1>2, <2>1 DEF Armed, AskedIsHeard
<1>8. \A m \in pending : WillLook(w, m) => WillLook(w, m)'
  <2> SUFFICES ASSUME NEW m \in pending, WillLook(w, m)
               PROVE  WillLook(w, m)'
    OBVIOUS
  <2>1. ts.date < Never /\ ~AlreadyScheduled(date, now)
    BY <1>2 DEF WillLook, WillSet
  <2>2. thread'[w].pc = "lock" /\ thread'[w].date = date /\ thread'[w].utcNow = now
    BY <1>1, <1>2, <1>4, <2>1, Times DEF ThreadState
  <2> HIDE DEF date
  <2> QED
    BY <1>2, <2>1, <2>2 DEF WillLook, WillSet, AlreadyScheduled
<1>9. PendingHasWakeUp'
  BY <1>2, <1>8, StillWatched
<1> QED
  BY <1>6, <1>7, <1>9 DEF Timely

(* The delay fits, so the timer is armed for _next or, by a thread that    *)
(* waited for the lock, for a time after it.                               *)
LEMMA SetTimerTimely ==
  ASSUME Exact, Timely, IInv', NEW w \in Worker, SetTimer(w), UNCHANGED messageVars
  PROVE  Timely'
<1> DEFINE ts == thread[w]
           delay == DelayOf(ts.date - ts.utcNow)
<1>1. /\ ts \in ThreadState /\ now \in Nat /\ thread \in [Worker -> ThreadState]
      /\ NearIn(ts, now) /\ now <= MaxTime /\ Armed /\ AskedIsHeard
  BY Types DEF Timely, DatesAreNear
<1>2. /\ ts.pc = "lock" /\ thread' = [thread EXCEPT ![w] = Returned(ts)]
      /\ UNCHANGED <<now, disposed, running, again, rerun>>
      /\ UNCHANGED <<pending, sendTime, due>>
      /\ IF AlreadyScheduled(ts.date, ts.utcNow) THEN UNCHANGED <<next, deadline>>
         ELSE next' = ts.date /\ deadline' = IF disposed THEN Never ELSE now + delay
  BY DEF SetTimer, At, messageVars
<1>3. /\ ts.utcNow \in Nat /\ ts.date \in Nat /\ ts.utcNow <= ts.date /\ ts.utcNow <= now
      /\ Near(ts.date, ts.utcNow)
  BY <1>1, <1>2 DEF NearIn, ThreadState, Timely, IInv, SampledBeforeDate, At
<1>4. now + delay \in Nat /\ ts.date <= now + delay /\ now + delay < Never
  <2>1. ts.date - ts.utcNow \in Nat /\ (ts.date - ts.utcNow <= MaxDelay \/ ts.date - ts.utcNow <= Grace)
    BY <1>3, Times DEF Near
  <2>2. delay = ts.date - ts.utcNow
    BY <2>1, Times DEF DelayOf, Exact
  <2> HIDE DEF delay
  <2> QED
    BY <1>1, <1>3, <2>1, <2>2, Times
<1> HIDE DEF delay
<1>5. Returned(ts) \in ThreadState /\ NearIn(Returned(ts), now)
  BY <1>1, ReturnedType DEF NearIn
<1>6. DatesAreNear'
  BY <1>2, <1>5, StayNear
<1>7. Armed'
  BY <1>1, <1>2, <1>4, Times DEF Armed
<1>8. AskedIsHeard'
  <2>1. \A v \in Worker : Reads(thread[v]) => thread'[v] = thread[v]
    BY <1>1, <1>2 DEF Reads
  <2> QED
    BY <1>1, <1>2, <2>1 DEF AskedIsHeard
<1>9. PendingHasWakeUp'
  <2>1. CASE AlreadyScheduled(ts.date, ts.utcNow)
    <3>1. \A m \in pending : ~WillLook(w, m)
      BY <1>2, <2>1 DEF WillLook, WillSet
    <3> QED
      BY <1>2, <2>1, <3>1, StillWatched
  <2>2. CASE ~AlreadyScheduled(ts.date, ts.utcNow)
    BY <1>2, <1>4, <2>2, Times DEF PendingHasWakeUp
  <2> QED
    BY <2>1, <2>2
<1> QED
  BY <1>6, <1>7, <1>8, <1>9 DEF Timely

(* From "check" up to the callback: the flags change, and nothing else. *)
LEMMA EnterTimely ==
  ASSUME Timely, IInv', NEW w \in Worker, UNCHANGED messageVars,
         CheckRunning(w) \/ NoteAgain(w) \/ EnterLocked(w) \/ StartRunning(w)
  PROVE  Timely'
<1> DEFINE ts == thread[w]
<1>1. /\ ts \in ThreadState /\ thread \in [Worker -> ThreadState] /\ Armed /\ AskedIsHeard
  BY Types DEF Timely
<1>2. /\ UNCHANGED <<now, next, deadline, disposed>> /\ UNCHANGED <<pending, sendTime, due>>
      /\ ts.pc \in {"check", "note", "enter", "start"}
  BY DEF CheckRunning, NoteAgain, EnterLocked, StartRunning, At, messageVars
<1>3. PICK new \in ThreadState :
        /\ thread' = [thread EXCEPT ![w] = new]
        /\ \/ /\ new.pc \in {"note", "enter", "start", "callback"}
              /\ again' = again /\ rerun' = rerun
           \/ new = AtRest /\ again' = TRUE /\ rerun' = Requested
  <2>1. \A pc \in {"note", "enter", "start", "callback"} :
          [ts EXCEPT !.pc = pc] \in ThreadState /\ [ts EXCEPT !.pc = pc].pc = pc
    BY <1>1 DEF ThreadState
  <2>2. CASE CheckRunning(w)
    <3>1. CASE running
      BY <2>1, <2>2, <3>1 DEF CheckRunning, Go
    <3>2. CASE ~running
      BY <2>1, <2>2, <3>2 DEF CheckRunning, Go
    <3> QED
      BY <3>1, <3>2
  <2>3. CASE NoteAgain(w)
    BY <2>3, AtRestType DEF NoteAgain, Finish
  <2>4. CASE EnterLocked(w)
    <3>1. CASE running
      BY <2>4, <3>1, AtRestType DEF EnterLocked, Finish
    <3>2. CASE ~running
      BY <2>1, <2>4, <3>2 DEF EnterLocked, Go
    <3> QED
      BY <3>1, <3>2
  <2>5. CASE StartRunning(w)
    BY <2>1, <2>5 DEF StartRunning, Go
  <2> QED
    BY <2>2, <2>3, <2>4, <2>5
<1>4. thread'[w] = new /\ \A v \in Worker \ {w} : thread'[v] = thread[v]
  BY <1>1, <1>3
<1>5. DatesAreNear'
  <2>1. NearIn(new, now)
    BY <1>3, RestIsNear DEF NearIn
  <2> QED
    BY <1>2, <1>3, <2>1, StayNear
<1>6. Armed'
  BY <1>1, <1>2 DEF Armed
<1>7. CASE new.pc \in {"note", "enter", "start", "callback"}
  <2>1. again' = again /\ rerun' = rerun
    BY <1>3, <1>7, AtRestType
  <2>2. \A v \in Worker : Reads(thread[v]) => thread'[v] = thread[v]
    BY <1>2, <1>4 DEF Reads
  <2>3. AskedIsHeard'
    BY <1>1, <2>1, <2>2 DEF AskedIsHeard
  <2>4. \A m : WillLook(w, m)'
    BY <1>4, <1>7 DEF WillLook
  <2>5. PendingHasWakeUp'
    BY <1>2, <1>3, <2>1, <2>4, StillWatched
  <2> QED
    BY <1>5, <1>6, <2>3, <2>5 DEF Timely
<1>8. CASE new.pc \notin {"note", "enter", "start", "callback"}
  <2>1. again' = TRUE /\ rerun' = Requested
    BY <1>3, <1>8
  <2>2. CASE \E v \in Worker : Reads(thread[v])
    <3>1. PICK v \in Worker : Reads(thread[v])
      BY <2>2
    <3>2. v # w /\ rerun' = "asked"
      BY <1>2, <2>1, <3>1 DEF Reads, Requested
    <3>3. AskedIsHeard'
      BY <1>4, <2>1, <3>1, <3>2 DEF AskedIsHeard
    <3>4. PendingHasWakeUp'
      BY <1>2, <3>2, <3>3, AskedLooks DEF PendingHasWakeUp
    <3> QED
      BY <1>5, <1>6, <3>3, <3>4 DEF Timely
  <2>3. CASE ~ \E v \in Worker : Reads(thread[v])
    <3>1. rerun' = "ignored"
      BY <2>1, <2>3 DEF Reads, Requested
    <3> QED
      BY <1>5, <1>6, <3>1 DEF Timely, AskedIsHeard, PendingHasWakeUp
  <2> QED
    BY <2>2, <2>3
<1> QED
  BY <1>7, <1>8

LEMMA MoveTo ==
  ASSUME NEW ts \in ThreadState,
         NEW pc \in {"check", "enter", "callback", "finally", "reset", "clear"}
  PROVE  [ts EXCEPT !.pc = pc] \in ThreadState /\ [ts EXCEPT !.pc = pc].pc = pc
BY DEF ThreadState

(* A callback that was told to run again, or has a date to return,         *)
(* schedules it; one that has neither was not going to look at anything.   *)
LEMMA DecideTimely ==
  ASSUME Timely, IInv', NEW w \in Worker, Decide(w), UNCHANGED messageVars, due[w] = {}
  PROVE  Timely'
<1> DEFINE ts == thread[w]
<1>1. /\ ts \in ThreadState /\ ts.result \in Nat /\ now \in Nat /\ thread \in [Worker -> ThreadState]
      /\ NearIn(ts, now) /\ now <= MaxTime /\ now + Grace < Never /\ now + Grace \in Nat
      /\ now < now + Grace /\ Armed /\ AskedIsHeard
  BY Types, Times DEF Timely, DatesAreNear, ThreadState
<1>2. /\ ts.pc = "decide" /\ UNCHANGED <<now, next, deadline, disposed, again>>
      /\ UNCHANGED <<pending, sendTime, due>>
      /\ rerun' = IF again THEN "none" ELSE rerun
      /\ thread' = [thread EXCEPT ![w] =
           IF again \/ ts.result <= now + Grace THEN Scheduling(ts, now + Grace, "finally")
           ELSE IF ts.result # Null THEN Scheduling(ts, ts.result, "finally")
           ELSE [ts EXCEPT !.pc = "finally"]]
  BY DEF Decide, At, messageVars
<1>3. Armed'
  BY <1>1, <1>2 DEF Armed
<1>4. rerun' # "asked"
  BY <1>1, <1>2 DEF AskedIsHeard
<1>5. ASSUME NEW date \in Nat, thread' = [thread EXCEPT ![w] = Scheduling(ts, date, "finally")],
             now < date, Near(date, now)
      PROVE  Timely'
  <2> DEFINE new == Scheduling(ts, date, "finally")
  <2>1. new \in ThreadState /\ new.pc = "schedule" /\ new.date = date
    BY <1>1 DEF Scheduling, ThreadState
  <2> HIDE DEF new
  <2>2. thread'[w] = new
    BY <1>1, <1>5 DEF new
  <2>3. NearIn(new, now)
    BY <1>5, <2>1 DEF NearIn
  <2>4. DatesAreNear'
    BY <1>2, <1>5, <2>1, <2>3, StayNear DEF new
  <2>5. \A m : deadline = Never /\ ~disposed => WillLook(w, m)'
    BY <1>2, <1>5, <2>1, <2>2, SetsUnlessArmed DEF Near
  <2> QED
    BY <1>2, <1>3, <1>4, <2>4, <2>5 DEF Timely, AskedIsHeard, PendingHasWakeUp
<1>6. CASE again \/ ts.result <= now + Grace
  <2>1. Near(now + Grace, now)
    BY <1>1 DEF Near
  <2> QED
    BY <1>1, <1>2, <1>5, <1>6, <2>1
<1>7. CASE ~(again \/ ts.result <= now + Grace) /\ ts.result < Never
  <2>1. Near(ts.result, now) /\ now < ts.result /\ ts.result # Null
    BY <1>1, <1>2, <1>7, Times DEF NearIn
  <2> QED
    BY <1>1, <1>2, <1>5, <1>7, <2>1
<1>8. CASE ~(again \/ ts.result <= now + Grace) /\ ~(ts.result < Never)
  <2>1. PICK new \in ThreadState :
          /\ thread' = [thread EXCEPT ![w] = new]
          /\ new.pc = "finally" \/ (new.pc = "schedule" /\ new.date = Never)
    <3>1. ts.result = Null \/ ts.result = Never
      BY <1>1, <1>2, <1>8 DEF NearIn, Near
    <3>2. /\ [ts EXCEPT !.pc = "finally"] \in ThreadState /\ [ts EXCEPT !.pc = "finally"].pc = "finally"
          /\ Scheduling(ts, ts.result, "finally") \in ThreadState
          /\ Scheduling(ts, ts.result, "finally").pc = "schedule"
          /\ Scheduling(ts, ts.result, "finally").date = ts.result
      BY <1>1 DEF Scheduling, ThreadState
    <3>3. CASE ts.result = Null
      BY <1>2, <1>8, <3>2, <3>3
    <3>4. CASE ts.result # Null
      BY <1>2, <1>8, <3>1, <3>2, <3>4
    <3> QED
      BY <3>3, <3>4
  <2>2. NearIn(new, now)
    BY <2>1 DEF NearIn
  <2>3. DatesAreNear'
    BY <1>2, <2>1, <2>2, StayNear
  <2>4. \A m : ~WillLook(w, m)
    BY <1>2, <1>8 DEF WillLook, WillSet
  <2>5. PendingHasWakeUp'
    BY <1>2, <1>8, <2>1, <2>4, StillWatched
  <2> QED
    BY <1>3, <1>4, <2>3, <2>5 DEF Timely, AskedIsHeard
<1> QED
  BY <1>6, <1>7, <1>8

(* finally: whoever was to read the request has done so, or never will. *)
LEMMA LeaveTimely ==
  ASSUME Timely, IInv', NEW w \in Worker, StopRunning(w) \/ ResetAgain(w), UNCHANGED messageVars
  PROVE  Timely'
<1> DEFINE ts == thread[w]
<1>1. ts \in ThreadState /\ thread \in [Worker -> ThreadState] /\ Armed /\ AskedIsHeard
  BY Types DEF Timely
<1>2. /\ ts.pc \in {"finally", "reset"} /\ UNCHANGED <<now, next, deadline, disposed>>
      /\ UNCHANGED <<pending, sendTime, due>>
  BY DEF StopRunning, ResetAgain, At, messageVars
<1>3. PICK new \in ThreadState :
        /\ thread' = [thread EXCEPT ![w] = new] /\ new.pc \in {"reset", "idle"}
        /\ \/ again' = again /\ rerun' = rerun
           \/ rerun' = IF rerun = "asked" THEN "ignored" ELSE rerun
  <2>1. CASE StopRunning(w)
    BY <1>1, <2>1, MoveTo DEF StopRunning, Go
  <2>2. CASE ResetAgain(w)
    BY <2>2, AtRestType DEF ResetAgain, Finish
  <2> QED
    BY <2>1, <2>2
<1>4. DatesAreNear'
  <2>1. NearIn(new, now)
    BY <1>3 DEF NearIn
  <2> QED
    BY <1>2, <1>3, <2>1, StayNear
<1>5. Armed'
  BY <1>1, <1>2 DEF Armed
<1>6. AskedIsHeard'
  <2>1. \A v \in Worker : Reads(thread[v]) => thread'[v] = thread[v]
    BY <1>1, <1>2, <1>3 DEF Reads
  <2> QED
    BY <1>1, <1>3, <2>1 DEF AskedIsHeard
<1>7. \A m : ~WillLook(w, m)
  BY <1>2 DEF WillLook, WillSet
<1>8. PendingHasWakeUp'
  BY <1>2, <1>3, <1>7, StillWatched
<1> QED
  BY <1>4, <1>5, <1>6, <1>8 DEF Timely

LEMMA TimerStepTimely ==
  ASSUME Exact, Timely, IInv', NEW w \in Worker, TimerStep(w), UNCHANGED messageVars, due[w] = {}
  PROVE  Timely'
<1>1. CASE SampleNow(w)
  BY <1>1, SampleNowTimely
<1>2. CASE SetTimer(w)
  BY <1>2, SetTimerTimely
<1>3. CASE CheckRunning(w) \/ NoteAgain(w) \/ EnterLocked(w) \/ StartRunning(w)
  BY <1>3, EnterTimely
<1>4. CASE Decide(w)
  BY <1>4, DecideTimely
<1>5. CASE StopRunning(w) \/ ResetAgain(w)
  BY <1>5, LeaveTimely
<1> QED
  BY <1>1, <1>2, <1>3, <1>4, <1>5 DEF TimerStep

--------------------------------------------------------------------------------
(* The timer fires at its time or later, so that _next is past by then. *)
LEMMA FireTimely ==
  ASSUME Exact, Timely, IInv', NEW w \in Worker, FireOn(w)
  PROVE  Timely'
<1> DEFINE new == [thread[w] EXCEPT !.pc = "check"]
<1>1. /\ thread' = [thread EXCEPT ![w] = new] /\ deadline' = Never
      /\ deadline # Never /\ deadline <= now + Early /\ thread[w].pc = "idle"
      /\ UNCHANGED <<now, next, disposed, running, again, rerun, pending, sendTime, due>>
  BY DEF FireOn, Fire, Go, At, messageVars
<1>2. /\ thread[w] \in ThreadState /\ thread \in [Worker -> ThreadState]
      /\ now \in Nat /\ next \in Nat /\ deadline \in Nat /\ Armed /\ AskedIsHeard
  BY Types DEF Timely
<1>3. new \in ThreadState /\ new.pc = "check"
  BY <1>2, MoveTo
<1> HIDE DEF new
<1>4. DatesAreNear'
  <2>1. NearIn(new, now)
    BY <1>3 DEF NearIn
  <2> QED
    BY <1>1, <1>3, <2>1, StayNear
<1>5. Armed'
  BY <1>1, <1>2 DEF Armed, Exact
<1>6. AskedIsHeard'
  <2>1. \A v \in Worker : Reads(thread[v]) => thread'[v] = thread[v]
    BY <1>1, <1>2 DEF Reads
  <2> QED
    BY <1>1, <1>2, <2>1 DEF AskedIsHeard
<1>7. PendingHasWakeUp'
  <2>1. thread'[w].pc = "check"
    BY <1>1, <1>2, <1>3
  <2> QED
    BY <2>1 DEF PendingHasWakeUp, WillLook
<1> QED
  BY <1>4, <1>5, <1>6, <1>7 DEF Timely

(* A date that ScheduleNext will find scheduled once time has passed, and  *)
(* would not have before, is the one that the timer is armed for.          *)
LEMMA TickTimely ==
  ASSUME Timely, IInv', PassTime
  PROVE  Timely'
<1>1. /\ now' = now + 1 /\ now < MaxTime /\ now \in Nat /\ next \in Nat
      /\ UNCHANGED <<next, deadline, disposed, running, again, rerun, thread, pending, sendTime, due>>
      /\ thread \in [Worker -> ThreadState] /\ Armed /\ AskedIsHeard
      /\ pending \subseteq Message /\ sendTime \in [Message -> Nat]
  BY Types DEF PassTime, Tick, Timely, messageVars
<1>2. \A ts \in ThreadState : NearIn(ts, now) => NearIn(ts, now + 1)
  <2> SUFFICES ASSUME NEW ts \in ThreadState, NearIn(ts, now) PROVE NearIn(ts, now + 1)
    OBVIOUS
  <2>1. ts.date \in Nat /\ ts.utcNow \in Nat /\ ts.result \in Nat
    BY DEF ThreadState
  <2>2. \A date \in Nat : Near(date, now) => Near(date, now + 1)
    BY <1>1, Times DEF Near
  <2> QED
    BY <1>1, <2>1, <2>2 DEF NearIn
<1>3. DatesAreNear'
  <2>1. \A m \in pending : sendTime[m] \in Nat
    BY <1>1
  <2> QED
    BY <1>1, <1>2, <2>1, Times DEF Timely, DatesAreNear
<1>4. Armed' /\ AskedIsHeard'
  BY <1>1 DEF Armed, AskedIsHeard
<1>5. ASSUME NEW m \in pending, NEW v \in Worker, WillLook(v, m), deadline = Never, ~disposed
      PROVE  WillLook(v, m)'
  <2> DEFINE ts == thread[v]
             date == IF ts.date < now THEN now ELSE ts.date
             later == IF ts.date < now + 1 THEN now + 1 ELSE ts.date
  <2>1. ts.date \in Nat
    BY <1>1 DEF ThreadState
  <2>2. next <= now \/ next = Never
    BY <1>1, <1>5 DEF Armed
  <2>3. CASE ts.pc = "schedule"
    <3>1. ts.date < Never /\ ~AlreadyScheduled(date, now)
      BY <1>5, <2>3 DEF WillLook, WillSet
    <3>2. ~AlreadyScheduled(later, now + 1)
      BY <1>1, <2>1, <2>2, <3>1, Times DEF AlreadyScheduled
    <3> QED
      BY <1>1, <2>3, <3>1, <3>2 DEF WillLook, WillSet, AlreadyScheduled
  <2>4. CASE ts.pc # "schedule"
    BY <1>1, <1>5, <2>4 DEF WillLook, WillSet, AlreadyScheduled
  <2> QED
    BY <2>3, <2>4
<1>6. PendingHasWakeUp'
  BY <1>1, <1>5 DEF Timely, PendingHasWakeUp
<1> QED
  BY <1>3, <1>4, <1>6 DEF Timely

--------------------------------------------------------------------------------
(* Messages come and go. *)
LEMMA AddTimely ==
  ASSUME Timely, IInv', NEW w \in Worker, NEW m \in Message, NEW delay \in 1 .. MaxDelay,
         AddDelayedMessage(w, m, delay)
  PROVE  Timely'
<1> DEFINE date == now + delay
           ts == thread[w]
           new == Scheduling(ts, date, "idle")
<1>1. /\ ts \in ThreadState /\ thread \in [Worker -> ThreadState] /\ now \in Nat
      /\ sendTime \in [Message -> Nat] /\ pending \subseteq Message /\ Armed /\ AskedIsHeard
      /\ DatesAreNear
  BY Types DEF Timely
<1>2. /\ ts.pc = "idle" /\ date <= Horizon
      /\ pending' = pending \cup {m} /\ sendTime' = [sendTime EXCEPT ![m] = date]
      /\ thread' = [thread EXCEPT ![w] = new]
      /\ UNCHANGED <<now, next, deadline, disposed, running, again, rerun, due>>
  BY DEF AddDelayedMessage, At
<1>3. date \in Nat /\ now < date /\ date < Never /\ date <= now + MaxDelay
  BY <1>1, <1>2, Times
<1> HIDE DEF date
<1>4. new \in ThreadState /\ new.pc = "schedule" /\ new.date = date
  BY <1>1, <1>3 DEF Scheduling, ThreadState
<1> HIDE DEF new
<1>5. thread'[w] = new /\ \A v \in Worker \ {w} : thread'[v] = thread[v]
  BY <1>1, <1>2
<1>6. DatesAreNear'
  <2>1. NearIn(new, now)
    BY <1>3, <1>4 DEF NearIn, Near
  <2>2. \A v \in Worker : NearIn(thread'[v], now)
    BY <1>1, <1>5, <2>1 DEF DatesAreNear
  <2>3. \A x \in pending' : sendTime'[x] <= Horizon /\ sendTime'[x] <= now + MaxDelay
    BY <1>1, <1>2, <1>3 DEF DatesAreNear
  <2> QED
    BY <1>1, <1>2, <2>2, <2>3 DEF DatesAreNear
<1>7. Armed' /\ AskedIsHeard'
  <2>1. \A v \in Worker : Reads(thread[v]) => thread'[v] = thread[v]
    BY <1>2, <1>5 DEF Reads
  <2> QED
    BY <1>1, <1>2, <2>1 DEF Armed, AskedIsHeard
<1>8. \A x : deadline = Never /\ ~disposed => WillLook(w, x)'
  BY <1>2, <1>3, <1>4, <1>5, SetsUnlessArmed
<1>9. PendingHasWakeUp'
  BY <1>2, <1>8 DEF PendingHasWakeUp
<1> QED
  BY <1>6, <1>7, <1>9 DEF Timely

(* What the scan leaves in the table is due later, and the next run is for *)
(* the first of them.                                                      *)
LEMMA NextIsFirst ==
  ASSUME Timely, NEW t \in Nat
  PROVE  /\ NextSendTime(t) \in Nat
         /\ NextSendTime(t) = Never \/ Near(NextSendTime(t), now)
         /\ \A m \in pending : m \in DueBy(t) \/ NextSendTime(t) < Never
<1> DEFINE later == {sendTime[m] : m \in pending \ DueBy(t)}
<1>1. /\ pending \subseteq Message /\ sendTime \in [Message -> Nat]
      /\ \A m \in pending : sendTime[m] <= Horizon /\ sendTime[m] <= now + MaxDelay
  BY Types DEF Timely, DatesAreNear
<1>2. later \subseteq Nat /\ \A x \in later : Near(x, now)
  BY <1>1, Times DEF Near
<1>3. CASE later = {}
  <2>1. NextSendTime(t) = Never
    BY <1>3 DEF NextSendTime
  <2>2. \A m \in pending : m \in DueBy(t)
    BY <1>3
  <2> QED
    BY <2>1, <2>2, Times
<1>4. CASE later # {}
  <2>1. \E x \in later : \A y \in later : x <= y
    BY <1>2, <1>4, SmallestOf
  <2>2. (CHOOSE x \in later : \A y \in later : x <= y) \in later
    BY <2>1
  <2>3. NextSendTime(t) \in later
    BY <1>4, <2>2 DEF NextSendTime
  <2> QED
    BY <1>2, <2>3, Times DEF Near
<1> QED
  BY <1>3, <1>4

LEMMA ScanTimely ==
  ASSUME Timely, IInv', NEW w \in Worker, Scan(w)
  PROVE  Timely'
<1> DEFINE ts == thread[w]
           t == now + Batch
           result == NextSendTime(t)
           new == [ts EXCEPT !.pc = "decide", !.result = result]
<1>1. /\ ts \in ThreadState /\ thread \in [Worker -> ThreadState] /\ now \in Nat
      /\ due \in [Worker -> SUBSET Message] /\ t \in Nat /\ Armed
  BY Types, Times DEF Timely
<1>2. /\ ts.pc = "callback" /\ due' = [due EXCEPT ![w] = DueBy(t)]
      /\ thread' = [thread EXCEPT ![w] = new] /\ rerun' = "none"
      /\ UNCHANGED <<now, next, deadline, disposed, running, again, pending, sendTime>>
  BY DEF Scan, At
<1>3. /\ result \in Nat /\ (result = Never \/ Near(result, now))
      /\ \A m \in pending : m \in DueBy(t) \/ result < Never
  BY <1>1, NextIsFirst
<1> HIDE DEF result, t
<1>4. new \in ThreadState /\ new.pc = "decide" /\ new.result = result
  BY <1>1, <1>3 DEF ThreadState
<1> HIDE DEF new
<1>5. DatesAreNear'
  <2>1. NearIn(new, now)
    BY <1>3, <1>4 DEF NearIn
  <2> QED
    BY <1>2, <1>4, <2>1, StayNear
<1>6. Armed' /\ AskedIsHeard'
  BY <1>1, <1>2 DEF Armed, AskedIsHeard
<1>7. PendingHasWakeUp'
  <2>1. thread'[w] = new /\ due'[w] = DueBy(t)
    BY <1>1, <1>2
  <2>2. \A m \in pending : WillLook(w, m)'
    BY <1>3, <1>4, <2>1 DEF WillLook
  <2> QED
    BY <1>2, <2>2 DEF PendingHasWakeUp
<1> QED
  BY <1>5, <1>6, <1>7 DEF Timely

LEMMA SendDueTimely ==
  ASSUME Timely, IInv', NEW w \in Worker, NEW m \in Message, SendDue(w, m)
  PROVE  Timely'
<1>1. /\ due' = [due EXCEPT ![w] = @ \ {m}] /\ pending' = pending \ {m}
      /\ UNCHANGED <<now, next, deadline, disposed, running, again, rerun, thread, sendTime>>
      /\ due \in [Worker -> SUBSET Message]
  BY Types DEF SendDue, Removed, timerVars, Timely
<1>2. DatesAreNear' /\ Armed' /\ AskedIsHeard'
  BY <1>1 DEF Timely, DatesAreNear, NearIn, Near, Armed, AskedIsHeard
<1>3. ASSUME NEW x \in pending, x # m, NEW v \in Worker, WillLook(v, x)
      PROVE  WillLook(v, x)'
  <2>1. x \in due'[v] <=> x \in due[v]
    BY <1>1, <1>3
  <2> QED
    BY <1>1, <1>3, <2>1 DEF WillLook, WillSet, AlreadyScheduled
<1>4. PendingHasWakeUp'
  BY <1>1, <1>3 DEF Timely, PendingHasWakeUp
<1> QED
  BY <1>2, <1>4 DEF Timely

(* A publication that throws leaves a note for the callback it throws in.  *)
LEMMA SendFailsTimely ==
  ASSUME Timely, IInv', NEW w \in Worker, NEW m \in Message, SendFails(w, m)
  PROVE  Timely'
<1> DEFINE ts == thread[w]
           new == [ts EXCEPT !.result = Null]
<1>1. /\ ts \in ThreadState /\ ts.pc = "decide" /\ pending' = pending \ {m}
      /\ again' = TRUE /\ rerun' = "asked" /\ thread' = [thread EXCEPT ![w] = new]
      /\ UNCHANGED <<now, next, deadline, disposed, sendTime>>
      /\ thread \in [Worker -> ThreadState] /\ Armed
  BY Types DEF SendFails, At, Removed, Timely
<1>2. new \in ThreadState /\ new.pc = "decide" /\ new.result = Null
  BY <1>1, Times DEF ThreadState
<1> HIDE DEF new
<1>3. DatesAreNear'
  <2>1. NearIn(new, now)
    BY <1>2 DEF NearIn
  <2> QED
    BY <1>1, <1>2, <2>1, StayNear
<1>4. Armed' /\ AskedIsHeard'
  <2>1. Reads(thread'[w])
    BY <1>1, <1>2 DEF Reads
  <2> QED
    BY <1>1, <2>1 DEF Armed, AskedIsHeard
<1>5. PendingHasWakeUp'
  BY <1>1, <1>4, AskedLooks DEF PendingHasWakeUp
<1> QED
  BY <1>3, <1>4, <1>5 DEF Timely

LEMMA DisposeTimely ==
  ASSUME Timely, IInv', NEW w \in Worker, DisposeTimer(w) \/ ClearMessages(w)
  PROVE  Timely'
<1>1. PICK new \in ThreadState :
        /\ thread' = [thread EXCEPT ![w] = new] /\ new.pc \in {"idle", "clear"}
  <2>1. CASE DisposeTimer(w)
    BY <2>1, Types, MoveTo DEF DisposeTimer, Go, Timely
  <2>2. CASE ClearMessages(w)
    BY <2>2, AtRestType DEF ClearMessages, Finish
  <2> QED
    BY <2>1, <2>2
<1>2. /\ thread[w].pc \in {"idle", "clear"} /\ pending' \subseteq pending
      /\ disposed' /\ (deadline' = deadline \/ deadline' = Never)
      /\ UNCHANGED <<now, next, running, again, rerun, sendTime, due>>
      /\ thread \in [Worker -> ThreadState] /\ Armed /\ AskedIsHeard
  BY Types DEF DisposeTimer, ClearMessages, At, messageVars, Timely, IInv, ClearsOnceDisposed
<1>3. DatesAreNear'
  <2>1. NearIn(new, now)
    BY <1>1 DEF NearIn
  <2> QED
    BY <1>1, <1>2, <2>1, StayNear
<1>4. Armed' /\ AskedIsHeard' /\ PendingHasWakeUp'
  <2>1. \A v \in Worker : Reads(thread[v]) => thread'[v] = thread[v]
    BY <1>1, <1>2 DEF Reads
  <2> QED
    BY <1>2, <2>1 DEF Armed, AskedIsHeard, PendingHasWakeUp
<1> QED
  BY <1>3, <1>4 DEF Timely

LEMMA NextTimely == Exact /\ Timely /\ [Next]_vars => Timely'
<1> SUFFICES ASSUME Exact, Timely, [Next]_vars PROVE Timely'
  OBVIOUS
<1>0. IInv'
  BY NextKeeps DEF Timely
<1>1. ASSUME NEW w \in Worker, Step(w) PROVE Timely'
  <2>1. CASE due[w] = {} /\ TimerStep(w) /\ UNCHANGED messageVars
    BY <1>0, <2>1, TimerStepTimely
  <2>2. CASE Scan(w)
    BY <1>0, <2>2, ScanTimely
  <2>3. ASSUME NEW m \in Message, SendDue(w, m) \/ SendFails(w, m) PROVE Timely'
    BY <1>0, <2>3, SendDueTimely, SendFailsTimely
  <2>4. CASE ClearMessages(w)
    BY <1>0, <2>4, DisposeTimely
  <2> QED
    BY <1>1, <2>1, <2>2, <2>3, <2>4 DEF Step
<1>2. ASSUME NEW w \in Worker, FireOn(w) PROVE Timely'
  BY <1>0, <1>2, FireTimely
<1>3. ASSUME NEW w \in Worker, DisposeTimer(w) PROVE Timely'
  BY <1>0, <1>3, DisposeTimely
<1>4. ASSUME NEW w \in Worker, NEW m \in Message, NEW delay \in 1 .. MaxDelay,
             AddDelayedMessage(w, m, delay)
      PROVE  Timely'
  BY <1>0, <1>4, AddTimely
<1>5. CASE PassTime
  BY <1>0, <1>5, TickTimely
<1>6. CASE UNCHANGED vars
  <2>1. UNCHANGED <<timerVars, messageVars>>
    BY <1>6 DEF vars
  <2>2. \A w \in Worker, m \in pending : WillLook(w, m)' <=> WillLook(w, m)
    BY <2>1 DEF timerVars, messageVars, WillLook, WillSet, AlreadyScheduled
  <2>3. DatesAreNear' /\ Armed' /\ AskedIsHeard'
    BY <2>1 DEF timerVars, messageVars, Timely, DatesAreNear, NearIn, Near, Armed, AskedIsHeard
  <2>4. PendingHasWakeUp'
    BY <2>1, <2>2 DEF timerVars, messageVars, Timely, PendingHasWakeUp
  <2> QED
    BY <1>0, <2>3, <2>4 DEF Timely
<1> QED
  BY <1>1, <1>2, <1>3, <1>4, <1>5, <1>6 DEF Next

(* With a timer that is never early and delays that fit an int, a message  *)
(* that waits will be looked at, or the last request to run again was      *)
(* ignored: for any number of threads, as slow as they like, for callbacks *)
(* that overlap, a timer that is late, and publications that throw.  TLC   *)
(* finds a message forgotten without either of the two assumptions, and    *)
(* one forgotten after a request that was ignored.                         *)
THEOREM NoneForgotten == Early = 0 /\ MaxDelay <= MaxInt => (Spec => []PendingHasWakeUp)
<1>1. Exact /\ Init => Exact /\ Timely
  BY InitTimely
<1>2. Exact /\ Timely /\ [Next]_vars => (Exact /\ Timely)'
  BY NextTimely DEF Exact
<1>3. Timely => PendingHasWakeUp
  BY DEF Timely
<1> QED
  BY <1>1, <1>2, <1>3, PTL DEF Spec, Exact

-------------------------------------------------------------------------------
(* DelayedMessages implements DelayedDelivery, however the timer behaves.  *)
Implements == [Delivery!DeliveryNext]_(Delivery!deliveryVars)

Stages == [m \in Message |-> StageOf(m)]

(* A message whose publication threw does not come back. *)
LostIsGone == \A m \in lost : ~New(m) /\ m \notin pending

LEMMA NextLosesForGood ==
  ASSUME IInv, LostIsGone, [Next]_vars
  PROVE  LostIsGone'
<1>0. sendTime \in [Message -> Nat] /\ pending \subseteq Message /\ lost \subseteq Message
  BY DEF IInv, TypeOK
<1>1. CASE UNCHANGED messageVars
  BY <1>1 DEF messageVars, LostIsGone, New
<1>2. ASSUME NEW w \in Worker, NEW m \in Message, NEW delay \in 1 .. MaxDelay,
             AddDelayedMessage(w, m, delay)
      PROVE  LostIsGone'
  <2>1. m \notin lost /\ \A x \in lost : sendTime'[x] = sendTime[x]
    BY <1>0, <1>2 DEF AddDelayedMessage, LostIsGone
  <2> QED
    BY <1>2, <2>1 DEF AddDelayedMessage, LostIsGone, New
<1>3. ASSUME NEW w \in Worker, NEW m \in Message, SendFails(w, m)
      PROVE  LostIsGone'
  <2>1. ~New(m)
    BY <1>3 DEF SendFails, Claims, IInv, PendingIsUnsent
  <2> QED
    BY <1>3, <2>1 DEF SendFails, Removed, LostIsGone, New
<1>4. ASSUME pending' \subseteq pending, UNCHANGED <<sendTime, lost>>
      PROVE  LostIsGone'
  BY <1>4 DEF LostIsGone, New
<1>5. ASSUME NEW w \in Worker, Step(w) PROVE LostIsGone'
  BY <1>1, <1>3, <1>4, <1>5 DEF Step, Scan, SendDue, Removed, ClearMessages
<1>6. CASE UNCHANGED vars
  BY <1>1, <1>6 DEF vars, messageVars
<1> QED
  BY <1>1, <1>2, <1>5, <1>6 DEF Next, FireOn, PassTime, DisposeTimer

(* One message moves on, the others stay where they are. *)
LEMMA StageMoves ==
  ASSUME NEW m \in Message, NEW st, StageOf(m)' = st,
         \A x \in Message \ {m} : StageOf(x)' = StageOf(x)
  PROVE  Stages' = [Stages EXCEPT ![m] = st]
<1>1. Stages' = [x \in Message |-> StageOf(x)']
  BY DEF Stages
<1>2. [Stages EXCEPT ![m] = st] = [x \in Message |-> IF x = m THEN st ELSE StageOf(x)]
  BY DEF Stages
<1>3. \A x \in Message : StageOf(x)' = IF x = m THEN st ELSE StageOf(x)
  OBVIOUS
<1> QED
  BY <1>1, <1>2, <1>3

(* What moves no message, and neither time nor the bus, is a stutter. *)
LEMMA NothingMoves ==
  ASSUME UNCHANGED <<now, disposed, sendTime, sent>>,
         \A m \in Message : StageOf(m)' = StageOf(m)
  PROVE  Implements
<1>1. Stages' = Stages
  BY DEF Stages
<1> QED
  BY <1>1 DEF Implements, Delivery!deliveryVars, Stages

LEMMA InitImplements == Init => Delivery!DeliveryInit
<1> SUFFICES ASSUME Init PROVE Delivery!DeliveryInit
  OBVIOUS
<1>1. \A m \in Message : StageOf(m) = "new"
  BY DEF Init, StageOf, New
<1>2. sendTime \in [Message -> Nat]
  BY Constants DEF Init
<1> QED
  BY <1>1, <1>2 DEF Init, TimerInit, Delivery!DeliveryInit

LEMMA AddImplements ==
  ASSUME IInv, NEW w \in Worker, NEW m \in Message, NEW delay \in 1 .. MaxDelay,
         AddDelayedMessage(w, m, delay)
  PROVE  Implements
<1>1. delay \in Nat /\ delay > 0 /\ now \in Nat /\ now + delay < Never /\ sendTime \in [Message -> Nat]
  BY Constants, TimerAssumption DEF IInv, TypeOK, TimerTypeOK, AddDelayedMessage
<1>2. sendTime'[m] = now + delay /\ \A x \in Message \ {m} : sendTime'[x] = sendTime[x]
  BY <1>1 DEF AddDelayedMessage
<1>3. StageOf(m) = "new" /\ StageOf(m)' = "waiting"
  BY <1>1, <1>2, Constants DEF AddDelayedMessage, StageOf, New
<1>4. \A x \in Message \ {m} : StageOf(x)' = StageOf(x)
  BY <1>2 DEF AddDelayedMessage, StageOf, New
<1>5. Stages' = [Stages EXCEPT ![m] = "waiting"]
  BY <1>3, <1>4, StageMoves
<1>6. sendTime' = [sendTime EXCEPT ![m] = sendTime'[m]]
  BY <1>1, <1>2 DEF AddDelayedMessage
<1>7. Stages[m] = "new"
  BY <1>3 DEF Stages
<1>8. Delivery!Accept(m)
  BY <1>1, <1>2, <1>5, <1>6, <1>7 DEF AddDelayedMessage, Delivery!Accept, Stages
<1> QED
  BY <1>8 DEF Implements, Delivery!DeliveryNext

(* Of two callbacks that listed a message, the one whose TryRemove         *)
(* succeeds moves it, and the other nothing.                               *)
LEMMA SendDueImplements ==
  ASSUME IInv, NEW w \in Worker, NEW m \in Message, SendDue(w, m)
  PROVE  Implements
<1>1. \A x \in Message \ {m} : StageOf(x)' = StageOf(x)
  <2> SUFFICES ASSUME NEW x \in Message \ {m} PROVE StageOf(x)' = StageOf(x)
    OBVIOUS
  <2>1. (x \in pending') <=> (x \in pending)
    BY DEF SendDue, Removed
  <2>2. sent'[x] = sent[x]
    BY DEF SendDue, IInv, TypeOK
  <2> QED
    BY <2>1, <2>2 DEF SendDue, StageOf, New
<1>2. CASE Claims(m)
  <2>1. ~New(m) /\ sent[m] = 0 /\ m \in pending
    BY <1>2 DEF IInv, PendingIsUnsent, Claims
  <2>2. m \notin pending' /\ sent'[m] = 1
    BY <1>2, <2>1 DEF SendDue, Removed, IInv, TypeOK
  <2>3. StageOf(m) = "waiting" /\ StageOf(m)' = "sent"
    BY <2>1, <2>2 DEF SendDue, StageOf, New
  <2>4. Stages' = [Stages EXCEPT ![m] = "sent"] /\ Stages[m] = "waiting"
    BY <1>1, <2>3, StageMoves DEF Stages
  <2>5. sendTime[m] <= now + Batch
    BY DEF SendDue, IInv, DueIsClose
  <2>6. Delivery!HandOn(m)
    BY <1>2, <2>4, <2>5 DEF SendDue, timerVars, Delivery!HandOn, Stages
  <2> QED
    BY <2>6 DEF Implements, Delivery!DeliveryNext
<1>3. CASE ~Claims(m)
  <2>1. m \notin pending /\ m \notin pending' /\ sent' = sent
    BY <1>3 DEF SendDue, Claims
  <2>2. StageOf(m)' = StageOf(m)
    BY <2>1 DEF SendDue, StageOf, New
  <2> QED
    BY <1>1, <2>1, <2>2, NothingMoves DEF SendDue, timerVars
<1> QED
  BY <1>2, <1>3

LEMMA SendFailsImplements ==
  ASSUME IInv, NEW w \in Worker, NEW m \in Message, SendFails(w, m)
  PROVE  Implements
<1>1. ~New(m) /\ sent[m] = 0 /\ m \in pending /\ sendTime[m] <= now + Batch
  BY DEF SendFails, IInv, PendingIsUnsent, DueIsClose, Claims
<1>2. \A x \in Message \ {m} : StageOf(x)' = StageOf(x)
  <2> SUFFICES ASSUME NEW x \in Message \ {m} PROVE StageOf(x)' = StageOf(x)
    OBVIOUS
  <2>1. (x \in pending') <=> (x \in pending)
    BY DEF SendFails, Removed
  <2>2. (x \in lost') <=> (x \in lost)
    BY DEF SendFails
  <2> QED
    BY <2>1, <2>2 DEF SendFails, StageOf, New
<1>3. StageOf(m) = "waiting" /\ StageOf(m)' = "lost"
  BY <1>1 DEF SendFails, Removed, StageOf, New
<1>4. Stages' = [Stages EXCEPT ![m] = "lost"] /\ Stages[m] = "waiting"
  BY <1>2, <1>3, StageMoves DEF Stages
<1>5. Delivery!Lose(m)
  BY <1>1, <1>4 DEF SendFails, Delivery!Lose, Stages
<1> QED
  BY <1>5 DEF Implements, Delivery!DeliveryNext

LEMMA ClearImplements ==
  ASSUME IInv, LostIsGone, NEW w \in Worker, ClearMessages(w)
  PROVE  Implements
<1>1. disposed
  BY DEF ClearMessages, IInv, ClearsOnceDisposed
<1>2. ASSUME NEW m \in Message
      PROVE  StageOf(m)' = IF StageOf(m) = "waiting" THEN "dropped" ELSE StageOf(m)
  <2>1. CASE m \in pending
    <3>1. ~New(m) /\ sent[m] = 0
      BY <2>1 DEF IInv, PendingIsUnsent
    <3>2. m \notin lost
      BY <2>1 DEF LostIsGone
    <3> QED
      BY <2>1, <3>1, <3>2 DEF ClearMessages, StageOf, New
  <2>2. CASE m \notin pending
    BY <2>2 DEF ClearMessages, StageOf, New
  <2> QED
    BY <2>1, <2>2
<1>3. Stages' = [m \in Message |-> IF Stages[m] = "waiting" THEN "dropped" ELSE Stages[m]]
  BY <1>2 DEF Stages
<1>4. Delivery!DropAll
  BY <1>1, <1>3 DEF ClearMessages, Delivery!DropAll, Stages
<1> QED
  BY <1>4 DEF Implements, Delivery!DeliveryNext

LEMMA NextImplements ==
  ASSUME IInv, LostIsGone, [Next]_vars
  PROVE  Implements
<1>1. ASSUME UNCHANGED messageVars, UNCHANGED <<now, disposed>>
      PROVE  Implements
  BY <1>1, NothingMoves DEF messageVars, StageOf, New
<1>2. ASSUME NEW w \in Worker, Step(w) PROVE Implements
  <2>1. CASE TimerStep(w) /\ UNCHANGED messageVars
    <3>1. UNCHANGED <<now, disposed>>
      BY <2>1 DEF TimerStep, SampleNow, SetTimer, CheckRunning, NoteAgain, EnterLocked,
                  StartRunning, Decide, StopRunning, ResetAgain
    <3> QED
      BY <1>1, <2>1, <3>1
  <2>2. CASE Scan(w)
    BY <2>2, NothingMoves DEF Scan, StageOf, New
  <2>3. ASSUME NEW m \in Message, SendDue(w, m) \/ SendFails(w, m) PROVE Implements
    BY <2>3, SendDueImplements, SendFailsImplements
  <2>4. CASE ClearMessages(w)
    BY <2>4, ClearImplements
  <2> QED
    BY <1>2, <2>1, <2>2, <2>3, <2>4 DEF Step
<1>3. ASSUME NEW w \in Worker, FireOn(w) PROVE Implements
  BY <1>1, <1>3 DEF FireOn, Fire
<1>4. ASSUME NEW w \in Worker, DisposeTimer(w) PROVE Implements
  <2>1. Stages' = Stages
    BY <1>4 DEF DisposeTimer, messageVars, Stages, StageOf, New
  <2>2. Delivery!Close
    BY <1>4, <2>1 DEF DisposeTimer, messageVars, Delivery!Close, Stages
  <2> QED
    BY <2>2 DEF Implements, Delivery!DeliveryNext
<1>5. CASE PassTime
  <2>1. Stages' = Stages
    BY <1>5 DEF PassTime, messageVars, Stages, StageOf, New
  <2>2. Delivery!Advance
    BY <1>5, <2>1 DEF PassTime, Tick, messageVars, Delivery!Advance, Stages
  <2> QED
    BY <2>2 DEF Implements, Delivery!DeliveryNext
<1>6. CASE UNCHANGED vars
  BY <1>1, <1>6 DEF vars, timerVars, messageVars
<1> QED
  BY <1>2, <1>3, <1>4, <1>5, <1>6, AddImplements DEF Next

(* The bus keeps the promise of DelayedDelivery: whatever timer, threads   *)
(* and callbacks do, each message is handed on at most once, alone and not *)
(* too early, or lost by a publication that threw; only Dispose drops      *)
(* messages, and all that wait.                                            *)
THEOREM DeliversAsPromised == Spec => ImplementsDelivery
<1>1. Init => LostIsGone
  BY DEF Init, LostIsGone
<1>2. IInv /\ LostIsGone /\ [Next]_vars => LostIsGone' /\ [Delivery!DeliveryNext]_(Delivery!deliveryVars)
  BY NextLosesForGood, NextImplements DEF Implements
<1> QED
  BY <1>1, <1>2, InitKeeps, NextKeeps, InitImplements, PTL
  DEF Spec, ImplementsDelivery, Delivery!DeliverySpec
================================================================================
