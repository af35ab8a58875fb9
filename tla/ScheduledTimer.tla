---------------------------- MODULE ScheduledTimer ----------------------------
(***************************************************************************)
(* The one-shot timer behind TheBorg's maintenance jobs:                   *)
(* src/Infra.Core/Infrastructure/ScheduledTimer.cs.                        *)
(*                                                                         *)
(* ScheduleNext may be called by any thread; the runtime's timer calls     *)
(* RunCallbackAsync on a pool thread, and a second call may arrive while   *)
(* the first still runs.  Every read and write of the unprotected flags    *)
(* _isRunning and _shouldRunAgainImmediately is a step of its own.  This   *)
(* module has the steps of the timer; what the callback does is up to the  *)
(* module that extends it, from pc "callback" to pc "decide".              *)
(*                                                                         *)
(* Time is a number of clock units.  _last is written and never read, and  *)
(* the minimum interval is zero for the only user of the timer: both are   *)
(* left out.  The unit is no finer than the timer's millisecond, so that   *)
(* Math.Ceiling has nothing to do.                                         *)
(***************************************************************************)
EXTENDS Naturals

CONSTANTS
  Worker,    \* threads: callers of ScheduleNext and pool threads of the timer
  MaxTime,   \* bound: the run ends at this time
  MaxDelay,  \* bound: the longest delay a caller asks for
  Grace,     \* RunCallbackAsync's 10 ms: "now" includes that much of the future
  MaxInt,    \* int.MaxValue: the longest delay that Timer.Change is given
  Early,     \* by how much the runtime's timer may fire before its due time
  Late,      \* by how much it may fire after it; 0: before anything else happens
  SlowUntil  \* until then, time may pass while a thread is inside an operation

ASSUME TimerAssumption ==
  /\ {MaxTime, MaxDelay, MaxInt, Early, Late, SlowUntil} \subseteq Nat
  /\ Grace \in 1 .. MaxInt

VARIABLES
  now,       \* DateTime.UtcNow
  next,      \* _next
  deadline,  \* when _timer fires, or Never
  disposed,  \* _timer.Dispose() was called
  running,   \* _isRunning
  again,     \* _shouldRunAgainImmediately
  rerun,     \* what became of the last request to run again; only properties read it
  thread     \* where each thread stands, and its local variables

timerVars == <<now, next, deadline, disposed, running, again, rerun, thread>>

(* DateTime.MaxValue, and the null DateTime? of a callback that threw. *)
Never == MaxTime + MaxDelay + Grace + 1
Null == Never + 1

(* back is where ScheduleNext returns to; date and utcNow are its locals;  *)
(* result is the callback's.                                               *)
ThreadState ==
  [pc : {"idle", "schedule", "lock", "check", "note", "enter", "start",
         "callback", "decide", "finally", "reset", "clear"},
   back : {"idle", "finally"}, date : Nat, utcNow : Nat, result : Nat]

TimerTypeOK ==
  /\ now \in Nat /\ next \in Nat /\ deadline \in Nat
  /\ disposed \in BOOLEAN /\ running \in BOOLEAN /\ again \in BOOLEAN
  /\ rerun \in {"none", "asked", "ignored"}
  /\ thread \in [Worker -> ThreadState]

AtRest == [pc |-> "idle", back |-> "idle", date |-> 0, utcNow |-> 0, result |-> 0]

TimerInit ==
  /\ now = 0 /\ next = Never /\ deadline = Never
  /\ disposed = FALSE /\ running = FALSE /\ again = FALSE /\ rerun = "none"
  /\ thread = [w \in Worker |-> AtRest]

At(w, pc) == thread[w].pc = pc
Go(w, pc) == thread' = [thread EXCEPT ![w].pc = pc]
Finish(w) == thread' = [thread EXCEPT ![w] = AtRest]

(* The state of a thread that calls ScheduleNext(date). *)
Scheduling(ts, date, back) ==
  [ts EXCEPT !.pc = "schedule", !.date = date, !.back = back]

(* ScheduleNext has returned, or thrown. *)
Returned(ts) ==
  IF ts.back = "idle" THEN AtRest ELSE [ts EXCEPT !.pc = "finally"]

-------------------------------------------------------------------------------
(* ScheduleNext *)

Sampled_NoClamp(ts, t) == [ts EXCEPT !.pc = "lock", !.utcNow = t]
Sampled(ts, t) ==
  [ts EXCEPT !.pc = "lock", !.utcNow = t, !.date = IF ts.date < t THEN t ELSE ts.date]

(* A past date means now; MaxValue means nothing to schedule. *)
SampleNow(w) ==
  /\ At(w, "schedule")
  /\ thread' = [thread EXCEPT ![w] =
       IF @.date = Never THEN Returned(@) ELSE Sampled(@, now)]
  /\ UNCHANGED <<now, next, deadline, disposed, running, again, rerun>>

(* Keep the time already scheduled if it is earlier, or the same. *)
AlreadyScheduled_Always(date, utcNow) == next <= date
AlreadyScheduled(date, utcNow) ==
  \/ next > utcNow /\ date > next
  \/ next = date

(* The cast to int of more milliseconds than an int holds gives            *)
(* int.MinValue, of which Math.Max makes zero.                             *)
DelayOf(span) == IF span > MaxInt THEN 0 ELSE span

(* Timer.Change arms the one shot, counting from now, with a delay that    *)
(* was computed from the earlier utcNow.  On a disposed timer it throws,   *)
(* after _next was set.                                                    *)
SetTimer(w) ==
  LET date == thread[w].date
      utcNow == thread[w].utcNow
  IN /\ At(w, "lock")
     /\ IF AlreadyScheduled(date, utcNow)
          THEN UNCHANGED <<next, deadline>>
          ELSE /\ next' = date
               /\ deadline' = IF disposed THEN Never ELSE now + DelayOf(date - utcNow)
     /\ thread' = [thread EXCEPT ![w] = Returned(@)]
     /\ UNCHANGED <<now, disposed, running, again, rerun>>

-------------------------------------------------------------------------------
(* RunCallbackAsync *)

(* The runtime's timer fires once, on an idle pool thread. *)
Fire(w) ==
  /\ At(w, "idle") /\ deadline # Never /\ deadline <= now + Early
  /\ deadline' = Never
  /\ Go(w, "check")
  /\ UNCHANGED <<now, next, disposed, running, again, rerun>>

(* The first look at _isRunning, without the lock ... *)
CheckRunning(w) ==
  /\ At(w, "check")
  /\ Go(w, IF running THEN "note" ELSE "enter")
  /\ UNCHANGED <<now, next, deadline, disposed, running, again, rerun>>

(* "Will run again immediately": if one that runs has yet to look.  If     *)
(* not, nobody will.                                                       *)
Requested == IF \E v \in Worker : thread[v].pc \in {"callback", "decide"} THEN "asked" ELSE "ignored"

(* ... which leaves a note for the callback that runs and exits. *)
NoteAgain(w) ==
  /\ At(w, "note")
  /\ again' = TRUE /\ rerun' = Requested
  /\ Finish(w)
  /\ UNCHANGED <<now, next, deadline, disposed, running>>

(* The second look, with the lock. *)
EnterLocked(w) ==
  /\ At(w, "enter")
  /\ IF running THEN again' = TRUE /\ rerun' = Requested /\ Finish(w)
                ELSE UNCHANGED <<again, rerun>> /\ Go(w, "start")
  /\ UNCHANGED <<now, next, deadline, disposed, running>>

(* _isRunning is only set after the lock was released. *)
StartRunning(w) ==
  /\ At(w, "start")
  /\ running' = TRUE
  /\ Go(w, "callback")
  /\ UNCHANGED <<now, next, deadline, disposed, again, rerun>>

(* The callback is over: schedule the next run, if there is one. *)
Decide(w) ==
  LET nextRun == now + Grace
      result == thread[w].result
  IN /\ At(w, "decide")
     /\ thread' = [thread EXCEPT ![w] =
          IF again \/ result <= nextRun THEN Scheduling(@, nextRun, "finally")
          ELSE IF result # Null THEN Scheduling(@, result, "finally")
          ELSE [@ EXCEPT !.pc = "finally"]]
     /\ rerun' = IF again THEN "none" ELSE rerun
     /\ UNCHANGED <<now, next, deadline, disposed, running, again>>

(* finally: _isRunning = false, then _shouldRunAgainImmediately = false.   *)
StopRunning(w) ==
  /\ At(w, "finally")
  /\ running' = FALSE
  /\ Go(w, "reset")
  /\ UNCHANGED <<now, next, deadline, disposed, again, rerun>>

ResetAgain(w) ==
  /\ At(w, "reset")
  /\ again' = FALSE
  /\ rerun' = IF rerun = "asked" THEN "ignored" ELSE rerun
  /\ Finish(w)
  /\ UNCHANGED <<now, next, deadline, disposed, running>>

TimerStep(w) ==
  \/ SampleNow(w) \/ SetTimer(w)
  \/ CheckRunning(w) \/ NoteAgain(w) \/ EnterLocked(w) \/ StartRunning(w)
  \/ Decide(w) \/ StopRunning(w) \/ ResetAgain(w)

(* The runtime is exact, and about to fire: it comes first. *)
TimerFirst == Late = 0 /\ deadline <= now

(* Time passes. *)
Tick ==
  /\ now < MaxTime /\ now < deadline + Late
  /\ now < SlowUntil \/ \A w \in Worker : At(w, "idle")
  /\ now' = now + 1
  /\ UNCHANGED <<next, deadline, disposed, running, again, rerun, thread>>
===============================================================================
