---------------------------- MODULE DelayedDelivery ----------------------------
(***************************************************************************)
(* What a message bus promises of the messages it is given with a delay:   *)
(* each is handed on once, alone, and not before its time but for the      *)
(* batching interval; it is lost only by a publication that throws, and    *)
(* dropped only together with everything that waits, once the bus is       *)
(* disposed of.  Nothing is said here of timers, threads and callbacks.    *)
(***************************************************************************)
EXTENDS Naturals

CONSTANTS
  Msg,
  Slack,      \* how much before its time a message may be handed on
  Unreliable  \* can handing on fail?

VARIABLES
  clock,
  due,        \* when each message is to be handed on
  stage,      \* "new", "waiting", "sent", "lost" or "dropped"
  handed,     \* how often it was
  closed      \* the bus was disposed of, or is being

deliveryVars == <<clock, due, stage, handed, closed>>

DeliveryInit ==
  /\ clock = 0 /\ closed = FALSE
  /\ due \in [Msg -> Nat]
  /\ stage = [m \in Msg |-> "new"] /\ handed = [m \in Msg |-> 0]

(* For some time to come.  Also once the bus is closed: such a message may *)
(* wait for ever.                                                          *)
Accept(m) ==
  /\ stage[m] = "new"
  /\ stage' = [stage EXCEPT ![m] = "waiting"]
  /\ due'[m] \in Nat /\ due'[m] > clock
  /\ due' = [due EXCEPT ![m] = due'[m]]
  /\ UNCHANGED <<clock, handed, closed>>

HandOn(m) ==
  /\ stage[m] = "waiting" /\ due[m] <= clock + Slack
  /\ stage' = [stage EXCEPT ![m] = "sent"]
  /\ handed' = [handed EXCEPT ![m] = @ + 1]
  /\ UNCHANGED <<clock, due, closed>>

Lose(m) ==
  /\ Unreliable /\ stage[m] = "waiting" /\ due[m] <= clock + Slack
  /\ stage' = [stage EXCEPT ![m] = "lost"]
  /\ UNCHANGED <<clock, due, handed, closed>>

Close ==
  /\ ~closed /\ closed' = TRUE
  /\ UNCHANGED <<clock, due, stage, handed>>

DropAll ==
  /\ closed
  /\ stage' = [m \in Msg |-> IF stage[m] = "waiting" THEN "dropped" ELSE stage[m]]
  /\ UNCHANGED <<clock, due, handed, closed>>

Advance ==
  /\ clock' = clock + 1
  /\ UNCHANGED <<due, stage, handed, closed>>

DeliveryNext ==
  \/ \E m \in Msg : Accept(m) \/ HandOn(m) \/ Lose(m)
  \/ Close \/ DropAll \/ Advance

DeliverySpec == DeliveryInit /\ [][DeliveryNext]_deliveryVars
================================================================================
