----------------------- MODULE DelayedMessagesRefinement -----------------------
(***************************************************************************)
(* DelayedMessages implements DelayedDelivery: where a message stands is   *)
(* read off the table, the publications and the failures.                  *)
(***************************************************************************)
EXTENDS DelayedMessages

StageOf(m) ==
  IF New(m) THEN "new"
  ELSE IF m \in pending THEN "waiting"
  ELSE IF sent[m] > 0 THEN "sent"
  ELSE IF m \in lost THEN "lost"
  ELSE "dropped"

Delivery == INSTANCE DelayedDelivery WITH
  Msg <- Message,
  Slack <- Batch,
  Unreliable <- MayFail,
  clock <- now,
  due <- sendTime,
  stage <- [m \in Message |-> StageOf(m)],
  handed <- sent,
  closed <- disposed

(* However many callbacks run and have listed the same messages, each step *)
(* hands on at most one that still waits, and is due, or changes nothing;  *)
(* and nothing is dropped but by the disposal (MessageBusBase.cs:119-141). *)
ImplementsDelivery == Delivery!DeliverySpec
===============================================================================
