---------------------------- MODULE MCScheduler ----------------------------
(* One slot, contended by a tick, a trigger and a signal. *)
EXTENDS Scheduler

CONSTANTS t1, g1, e1, s1, s2

OneTick == {t1}
OneTrigger == {g1}
OneSignal == {e1}
MCStrategies == {s1, s2}
MCRetired == {s2}
=============================================================================
