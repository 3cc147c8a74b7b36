-------------------------- MODULE MCWorkerRuntime --------------------------
(* TLC instances of WorkerRuntime: two sources with one schedule each, of  *)
(* which the first has two slots and the second is not due yet, and one    *)
(* source with one schedule and one slot.                                  *)
EXTENDS WorkerRuntime, TLC

OneSchedulePerSource == <<1, 2>>
TwoSlotsThenNone == <<2, 0>>
OneSchedule == <<1>>
OneSlot == <<1>>
Processes == Permutations(Process)
=============================================================================
