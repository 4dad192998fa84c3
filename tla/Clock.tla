-------------------------------- MODULE Clock --------------------------------
(* The wall clock that the handlers of the API read with time.Now().         *)
EXTENDS Integers

CONSTANTS FirstTime, LastTime   \* bound: when the clock starts and stops

ASSUME ClockAssumption == FirstTime \in Int /\ LastTime \in Int /\ FirstTime <= LastTime

VARIABLE now

Tick == now < LastTime /\ now' = now + 1
=============================================================================
