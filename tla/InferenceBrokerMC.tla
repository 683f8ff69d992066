------------------------- MODULE InferenceBrokerMC -------------------------
(* Instance of InferenceBroker for TLC: the operator switches between one  *)
(* slot with room for two waiters per class and two slots with room for    *)
(* one, so that capacity shrinks below the calls in flight.                *)
EXTENDS InferenceBroker

MCConfigs == { [max_concurrent |-> 1, max_queued |-> 2],
               [max_concurrent |-> 2, max_queued |-> 1] }
=============================================================================
