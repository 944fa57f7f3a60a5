-------------------------- MODULE BackpressureLimits --------------------------
(* The limits a boundary advertises; BackpressureCapability refuses a limit *)
(* below one (framework/backpressure.py, _positive_optional_int).           *)
EXTENDS Naturals

CONSTANTS
    MaxPending,       \* maximum_pending_count
    MaxInFlight       \* maximum_in_flight_count

ASSUME LimitAssumption == MaxPending \in Nat \ {0} /\ MaxInFlight \in Nat \ {0}
=============================================================================
