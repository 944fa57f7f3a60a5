-------------------------- MODULE RealtimeIdentity --------------------------
(* framework/identity.py: turn identities are opaque and None is not one.   *)

CONSTANTS
    Turn,              \* turn identities
    NoTurn             \* Python's None where a turn is expected

ASSUME TurnAssumption == NoTurn \notin Turn
=============================================================================
