-------------------------- MODULE MCRealtimeOwners --------------------------
(***************************************************************************)
(* The passive owners a realtime component is built from: the generation   *)
(* gate, the terminal registry and the backpressure runtime.  Each has a   *)
(* lock of its own and shares nothing with the others, so their behaviours *)
(* side by side are checked one owner at a time: OwnersInit picks it.      *)
(***************************************************************************)
EXTENDS RealtimeGenerationGate, RealtimeTerminalRegistry, BackpressureRuntime

VARIABLE subject

ownersVars == <<vars, registryVars, runtime, subject>>

OwnersInit ==
    /\ Init /\ RegistryInit /\ RuntimeInit
    /\ subject \in {"gate", "registry", "runtime"}

OwnersNext ==
    /\ UNCHANGED subject
    /\ \/ subject = "gate" /\ Next /\ UNCHANGED <<registryVars, runtime>>
       \/ subject = "registry" /\ RegistryNext /\ UNCHANGED <<vars, runtime>>
       \/ subject = "runtime" /\ RuntimeNext /\ UNCHANGED <<vars, registryVars>>

OwnersSpec == OwnersInit /\ [][OwnersNext]_ownersVars
=============================================================================
