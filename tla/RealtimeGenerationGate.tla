----------------------- MODULE RealtimeGenerationGate -----------------------
(***************************************************************************)
(* The session-owned gate of framework/realtime_generation_gate.py: it     *)
(* binds one generation to the admitted turn, retires it when the turn     *)
(* ends, is interrupted or reset, and admits a stage completion only when  *)
(* its (turn, generation) is the current one.  Every public method runs    *)
(* under one lock, so every method is one action.                          *)
(*                                                                         *)
(* The n-th GenerationId.new() is the number n: identities are fresh and   *)
(* _generation_start_count counts exactly the calls of new().              *)
(***************************************************************************)
EXTENDS Naturals, FiniteSets, RealtimeIdentity

CONSTANTS
    AdvanceReason,     \* the values of GenerationAdvanceReason
    MaxGenerations,    \* bound: identities issued by GenerationId.new()
    MaxCompletions     \* bound: completions that are offered to the gate

ASSUME ReasonAssumption ==
    {"new_turn", "reset"} \subseteq AdvanceReason /\ "not_retired" \notin AdvanceReason
ASSUME BoundAssumption == MaxGenerations \in Nat /\ MaxCompletions \in Nat

VARIABLES
    active,          \* _active: the bound turn and generation
    pending,         \* _pending_generation_id, 0 for None
    latest,          \* _latest_generation_id, 0 for None
    retired,         \* _retired: the reason, NotRetired for an absent key
    knownTurns,      \* _known_turns: NoTurn for an absent key
    startCount,      \* _generation_start_count
    advanceCount,    \* _generation_advance_count
    acceptedCount,   \* _accepted_completion_count
    staleCount,      \* _stale_completion_count
    lastAccepted     \* history: generation of the last accepted completion

vars == <<active, pending, latest, retired, knownTurns, startCount,
          advanceCount, acceptedCount, staleCount, lastAccepted>>

counters == <<acceptedCount, staleCount>>

Generation == 1 .. MaxGenerations

NotRetired == "not_retired"

Inactive == [turn |-> NoTurn, generation |-> 0]

IsActive == active.generation # 0

-----------------------------------------------------------------------------
Init ==
    /\ active = Inactive
    /\ pending = 0
    /\ latest = 0
    /\ retired = [g \in Generation |-> NotRetired]
    /\ knownTurns = [g \in Generation |-> NoTurn]
    /\ startCount = 0
    /\ advanceCount = 0
    /\ acceptedCount = 0
    /\ staleCount = 0
    /\ lastAccepted = 0

(* The registry and the counter of _retire_active_locked; the caller says   *)
(* what _active becomes.                                                    *)
RetireActive(reason) ==
    IF IsActive
      THEN /\ retired' = [retired EXCEPT ![active.generation] = reason]
           /\ advanceCount' = advanceCount + 1
      ELSE UNCHANGED <<retired, advanceCount>>

StartGeneration(t) ==
    /\ RetireActive("new_turn")
    /\ LET g == IF pending # 0 THEN pending ELSE startCount + 1
       IN  /\ g \in Generation
           /\ startCount' = IF pending # 0 THEN startCount ELSE startCount + 1
           /\ pending' = 0
           /\ active' = [turn |-> t, generation |-> g]
           /\ knownTurns' = [knownTurns EXCEPT ![g] = t]
           /\ latest' = g
    /\ UNCHANGED <<counters, lastAccepted>>

(* Without a previous identity the call returns None and changes nothing.   *)
ResetGeneration ==
    /\ IsActive \/ pending # 0 \/ latest # 0
    /\ startCount + 1 \in Generation
    /\ RetireActive("reset")
    /\ active' = Inactive
    /\ pending' = startCount + 1
    /\ latest' = startCount + 1
    /\ startCount' = startCount + 1
    /\ UNCHANGED <<knownTurns, counters, lastAccepted>>

Advance(reason) ==
    /\ IsActive
    /\ RetireActive(reason)
    /\ active' = Inactive
    /\ UNCHANGED <<pending, latest, knownTurns, startCount, counters, lastAccepted>>

(* _admit_completion_locked, branch by branch.                              *)
AdmissionWithoutRegistryMutant(g, t) ==
    IF knownTurns[g] = NoTurn THEN "unknown_generation"
    ELSE IF knownTurns[g] # t THEN "turn_mismatch"
    ELSE "accepted"

Admission(g, t) ==
    IF retired[g] # NotRetired THEN "retired_generation"
    ELSE IF knownTurns[g] = NoTurn \/ ~IsActive THEN "unknown_generation"
    ELSE IF g # active.generation THEN "unknown_generation"
    ELSE IF t # active.turn THEN "turn_mismatch"
    ELSE "accepted"

(* admit_completion and apply_completion; deliver runs inside the lock, so  *)
(* acceptance and delivery are one step.                                    *)
ApplyCompletion(g, t) ==
    /\ acceptedCount + staleCount < MaxCompletions
    /\ IF Admission(g, t) = "accepted"
         THEN /\ acceptedCount' = acceptedCount + 1
              /\ lastAccepted' = g
              /\ UNCHANGED staleCount
         ELSE /\ staleCount' = staleCount + 1
              /\ UNCHANGED <<acceptedCount, lastAccepted>>
    /\ UNCHANGED <<active, pending, latest, retired, knownTurns, startCount,
                   advanceCount>>

Next ==
    \/ \E t \in Turn : StartGeneration(t)
    \/ ResetGeneration
    \/ \E reason \in AdvanceReason : Advance(reason)
    \/ \E g \in Generation, t \in Turn : ApplyCompletion(g, t)

Spec == Init /\ [][Next]_vars

-----------------------------------------------------------------------------
(* Every variable has the type the class declares: the active slot is empty *)
(* or binds a turn to a generation, never half of it.                       *)
TypeInvariant ==
    /\ active \in {Inactive} \cup [turn : Turn, generation : Generation]
    /\ pending \in {0} \cup Generation
    /\ latest \in {0} \cup Generation
    /\ retired \in [Generation -> AdvanceReason \cup {NotRetired}]
    /\ knownTurns \in [Generation -> Turn \cup {NoTurn}]
    /\ startCount \in {0} \cup Generation
    /\ advanceCount \in Nat
    /\ acceptedCount \in Nat
    /\ staleCount \in Nat
    /\ lastAccepted \in {0} \cup Generation

(* The registries agree: a generation is known exactly when it is retired   *)
(* or active (never both), it is known under the turn it is active for, the *)
(* reserved replacement was never bound, and every known identity was issued *)
(* before the reserved one.                                                 *)
RetiredOrActive ==
    \A g \in Generation :
        knownTurns[g] # NoTurn <=> (retired[g] # NotRetired \/ g = active.generation)

ActiveNotRetired ==
    IsActive => /\ retired[active.generation] = NotRetired
                /\ knownTurns[active.generation] = active.turn

IssuedInOrder ==
    /\ pending <= startCount
    /\ \A g \in Generation :
          knownTurns[g] # NoTurn => g <= startCount /\ (pending # 0 => g < pending)
    /\ IsActive => \A g \in Generation : knownTurns[g] # NoTurn => g <= active.generation

RegistryPartition == RetiredOrActive /\ ActiveNotRetired /\ IssuedInOrder

(* A completion of a turn that was really admitted is classified as retired, *)
(* mismatched or accepted; unknown_generation is kept for identities that    *)
(* were never bound, so the retired_by reason reaches the diagnostics of     *)
(* every late completion.                                                    *)
KnownNeverUnknown ==
    \A g \in Generation, t \in Turn :
        knownTurns[g] # NoTurn => Admission(g, t) # "unknown_generation"

(* The public count of advances is the number of retired generations: no     *)
(* generation is retired twice and no retirement goes uncounted.             *)
AdvanceCountExact ==
    advanceCount = Cardinality({g \in Generation : retired[g] # NotRetired})

-----------------------------------------------------------------------------
(* The gate implements FreshDelivery: what it delivers belongs to the        *)
(* generation that is current, and currency only moves forward.              *)
Fresh == INSTANCE FreshDelivery WITH
            Generation <- Generation,
            current    <- active.generation,
            used       <- {g \in Generation : knownTurns[g] # NoTurn},
            delivered  <- lastAccepted

DeliversOnlyFresh == Fresh!Spec
=============================================================================
