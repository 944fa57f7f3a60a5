------------------------- MODULE RealtimeOwnersProofs -------------------------
(***************************************************************************)
(* What two owners a realtime component is built from guarantee, for every *)
(* set of turns and every number of attempts, generations and completions. *)
(* The registry retains the first terminal of a turn; the gate delivers to *)
(* the fresh generation only.  The gate's inductive invariant is           *)
(* TypeInvariant /\ RegistryPartition: freshness of the reserved           *)
(* replacement (IssuedInOrder) is what keeps a started generation out of   *)
(* the retired registry.                                                   *)
(***************************************************************************)
EXTENDS RealtimeGenerationGate, RealtimeTerminalRegistry, FiniteSetTheorems, TLAPS

-----------------------------------------------------------------------------
(* The terminal registry.                                                   *)

RegistryInvariant == RegistryTypes /\ OneRecordPerTurn

(* Every retained record carries a terminal outcome.                         *)
LEMMA OutcomesAreTyped ==
    RegistryTypes => \A k \in DOMAIN records : records[k].outcome \in TurnOutcome
<1> SUFFICES ASSUME RegistryTypes, NEW k \in DOMAIN records
             PROVE  records[k].outcome \in TurnOutcome
    OBVIOUS
<1>1. records \in Seq(Record)
    BY DEF RegistryTypes
<1>2. records[k] \in Record
    BY <1>1
<1> QED BY <1>2 DEF Record

(* The verdict of the terminal rule is "first" only for an unrecorded turn.  *)
LEMMA FirstMeansUnrecorded ==
    ASSUME RegistryTypes, NEW t \in Turn, NEW outcome \in TurnOutcome,
           TerminalVerdict(OutcomeOf(t), outcome, NoOutcome) = "first_terminal"
    PROVE  t \notin Recorded
<1> SUFFICES ASSUME t \in Recorded PROVE FALSE
    OBVIOUS
<1> DEFINE i == CHOOSE k \in DOMAIN records : records[k].turn = t
<1>1. i \in DOMAIN records
    BY DEF Recorded
<1>2. OutcomeOf(t) = records[i].outcome
    BY DEF OutcomeOf
<1>3. records[i].outcome \in TurnOutcome
    <2>1. \A k \in DOMAIN records : records[k].outcome \in TurnOutcome
        BY OutcomesAreTyped
    <2> HIDE DEF i
    <2> QED BY <1>1, <2>1
<1>4. OutcomeOf(t) # NoOutcome
    BY <1>2, <1>3 DEF NoOutcome, TurnOutcome
<1> QED BY <1>4 DEF TerminalVerdict

(* A commit either appends a record of a new turn or leaves them alone.      *)
LEMMA CommitEffect ==
    ASSUME RegistryTypes, NEW t \in Turn, NEW outcome \in TurnOutcome, Commit(t, outcome)
    PROVE  \/ /\ t \notin Recorded
              /\ records' = Append(records, [turn |-> t, outcome |-> outcome])
           \/ records' = records
BY FirstMeansUnrecorded DEF Commit, Retain

LEMMA RegistryStep == RegistryInvariant /\ [RegistryNext]_registryVars => RegistryInvariant'
<1> SUFFICES ASSUME RegistryInvariant, [RegistryNext]_registryVars PROVE RegistryInvariant'
    OBVIOUS
<1> USE DEF RegistryInvariant
<1>1. ASSUME NEW t \in Turn, NEW outcome \in TurnOutcome, Commit(t, outcome)
      PROVE  RegistryInvariant'
    <2>1. CASE /\ t \notin Recorded
               /\ records' = Append(records, [turn |-> t, outcome |-> outcome])
        <3>1. [turn |-> t, outcome |-> outcome] \in Record
            BY DEF Record
        <3>2. records' \in Seq(Record)
            BY <2>1, <3>1 DEF RegistryTypes
        <3>3. OneRecordPerTurn'
            BY <2>1, <3>1 DEF OneRecordPerTurn, RegistryTypes, Recorded
        <3> QED BY <1>1, <3>2, <3>3 DEF RegistryTypes, Commit
    <2>2. CASE records' = records
        BY <1>1, <2>2 DEF RegistryTypes, OneRecordPerTurn, Commit
    <2> QED BY <1>1, <2>1, <2>2, CommitEffect
<1>2. ASSUME NEW t \in Turn, AdmitNonTerminal(t) PROVE RegistryInvariant'
    BY <1>2 DEF AdmitNonTerminal, RegistryTypes, OneRecordPerTurn
<1>3. CASE UNCHANGED registryVars
    BY <1>3 DEF registryVars, RegistryTypes, OneRecordPerTurn
<1> QED BY <1>1, <1>2, <1>3 DEF RegistryNext

LEMMA InitRegistry == RegistryInit => RegistryInvariant
BY DEF RegistryInit, RegistryInvariant, RegistryTypes, OneRecordPerTurn

(* Every turn owns at most one terminal record.                              *)
THEOREM RegistrySafety == RegistrySpec => [](RegistryTypes /\ OneRecordPerTurn)
<1>1. RegistrySpec => []RegistryInvariant
    BY InitRegistry, RegistryStep, PTL DEF RegistrySpec
<1> QED BY <1>1, PTL DEF RegistryInvariant

(* Once committed, a record keeps its place and its outcome for ever, and no *)
(* other record joins it for the same turn.                                  *)
THEOREM FirstTerminalWins == RegistrySpec => RecordsOnlyGrow
<1> DEFINE Grow == Kept /\ NewTurnsOnly
<1>1. RegistryTypes /\ [RegistryNext]_registryVars => [Grow]_records
    <2> SUFFICES ASSUME RegistryTypes, [RegistryNext]_registryVars PROVE Grow \/ records' = records
        OBVIOUS
    <2>1. ASSUME NEW t \in Turn, NEW outcome \in TurnOutcome, Commit(t, outcome)
          PROVE  Grow \/ records' = records
        <3>1. CASE /\ t \notin Recorded
                   /\ records' = Append(records, [turn |-> t, outcome |-> outcome])
            <4>1. [turn |-> t, outcome |-> outcome] \in Record
                BY DEF Record
            <4>2. Kept
                BY <3>1, <4>1 DEF RegistryTypes, Kept
            <4>3. ASSUME NEW i \in DOMAIN records' \ DOMAIN records
                  PROVE  records'[i].turn = t
                BY <3>1, <4>1, <4>3 DEF RegistryTypes
            <4> QED BY <3>1, <4>2, <4>3 DEF NewTurnsOnly
        <3> QED BY <2>1, <3>1, CommitEffect
    <2>2. ASSUME NEW t \in Turn, AdmitNonTerminal(t) PROVE records' = records
        BY <2>2 DEF AdmitNonTerminal
    <2>3. CASE UNCHANGED registryVars
        BY <2>3 DEF registryVars
    <2> QED BY <2>1, <2>2, <2>3 DEF RegistryNext
<1>2. RegistrySpec => []RegistryTypes
    BY RegistrySafety, PTL
<1> QED BY <1>1, <1>2, PTL DEF RegistrySpec, RecordsOnlyGrow

-----------------------------------------------------------------------------
(* The generation gate.                                                     *)

USE TurnAssumption, ReasonAssumption, BoundAssumption

GateInvariant == TypeInvariant /\ RegistryPartition

(* The empty gate satisfies the invariant.                                  *)
LEMMA InitGate == Init => GateInvariant
<1> SUFFICES ASSUME Init PROVE GateInvariant
    OBVIOUS
<1>1. TypeInvariant
    BY DEF Init, TypeInvariant, Inactive, Generation, NotRetired
<1>2. RegistryPartition
    BY DEF Init, RegistryPartition, RetiredOrActive, ActiveNotRetired, IssuedInOrder,
           Inactive, IsActive, Generation, NotRetired
<1> QED BY <1>1, <1>2 DEF GateInvariant

(* Binding a generation to a turn: the replacement or a new identity is      *)
(* newer than everything the registries know.                                *)
LEMMA StartPreserves ==
    ASSUME GateInvariant, NEW t \in Turn, StartGeneration(t)
    PROVE  GateInvariant'
<1> DEFINE g == IF pending # 0 THEN pending ELSE startCount + 1
<1>1. /\ g \in Generation
      /\ active' = [turn |-> t, generation |-> g]
      /\ knownTurns' = [knownTurns EXCEPT ![g] = t]
      /\ startCount' = IF pending # 0 THEN startCount ELSE startCount + 1
      /\ pending' = 0 /\ latest' = g
    BY DEF StartGeneration
<1>2. \A h \in Generation : knownTurns[h] # NoTurn => h < g
    BY DEF GateInvariant, RegistryPartition, IssuedInOrder, TypeInvariant, Generation
<1>3. retired[g] = NotRetired /\ g # active.generation
    BY <1>1, <1>2 DEF GateInvariant, RegistryPartition, RetiredOrActive, Generation
<1>4. \A h \in Generation :
          retired'[h] = IF h = active.generation THEN "new_turn" ELSE retired[h]
    BY DEF StartGeneration, RetireActive, IsActive, GateInvariant, TypeInvariant, Generation
<1>5. TypeInvariant'
    BY <1>1 DEF StartGeneration, RetireActive, GateInvariant, TypeInvariant, counters,
                Generation, Inactive, IsActive
<1>6. RetiredOrActive'
    BY <1>1, <1>3, <1>4, <1>5
    DEF GateInvariant, RegistryPartition, RetiredOrActive, TypeInvariant, NotRetired
<1>7. ActiveNotRetired'
    BY <1>1, <1>3, <1>4
    DEF GateInvariant, TypeInvariant, ActiveNotRetired, NotRetired
<1>8. IssuedInOrder'
    BY <1>1, <1>2
    DEF GateInvariant, TypeInvariant, RegistryPartition, IssuedInOrder, IsActive, Generation
<1> QED BY <1>5, <1>6, <1>7, <1>8 DEF GateInvariant, RegistryPartition

(* A reset retires what is active and reserves an identity newer than all.   *)
LEMMA ResetPreserves == GateInvariant /\ ResetGeneration => GateInvariant'
<1> SUFFICES ASSUME GateInvariant, ResetGeneration PROVE GateInvariant'
    OBVIOUS
<1>1. TypeInvariant'
    BY DEF GateInvariant, TypeInvariant, ResetGeneration, RetireActive, Inactive, IsActive,
           counters, Generation
<1>2. \A h \in Generation :
          retired'[h] = IF h = active.generation THEN "reset" ELSE retired[h]
    BY DEF ResetGeneration, RetireActive, IsActive, GateInvariant, TypeInvariant, Generation
<1>3. RetiredOrActive' /\ ActiveNotRetired'
    BY <1>2 DEF GateInvariant, TypeInvariant, RegistryPartition, RetiredOrActive,
                ActiveNotRetired, ResetGeneration, Inactive, IsActive, NotRetired, Generation
<1>4. IssuedInOrder'
    BY DEF GateInvariant, TypeInvariant, RegistryPartition, IssuedInOrder, ResetGeneration,
           Inactive, IsActive, Generation
<1> QED BY <1>1, <1>3, <1>4 DEF GateInvariant, RegistryPartition

(* An advance moves the active generation to the retired registry.           *)
LEMMA AdvancePreserves ==
    ASSUME GateInvariant, NEW reason \in AdvanceReason, Advance(reason)
    PROVE  GateInvariant'
<1>1. TypeInvariant'
    BY DEF GateInvariant, TypeInvariant, Advance, RetireActive, Inactive, IsActive,
           counters, Generation
<1>2. \A h \in Generation :
          retired'[h] = IF h = active.generation THEN reason ELSE retired[h]
    BY DEF Advance, RetireActive, IsActive, GateInvariant, TypeInvariant, Generation
<1>3. RetiredOrActive' /\ ActiveNotRetired'
    BY <1>2 DEF GateInvariant, TypeInvariant, RegistryPartition, RetiredOrActive,
                ActiveNotRetired, Advance, Inactive, IsActive, NotRetired, Generation
<1>4. IssuedInOrder'
    BY DEF GateInvariant, TypeInvariant, RegistryPartition, IssuedInOrder, Advance,
           Inactive, IsActive, Generation
<1> QED BY <1>1, <1>3, <1>4 DEF GateInvariant, RegistryPartition

(* Offering a completion touches no registry.                                *)
LEMMA CompletionPreserves ==
    ASSUME GateInvariant, NEW g \in Generation, NEW t \in Turn, ApplyCompletion(g, t)
    PROVE  GateInvariant'
<1>1. UNCHANGED <<active, pending, latest, retired, knownTurns, startCount, advanceCount>>
    BY DEF ApplyCompletion
<1>2. TypeInvariant'
    BY <1>1 DEF GateInvariant, TypeInvariant, ApplyCompletion, Generation, Inactive
<1>3. RegistryPartition'
    BY <1>1 DEF GateInvariant, RegistryPartition, RetiredOrActive, ActiveNotRetired,
                IssuedInOrder, IsActive
<1> QED BY <1>2, <1>3 DEF GateInvariant

LEMMA GateStep == GateInvariant /\ [Next]_vars => GateInvariant'
<1> SUFFICES ASSUME GateInvariant, [Next]_vars PROVE GateInvariant'
    OBVIOUS
<1>1. CASE \E t \in Turn : StartGeneration(t)
    BY <1>1, StartPreserves
<1>2. CASE ResetGeneration
    BY <1>2, ResetPreserves
<1>3. CASE \E reason \in AdvanceReason : Advance(reason)
    BY <1>3, AdvancePreserves
<1>4. CASE \E g \in Generation, t \in Turn : ApplyCompletion(g, t)
    BY <1>4, CompletionPreserves
<1>5. CASE UNCHANGED vars
    BY <1>5 DEF vars, GateInvariant, TypeInvariant, RegistryPartition, RetiredOrActive,
                ActiveNotRetired, IssuedInOrder, IsActive, Inactive, Generation
<1> QED BY <1>1, <1>2, <1>3, <1>4, <1>5 DEF Next

THEOREM GateSafety == Spec => []GateInvariant
<1> QED BY InitGate, GateStep, PTL DEF Spec

(* The variables always have their declared types.                           *)
THEOREM GateTypes == Spec => []TypeInvariant
<1>1. GateInvariant => TypeInvariant
    BY DEF GateInvariant
<1> QED BY <1>1, GateSafety, PTL

(* The registries partition the issued identities: nothing is both retired   *)
(* and active, nothing that was bound is forgotten.                          *)
THEOREM GatePartition == Spec => []RegistryPartition
<1>1. GateInvariant => RegistryPartition
    BY DEF GateInvariant
<1> QED BY <1>1, GateSafety, PTL

(* A late completion of an admitted turn is never reported as unknown, so    *)
(* the retirement reason always reaches its diagnostic.                      *)
THEOREM LateCompletionIsExplained == Spec => []KnownNeverUnknown
<1>1. GateInvariant => KnownNeverUnknown
    <2> SUFFICES ASSUME GateInvariant, NEW g \in Generation, NEW t \in Turn,
                        knownTurns[g] # NoTurn
                 PROVE  Admission(g, t) # "unknown_generation"
        BY DEF KnownNeverUnknown
    <2>1. CASE retired[g] # NotRetired
        BY <2>1 DEF Admission
    <2>2. CASE retired[g] = NotRetired
        <3>1. g = active.generation /\ IsActive
            BY <2>2 DEF GateInvariant, RegistryPartition, RetiredOrActive, IsActive, Generation
        <3> QED BY <2>2, <3>1 DEF Admission
    <2> QED BY <2>1, <2>2
<1> QED BY <1>1, GateSafety, PTL

-----------------------------------------------------------------------------
(* One step that records a reason for the active generation, which had none, *)
(* adds exactly one retired generation.                                      *)
LEMMA RetireCounts ==
    ASSUME GateInvariant, AdvanceCountExact,
           NEW reason \in AdvanceReason, RetireActive(reason)
    PROVE  AdvanceCountExact'
<1> DEFINE R == {g \in Generation : retired[g] # NotRetired}
<1>1. IsFiniteSet(R)
    <2>1. IsFiniteSet(Generation)
        BY FS_Interval DEF Generation
    <2> QED BY <2>1, FS_Subset
<1>2. CASE IsActive
    <2>1. active.generation \in Generation \ R
        BY <1>2 DEF GateInvariant, TypeInvariant, RegistryPartition, ActiveNotRetired,
                    IsActive, Inactive
    <2>2. {g \in Generation : retired'[g] # NotRetired} = R \cup {active.generation}
        BY <1>2, <2>1 DEF RetireActive, GateInvariant, TypeInvariant, NotRetired
    <2>3. Cardinality(R \cup {active.generation}) = Cardinality(R) + 1
        BY <1>1, <2>1, FS_AddElement
    <2> QED BY <1>2, <2>2, <2>3 DEF RetireActive, AdvanceCountExact
<1>3. CASE ~IsActive
    BY <1>3 DEF RetireActive, AdvanceCountExact
<1> QED BY <1>2, <1>3

(* The advance counter is the size of the retired registry.                  *)
THEOREM AdvancesAreCounted == Spec => []AdvanceCountExact
<1>1. Init => AdvanceCountExact
    <2>1. Init => {g \in Generation : retired[g] # NotRetired} = {}
        BY DEF Init
    <2> QED BY <2>1, FS_EmptySet DEF Init, AdvanceCountExact
<1>2. GateInvariant /\ AdvanceCountExact /\ [Next]_vars => AdvanceCountExact'
    <2> SUFFICES ASSUME GateInvariant, AdvanceCountExact, [Next]_vars
                 PROVE  AdvanceCountExact'
        OBVIOUS
    <2>1. CASE \E t \in Turn : StartGeneration(t)
        BY <2>1, RetireCounts DEF StartGeneration
    <2>2. CASE ResetGeneration
        BY <2>2, RetireCounts DEF ResetGeneration
    <2>3. CASE \E reason \in AdvanceReason : Advance(reason)
        BY <2>3, RetireCounts DEF Advance
    <2>4. CASE \E g \in Generation, t \in Turn : ApplyCompletion(g, t)
        BY <2>4 DEF ApplyCompletion, AdvanceCountExact
    <2>5. CASE UNCHANGED vars
        BY <2>5 DEF vars, AdvanceCountExact
    <2> QED BY <2>1, <2>2, <2>3, <2>4, <2>5 DEF Next
<1> QED BY <1>1, <1>2, GateSafety, PTL DEF Spec

-----------------------------------------------------------------------------
(* Every behaviour of the gate is a behaviour of FreshDelivery.              *)
THEOREM GateIsFresh == Spec => DeliversOnlyFresh
<1> DEFINE known == {g \in Generation : knownTurns[g] # NoTurn}
<1>1. Init => Fresh!Init
    BY DEF Init, Fresh!Init, Inactive
<1>2. GateInvariant /\ GateInvariant' /\ [Next]_vars => [Fresh!Next]_(Fresh!vars)
    <2> SUFFICES ASSUME GateInvariant, GateInvariant', [Next]_vars
                 PROVE  [Fresh!Next]_(Fresh!vars)
        OBVIOUS
    <2>1. ASSUME NEW t \in Turn, StartGeneration(t) PROVE Fresh!Admit
        <3> DEFINE g == IF pending # 0 THEN pending ELSE startCount + 1
        <3>1. /\ g \in Generation
              /\ active' = [turn |-> t, generation |-> g]
              /\ knownTurns' = [knownTurns EXCEPT ![g] = t]
              /\ lastAccepted' = lastAccepted
            BY <2>1 DEF StartGeneration
        <3>2. \A u \in known : g > u
            BY DEF GateInvariant, RegistryPartition, IssuedInOrder, TypeInvariant, Generation
        <3>3. known' = known \cup {g}
            BY <3>1 DEF GateInvariant, TypeInvariant
        <3> QED BY <3>1, <3>2, <3>3 DEF Fresh!Admit
    <2>2. ASSUME ResetGeneration \/ \E reason \in AdvanceReason : Advance(reason)
          PROVE  Fresh!Retire \/ UNCHANGED Fresh!vars
        <3>1. active' = Inactive /\ UNCHANGED <<knownTurns, lastAccepted>>
            BY <2>2 DEF ResetGeneration, Advance
        <3>2. active'.generation = 0 /\ known' = known
            BY <3>1 DEF Inactive
        <3> QED BY <3>1, <3>2 DEF Fresh!Retire, Fresh!vars
    <2>3. ASSUME NEW g \in Generation, NEW t \in Turn, ApplyCompletion(g, t)
          PROVE  Fresh!Deliver \/ UNCHANGED Fresh!vars
        <3>1. UNCHANGED <<active, knownTurns>>
            BY <2>3 DEF ApplyCompletion
        <3>2. CASE Admission(g, t) = "accepted"
            <4>1. g = active.generation /\ g # 0
                BY <3>2 DEF Admission, Generation
            <4> QED BY <2>3, <3>1, <3>2, <4>1 DEF ApplyCompletion, Fresh!Deliver
        <3>3. CASE Admission(g, t) # "accepted"
            BY <2>3, <3>1, <3>3 DEF ApplyCompletion, Fresh!vars
        <3> QED BY <3>2, <3>3
    <2>4. CASE UNCHANGED vars
        BY <2>4 DEF vars, Fresh!vars
    <2> QED BY <2>1, <2>2, <2>3, <2>4 DEF Next, Fresh!Next
<1> QED BY <1>1, <1>2, GateSafety, PTL DEF Spec, DeliversOnlyFresh, Fresh!Spec
=============================================================================
