---------------------- MODULE RealtimeTerminalRegistry ----------------------
(***************************************************************************)
(* framework/realtime_terminal_registry.py: the first terminal outcome of  *)
(* a turn is retained, in commit order; later attempts are counted and     *)
(* suppressed, and so are non-terminal events of a terminal turn.  Every   *)
(* method is one action because it runs under the registry's lock.         *)
(***************************************************************************)
EXTENDS Naturals, Sequences, RealtimeLifecycle, RealtimeIdentity

CONSTANT
    MaxAttempts     \* bound: suppressed attempts that are counted

VARIABLES
    records,           \* _records: the dict in insertion order
    duplicateCount,    \* _duplicate_terminal_count
    regressionCount,   \* _terminal_regression_count
    lateCount          \* _late_non_terminal_count

registryVars == <<records, duplicateCount, regressionCount, lateCount>>

(* get of a turn without a record is None.                                  *)
NoOutcome == "none"

Record == [turn : Turn, outcome : TurnOutcome]

Recorded == {records[i].turn : i \in DOMAIN records}

(* get(turn).outcome, NoOutcome for a turn without a record.                *)
OutcomeOf(t) ==
    IF t \in Recorded
      THEN records[CHOOSE i \in DOMAIN records : records[i].turn = t].outcome
      ELSE NoOutcome

-----------------------------------------------------------------------------
RegistryInit ==
    /\ records = <<>>
    /\ duplicateCount = 0
    /\ regressionCount = 0
    /\ lateCount = 0

(* The accepted branch of commit, without the counters.                     *)
Retain(t, outcome) ==
    records' = Append(records, [turn |-> t, outcome |-> outcome])

CommitAfterRegressionMutant(t, outcome) ==
    LET verdict == TerminalVerdict(OutcomeOf(t), outcome, NoOutcome)
    IN  IF verdict = "duplicate_terminal"
          THEN /\ duplicateCount < MaxAttempts
               /\ duplicateCount' = duplicateCount + 1
               /\ UNCHANGED <<records, regressionCount, lateCount>>
          ELSE /\ Retain(t, outcome)
               /\ UNCHANGED <<duplicateCount, regressionCount, lateCount>>

Commit(t, outcome) ==
    LET verdict == TerminalVerdict(OutcomeOf(t), outcome, NoOutcome)
    IN  \/ /\ verdict = "first_terminal"
           /\ Retain(t, outcome)
           /\ UNCHANGED <<duplicateCount, regressionCount, lateCount>>
        \/ /\ verdict = "duplicate_terminal"
           /\ duplicateCount < MaxAttempts
           /\ duplicateCount' = duplicateCount + 1
           /\ UNCHANGED <<records, regressionCount, lateCount>>
        \/ /\ verdict = "terminal_regression"
           /\ regressionCount < MaxAttempts
           /\ regressionCount' = regressionCount + 1
           /\ UNCHANGED <<records, duplicateCount, lateCount>>

(* admit_non_terminal of a terminal turn; an admitted event changes nothing. *)
AdmitNonTerminal(t) ==
    /\ t \in Recorded
    /\ lateCount < MaxAttempts
    /\ lateCount' = lateCount + 1
    /\ UNCHANGED <<records, duplicateCount, regressionCount>>

RegistryNext ==
    \E t \in Turn :
        \/ \E outcome \in TurnOutcome : Commit(t, outcome)
        \/ AdmitNonTerminal(t)

RegistrySpec == RegistryInit /\ [][RegistryNext]_registryVars

-----------------------------------------------------------------------------
(* Every record names a turn and one of its public outcomes.                *)
RegistryTypes ==
    /\ records \in Seq(Record)
    /\ duplicateCount \in Nat /\ regressionCount \in Nat /\ lateCount \in Nat

(* validate_terminal_transition: however attempts interleave, a turn owns at *)
(* most one terminal record.                                                *)
OneRecordPerTurn ==
    \A i, j \in DOMAIN records : records[i].turn = records[j].turn => i = j

(* First terminal wins: a committed record is never replaced, moved or       *)
(* dropped, so a reader's earlier snapshot of terminal_results stays a       *)
(* prefix, and no second record is committed for a turn that has one.        *)
Kept == \A i \in DOMAIN records : i \in DOMAIN records' /\ records'[i] = records[i]
NewTurnsOnly == \A i \in DOMAIN records' \ DOMAIN records : records'[i].turn \notin Recorded

RecordsOnlyGrow == [][Kept /\ NewTurnsOnly]_records
=============================================================================
