-------------------------- MODULE RealtimeLifecycle --------------------------
(***************************************************************************)
(* The phase matrix and the terminal rule of framework/lifecycle.py.       *)
(***************************************************************************)

Phase ==
    {"idle", "listening", "transcribing", "thinking", "speaking", "motion",
     "recovering"}

TurnOutcome ==
    {"completed", "interrupted", "cancelled", "failed", "rejected", "closed"}

(* The phases _PHASE_TRANSITIONS lists after each phase.                    *)
PhaseTransitions ==
    [p \in Phase |->
        CASE p = "idle" -> {"listening", "transcribing", "thinking", "speaking", "motion"}
          [] p = "listening" -> {"transcribing", "thinking", "recovering", "idle"}
          [] p = "transcribing" -> {"thinking", "recovering", "idle"}
          [] p = "thinking" -> {"speaking", "motion", "recovering", "idle"}
          [] p = "speaking" -> {"motion", "recovering", "idle"}
          [] p = "motion" -> {"speaking", "recovering", "idle"}
          [] p = "recovering" -> {"idle"}]

(* validate_phase_transition accepts: repeating the phase is a no-op.        *)
ValidPhaseTransition(previous, next) ==
    next = previous \/ next \in PhaseTransitions[previous]

(* validate_terminal_transition: the first outcome is accepted, a repeated   *)
(* one is a duplicate, a different one a regression.  None is the absence of *)
(* a recorded outcome.                                                       *)
TerminalVerdict(existing, attempted, None) ==
    IF existing = None THEN "first_terminal"
    ELSE IF existing = attempted THEN "duplicate_terminal"
    ELSE "terminal_regression"
=============================================================================
