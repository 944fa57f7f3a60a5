------------------------- MODULE MCRealtimeVoiceOutput -------------------------
(***************************************************************************)
(* Instances of RealtimeVoiceOutput for TLC.                               *)
(***************************************************************************)
EXTENDS RealtimeVoiceOutput, TLC

Symmetry == Permutations(Worker)

(* What meets in one behaviour, with two workers that race for the stage, a  *)
(* thread that cancels and one that flushes.                                 *)
PassingScenarios == {{"generations"}, {"close"}, {"admission"}, {"start"}, {"clear"}}
=============================================================================
