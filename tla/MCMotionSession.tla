--------------------------- MODULE MCMotionSession ---------------------------
(* The calls of two host threads: a motion while the session is closed, a   *)
(* preflight that is repeated before the close, two threads that both make  *)
(* the composition, and two motions at once.                                *)
EXTENDS MotionSession

CONSTANTS h1, h2

Calls(first, second) == [p \in {h1, h2} |-> IF p = h1 THEN first ELSE second]

MotionThenClose == Calls(<<"preflight", "apply_motion">>, <<"close">>)
PreflightTwice == Calls(<<"preflight", "preflight">>, <<"close">>)
TwoCompositions == Calls(<<"preflight", "apply_motion">>, <<"preflight">>)
TwoMotions == Calls(<<"preflight", "apply_motion">>, <<"apply_motion">>)

HostScripts == {MotionThenClose, PreflightTwice, TwoCompositions, TwoMotions}
=============================================================================
