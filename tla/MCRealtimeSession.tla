------------------------- MODULE MCRealtimeSession -------------------------
(* Scenarios for TLC: which thread makes which calls.                       *)
EXTENDS RealtimeSessionProperties, TLC

CONSTANTS t1, t2, h1, h2

Call(op, t) == [op |-> op, turn |-> t, flush |-> FALSE, after |-> NoTurn]
Run(t) == Call("run", t)
Start(t) == Call("start", t)
InterruptTurn(t) == Call("interrupt", t)
InterruptCurrent == Call("interrupt", NoTurn)
InterruptAndFlush == [InterruptCurrent EXCEPT !.flush = TRUE]
FlushCurrent == Call("flush", NoTurn)
CloseSession == Call("close", NoTurn)
SubscribeCall == Call("subscribe", NoTurn)

(* A call made once the subscribers were told that t started.               *)
Once(call, t) == [call EXCEPT !.after = t]

Scenario(first, second, callback) ==
    [host |-> (h1 :> first) @@ (h2 :> second), callback |-> callback]

Reentrant == {InterruptCurrent, FlushCurrent, CloseSession}

(* One host thread; callbacks call back into the session.                   *)
OneHost == Scenario({Run(t1), Run(t2), CloseSession}, {}, Reentrant)

(* A host interrupts its own turn: callbacks run inside that interrupt.      *)
OwnerHost == Scenario({Start(t1), Once(InterruptAndFlush, t1), Once(Run(t2), t1)}, {}, Reentrant)

(* One thread runs t1; once it started, another one interrupts it, closes the *)
(* session and runs a turn of its own, in any order.                         *)
RunAndControl ==
    Scenario({Run(t1)},
             {Once(InterruptAndFlush, t1), Once(CloseSession, t1), Once(Run(t2), t1)}, {})

(* Two threads interrupt, flush and close a turn that is never executed.     *)
ControlOnly ==
    Scenario({Start(t1), Once(InterruptCurrent, t1), Once(FlushCurrent, t1)},
             {Once(InterruptAndFlush, t1), Once(CloseSession, t1), SubscribeCall}, {})

(* Two starts race, and an interrupt and a close race the run of the first.   *)
RacingStarts ==
    Scenario({Start(t1), Run(t1)},
             {Once(InterruptCurrent, t1), Start(t2), Once(CloseSession, t1)}, {})

(* Callbacks of t1 interrupt it and start t2 before the run has noticed: the  *)
(* run then resets the phase of t2, and the host's interrupt of t2 fails.    *)
OverlappingTurns ==
    Scenario({Run(t1), Once(InterruptTurn(t2), t2)}, {}, {InterruptTurn(t1), Start(t2)})

AllScenarios ==
    {OneHost, OwnerHost, RunAndControl, ControlOnly, RacingStarts, OverlappingTurns}

(* Scenarios that show where the code departs from what is said of it.       *)
StartAndClose == {Scenario({Start(t1)}, {CloseSession}, {})}
RunAndStart == {Scenario({Run(t1)}, {Once(Start(t2), t1)}, {InterruptCurrent})}
RunTwoInterrupts == {Scenario({Run(t1)}, {}, {InterruptCurrent, InterruptTurn(t1)})}
=============================================================================
