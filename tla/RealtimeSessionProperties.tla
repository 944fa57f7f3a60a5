--------------------- MODULE RealtimeSessionProperties ---------------------
(***************************************************************************)
(* What must hold of RealtimeSession.                                      *)
(***************************************************************************)
EXTENDS RealtimeSession

-----------------------------------------------------------------------------
(* Where a frame stands: what it does now, or goes on with after delivery.  *)

Delivering(f) == pc[f] \in {"deliver", "rejoin"}
Position(f) == IF Delivering(f) THEN ret[f] ELSE pc[f]

(* The sections that run inside _serialized_operation.                      *)
InOperation(f) ==
    Position(f) \in
       {"run_step", "run_clear", "run_idle", "run_exit",
        "int_flush", "int_flush_done", "int_request", "int_outcome", "int_accepted",
        "int_commit", "int_clear", "int_idle", "int_resolve", "int_resolve_clear", "int_exit",
        "flush_request", "flush_done", "flush_exit"}

(* The sections of _close_now.                                              *)
Closing(f) == Position(f) \in {"close_read", "close_mark", "close_emit", "close_hub"}

(* The sections of start_turn that hold the turn admission lock.            *)
Admitting(f) == Position(f) \in {"start_check", "start_phase", "start_emit", "start_return"}

Context == [turn : Turn \cup {NoTurn}, generation : 0 .. MaxGenerations]
Standing == TurnOutcome \cup {"none"}
InterruptWork ==
    [status : {"none", "live", "done"}, owner : Thread \cup {NoThread}, reserved : BOOLEAN,
     deferred : Standing, closeAfter : BOOLEAN, flushed : BOOLEAN]

(* The session's variables keep their types; _operation_depth counts at most *)
(* an operation and one that a callback of it makes.                         *)
TypeInvariant ==
    /\ active \in Context /\ context \in Context
    /\ records \in Seq([turn : Turn, outcome : TurnOutcome])
    /\ phase \in Phase \cup {"none"}
    /\ operation \in Frame \cup {NoFrame} /\ admission \in Frame \cup {NoFrame}
    /\ windowed \subseteq Frame /\ depth \in 0 .. 2
    /\ interrupts \in [Turn -> InterruptWork] /\ activeInterrupt \in Turn \cup {NoTurn}
    /\ normalReserved \subseteq Turn
    /\ dispatcher \in Frame \cup {NoFrame}
    /\ lastEvent \in [Turn -> {"none", "started", "live", "ended"}]
    /\ announced \subseteq Turn

-----------------------------------------------------------------------------
(* Serialization.                                                           *)

(* Although the operation lock is given up around every callback, at most    *)
(* one thread is inside an operation or a close, it holds the lock whenever  *)
(* it is not delivering, and _operation_depth counts the operations open.    *)
OneOperationAtATime ==
    /\ \A f, g \in Frame :
          (InOperation(f) \/ Closing(f)) /\ (InOperation(g) \/ Closing(g))
             => ThreadOf(f) = ThreadOf(g)
    /\ \A f \in Frame :
          (InOperation(f) \/ Closing(f)) /\ ~Delivering(f) => ThreadOf(operation) = ThreadOf(f)
    /\ depth = Cardinality({f \in Frame : InOperation(f)})

(* Whatever way a call ends, by its result, a refusal, an exception or a       *)
(* bridge that dropped its answer: its thread is then in neither lock, keeps no  *)
(* callback window open, drains no events and owns no interrupt in progress.    *)
ReturnedCallsHoldNothing ==
    \A th \in Thread : pc[<<th, 0>>] \in {"idle", "abandoned"} =>
        /\ ThreadOf(operation) # th /\ ThreadOf(admission) # th
        /\ \A w \in windowed : ThreadOf(w) # th
        /\ dispatcher = NoFrame \/ ThreadOf(dispatcher) # th
        /\ \A t \in Turn : interrupts[t].status = "live" => interrupts[t].owner # th

(* _callback_delivery_window: "callbacks and motion hooks never execute      *)
(* under the actual session lock", not even the callbacks of a call that was *)
(* made by a callback.                                                       *)
CallbacksOutsideOperation ==
    \A f \in Frame : dispatcher = f => ThreadOf(operation) # ThreadOf(f) \/ pc[ChildOf(f)] # "absent"

(* What each frame can only be freed from by another thread.                *)
BlockedOn(f) ==
    LET waitsForOwner == pc[f] \in {"claim_wait", "flush_wait", "close_wait"}
        wantsOperation == pc[f] \in {"run_enter", "int_enter", "int_recover", "flush_enter"}
        wantsLock == pc[f] \in {"close_lock", "subscribe"}
        wantsAdmission == pc[f] \in {"start", "claim", "coordinate", "run_clear", "int_clear",
                                     "int_resolve_clear"}
    IN  (IF waitsForOwner /\ interrupts[local[f].turn].status = "live"
           THEN {interrupts[local[f].turn].owner} ELSE {})
        \cup (IF wantsOperation THEN {ThreadOf(w) : w \in windowed} ELSE {})
        \cup (IF wantsOperation \/ wantsLock
                THEN {ThreadOf(g) : g \in {operation} \ {NoFrame}} ELSE {})
        \cup (IF wantsAdmission THEN {ThreadOf(g) : g \in {admission} \ {NoFrame}} ELSE {})

Blockers(th) == UNION {BlockedOn(f) : f \in {f \in Frame : ThreadOf(f) = th}} \ {th}

(* No two threads wait for each other: neither for the two session locks     *)
(* taken in opposite orders, nor for an interrupt whose owner needs the      *)
(* operation that the waiter's callback keeps open.                          *)
NoWaitCycle ==
    \A a, b \in Thread : ~(b \in Blockers(a) /\ a \in Blockers(b))

-----------------------------------------------------------------------------
(* Turns.                                                                   *)

Ledger == INSTANCE TurnLedger WITH
            Ending <- TurnOutcome \ {"rejected"}, Rejection <- "rejected",
            standing <- [t \in Turn |-> IF Terminal(t) THEN Outcome(t)
                                        ELSE IF context.turn = t THEN "live" ELSE "new"],
            announced <- announced

(* Through every interleaving of starts, stages, interrupts and closes, one  *)
(* turn is live at a time, outcomes are given once and kept, and a turn that *)
(* was announced by TURN_STARTED stays live until it gets its outcome.       *)
KeepsTurnLedger == Ledger!Spec

(* admit_non_terminal: once its end was published, no later event of a turn  *)
(* may present it as live.                                                   *)
NothingAfterTheEnd ==
    [][\A t \in Turn : lastEvent[t] = "ended" => lastEvent'[t] = "ended"]_lastEvent

(* A turn that is over has no active generation, and an interrupted turn's   *)
(* generation was retired by the interrupt and not by its outcome: whatever  *)
(* its stages still deliver is stale.                                        *)
EndedTurnsAreRetired ==
    \A t \in Turn : Terminal(t) =>
        /\ active.turn # t
        /\ Outcome(t) = "interrupted" =>
              \E g \in Gate!Generation : knownTurns[g] = t /\ retired[g] = "interrupt"

-----------------------------------------------------------------------------
(* Interrupt ordering.                                                      *)

(* While an interrupt reserves a turn's terminal, the only outcome the turn  *)
(* can get is "interrupted"; everything else waits for the reservation.      *)
ReservationIsKept ==
    [][\A t \in Turn :
          interrupts[t].reserved /\ interrupts'[t].reserved /\ Outcome(t)' # Outcome(t)
             => Outcome(t)' = "interrupted"]_<<records, interrupts>>

(* _run_admitted_turn_async asserts that a resolved reservation "must retain *)
(* a turn result": a completion that was deferred is never lost.             *)
DeferredCompletionIsKept ==
    \A parked \in awaiting : interrupts[parked.turn].status = "done" => Terminal(parked.turn)

(* _claim_interrupt_request: "choose a sole active-turn owner before any        *)
(* subsystem side effect".  close, flush_output and a second interrupt compare  *)
(* the owner's thread with their own to wait for it or to go on: from a claim   *)
(* to its completion exactly one frame executes the interrupt, on that thread,  *)
(* though it closes the session in between; before and after it none does.      *)
InInterrupt(f) ==
    Position(f) \in
       {"coordinate", "int_enter", "int_flush", "int_flush_done", "int_request", "int_outcome",
        "int_accepted", "int_commit", "int_clear", "int_idle", "int_resolve",
        "int_resolve_clear", "int_exit", "int_recover", "int_complete"}
Executes(f, t) ==
    /\ local[f].work = t
    /\ \/ InInterrupt(f)
       \/ /\ Closing(f) \/ Position(f) = "close_final"
          /\ local[f].after \in {"int_recover", "int_complete"}
ClaimedInterruptHasOneOwner ==
    \A t \in Turn :
        /\ \A f, g \in Frame : Executes(f, t) /\ Executes(g, t) => f = g
        /\ \A f \in Frame : Executes(f, t) =>
              interrupts[t].status = "live" /\ interrupts[t].owner = ThreadOf(f)
        /\ interrupts[t].status = "live" => \E f \in Frame : Executes(f, t)

(* "RealtimeSession.interrupt(...) ... completes with a typed interrupt        *)
(* result" (docs/advanced_runtime.md): it does not raise.                    *)
InterruptReturnsResult ==
    \A f \in Frame : pc[f] = Rest(f) /\ local[f].call.op = "interrupt" => ~local[f].error

-----------------------------------------------------------------------------
(* Close.                                                                   *)

(* A close that was deferred to the operation in progress, or to the end of  *)
(* an interrupt, has happened once every call has returned.                  *)
DeferredCloseIsHonoured ==
    Quiet /\ (closeRequested \/ closeAdmission \/ \E t \in Turn : interrupts[t].closeAfter)
       => closed /\ closeFinalized /\ ~closeRequested

(* A finished close leaves nothing behind: no context, no generation, no     *)
(* live turn, no lock, no delivery, no interrupt, no coroutine.              *)
CloseLeavesNothing ==
    closeFinalized /\ Quiet =>
        /\ context = NoContext /\ active = Gate!Inactive /\ phase = "none"
        /\ \A t \in announced : Terminal(t)
        /\ operation = NoFrame /\ admission = NoFrame /\ windowed = {} /\ dispatcher = NoFrame
        /\ activeInterrupt = NoTurn /\ normalReserved = {}

(* The canonical lifecycle: a started turn has exactly one terminal event    *)
(* before the session is closed (docs/advanced_runtime.md).                  *)
ClosedSessionEndedItsTurns ==
    closeFinalized /\ Quiet => \A t \in announced : Terminal(t)

-----------------------------------------------------------------------------
(* Progress, under FairSpec.                                                *)

(* Every call a host makes returns, unless it is a run whose answer the       *)
(* stopped bridge dropped.                                                   *)
EveryCallReturns ==
    \A h \in Host : pc[<<h, 0>>] # "idle" ~> pc[<<h, 0>>] \in {"idle", "abandoned"}

(* Once run_turn has announced a turn, the turn gets its outcome: from its   *)
(* stages, from an interrupt or from a close, whoever comes first.           *)
Executing(t) ==
    \E h \in Host : pc[<<h, 0>>] # "idle" /\ local[<<h, 0>>].call.op = "run"
                    /\ local[<<h, 0>>].call.turn = t
EveryTurnEnds ==
    \A t \in Turn : t \in announced /\ Executing(t) ~> Terminal(t)
=============================================================================
