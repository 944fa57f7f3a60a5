--------------------------- MODULE RealtimeSession ---------------------------
(***************************************************************************)
(* One RealtimeSession (framework/realtime_session.py): host threads call  *)
(* start_turn, run_turn, interrupt, flush_output, close and on_event, the  *)
(* session's runtime thread executes admitted turns, and every emitted     *)
(* event may run a subscriber callback that calls the session again.       *)
(*                                                                         *)
(* A thread has two frames: <<th, 0>> is its own work, <<th, 1>> a call    *)
(* made by a callback while <<th, 0>> is delivering.  One action is one    *)
(* section of code between two points where another thread can intervene:  *)
(* taking or releasing _operation_lock or _turn_admission_lock, opening or *)
(* leaving a callback delivery window, waiting for an event.  Sections     *)
(* under _interrupt_request_lock take no other lock and are single steps.  *)
(***************************************************************************)
EXTENDS Naturals, Sequences, FiniteSets, RealtimeLifecycle, RealtimeIdentity

CONSTANTS
    Host,             \* threads of the host application
    Runtime,          \* the thread of the execution bridge
    NoThread,         \* no thread
    Scenarios,        \* [host : Host -> the calls that thread makes, in any order,
                      \*  callback : the calls callbacks make, each at most once]
    MaxGenerations

ASSUME ThreadAssumption == Runtime \notin Host /\ NoThread \notin Host \cup {Runtime}
ASSUME BoundAssumption == MaxGenerations \in Nat

VARIABLES
    active, latest, retired, knownTurns, startCount, advanceCount,  \* _generation_gate
    records,            \* _terminal_registry
    context,            \* _active_turn_context and its two mirrors
    phase,              \* _phase, "none" once closed
    state,              \* _state
    closed,             \* _closed
    closeRequested,     \* _close_requested
    closeAdmission,     \* _close_admission_requested
    closeFinalized,     \* _close_finalized
    operation,          \* frame that holds _operation_lock
    depth,              \* _operation_depth
    windowed,           \* frames that released _operation_lock for a callback window
    admission,          \* frame that holds _turn_admission_lock
    interrupts,         \* _interrupt_requests: the work of each turn
    activeInterrupt,    \* _active_interrupt_request: its turn
    normalReserved,     \* _normal_terminal_reservations
    dispatcher,         \* frame that drains the event hub
    hubClosed,          \* the hub rejects events
    lastEvent,          \* history: the kind of the last event emitted for a turn
    announced,          \* history: the turns whose TURN_STARTED was emitted
    runQueue,           \* coroutines submitted to the runtime loop
    awaiting,           \* coroutines that await a terminal reservation
    bridgeClosed,       \* the execution bridge accepts no coroutine
    pc, ret, local,     \* each frame's program counter, return point and locals
    calls,              \* calls each host has still to make
    callbackCalls       \* calls callbacks have still to make

gateVars == <<active, latest, retired, knownTurns, startCount, advanceCount>>
turnVars == <<gateVars, records, context, phase, state>>
closeVars == <<closed, closeRequested, closeAdmission, closeFinalized>>
lockVars == <<operation, depth, windowed, admission>>
interruptVars == <<interrupts, activeInterrupt, normalReserved>>
hubVars == <<dispatcher, hubClosed, lastEvent, announced>>
runVars == <<runQueue, awaiting, bridgeClosed>>
frameVars == <<pc, ret, local>>
vars == <<turnVars, closeVars, lockVars, interruptVars, hubVars, runVars, frameVars, calls, callbackCalls>>

Gate == INSTANCE RealtimeGenerationGate WITH
            AdvanceReason <- {"new_turn", "turn_terminal", "interrupt", "reset",
                              "session_closed"},
            MaxCompletions <- 0, pending <- 0,
            acceptedCount <- 0, staleCount <- 0, lastAccepted <- 0

Registry == INSTANCE RealtimeTerminalRegistry WITH
            MaxAttempts <- 0,
            duplicateCount <- 0, regressionCount <- 0, lateCount <- 0

-----------------------------------------------------------------------------
(* Frames, locks and program counters.                                      *)

Thread == Host \cup {Runtime}
Frame == Thread \X {0, 1}
NoFrame == <<NoThread, 0>>
Runner == <<Runtime, 0>>
ThreadOf(f) == f[1]
ChildOf(f) == <<f[1], 1>>
IsCallback(f) == f[2] = 1
Rest(f) == IF IsCallback(f) THEN "absent" ELSE "idle"

(* Both locks are reentrant: a thread may take a lock one of its frames has. *)
FreeFor(lock, f) == lock = NoFrame \/ ThreadOf(lock) = ThreadOf(f)

Taken(lock, f) == IF lock = NoFrame THEN f ELSE lock
Released(lock, f) == IF lock = f THEN NoFrame ELSE lock

(* _serialized_operation waits while another thread owns the callback window. *)
WindowClosedTo(f) == \A w \in windowed : ThreadOf(w) = ThreadOf(f)

Goto(f, label) == pc' = [pc EXCEPT ![f] = label]
Finish(f) == Goto(f, Rest(f))

Outcome(t) == Registry!OutcomeOf(t)
Terminal(t) == Outcome(t) # "none"

NoContext == [turn |-> NoTurn, generation |-> 0]

(* _active_turn_identity: the explicit context, else what the gate holds.    *)
CurrentTurn == IF context.turn # NoTurn THEN context.turn ELSE active.turn

NoWork ==
    [status |-> "none", owner |-> NoThread, reserved |-> FALSE, deferred |-> "none",
     closeAfter |-> FALSE, flushed |-> FALSE]
Live(t) == t # NoTurn /\ interrupts[t].status = "live"
OwnedByOther(t, f) == Live(t) /\ interrupts[t].reserved /\ local[f].work # t

NoCall == [op |-> "none", turn |-> NoTurn, flush |-> FALSE, after |-> NoTurn]
NoLocal ==
    [call |-> NoCall,        \* the request
     turn |-> NoTurn,        \* the turn this frame acts on or waits for
     current |-> NoTurn,     \* current_turn_id as the interrupt read it
     generation |-> 0,       \* admitted_generation_id
     claimed |-> NoTurn,     \* the turn an interrupt resolved at its admission
     work |-> NoTurn,        \* the turn whose interrupt this frame owns
     outcome |-> "none",     \* the interrupt's prepared result
     step |-> 0,             \* stage events emitted so far
     caller |-> NoFrame,     \* the frame that waits for this turn's result
     closing |-> NoTurn,     \* active_turn_id as _close_now read it
     closes |-> FALSE,       \* active_turn_terminal_required
     after |-> "none",       \* where a deferred close returns to
     error |-> FALSE]        \* the call raised

-----------------------------------------------------------------------------
Init ==
    /\ active = Gate!Inactive /\ latest = 0 /\ startCount = 0 /\ advanceCount = 0
    /\ retired = [g \in Gate!Generation |-> Gate!NotRetired]
    /\ knownTurns = [g \in Gate!Generation |-> NoTurn]
    /\ records = <<>>
    /\ context = NoContext /\ phase = "idle" /\ state = "idle"
    /\ closed = FALSE /\ closeRequested = FALSE
    /\ closeAdmission = FALSE /\ closeFinalized = FALSE
    /\ operation = NoFrame /\ depth = 0 /\ windowed = {} /\ admission = NoFrame
    /\ interrupts = [t \in Turn |-> NoWork]
    /\ activeInterrupt = NoTurn /\ normalReserved = {}
    /\ dispatcher = NoFrame /\ hubClosed = FALSE
    /\ lastEvent = [t \in Turn |-> "none"] /\ announced = {}
    /\ runQueue = <<>> /\ awaiting = {} /\ bridgeClosed = FALSE
    /\ pc = [f \in Frame |-> Rest(f)]
    /\ ret = [f \in Frame |-> Rest(f)]
    /\ local = [f \in Frame |-> NoLocal]
    /\ \E scenario \in Scenarios :
          calls = scenario.host /\ callbackCalls = scenario.callback

-----------------------------------------------------------------------------
(* Event emission and callback delivery.                                    *)

(* _callback_delivery_window and EventHub.emit: the emitter gives up the     *)
(* operation lock it holds and drains the hub unless another thread does.    *)
(* kind is "started" for TURN_STARTED, "live" for another event that needs a *)
(* live turn, "ended" for one that reports the turn's end.                   *)
EmitUnderLockMutant(f, t, kind, next) ==
    /\ lastEvent' = IF t = NoTurn THEN lastEvent ELSE [lastEvent EXCEPT ![t] = kind]
    /\ announced' = IF kind = "started" THEN announced \cup {t} ELSE announced
    /\ dispatcher' = IF dispatcher = NoFrame THEN f ELSE dispatcher
    /\ UNCHANGED <<windowed, operation, hubClosed, depth, admission>>
    /\ ret' = [ret EXCEPT ![f] = next]
    /\ Goto(f, "deliver")

Emit(f, t, kind, next) ==
    /\ lastEvent' = IF t = NoTurn THEN lastEvent ELSE [lastEvent EXCEPT ![t] = kind]
    /\ announced' = IF kind = "started" THEN announced \cup {t} ELSE announced
    /\ dispatcher' = IF dispatcher = NoFrame THEN f ELSE dispatcher
    /\ windowed' = IF operation = f THEN windowed \cup {f} ELSE windowed
    /\ operation' = Released(operation, f)
    /\ ret' = [ret EXCEPT ![f] = next]
    /\ Goto(f, "deliver")
    /\ UNCHANGED <<hubClosed, depth, admission>>

Entry ==
    [run |-> "prepare", start |-> "start", interrupt |-> "claim", flush |-> "flush",
     close |-> "close", subscribe |-> "subscribe"]

(* A scenario's calls; starting and running need a turn.                     *)
SessionCall ==
    {call \in [op : DOMAIN Entry, turn : Turn \cup {NoTurn}, flush : BOOLEAN,
               after : Turn \cup {NoTurn}] :
        call.op \in {"run", "start"} => call.turn # NoTurn}

ASSUME ScenarioAssumption ==
    \A scenario \in Scenarios :
        /\ scenario.host \in [Host -> SUBSET SessionCall]
        /\ scenario.callback \subseteq SessionCall

Begin(f, call) ==
    /\ Goto(f, Entry[call.op])
    /\ local' = [local EXCEPT ![f] = [NoLocal EXCEPT !.call = call, !.turn = call.turn,
                                                     !.after = Rest(f)]]
    /\ UNCHANGED ret

(* A host thread makes its next call; a call may wait for a turn's           *)
(* TURN_STARTED.                                                             *)
BeginCall(f) ==
    /\ ThreadOf(f) \in Host /\ pc[f] = "idle"
    /\ \E call \in calls[ThreadOf(f)] :
          /\ call.after \in announced \cup {NoTurn}
          /\ Begin(f, call)
          /\ calls' = [calls EXCEPT ![ThreadOf(f)] = @ \ {call}]
    /\ UNCHANGED <<turnVars, closeVars, lockVars, interruptVars, hubVars, runVars,
                   callbackCalls>>

(* A subscriber, run by the draining frame, calls back into the session.     *)
BeginCallback(f) ==
    /\ pc[f] = "deliver" /\ dispatcher = f /\ ~IsCallback(f)
    /\ pc[ChildOf(f)] = "absent"
    /\ \E call \in callbackCalls :
          /\ Begin(ChildOf(f), call)
          /\ callbackCalls' = callbackCalls \ {call}
    /\ UNCHANGED <<turnVars, closeVars, lockVars, interruptVars, hubVars, runVars, calls>>

FinishDelivery(f) ==
    /\ pc[f] = "deliver"
    /\ ~IsCallback(f) => pc[ChildOf(f)] = "absent"
    /\ dispatcher' = IF dispatcher = f THEN NoFrame ELSE dispatcher
    /\ Goto(f, "rejoin")
    /\ UNCHANGED <<turnVars, closeVars, lockVars, interruptVars, hubClosed, lastEvent,
                   announced, runVars, ret, local, calls, callbackCalls>>

(* The window closes only once the operation lock is held again.             *)
Rejoin(f) ==
    /\ pc[f] = "rejoin"
    /\ f \in windowed => operation = NoFrame
    /\ operation' = IF f \in windowed THEN f ELSE operation
    /\ windowed' = windowed \ {f}
    /\ Goto(f, ret[f])
    /\ UNCHANGED <<turnVars, closeVars, depth, admission, interruptVars, hubVars, runVars,
                   ret, local, calls, callbackCalls>>

-----------------------------------------------------------------------------
(* Pieces the calls share.                                                   *)

SetLocal(f, record) == local' = [local EXCEPT ![f] = record]

EnterIgnoringWindowMutant(f) ==
    /\ FreeFor(operation, f)
    /\ operation' = Taken(operation, f)
    /\ depth' = depth + 1
    /\ UNCHANGED <<windowed, admission>>

EnterOperation(f) ==
    /\ FreeFor(operation, f)
    /\ WindowClosedTo(f)
    /\ operation' = Taken(operation, f)
    /\ depth' = depth + 1
    /\ UNCHANGED <<windowed, admission>>

(* Leaving the outermost operation runs a close that was requested meanwhile, *)
(* still under the operation lock.                                            *)
ExitOperation(f, next) ==
    LET closeNow == depth = 1 /\ closeRequested /\ ~closed
    IN  /\ depth' = depth - 1
        /\ Goto(f, IF closeNow THEN "close_read" ELSE next)
        /\ SetLocal(f, [local[f] EXCEPT !.after = next])
        /\ operation' = IF closeNow THEN operation ELSE Released(operation, f)
        /\ UNCHANGED <<windowed, admission>>

RefusalIgnoresTerminalMutant(t, newPhase) ==
    IF closed THEN "session_closed"
    ELSE IF newPhase # "unchanged" /\ ~ValidPhaseTransition(phase, newPhase)
      THEN "invalid_phase"
    ELSE "none"

(* Why _transition raises for an event of turn t and a new phase.            *)
Refusal(t, newPhase) ==
    IF closed THEN "session_closed"
    ELSE IF t # NoTurn /\ Terminal(t) THEN "late"
    ELSE IF newPhase # "unchanged" /\ ~ValidPhaseTransition(phase, newPhase)
      THEN "invalid_phase"
    ELSE "none"

(* The accepted part of _transition.                                         *)
Transition(f, t, newState, newPhase, kind, next) ==
    /\ phase' = IF newPhase = "unchanged" THEN phase ELSE newPhase
    /\ state' = newState
    /\ Emit(f, t, kind, next)

(* _advance_generation for one turn.                                         *)
AdvanceTurn(t, reason) ==
    IF t # NoTurn /\ active.turn = t THEN Gate!Advance(reason) ELSE UNCHANGED gateVars

(* _commit_terminal_result when another frame's interrupt holds the terminal  *)
(* reservation: the result is kept for the owner and the committer raises.    *)
DeferTerminal(t, outcome) ==
    interrupts' = [interrupts EXCEPT ![t].deferred = IF @ = "none" THEN outcome ELSE @]

(* _commit_terminal_result by the first committer: record, retire the         *)
(* generation, emit the terminal event.                                       *)
CommitTerminal(f, t, outcome, newState, next) ==
    /\ Registry!Retain(t, outcome)
    /\ AdvanceTurn(t, "turn_terminal")
    /\ Transition(f, t, newState, "unchanged", "ended", next)

-----------------------------------------------------------------------------
(* start_turn: everything happens under the turn admission lock.            *)

StartAdmission(f) ==
    /\ pc[f] = "start"
    /\ FreeFor(admission, f)
    /\ IF closed \/ closeRequested
         THEN /\ Finish(f)
              /\ UNCHANGED admission
         ELSE /\ Goto(f, "start_check")
              /\ admission' = Taken(admission, f)
    /\ UNCHANGED <<turnVars, closeVars, operation, depth, windowed, interruptVars, hubVars,
                   runVars, ret, local, calls, callbackCalls>>

InterruptInProgress(t) == Live(activeInterrupt) /\ activeInterrupt # t

(* A different turn is active or being interrupted: reject without touching   *)
(* the active turn.                                                           *)
StartReject(f) ==
    LET t == local[f].turn
    IN  /\ pc[f] = "start_check"
        /\ \/ InterruptInProgress(t)
           \/ ~Terminal(t) /\ CurrentTurn \notin {NoTurn, t}
        /\ IF Terminal(t)
             THEN /\ Goto(f, "start_return")
                  /\ UNCHANGED <<records, ret, lockVars, hubVars>>
             ELSE /\ Registry!Retain(t, "rejected")
                  /\ IF hubClosed
                       THEN /\ Goto(f, "start_return")
                            /\ UNCHANGED <<ret, lockVars, hubVars>>
                       ELSE Emit(f, t, "ended", "start_return")
        /\ UNCHANGED <<gateVars, context, phase, state, closeVars, interruptVars, runVars,
                       local, calls, callbackCalls>>

(* A terminal turn is never admitted again; the active turn is, idempotently. *)
StartRepeat(f) ==
    LET t == local[f].turn
    IN  /\ pc[f] = "start_check"
        /\ ~InterruptInProgress(t)
        /\ Terminal(t) \/ CurrentTurn = t
        /\ IF Terminal(t)
             THEN SetLocal(f, [local[f] EXCEPT !.error = (Outcome(t) # "rejected")])
             ELSE SetLocal(f, [local[f] EXCEPT !.generation =
                      IF context.turn = t THEN context.generation ELSE active.generation])
        /\ Goto(f, "start_return")
        /\ UNCHANGED <<turnVars, closeVars, lockVars, interruptVars, hubVars, runVars, ret,
                       calls, callbackCalls>>

StartOverActiveMutant(f) ==
    LET t == local[f].turn
    IN  /\ pc[f] = "start_check"
        /\ ~Terminal(t) /\ CurrentTurn # t
        /\ Gate!StartGeneration(t)
        /\ context' = active'
        /\ SetLocal(f, [local[f] EXCEPT !.generation = active'.generation])
        /\ Goto(f, "start_phase")
        /\ UNCHANGED <<records, phase, state, closeVars, lockVars, interruptVars, hubVars,
                       runVars, ret, calls, callbackCalls>>

StartAdmit(f) ==
    LET t == local[f].turn
    IN  /\ pc[f] = "start_check"
        /\ ~InterruptInProgress(t) /\ ~Terminal(t) /\ CurrentTurn = NoTurn
        /\ Gate!StartGeneration(t)
        /\ context' = active'
        /\ SetLocal(f, [local[f] EXCEPT !.generation = active'.generation])
        /\ Goto(f, "start_phase")
        /\ UNCHANGED <<records, phase, state, closeVars, lockVars, interruptVars, hubVars,
                       runVars, ret, calls, callbackCalls>>

(* The except clause: retire the fresh generation, clear the context, raise. *)
UndoStart(f) ==
    /\ AdvanceTurn(local[f].turn, "reset")
    /\ context' = NoContext
    /\ SetLocal(f, [local[f] EXCEPT !.error = TRUE, !.generation = 0])
    /\ Goto(f, "start_return")

(* The transition to LISTENING that publishes the admitted turn; another      *)
(* thread may close the session between its check and the emission.           *)
StartPhase(f) ==
    /\ pc[f] = "start_phase"
    /\ IF Refusal(local[f].turn, "listening") = "none"
         THEN /\ phase' = "listening" /\ state' = "listening"
              /\ Goto(f, "start_emit")
              /\ UNCHANGED <<gateVars, context, local>>
         ELSE /\ UndoStart(f)
              /\ UNCHANGED <<phase, state>>
    /\ UNCHANGED <<records, closeVars, lockVars, interruptVars, hubVars, runVars, ret,
                   calls, callbackCalls>>

StartEmit(f) ==
    /\ pc[f] = "start_emit"
    /\ IF hubClosed
         THEN UndoStart(f) /\ UNCHANGED <<ret, lockVars, hubVars>>
         ELSE /\ Emit(f, local[f].turn, "started", "start_return")
              /\ UNCHANGED <<gateVars, context, local>>
    /\ UNCHANGED <<records, phase, state, closeVars, interruptVars, runVars, calls,
                   callbackCalls>>

(* Release the admission lock; run_turn goes on to submit an accepted turn.   *)
StartReturn(f) ==
    /\ pc[f] = "start_return"
    /\ admission' = Released(admission, f)
    /\ IF local[f].call.op = "run" /\ local[f].generation # 0
         THEN Goto(f, "submit")
         ELSE Finish(f)
    /\ UNCHANGED <<turnVars, closeVars, operation, depth, windowed, interruptVars, hubVars,
                   runVars, ret, local, calls, callbackCalls>>

StartTurn(f) ==
    \/ StartAdmission(f) \/ StartReject(f) \/ StartRepeat(f) \/ StartAdmit(f)
    \/ StartPhase(f) \/ StartEmit(f) \/ StartReturn(f)

-----------------------------------------------------------------------------
(* run_turn: the caller's side.                                             *)

(* _prepare_turn_execution reads the session without a lock.                 *)
Prepare(f) ==
    /\ pc[f] = "prepare"
    /\ IF closed \/ closeRequested \/ Terminal(local[f].turn)
         THEN Finish(f)
         ELSE Goto(f, "start")
    /\ UNCHANGED <<turnVars, closeVars, lockVars, interruptVars, hubVars, runVars, ret, local,
                   calls, callbackCalls>>

Submit(f) ==
    /\ pc[f] = "submit"
    /\ IF bridgeClosed
         THEN /\ SetLocal(f, [local[f] EXCEPT !.error = TRUE])
              /\ Finish(f)
              /\ UNCHANGED runQueue
         ELSE /\ runQueue' = Append(runQueue, [turn |-> local[f].turn, caller |-> f,
                                               generation |-> local[f].generation])
              /\ Goto(f, "await_run")
              /\ UNCHANGED local
    /\ UNCHANGED <<turnVars, closeVars, lockVars, interruptVars, hubVars, awaiting,
                   bridgeClosed, ret, calls, callbackCalls>>

(* A caller leaves await_run when its coroutine ends.  A bridge that is being *)
(* stopped may drop the answer, and the caller waits for ever (see            *)
(* NobodyWaitsForAGoneWorker in RealtimeExecutionBridge).                     *)
Answer(caller, f, label) ==
    \E outcome \in {Rest(caller)} \cup IF bridgeClosed THEN {"abandoned"} ELSE {} :
        pc' = [pc EXCEPT ![caller] = outcome, ![f] = label]

(* Stopping the loop cancels the coroutines that have not run to their end.  *)
CancelSubmitted ==
    /\ bridgeClosed /\ pc[Runner] = "idle"
    /\ \/ /\ runQueue # <<>>
          /\ Answer(Head(runQueue).caller, Runner, "idle")
          /\ runQueue' = Tail(runQueue)
          /\ UNCHANGED awaiting
       \/ \E parked \in awaiting :
            /\ Answer(parked.caller, Runner, "idle")
            /\ awaiting' = awaiting \ {parked}
            /\ UNCHANGED runQueue
    /\ UNCHANGED <<turnVars, closeVars, lockVars, interruptVars, hubVars, bridgeClosed, ret,
                   local, calls, callbackCalls>>

-----------------------------------------------------------------------------
(* _run_admitted_turn_async and _run_turn_serialized: the runtime's side.   *)

(* The stage events of the deterministic turn with the phase each one enters. *)
Script ==
    << [phase |-> "listening",    state |-> "listening"],      \* LISTENING_STARTED
       [phase |-> "transcribing", state |-> "transcribing"],   \* LISTENING_COMPLETED
       [phase |-> "unchanged",    state |-> "transcribing"],   \* TRANSCRIPT_FINAL
       [phase |-> "thinking",     state |-> "thinking"],       \* RESPONSE_STARTED
       [phase |-> "unchanged",    state |-> "thinking"],       \* RESPONSE_COMPLETED
       [phase |-> "speaking",     state |-> "speaking"],       \* SYNTHESIS_STARTED
       [phase |-> "unchanged",    state |-> "completed"] >>    \* SYNTHESIS_COMPLETED

RunnerTurn == local[Runner].turn

(* The loop picks up a coroutine: the normal completion reserves the terminal *)
(* unless an interrupt already did.                                           *)
RunTake ==
    /\ pc[Runner] = "idle" /\ runQueue # <<>>
    /\ LET entry == Head(runQueue)
       IN  /\ SetLocal(Runner, [NoLocal EXCEPT !.turn = entry.turn,
                                               !.generation = entry.generation,
                                               !.caller = entry.caller])
           /\ normalReserved' = IF Live(entry.turn) THEN normalReserved
                                ELSE normalReserved \cup {entry.turn}
    /\ runQueue' = Tail(runQueue)
    /\ Goto(Runner, "run_enter")
    /\ UNCHANGED <<turnVars, closeVars, lockVars, interrupts, activeInterrupt, hubVars,
                   awaiting, bridgeClosed, ret, calls, callbackCalls>>

RunEnter ==
    /\ pc[Runner] = "run_enter"
    /\ EnterOperation(Runner)
    /\ IF Terminal(RunnerTurn)
         THEN Goto(Runner, "run_exit") /\ UNCHANGED local
         ELSE IF CurrentTurn = RunnerTurn /\ context.generation = local[Runner].generation
           THEN Goto(Runner, "run_step") /\ UNCHANGED local
           ELSE /\ Goto(Runner, "run_exit")
                /\ SetLocal(Runner, [local[Runner] EXCEPT !.error = TRUE])
    /\ UNCHANGED <<turnVars, closeVars, interruptVars, hubVars, runVars, ret, calls,
                   callbackCalls>>

RunStage ==
    /\ pc[Runner] = "run_step" /\ local[Runner].step < Len(Script)
    /\ LET stage == Script[local[Runner].step + 1]
           refusal == Refusal(RunnerTurn, stage.phase)
       IN  \/ /\ refusal = "none"
              /\ Transition(Runner, RunnerTurn, stage.state, stage.phase, "live", "run_step")
              /\ SetLocal(Runner, [local[Runner] EXCEPT !.step = @ + 1])
           \/ /\ refusal # "none"
              /\ Goto(Runner, IF refusal = "late" THEN "run_clear" ELSE "run_exit")
              /\ SetLocal(Runner, [local[Runner] EXCEPT !.error = (refusal # "late")])
              /\ UNCHANGED <<phase, state, lockVars, hubVars, ret>>
    /\ UNCHANGED <<gateVars, records, context, closeVars, interruptVars, runVars, calls,
                   callbackCalls>>

RunCommitOverReservationMutant ==
    /\ pc[Runner] = "run_step" /\ local[Runner].step = Len(Script)
    /\ IF Terminal(RunnerTurn)
         THEN /\ Goto(Runner, "run_clear")
              /\ UNCHANGED <<turnVars, lockVars, hubVars, ret>>
         ELSE /\ CommitTerminal(Runner, RunnerTurn, "completed", "completed", "run_clear")
              /\ UNCHANGED context
    /\ UNCHANGED <<closeVars, interruptVars, runVars, local, calls, callbackCalls>>

RunCommit ==
    /\ pc[Runner] = "run_step" /\ local[Runner].step = Len(Script)
    /\ \/ /\ OwnedByOther(RunnerTurn, Runner)
          /\ DeferTerminal(RunnerTurn, "completed")
          /\ SetLocal(Runner, [local[Runner] EXCEPT !.outcome = "reserved"])
          /\ Goto(Runner, "run_exit")
          /\ UNCHANGED <<turnVars, lockVars, hubVars, activeInterrupt, normalReserved, ret>>
       \/ /\ ~OwnedByOther(RunnerTurn, Runner)
          /\ IF Terminal(RunnerTurn)
               THEN /\ Goto(Runner, "run_clear")
                    /\ UNCHANGED <<turnVars, lockVars, hubVars, ret>>
               ELSE /\ CommitTerminal(Runner, RunnerTurn, "completed", "completed", "run_clear")
                    /\ UNCHANGED context
          /\ UNCHANGED <<interruptVars, local>>
    /\ UNCHANGED <<closeVars, runVars, calls, callbackCalls>>

(* Only this turn's own context is cleared, under the admission lock.         *)
RunClear ==
    /\ pc[Runner] = "run_clear"
    /\ FreeFor(admission, Runner)
    /\ context' = IF context = [turn |-> RunnerTurn, generation |-> local[Runner].generation]
                    THEN NoContext ELSE context
    /\ Goto(Runner, "run_idle")
    /\ UNCHANGED <<gateVars, records, phase, state, closeVars, lockVars, interruptVars,
                   hubVars, runVars, ret, local, calls, callbackCalls>>

(* ... the phase and the state are reset after the lock is released.          *)
RunIdle ==
    /\ pc[Runner] = "run_idle"
    /\ IF closed \/ closeRequested
         THEN UNCHANGED <<phase, state>>
         ELSE phase' = "idle" /\ state' = "idle"
    /\ Goto(Runner, "run_exit")
    /\ UNCHANGED <<gateVars, records, context, closeVars, lockVars, interruptVars, hubVars,
                   runVars, ret, local, calls, callbackCalls>>

RunExit ==
    /\ pc[Runner] = "run_exit"
    /\ ExitOperation(Runner, IF local[Runner].outcome = "reserved" THEN "run_park"
                             ELSE "run_finish")
    /\ UNCHANGED <<turnVars, closeVars, interruptVars, hubVars, runVars, ret, calls,
                   callbackCalls>>

RunFinish ==
    /\ pc[Runner] = "run_finish"
    /\ normalReserved' = normalReserved \ {RunnerTurn}
    /\ Answer(local[Runner].caller, Runner, "idle")
    /\ UNCHANGED <<turnVars, closeVars, lockVars, interrupts, activeInterrupt, hubVars,
                   runVars, ret, local, calls, callbackCalls>>

(* The terminal is reserved: await the interrupt without blocking the loop.   *)
RunPark ==
    /\ pc[Runner] = "run_park"
    /\ awaiting' = awaiting \cup {[turn |-> RunnerTurn, caller |-> local[Runner].caller]}
    /\ Goto(Runner, "idle")
    /\ UNCHANGED <<turnVars, closeVars, lockVars, interruptVars, hubVars, runQueue,
                   bridgeClosed, ret, local, calls, callbackCalls>>

RunResume ==
    /\ pc[Runner] = "idle"
    /\ \E parked \in awaiting :
          /\ interrupts[parked.turn].status = "done"
          /\ awaiting' = awaiting \ {parked}
          /\ Answer(parked.caller, Runner, "idle")
    /\ UNCHANGED <<turnVars, closeVars, lockVars, interruptVars, hubVars, runQueue,
                   bridgeClosed, ret, local, calls, callbackCalls>>

RunTurn(f) == Prepare(f) \/ Submit(f)

RuntimeLoop ==
    \/ RunTake \/ RunEnter \/ RunStage \/ RunCommit \/ RunClear \/ RunIdle \/ RunExit
    \/ RunFinish \/ RunPark \/ RunResume \/ CancelSubmitted

-----------------------------------------------------------------------------
(* interrupt: one owner per turn, everybody else replays its result.         *)

RequestedTurn(f) == local[f].call.turn

(* current_turn_id as the serialized interrupt reads it.                     *)
GateTurn == IF active.turn # NoTurn THEN active.turn ELSE context.turn

OwnedWork(f) ==
    [NoWork EXCEPT !.status = "live", !.owner = ThreadOf(f), !.reserved = TRUE]

(* _claim_interrupt_request, under both the admission and the request lock.  *)
ClaimRepeatsMutant(f) ==
    LET resolved == IF RequestedTurn(f) # NoTurn THEN RequestedTurn(f) ELSE CurrentTurn
    IN  /\ pc[f] = "claim"
        /\ FreeFor(admission, f)
        /\ IF closed \/ closeAdmission \/ resolved = NoTurn
             THEN Finish(f) /\ UNCHANGED <<local, interrupts, activeInterrupt>>
             ELSE /\ interrupts' = [interrupts EXCEPT ![resolved] = OwnedWork(f)]
                  /\ activeInterrupt' = resolved
                  /\ SetLocal(f, [local[f] EXCEPT !.claimed = resolved, !.work = resolved])
                  /\ Goto(f, "coordinate")
        /\ UNCHANGED <<turnVars, closeVars, lockVars, normalReserved, hubVars, runVars, ret,
                       calls, callbackCalls>>

ClaimKeepsAdmissionMutant(f) ==
    LET resolved == IF RequestedTurn(f) # NoTurn THEN RequestedTurn(f) ELSE CurrentTurn
    IN  /\ pc[f] = "claim"
        /\ FreeFor(admission, f)
        /\ IF resolved # NoTurn /\ interrupts[resolved].status = "none" /\ ~closed
             THEN /\ admission' = Taken(admission, f)
                  /\ interrupts' = [interrupts EXCEPT ![resolved] = OwnedWork(f)]
                  /\ activeInterrupt' = resolved
                  /\ SetLocal(f, [local[f] EXCEPT !.claimed = resolved, !.work = resolved])
                  /\ Goto(f, "coordinate")
             ELSE Finish(f) /\ UNCHANGED <<admission, interrupts, activeInterrupt, local>>
        /\ UNCHANGED <<turnVars, closeVars, operation, depth, windowed, normalReserved,
                       hubVars, runVars, ret, calls, callbackCalls>>

Claim(f) ==
    LET resolved == IF RequestedTurn(f) # NoTurn THEN RequestedTurn(f) ELSE CurrentTurn
        duplicate == resolved # NoTurn /\ interrupts[resolved].status # "none"
        closeWon == ~duplicate /\ closeAdmission /\ ~closed
        owner == /\ ~duplicate /\ ~closeAdmission /\ ~closed /\ ~closeRequested
                 /\ resolved # NoTurn /\ resolved = CurrentTurn
                 /\ resolved \notin normalReserved /\ ~Terminal(resolved)
        legacy == ~duplicate /\ ~closeWon /\ ~owner
    IN  /\ pc[f] = "claim"
        /\ FreeFor(admission, f)
        /\ \/ /\ duplicate
              /\ IF interrupts[resolved].status = "done"
                    \/ interrupts[resolved].owner = ThreadOf(f)
                   THEN Finish(f) ELSE Goto(f, "claim_wait")
              /\ SetLocal(f, [local[f] EXCEPT !.turn = resolved])
              /\ UNCHANGED <<interrupts, activeInterrupt>>
           \/ /\ closeWon
              /\ Finish(f)
              /\ UNCHANGED <<local, interrupts, activeInterrupt>>
           \/ /\ owner
              /\ interrupts' = [interrupts EXCEPT ![resolved] = OwnedWork(f)]
              /\ activeInterrupt' = resolved
              /\ SetLocal(f, [local[f] EXCEPT !.claimed = resolved, !.work = resolved])
              /\ Goto(f, "coordinate")
           \/ /\ legacy
              /\ SetLocal(f, [local[f] EXCEPT !.claimed = resolved])
              /\ Goto(f, "coordinate")
              /\ UNCHANGED <<interrupts, activeInterrupt>>
        /\ UNCHANGED <<turnVars, closeVars, lockVars, normalReserved, hubVars, runVars, ret,
                       calls, callbackCalls>>

(* A duplicate waits, without a timeout, for the owner's result.             *)
ClaimWait(f) ==
    /\ pc[f] = "claim_wait"
    /\ interrupts[local[f].turn].status = "done"
    /\ Finish(f)
    /\ UNCHANGED <<turnVars, closeVars, lockVars, interruptVars, hubVars, runVars, ret, local,
                   calls, callbackCalls>>

(* _request_interrupt_coordination and _resolve_interrupt_stage_attempts: a   *)
(* subsystem of the current live turn may be reached, fail or be unsupported; *)
(* nothing is reached for another turn.                                       *)
Coordinate(f) ==
    LET target == IF RequestedTurn(f) # NoTurn THEN RequestedTurn(f) ELSE CurrentTurn
        results ==
          IF closed \/ closeRequested THEN {"already_closed"}
          ELSE IF target # NoTurn /\ Terminal(target) THEN {"no_active_turn"}
          ELSE IF target # NoTurn /\ target = CurrentTurn
            THEN {"accepted", "failed", "unsupported"}
          ELSE {"unsupported"}
    IN  /\ pc[f] = "coordinate"
        /\ FreeFor(admission, f)
        /\ \E result \in results : SetLocal(f, [local[f] EXCEPT !.outcome = result])
        /\ Goto(f, "int_enter")
        /\ UNCHANGED <<turnVars, closeVars, lockVars, interruptVars, hubVars, runVars, ret,
                       calls, callbackCalls>>

NothingToInterrupt(f) == GateTurn = NoTurn /\ RequestedTurn(f) = NoTurn

(* The operation lock and _prepare_interrupt_result.                         *)
IntEnter(f) ==
    LET prepared ==
          IF closed \/ closeRequested THEN "already_closed"
          ELSE IF local[f].outcome \in {"accepted", "failed"} THEN local[f].outcome
          ELSE IF NothingToInterrupt(f) THEN "no_active_turn"
          ELSE local[f].outcome
    IN  /\ pc[f] = "int_enter"
        /\ EnterOperation(f)
        /\ SetLocal(f, [local[f] EXCEPT !.outcome = prepared])
        /\ Goto(f, IF local[f].work # NoTurn /\ local[f].call.flush THEN "int_flush"
                   ELSE "int_request")
        /\ UNCHANGED <<turnVars, closeVars, interruptVars, hubVars, runVars, ret, calls,
                       callbackCalls>>

(* Emit an event of turn t without changing the phase, or skip to the label   *)
(* the late or closed case continues at.                                      *)
EmitOrSkip(f, t, next, skip) ==
    IF Refusal(t, "unchanged") = "none"
      THEN Emit(f, t, "live", next)
      ELSE Goto(f, skip) /\ UNCHANGED <<lockVars, hubVars, ret>>

(* The owner's flush comes before the terminal; its result is published to    *)
(* reentrant callers first.                                                   *)
IntFlush(f) ==
    /\ pc[f] = "int_flush"
    /\ interrupts' = [interrupts EXCEPT ![local[f].work].flushed = TRUE]
    /\ IF closed \/ closeRequested
         THEN Goto(f, "int_request") /\ UNCHANGED <<lockVars, hubVars, ret>>
         ELSE EmitOrSkip(f, local[f].work, "int_flush_done", "int_request")
    /\ UNCHANGED <<turnVars, closeVars, activeInterrupt, normalReserved, runVars, local, calls,
                   callbackCalls>>

IntFlushDone(f) ==
    /\ pc[f] = "int_flush_done"
    /\ EmitOrSkip(f, local[f].work, "int_request", "int_request")
    /\ UNCHANGED <<turnVars, closeVars, interruptVars, runVars, local, calls, callbackCalls>>

(* _interrupt_serialized up to INTERRUPT_REQUESTED: the turn is resolved once *)
(* more and its generation retired whatever the outcome will be.              *)
IntRequestKeepsGenerationMutant(f) ==
    LET target == IF RequestedTurn(f) # NoTurn THEN RequestedTurn(f) ELSE GateTurn
    IN  /\ pc[f] = "int_request"
        /\ IF closed \/ closeRequested
             THEN /\ Goto(f, "int_resolve")
                  /\ UNCHANGED <<lockVars, hubVars, ret, local>>
             ELSE /\ SetLocal(f, [local[f] EXCEPT !.turn = target, !.current = GateTurn])
                  /\ EmitOrSkip(f, target, "int_outcome", "int_resolve")
        /\ UNCHANGED <<turnVars, closeVars, interruptVars, runVars, calls, callbackCalls>>

IntRequest(f) ==
    LET target == IF RequestedTurn(f) # NoTurn THEN RequestedTurn(f) ELSE GateTurn
    IN  /\ pc[f] = "int_request"
        /\ IF closed \/ closeRequested
             THEN /\ Goto(f, "int_resolve")
                  /\ UNCHANGED <<gateVars, lockVars, hubVars, ret, local>>
             ELSE /\ SetLocal(f, [local[f] EXCEPT !.turn = target, !.current = GateTurn])
                  /\ AdvanceTurn(target, "interrupt")
                  /\ EmitOrSkip(f, target, "int_outcome", "int_resolve")
        /\ UNCHANGED <<records, context, phase, state, closeVars, interruptVars, runVars, calls,
                       callbackCalls>>

(* An interrupt that raises leaves its operation; its owner resolves it as     *)
(* failed, anybody else hands the exception to the caller.                     *)
IntRaise(f) ==
    /\ SetLocal(f, [local[f] EXCEPT !.outcome = "error", !.error = TRUE])
    /\ Goto(f, "int_exit")
    /\ UNCHANGED <<phase, state, lockVars, hubVars, ret>>

(* INTERRUPT_ACCEPTED, INTERRUPT_COMPLETED of a failed attempt, or             *)
(* INTERRUPT_UNSUPPORTED.                                                      *)
IntOutcome(f) ==
    LET target == local[f].turn
        nothing == local[f].current = NoTurn /\ RequestedTurn(f) = NoTurn
        nextPhase == IF context.turn # NoTurn THEN "recovering" ELSE "unchanged"
        refusal == Refusal(target, nextPhase)
    IN  /\ pc[f] = "int_outcome"
        /\ \/ /\ nothing
              /\ Transition(f, NoTurn, state, "unchanged", "live", "int_resolve")
              /\ UNCHANGED local
           \/ /\ ~nothing /\ refusal = "none"
              /\ Transition(f, target, "interrupted", nextPhase, "live",
                            IF local[f].outcome = "accepted" THEN "int_accepted"
                            ELSE "int_idle")
              /\ UNCHANGED local
           \/ /\ ~nothing /\ refusal = "late"
              /\ Goto(f, "int_resolve")
              /\ UNCHANGED <<phase, state, lockVars, hubVars, ret, local>>
           \/ /\ ~nothing /\ refusal \notin {"none", "late"}
              /\ IntRaise(f)
        /\ UNCHANGED <<gateVars, records, context, closeVars, interruptVars, runVars, calls,
                       callbackCalls>>

IntAccepted(f) ==
    /\ pc[f] = "int_accepted"
    /\ EmitOrSkip(f, local[f].turn, "int_commit", "int_resolve")
    /\ UNCHANGED <<turnVars, closeVars, interruptVars, runVars, local, calls, callbackCalls>>

(* The interrupted turn becomes terminal if it still is the current one.      *)
IntCommit(f) ==
    LET t == local[f].turn
    IN  /\ pc[f] = "int_commit"
        /\ \/ /\ t = NoTurn \/ t # local[f].current \/ Terminal(t)
              /\ Goto(f, "int_idle")
              /\ UNCHANGED <<turnVars, lockVars, hubVars, ret, local, interruptVars>>
           \/ /\ t # NoTurn /\ t = local[f].current /\ ~Terminal(t)
              /\ IF OwnedByOther(t, f)
                   THEN /\ DeferTerminal(t, "interrupted")
                        /\ IntRaise(f)
                        /\ UNCHANGED <<gateVars, records, activeInterrupt, normalReserved>>
                   ELSE /\ CommitTerminal(f, t, "interrupted", "interrupted", "int_clear")
                        /\ UNCHANGED <<interruptVars, local>>
              /\ UNCHANGED context
        /\ UNCHANGED <<closeVars, runVars, calls, callbackCalls>>

IntClear(f) ==
    /\ pc[f] = "int_clear"
    /\ FreeFor(admission, f)
    /\ context' = NoContext
    /\ Goto(f, "int_idle")
    /\ UNCHANGED <<gateVars, records, phase, state, closeVars, lockVars, interruptVars, hubVars,
                   runVars, ret, local, calls, callbackCalls>>

IntIdle(f) ==
    /\ pc[f] = "int_idle"
    /\ phase' = "idle" /\ state' = "idle"
    /\ Goto(f, "int_resolve")
    /\ UNCHANGED <<gateVars, records, context, closeVars, lockVars, interruptVars, hubVars,
                   runVars, ret, local, calls, callbackCalls>>

(* _resolve_interrupt_terminal_reservation: a losing owner publishes the      *)
(* terminal that was deferred in its favour.                                  *)
ResolveDropsDeferredMutant(f) ==
    /\ pc[f] = "int_resolve"
    /\ Goto(f, "int_exit")
    /\ IF local[f].work = NoTurn
         THEN UNCHANGED interrupts
         ELSE interrupts' = [interrupts EXCEPT ![local[f].work].reserved = FALSE,
                                               ![local[f].work].deferred = "none"]
    /\ UNCHANGED <<turnVars, closeVars, lockVars, activeInterrupt, normalReserved, hubVars,
                   runVars, ret, local, calls, callbackCalls>>

IntResolve(f) ==
    LET t == local[f].work
        deferred == IF t = NoTurn THEN "none" ELSE interrupts[t].deferred
    IN  /\ pc[f] = "int_resolve"
        /\ interrupts' = IF t = NoTurn THEN interrupts
                         ELSE [interrupts EXCEPT ![t].reserved = FALSE, ![t].deferred = "none"]
        /\ IF local[f].outcome = "accepted" \/ deferred = "none"
             THEN /\ Goto(f, "int_exit")
                  /\ UNCHANGED <<turnVars, lockVars, hubVars, ret>>
             ELSE /\ IF Terminal(t)
                       THEN /\ Goto(f, "int_resolve_clear")
                            /\ UNCHANGED <<gateVars, records, phase, state, lockVars, hubVars, ret>>
                       ELSE CommitTerminal(f, t, deferred, deferred, "int_resolve_clear")
                  /\ UNCHANGED context
        /\ UNCHANGED <<closeVars, activeInterrupt, normalReserved, runVars, local, calls,
                       callbackCalls>>

IntResolveClear(f) ==
    /\ pc[f] = "int_resolve_clear"
    /\ FreeFor(admission, f)
    /\ context' = IF context.turn = local[f].work THEN NoContext ELSE context
    /\ Goto(f, "int_exit")
    /\ UNCHANGED <<gateVars, records, phase, state, closeVars, lockVars, interruptVars, hubVars,
                   runVars, ret, local, calls, callbackCalls>>

IntExit(f) ==
    LET failed == local[f].outcome = "error"
    IN  /\ pc[f] = "int_exit"
        /\ ExitOperation(f, IF local[f].work = NoTurn THEN Rest(f)
                            ELSE IF failed THEN "int_recover" ELSE "int_complete")
        /\ UNCHANGED <<turnVars, closeVars, interruptVars, hubVars, runVars, ret, calls,
                       callbackCalls>>

IntRecover(f) ==
    /\ pc[f] = "int_recover"
    /\ EnterOperation(f)
    /\ SetLocal(f, [local[f] EXCEPT !.outcome = "failed", !.error = FALSE])
    /\ Goto(f, "int_resolve")
    /\ UNCHANGED <<turnVars, closeVars, interruptVars, hubVars, runVars, ret, calls,
                   callbackCalls>>

(* _complete_interrupt_request: wake every waiter, then honour a close that a *)
(* callback of this interrupt asked for.                                      *)
CompleteWithoutWakingMutant(f) ==
    /\ pc[f] = "int_complete"
    /\ interrupts' = [interrupts EXCEPT ![local[f].work].reserved = FALSE]
    /\ activeInterrupt' = NoTurn
    /\ Finish(f)
    /\ UNCHANGED <<turnVars, closeVars, lockVars, normalReserved, hubVars, runVars, ret,
                   local, calls, callbackCalls>>

CompleteForgetsCloseMutant(f) ==
    LET t == local[f].work
    IN  /\ pc[f] = "int_complete"
        /\ interrupts' = [interrupts EXCEPT ![t].status = "done", ![t].reserved = FALSE]
        /\ activeInterrupt' = IF activeInterrupt = t THEN NoTurn ELSE activeInterrupt
        /\ Finish(f)
        /\ UNCHANGED <<turnVars, closeVars, lockVars, normalReserved, hubVars, runVars, ret,
                       local, calls, callbackCalls>>

IntComplete(f) ==
    LET t == local[f].work
    IN  /\ pc[f] = "int_complete"
        /\ interrupts' = [interrupts EXCEPT ![t].status = "done", ![t].reserved = FALSE]
        /\ activeInterrupt' = IF activeInterrupt = t THEN NoTurn ELSE activeInterrupt
        /\ Goto(f, IF interrupts[t].closeAfter THEN "close" ELSE Rest(f))
        /\ SetLocal(f, [local[f] EXCEPT !.after = Rest(f)])
        /\ UNCHANGED <<turnVars, closeVars, lockVars, normalReserved, hubVars, runVars, ret,
                       calls, callbackCalls>>

Interrupt(f) ==
    \/ Claim(f) \/ ClaimWait(f) \/ Coordinate(f) \/ IntEnter(f) \/ IntFlush(f)
    \/ IntFlushDone(f) \/ IntRequest(f) \/ IntOutcome(f) \/ IntAccepted(f) \/ IntCommit(f)
    \/ IntClear(f) \/ IntIdle(f) \/ IntResolve(f) \/ IntResolveClear(f) \/ IntExit(f)
    \/ IntRecover(f) \/ IntComplete(f)

-----------------------------------------------------------------------------
(* flush_output and on_event.                                               *)

(* A flush waits for an interrupt in progress unless it is made by that       *)
(* interrupt's own thread for the same turn.                                  *)
FlushAdmission(f) ==
    LET u == activeInterrupt
        sameTurn == u # NoTurn /\ RequestedTurn(f) \in {NoTurn, u}
        reentrantOwner == Live(u) /\ sameTurn /\ interrupts[u].owner = ThreadOf(f)
    IN  /\ pc[f] = "flush"
        /\ Goto(f, IF reentrantOwner /\ interrupts[u].flushed THEN Rest(f)
                   ELSE IF Live(u) /\ ~reentrantOwner THEN "flush_wait"
                   ELSE "flush_enter")
        /\ SetLocal(f, [local[f] EXCEPT !.turn = u, !.claimed =
                            IF reentrantOwner THEN u ELSE NoTurn])
        /\ UNCHANGED <<turnVars, closeVars, lockVars, interruptVars, hubVars, runVars, ret,
                       calls, callbackCalls>>

FlushWait(f) ==
    LET u == local[f].turn
    IN  /\ pc[f] = "flush_wait"
        /\ interrupts[u].status = "done"
        /\ Goto(f, IF interrupts[u].flushed /\ RequestedTurn(f) \in {NoTurn, u}
                     THEN Rest(f) ELSE "flush_enter")
        /\ UNCHANGED <<turnVars, closeVars, lockVars, interruptVars, hubVars, runVars, ret,
                       local, calls, callbackCalls>>

FlushEnter(f) ==
    /\ pc[f] = "flush_enter"
    /\ EnterOperation(f)
    /\ Goto(f, "flush_request")
    /\ UNCHANGED <<turnVars, closeVars, interruptVars, hubVars, runVars, ret, local, calls,
                   callbackCalls>>

FlushTarget(f) == IF RequestedTurn(f) # NoTurn THEN RequestedTurn(f) ELSE context.turn

FlushRequest(f) ==
    LET u == local[f].claimed
    IN  /\ pc[f] = "flush_request"
        /\ IF closed \/ closeRequested
             THEN /\ Goto(f, "flush_exit")
                  /\ UNCHANGED <<lockVars, hubVars, ret, interrupts, local>>
             ELSE /\ interrupts' = IF u = NoTurn THEN interrupts
                                   ELSE [interrupts EXCEPT ![u].flushed = TRUE]
                  /\ SetLocal(f, [local[f] EXCEPT !.turn = FlushTarget(f)])
                  /\ EmitOrSkip(f, FlushTarget(f), "flush_done", "flush_exit")
        /\ UNCHANGED <<turnVars, closeVars, activeInterrupt, normalReserved, runVars, calls,
                       callbackCalls>>

FlushDone(f) ==
    /\ pc[f] = "flush_done"
    /\ EmitOrSkip(f, local[f].turn, "flush_exit", "flush_exit")
    /\ UNCHANGED <<turnVars, closeVars, interruptVars, runVars, local, calls, callbackCalls>>

FlushExit(f) ==
    /\ pc[f] = "flush_exit"
    /\ ExitOperation(f, Rest(f))
    /\ UNCHANGED <<turnVars, closeVars, interruptVars, hubVars, runVars, ret, calls,
                   callbackCalls>>

Flush(f) ==
    \/ FlushAdmission(f) \/ FlushWait(f) \/ FlushEnter(f) \/ FlushRequest(f) \/ FlushDone(f)
    \/ FlushExit(f)

(* on_event needs the operation lock but does not wait for a callback window. *)
Subscribe(f) ==
    /\ pc[f] = "subscribe"
    /\ FreeFor(operation, f)
    /\ Finish(f)
    /\ UNCHANGED <<turnVars, closeVars, lockVars, interruptVars, hubVars, runVars, ret, local,
                   calls, callbackCalls>>

-----------------------------------------------------------------------------
(* close: admission, then either the close itself or a request to the        *)
(* operation in progress to perform it when it ends.                         *)

CloseAdmission(f) ==
    LET u == activeInterrupt
        settled == closed \/ closeRequested \/ (closeAdmission /\ u = NoTurn)
    IN  /\ pc[f] = "close"
        /\ \/ /\ settled
              /\ Finish(f)
              /\ UNCHANGED <<interrupts, closeAdmission, local>>
           \/ /\ ~settled /\ Live(u) /\ interrupts[u].owner = ThreadOf(f)
              /\ interrupts' = [interrupts EXCEPT ![u].closeAfter = TRUE]
              /\ Finish(f)
              /\ UNCHANGED <<closeAdmission, local>>
           \/ /\ ~settled /\ Live(u) /\ interrupts[u].owner # ThreadOf(f)
              /\ SetLocal(f, [local[f] EXCEPT !.turn = u])
              /\ Goto(f, "close_wait")
              /\ UNCHANGED <<interrupts, closeAdmission>>
           \/ /\ ~settled /\ ~Live(u)
              /\ closeAdmission' = TRUE
              /\ Goto(f, "close_lock")
              /\ UNCHANGED <<interrupts, local>>
        /\ UNCHANGED <<turnVars, closed, closeRequested, closeFinalized, lockVars,
                       activeInterrupt, normalReserved, hubVars, runVars, ret, calls,
                       callbackCalls>>

CloseWait(f) ==
    /\ pc[f] = "close_wait"
    /\ interrupts[local[f].turn].status = "done"
    /\ Goto(f, "close")
    /\ UNCHANGED <<turnVars, closeVars, lockVars, interruptVars, hubVars, runVars, ret, local,
                   calls, callbackCalls>>

CloseLock(f) ==
    /\ pc[f] = "close_lock"
    /\ FreeFor(operation, f)
    /\ \/ /\ closed \/ closeRequested
          /\ Finish(f)
          /\ UNCHANGED <<operation, closeRequested>>
       \/ /\ ~closed /\ ~closeRequested /\ depth > 0
          /\ closeRequested' = TRUE
          /\ Finish(f)
          /\ UNCHANGED operation
       \/ /\ ~closed /\ ~closeRequested /\ depth = 0
          /\ operation' = Taken(operation, f)
          /\ Goto(f, "close_read")
          /\ UNCHANGED closeRequested
    /\ UNCHANGED <<turnVars, closed, closeAdmission, closeFinalized, depth, windowed, admission,
                   interruptVars, hubVars, runVars, ret, local, calls, callbackCalls>>

(* _close_now reads the active turn first ...                                *)
CloseRead(f) ==
    /\ pc[f] = "close_read"
    /\ SetLocal(f, [local[f] EXCEPT !.closing = context.turn,
                                    !.closes = context.turn # NoTurn /\ ~Terminal(context.turn)])
    /\ Goto(f, "close_mark")
    /\ UNCHANGED <<turnVars, closeVars, lockVars, interruptVars, hubVars, runVars, ret, calls,
                   callbackCalls>>

(* ... then closes, commits CLOSED for the turn it read, retires the          *)
(* generation and clears the context.                                         *)
CloseMarkSkipsTerminalMutant(f) ==
    LET t == local[f].closing
    IN  /\ pc[f] = "close_mark"
        /\ closed' = TRUE /\ closeRequested' = FALSE
        /\ IF active.turn # NoTurn /\ t \in {NoTurn, active.turn}
             THEN Gate!Advance("session_closed") ELSE UNCHANGED gateVars
        /\ context' = NoContext
        /\ phase' = "none"
        /\ Goto(f, "close_emit")
        /\ UNCHANGED <<records, state, closeAdmission, closeFinalized, lockVars, interruptVars,
                       hubVars, runVars, ret, local, calls, callbackCalls>>

CloseMark(f) ==
    LET t == local[f].closing
    IN  /\ pc[f] = "close_mark"
        /\ closed' = TRUE /\ closeRequested' = FALSE
        /\ IF local[f].closes THEN Registry!Retain(t, "closed") ELSE UNCHANGED records
        /\ IF active.turn # NoTurn /\ t \in {NoTurn, active.turn}
             THEN Gate!Advance("session_closed") ELSE UNCHANGED gateVars
        /\ context' = NoContext
        /\ phase' = "none"
        /\ Goto(f, "close_emit")
        /\ UNCHANGED <<state, closeAdmission, closeFinalized, lockVars, interruptVars, hubVars,
                       runVars, ret, local, calls, callbackCalls>>

(* SESSION_CLOSED carries the closed turn's identity.                         *)
CloseEmit(f) ==
    /\ pc[f] = "close_emit"
    /\ Transition(f, local[f].closing, "closed", "unchanged", "ended", "close_hub")
    /\ UNCHANGED <<gateVars, records, context, closeVars, interruptVars, runVars, local, calls,
                   callbackCalls>>

CloseHub(f) ==
    /\ pc[f] = "close_hub"
    /\ hubClosed' = TRUE
    /\ operation' = Released(operation, f)
    /\ Goto(f, "close_final")
    /\ UNCHANGED <<turnVars, closeVars, depth, windowed, admission, interruptVars, dispatcher,
                   lastEvent, announced, runVars, ret, local, calls, callbackCalls>>

(* _finalize_close_result stops the bridge after the lock is released.        *)
CloseFinal(f) ==
    /\ pc[f] = "close_final"
    /\ bridgeClosed' = TRUE
    /\ closeFinalized' = TRUE
    /\ Goto(f, local[f].after)
    /\ UNCHANGED <<turnVars, closed, closeRequested, closeAdmission, lockVars, interruptVars,
                   hubVars, runQueue, awaiting, ret, local, calls, callbackCalls>>

Close(f) ==
    \/ CloseAdmission(f) \/ CloseWait(f) \/ CloseLock(f) \/ CloseRead(f) \/ CloseMark(f)
    \/ CloseEmit(f) \/ CloseHub(f) \/ CloseFinal(f)

-----------------------------------------------------------------------------
(* Every call that was made has returned or was abandoned, and the runtime is *)
(* idle.                                                                     *)
Quiet ==
    /\ \A f \in Frame : pc[f] \in {Rest(f), "abandoned"}
    /\ runQueue = <<>> /\ awaiting = {}

Finished ==
    /\ Quiet
    /\ \A h \in Host : pc[<<h, 0>>] = "idle" =>
          \A call \in calls[h] : call.after \notin announced \cup {NoTurn}
    /\ UNCHANGED vars

Step(f) ==
    \/ FinishDelivery(f) \/ Rejoin(f)
    \/ StartTurn(f) \/ RunTurn(f) \/ Interrupt(f) \/ Flush(f) \/ Subscribe(f) \/ Close(f)

Next ==
    \/ \E f \in Frame : BeginCall(f) \/ BeginCallback(f) \/ Step(f)
    \/ RuntimeLoop
    \/ Finished

Spec == Init /\ [][Next]_vars

(* Every thread keeps running; hosts need not call and subscribers need not   *)
(* call back.                                                                 *)
FairSpec ==
    /\ Spec
    /\ \A f \in Frame : WF_vars(Step(f))
    /\ WF_vars(RuntimeLoop)
=============================================================================
