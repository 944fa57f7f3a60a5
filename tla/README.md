# TLA+ models of the AI Character Conversation Framework

The framework (`src/framework/`) lets an application run character turns: it
starts a turn, executes its stages (input, text, voice, motion) on a runtime
thread, publishes events to subscribers, and can interrupt, flush and close at
any time, from any thread and from inside its own callbacks. These modules model
the part of it where that concurrency lives: the realtime session and the owners
it is composed of, the voice-input session with its stream runtime, and the motion
session with its VTube Studio transport. TLC checks them on small instances; TLAPS
proves the safety of the lock-protected owners and the hub, of voice output, of the
voice-input session and of the transport, and that the realtime session's operations
exclude each other, its deferred closes happen, and its ended turns stay retired, for
every value of their constants.

## 1. Inventory

Where the program's logic is: `framework/realtime_session.py` (the session),
five small owners it composes (`realtime_generation_gate.py`,
`realtime_terminal_registry.py`, `realtime_event_hub.py`,
`backpressure_runtime.py`, `realtime_execution_bridge.py`), the stages
(`realtime_stage.py`, `realtime_text_generation*.py`,
`realtime_voice_output_queue.py`, `motion_session.py`) and the input side
(`voice_input_session.py`, `voice_input_stream_runtime.py`). The older
interactive runtime (`core/`, `llm/`, `tts/`) is single-threaded control around
provider calls; `scripts/`, `tests/`, `docs/` and `examples/` state what the
framework is expected to do and are read as such.

| component | state | operations | hard behaviour | correct when |
|---|---|---|---|---|
| `RealtimeSession` | active turn, phase, state, close flags, `_operation_lock` and its depth, callback windows, `_turn_admission_lock`, interrupt requests, terminal reservations | `start_turn`, `run_turn`, `interrupt`, `flush_output`, `on_event`, `close`, reset, playback acknowledgement, barge-in, motion hooks | the operation lock is given up around every callback; callbacks call back in; interrupt and completion compete for a turn's outcome; close is deferred to whoever leaves last | one operation at a time, one outcome for each turn, no circular wait, calls return, close leaves nothing |
| lifecycle contract | none | phase and terminal validation | - | the tables are followed |
| `RealtimeGenerationGate` | active `(turn, generation)`, pending replacement, retired and known generations, counters | start, reset, advance, apply a completion | completions arrive after their generation was retired, by any of five causes | only the current generation delivers; late completions are classified |
| `RealtimeTerminalRegistry` | terminal records, counters | commit, admit non-terminal | the same turn is ended again by close, interrupt, completion | first terminal wins |
| `RealtimeEventHub` | history, subscriptions, pending deliveries, `_dispatching`, two backpressure boundaries | emit, subscribe, unsubscribe, pause, resume, close, drain | one emitter delivers for all threads; callbacks emit, subscribe, close; boundaries refuse events | ordered delivery to the audience fixed at acceptance, nothing accepted is lost |
| `BoundedBackpressureRuntime` | state, pending queue, in-flight set, overflow count | admit, claim, complete, withdraw, pause, resume, close | immediate and queued admission share the in-flight limit | limits hold, no silent drop |
| `FrameworkRealtimeExecutionBridge` | worker thread, loop, `_ready`, `_closed` | submit, run, shutdown | shutdown races with start, submit and the loop; a coroutine stops its own bridge | callers are answered, the worker ends |
| voice output queue and stage | pending work, boundary, active work, cancel request and its last result, artifacts | enqueue, clear, hand off, start, cancel, flush, pause, resume, close | claims across three locks; a cancel waits outside the lock for a limited time; late results | queue, boundary and stage agree; what was cancelled or flushed is not heard |
| text generation, stages | deltas, cancellation | generate, cancel | late deltas, provider cancellation | no delta after the end |
| voice input session | `_closed`, active and stream context, generation gate, last result, callbacks | configure, begin, send, end, abort, listen, text fallback, transcribe, pause, resume, close | the operation lock is given up around callbacks; a newer input replaces a turn; the adapter answers late | a turn has one final transcript and none once it is over; every turn is released, by its own call |
| voice input stream runtime | adapter, active stream and its expected number, last terminal, an audio boundary with one slot | configure, begin, send, end, abort, close | the adapter is given a chunk outside the lock, while the stream is aborted and another begun | one chunk at a time, in order |
| motion session | closed flag, state, capability, readiness, composition | preflight, apply motion, close | no lock but the one of close; close runs the cleanup on a daemon thread with a timeout | calls return, a clean close leaves no worker |
| VTube Studio composition and transport | bridge thread and loop; client, reservation, readiness, lifecycle generation | submit, shutdown; preflight, trigger, close | timeouts and cancellation at every await, close between two awaits | one operation at a time, ready means usable, late completions are suppressed |
| facade, public API | busy flag, history | send, interrupt, reset | reset against a running turn | busy and interrupt rules |
| interactive runtime (`core/`) | interruption flag, stream buffer | one assistant turn | tags split over chunks | emotion tags are never spoken |

How they interact. The session owns one gate, one registry, one hub and one
bridge, and calls the first three under their own locks. The hub calls
subscribers on the emitting thread, outside both the hub's lock and the
session's; a subscriber may call any session method. `run_turn` submits a
coroutine to the bridge's loop and waits; the coroutine takes the session's
operation like any other caller. The hub, the voice output queue and the stream
runtime each own backpressure runtimes; the voice-input session has a generation
gate of its own. The motion session reaches its transport through a bridge: a
thread with an event loop, to which host threads submit coroutines they wait for
with a timeout. `PROJECT.json` lists every component, also those not modelled,
and every hazard at its line.

## 2. Modules

| module | models | composed of |
|---|---|---|
| `RealtimeLifecycle` | `lifecycle.py`: phases, outcomes, their rules, as operators | - |
| `RealtimeGenerationGate` | `realtime_generation_gate.py`, one action for each method | implements `FreshDelivery` |
| `FreshDelivery` | abstract: only the current generation delivers and a retired one never comes back | - |
| `RealtimeTerminalRegistry` | `realtime_terminal_registry.py` | `RealtimeLifecycle` |
| `RealtimeIdentity` | the turn identities the session's owners share | - |
| `BackpressureLimits`, `BackpressureRuntime` | `backpressure_runtime.py` and the limits it is given | - |
| `RealtimeEventHub` | `realtime_event_hub.py` | two `BackpressureRuntime`s; implements `OrderedBroadcast` |
| `OrderedBroadcast` | abstract: a FIFO broadcast with fixed audiences | - |
| `RealtimeExecutionBridge` | `realtime_execution_bridge.py` on asyncio's loop | - |
| `RealtimeVoiceOutput` | `realtime_voice_output_queue.py`, `_realtime_voice_output_control.py`, binding and invalidation of `voice_artifacts.py` | a `BackpressureRuntime`; the gate as `FreshDelivery` abstracts it |
| `RealtimeSession` | `realtime_session.py`: turns, interrupts, flush, close | the gate's and the registry's operators, `RealtimeLifecycle` |
| `TurnLedger` | abstract: one live turn, one outcome each, announced turns end | - |
| `RealtimeSessionProperties` | what must hold of the session | `RealtimeSession`, `TurnLedger` |
| `VoiceInputStream` | `voice_input_stream_runtime.py`, with callers of its own | a `BackpressureRuntime` |
| `VoiceInputSession` | `voice_input_session.py` | `VoiceInputStream`; proved to use it as `StreamSpec` allows |
| `VTubeStudioPyvtsTransport` | `vtube_studio_pyvts_transport.py`: any number of transports, one event loop each | - |
| `MotionSession` | `motion_session.py`, `vtube_studio_motion_composition.py`, the bounded cleanup of `session_close.py` | `VTubeStudioPyvtsTransport` |
| `MC...` | instances and scenarios for TLC | |
| `...Proofs` | the theorems of section 4 | |

A definition that ends in `Mutant` is never used by a specification: it is the
neighbouring definition with a plausible mistake, and shows that the property
named with it in `PROJECT.json` notices that mistake.

### The gate, the registry and the backpressure runtime

Each method of these classes runs under one lock from beginning to end, so each
is one action. Identities that Python draws at random (`GenerationId.new()`) are
numbers in the order of issue: what matters is that they are fresh. Counters that
only grow are bounded by `MaxGenerations`, `MaxCompletions`, `MaxAttempts` and
`MaxOverflows`. The backpressure runtime is one record with functional
operations (`Admitted(rt, ...)`, `Completed(rt, ...)`), so that an owner that
calls several methods while it holds a lock of its own can apply them in one
step. The overflow callback and public metadata are left out.

### The event hub

What a method does under the hub lock is one step. `_drain_deliveries` takes one
step for each lock region and one for entering and one for leaving each
callback; a thread inside a callback may use the hub again, which is how
reentrant emission is modelled. `emit` is the whole method: closing check,
admission by one boundary or both, history and its overflow diagnostic,
sequence numbers, the audience, and the decision who drains. A callback leaves
normally, with an `Exception` (caught, as normal), or, for `Interruptible`
threads, with a `BaseException`. Payloads, projections and the slow-callback and
error counters are left out.

### Voice output

A worker is a thread in `handoff_next` (or the stage's `start`); a canceller and
a flusher are threads in `cancel` and in the controller's `flush`. A step is one
lock region. `handoff_next` holds the queue lock from its claim of the stage to
its claim of the boundary (`"claiming"`), so the queue waits in between and the
stage does not. `_run_claimed` has two regions: one decides on the result
(cancelled, stale or delivered), binds and invalidates; the next releases the
work and sets its event. A waiting cancel sees that event as `live`, `set`, or
`lost` when the claim was given back without setting it; the time limit is a
choice that may fall just before the event. The result is an artifact, a URL or
an exception. The gate is what `GateIsFresh` proves it to be: a context is
current until it is retired, and retired contexts do not return. An identity
refused by the queue is never used again and is not counted. Left out: the
`artifact_invalidated` and stale diagnostics, the files of the store.

### The execution bridge

The worker is a thread with the steps of `_thread_main`: publish the loop, run
it, cancel and gather what is pending, close. asyncio's loop is external and
modelled from its contract: an iteration runs the handles that were ready when
it began, `stop` takes effect at the end of an iteration, a finished task answers
its concurrent future by one more handle. A coroutine may await something that
happens later, and the ones in `SelfStopping` may shut their own bridge down.
Time limits of `join` are a choice: it may time out.

### Voice input

`VoiceInputStream` has one step for each lock region of the runtime, and `sends[h]`
is the `send` thread `h` is in: admitted to the boundary, checked, in the adapter,
in a partial transcript's delivery, settled, slot given back. `_ActiveStream`
objects are numbers, in the order of their creation, beside the `stream_id` the
host chooses: the code compares objects in some places and identities in others,
and the host may reuse an identity. Too large and too long chunks are rejections
like the others; adapters may fail, or refuse to abort, wherever the code catches it.

`VoiceInputSession` runs those steps inside the session's methods. A method is a
step up to its event and a step after it, because `_dispatch_public_callbacks`
releases the whole operation lock; a callback that calls the session is a thread
of its own. Where nothing follows the event there is one step. `story[c]` is what
happened to turn `c`, in order: the events told (`final`, `failed`, `stale`) and
the retirements (`interrupted`, `replaced`, `closed`). The gate is reduced to the
turn it is bound to, which the gate's own proofs justify.

### The motion session and its transport

In `VTubeStudioPyvtsTransport` an operation is a task of the event loop; what it
does between two awaits is one step. Outcomes of the provider (answer, error,
timeout) are choices, and a task may be cancelled at every await, or abandoned by
a caller whose timeout came first. `_discard_failed_client` awaits too. The
lifecycle generation changes only together with `_closed`, so it is not a variable.

`MotionSession` adds host threads (`preflight`, `apply_motion`, `close`), the
bridge of each composition with its worker thread, and the daemon thread of
`_run_bounded_cleanup`. `thread[p].pc` is what thread `p` does next. Every wait of
the code has a timeout, which may fire at any time. The composition attribute is
checked and set in two steps, as there is no lock. `apply_motion` sets the state
and then looks at capability, readiness and binding, whether or not the session
has been closed meanwhile. There are as many tasks and compositions as `Operation`
and `Transport` have members. The binding to a realtime session appears as the
choice that a completion is stale (`DropStaleMotion`).

### The session

A thread has two frames: its own call and one call made by a callback it is
delivering (deeper nesting has the same sections; `_operation_depth` counts to
two). An action is one section of code between two points where another thread
can intervene: taking or leaving the operation or the admission lock, opening
or rejoining after a callback window, waiting for an interrupt owner's event.
`pc` names the section, `ret` the section after a delivery, `local` the locals
that survive a section. Sections under `_interrupt_request_lock` take no other
lock and are single steps.

- Stages are reduced to what the session does around them: each emits an event,
  may find its turn interrupted or fail, and the run then commits an outcome.
- The hub appears as its dispatcher: an event is delivered by its emitter unless
  another frame is draining. Its boundaries accept everything here.
- The bridge appears as a queue of submitted coroutines, a set of coroutines
  parked on an interrupt's reservation, and `bridgeClosed`; a caller whose
  coroutine the stopped bridge dropped ends in `abandoned`.
- `calls` holds what each host thread has still to call and `callbackCalls` what
  callbacks may call; `Scenarios` gives the initial values.

## 3. Runs

| run | instance | states | what it shows |
|---|---|---|---|
| `owners` | 2 turns, 4 generations, 3 completions; 4 items, limits 2 and 2 | 81 k | the three passive owners keep their contracts; the gate implements `FreshDelivery` |
| `event_hub` | 2 threads, a canonical and a legacy subscriber; or 1 thread whose callbacks pause and resume both boundaries and raise `BaseException`; 4 events, history 2, queue 2, fair | 384 k | the hub implements `OrderedBroadcast`; one dispatcher; history and its overflow count agree; the boundaries own exactly what is undelivered; every accepted event is delivered |
| `voice_output` | 2 workers, a canceller and a flusher, 2 works, 2 contexts, queue depth 1; one of five things the host may do besides | 2.6 M | queue, boundary and stage agree on ownership; a work whose cancel completed is over; what a flush has dealt with cannot be played |
| `execution_bridge` | 2 coroutines, 2 stoppers, one self-stopping, fair | 58 k | reports of a stop are true, an open bridge answers, parked runs are cancelled |
| `session` | six scenarios, 3 generations, fair | 93 k | one operation at a time; a claimed interrupt is carried out by the one frame that claimed it, returned calls hold nothing, callbacks outside, deferred closes and completions honoured, the turn ledger, reservations and retirement, no circular wait, every call returns |
| `voice_input` | 3 threads, 6 scenarios, 2 streams, 5 turns | 304 k | one chunk at a time and in order; no late transcript; partials under a turn of a stream with their stream's identity; turns are released, by an interrupt, a replacement, a close or a call that told their outcome |
| `motion_session` | 2 hosts, 2 compositions, 2 clients, 3 tasks, 4 scenarios, fair | 277 k | one provider operation at a time; ready means usable; late completions are suppressed; a clean close ends the worker; every call returns |
| `voice_cancelled_audio`, `session_close_races_start`, `session_lock_order`, `session_second_interrupt`, `voice_input_restart` | one scenario each | - | violated, see 5 |

The gate, the registry and the runtime share no state, so `owners` explores them
one at a time: the sum of their behaviours says as much about each of them as
their product would.

Bounds. Two turns are the least for one turn to displace, outlive or be mistaken
for another, and no rule in the code mentions more than two. Two host threads and
the runtime thread give every pair of operations that can meet; scenarios are
sets of calls made in any order, so a scenario stands for all its schedules. Four
generations cover start, reset with a pending replacement, and two retirements.
Two items more than a boundary's pending limit make it overflow in every mixture
of immediate and queued admission. History and queue limits of two are the
least at which an event together with its overflow diagnostic can overwrite, be
refused in part, and find the queue full.

Voice output needs two works for one to be claimed while the other completes,
and a queue of depth one to be full; the scenarios (`generations`, `close`,
`admission`, `start`, `clear`) name what the host does beside handing off,
cancelling and flushing, one of them in each behaviour, because they touch
different state and their product says nothing more. Workers are symmetric.

Voice input: the boundary has one slot, so two senders are enough to compete for
it and the third thread aborts, restarts or closes; two streams let a chunk, a
partial transcript and a terminal verdict outlive theirs, with another identity
and (`SameIdentity`) with the same; five turns are more than any scenario opens
before its calls end. Motion: two hosts, because the session's state is only read
and written by single assignments, and a third thread adds no pair; two
compositions are what two first preflights can create; three tasks are one for
each thread that can wait.

Type invariants: each module states one. Those of the gate, the registry, the
backpressure runtime, voice output, the transport, the stream runtime and the session
are proved (`GateTypes`, `RegistrySafety`, `LimitsHold`, `VoiceIsTyped`,
`TransportIsTyped`, `StreamIsTyped`, `SessionIsTyped`); the others (`MotionTypes`, `OwnerTypes`, `TypeInvariant` of the hub and the bridge) hold on
the same configurations when they are added as invariants, and are left out of the
runs, which are about what could go wrong.

Deadlock. The session runs check for deadlock: `Finished` stutters only when
every call has returned and nothing that may be called is left. The other
systems, but voice output, really may stop (every event accepted, every
script of calls finished, every bound reached) and say so.

Fairness. The session: each thread keeps running (`WF` of each frame's steps and
of the runtime loop), which the operating system's scheduler gives; nothing
obliges a host to call or a subscriber to call back. The motion session: every
thread that can take a step takes one in the end, and no wait is without a
timeout, so nothing is assumed of the provider. Voice input has no liveness of
its own: its adapters are host code that may never return. The hub: a thread that is
draining goes on, and callbacks return. The bridge: callers, the worker and
its loop go on, and what a coroutine awaits happens; nobody has to shut down. No
lock is assumed to be fair: `WF` suffices because the scenarios end.

## 4. Proofs

`tlapm` proves, for every set of turns, generations and items and every limit:

- **Gate** (`RealtimeOwnersProofs`). The inductive invariant is
  `TypeInvariant /\ RegistryPartition` with `KnownNeverUnknown` and the counter
  equation on top. `RegistryPartition` is needed because the refinement is not
  inductive alone: "a retired generation never comes back" follows only
  from "the known generations are exactly the active one and the retired ones,
  and identities are issued in order". From it: `GateTypes`, `GatePartition`,
  `LateCompletionIsExplained`, `AdvancesAreCounted`, and `GateIsFresh`, the
  refinement of `FreshDelivery`. Assumed: `NoTurn` is no turn, the two reasons
  the code uses are reasons, bounds are naturals.
- **Registry** (`RealtimeOwnersProofs`). `RegistrySafety` and
  `FirstTerminalWins`: one record for each turn, records are never replaced,
  moved or dropped. The key lemma is that the verdict `first_terminal` is given
  only to a turn without a record.
- **Backpressure** (`BackpressureRuntimeProofs`). `RuntimeIsSound` and from it
  `LimitsHold`, `OwnershipHolds`, `NothingIsDropped`, `ClosedForGood`. The
  invariant adds to the types and limits that the pending queue has no
  duplicates and is disjoint from the in-flight set: without that, a claim could
  exceed the limit by moving an item that is in flight already. Each functional
  operation has a lemma of its own (`AdmittedIsSound`, ...), stated about the
  record rather than the variable, so that the hub's proof uses them. Assumed: limits
  are at least one (`LimitAssumption`).
- **Event hub** (`RealtimeEventHubProofs`). `HistoryStaysTheTail` and
  `HubHasOneDispatcher`. That there is one dispatcher follows from the flag; that
  its claims never miss does not: it needs that every queued event waits in the
  boundaries it needs, exactly once (`QueueIsBacked`), that what the dispatcher
  holds waits until it is claimed (`DeliveryIsBacked`), that nothing but its event
  is in flight (`FlightIsOwned`), and that the boundaries know nothing of events
  still to be accepted (`NothingAhead`). The last is why a refused pair must be
  withdrawn as a whole (`AdmitIsAllOrNothing`). The boundaries' own soundness
  comes from the backpressure lemmas, instantiated; `HubRespectsLimits` is their
  limits in the hub. `CapacityNeverLeaks` (`BoundariesOwnTheQueue`) adds the
  converse: what waits in a boundary is in the queue (`WaitingIsQueued`) and what
  is in flight is the dispatcher's event (`HeldIsInFlight`).
  `HubDeliversInOrder` is the refinement of `OrderedBroadcast`. It needs
  `OrderInvariant`: the queue holds the last of the accepted events with their
  audiences, and none of them has been told to anybody; what remains of the
  dispatcher's delivery is what remains of its event's audience, and every
  earlier event has been told to its own; a delivery that a `BaseException`
  ended is the last one there is. Assumed: `HubAssumption`.
- **Voice output** (`RealtimeVoiceOutputProofs`). `VoiceIsTyped`,
  `OwnershipIsNeverLost` (`QueueOwnsItsWork`), `CompletedIsFinal`
  (`CompletedMeansOver`) and `FlushSilencesItsContext` (`FlushedIsUnplayable`). The
  invariant is `VoiceInvariant`: the types; `QueueIsOwned`, that a queued work
  waits in the boundary and whoever holds the stage's claim is the work in flight;
  `ClaimsAreOwned`, what each stage of a worker's hand-off has established about
  the claim it holds; and `Promises`, what each canceller and flusher may still
  report. The last is what the properties need: a cancel that will report
  `completed` has seen its work either leave the queue unclaimed or set its event
  (`WaitFits`, `LastFits`), and a flush answers for the works of its scope as it
  read them, each by a cancel that came before the context was current again
  (`FlushFits`, `FlushedStaySilent`). `QueueGoesOn` and `StageGoesOn` say what
  any step can do to a work's ownership and to a claim, so that each promise is
  shown once against every step and not once for each action. The boundary's
  lemmas are the backpressure ones, instantiated. Assumed: `VoiceAssumption`.
- **Execution bridge** (`RealtimeExecutionBridgeProofs`). `StopReportsAreTrue`: a
  worker that is gone, or never was, stays away because whoever got past the flag
  in `shutdown` has set it (`ShutdownHasClosed`).
- **Transport** (`MotionSessionProofs`). `TransportInvariant` holds for
  any number of transports, tasks and clients; from it `SingleFlight`,
  `ReadyMeansUsable` and, as an action property, `LateCompletionSuppressed`.
  `SingleFlight` alone is not inductive: the task that ends must be the one that
  holds the reservation. The invariant adds what each stage of an operation has
  established on its open transport (`Fits`), that a closed transport keeps
  neither client nor readiness (`Coherent`), and that no two transports share a
  client and no discarded one is kept (`ClientsAreOwned`). Every action takes one
  operation a step further (`Steps`), and `StepKeeps` proves the invariant for
  all of them at once, from what the step leaves behind. Assumed:
  `TransportAssumption` (there is a transport).
- **Motion session** (same module). `SessionRefinesTransport`: every step of the
  session's threads, bridges and workers is a step of its transports or leaves them
  alone, so `TransportSpec` and all that is proved of it hold under any calls.
  `CleanCloseIsFinal` (`CleanCloseEndsWorker`) follows from `MotionInvariant`. That a
  report is clean says nothing of a thread that passed its checks before the close
  and may yet start the worker. What excludes it: one host thread closes, one
  daemon thread closes the composition it was given (`OneCloses`,
  `CloserOwnsTheClose`), and it closes the bridge before anybody asks whether the
  worker was started, so that a worker that was not stays away (`BridgesStand`).
  Assumed: `MotionAssumption`. It is about the composition the close knows: the one
  that a second preflight lost is not (`JoinsTheWorker`, section 5).
- **Voice input** (`VoiceInputSessionProofs`).
  `StreamInvariant` is `OneChunkAtATime` and `ChunksInOrder` with two facts they
  need: the boundary's slot is in one of its legal states, and a call's stream
  has been begun. `SessionUsesTheRuntime` shows that every step of the
  session is a step of the runtime or leaves it alone, so both carry over to the
  session without a second proof. `SessionInvariant` relates each turn to the call
  or the stream that opened it and says what its story can still become;
  `NoLateTranscript`, `PartialsOfTheirStream`, `TurnsAreReleased` and the action
  property `TurnsEndForAReason` follow. What makes it inductive is that an open
  turn belongs to one call or one stream (`TurnsHaveOneCall`,
  `StreamsHaveTheirTurn`, `InputsHaveNoStream`), and what its story can be at the
  point its call has reached (`StoriesSoFar`). `TurnsEndForAReason` needs two facts
  more: a call that has told its outcome finds it in the story of its turn, because
  the callbacks are live as long as the session is open (`OutcomesAreTold`), and the
  turn of a call that ends or fails a stream is a stream's (`StreamCallsHaveStreams`).
  So a late input cannot let go of a newer turn, nor of a stream's. The property does
  not say whose chunk made a stream fail: a chunk of an earlier stream can, see
  `ChunksFailTheirOwnTurn` in section 5. Assumed:
  `StreamAssumption`, `ScriptAssumption`.

- **Session** (`RealtimeSessionProofs`). `SessionStands`, `OperationsAreSerial`
  (`OneOperationAtATime`), `CallbacksRunOutside` (`CallbacksOutsideOperation`) and
  `SessionIsTyped`, for any number of hosts and turns and any calls. That one
  operation runs at a time is not inductive alone: an operation gives the lock up
  for every callback and takes it again, and a deferred close runs on as part of
  the operation that leaves last. `SessionInvariant` adds what each frame carries
  to the point it has reached and that it runs its own program (`FramesFit`); that
  the lock is held by exactly the frame that is inside a section, the windowed
  frames are those inside an operation and delivering, and the depth is the number
  of both (`LockInvariant`); and that every coroutine, submitted, parked or running,
  has one caller that waits for it (`CallersWait`), without which a rejoining run
  could meet its own copy. Each action has a lemma on where its frame goes
  (`...Goes`), and the locks and the types are shown once for each shape of step.
  Assumed: `ThreadAssumption`, `TurnAssumption`, `ScenarioAssumption` (scenarios
  are sets of calls), `BoundAssumption`.
- **Session, its closes** (same module). `PromisesAreKept`, and from it
  `DeferredCloseHappens` (`DeferredCloseIsHonoured`). That a quiet session has no
  forgotten close says nothing about a busy one, so the invariant names who will
  see to it: `ClosePromises`, that a requested close has an operation under way or
  a frame that closes, and a closed session is finalized or has its finisher;
  `InterruptPromises`, that a claimed interrupt has the one frame that owns it, and
  a close that waits for an interrupt has an interrupt that is not over.
- **Session, its turns** (same module). `TurnsStand`, and from it `EndsAreRetired`
  (`EndedTurnsAreRetired`) and the action property `ReservationsAreKept`
  (`ReservationIsKept`). `TurnInvariant` is needed since a turn is current in four
  places that change at different steps: the gate is consistent (`GateFits`); the
  context, the active generation and the interrupt in progress are of one turn, and
  no interrupt is in progress once a close was admitted (`OneTurn`); what is recorded,
  deferred or about to be has its generation retired (`RecordsFit`); an interrupt
  that found its turn current has retired it before it records or defers anything
  (`RequestsFit`). Every action is shown to have one of a dozen effects on the
  turns (`TurnStep`), and the invariant is shown once for each effect.
  `ClosePromises` is used here: a claim excludes an admitted close.
- **Session, its deferred completions** (same module). `CompletionsStand`, and from
  it `CompletionsAreKept` (`DeferredCompletionIsKept`). Nothing in an interrupt's
  request says that its owner will end the turn: an accepted interrupt drops what
  was deferred to it, because it has ended the turn itself. `CompletionInvariant`
  therefore starts before anything is deferred: from the moment the runtime is in
  the turn's stages (`Pursued`), while an interrupt of the turn is live, the turn is
  the session's, and no start, run or other interrupt is about to take it away
  (`PursuedTurnsStand`); a result that was deferred is recorded or still held by the
  interrupt (`CompletionsHeld`); and each frame knows what it has settled (`Knows`,
  `RunnerKnows`). It rests on `TurnInvariant`, on the promises, and on `StartsFit`
  (`StartsAreApart`): a rejected start clears the context, which is harmless only
  because nobody else knows its generation. The shape of the proof is that of the
  layers above: what a step does to a frame is one of a few effects, each effect is
  shown to keep each part, and each action to have its effect.
- **Session, the owner of an interrupt** (same module). `OwnersStand`, and from it
  `InterruptsHaveOneOwner` (`ClaimedInterruptHasOneOwner`) and
  `CallsGiveBackWhatTheyTook` (`ReturnedCallsHoldNothing`). `InterruptPromises` gives
  an interrupt in progress the frame that will end it; that nobody else carries it
  out, and nobody carries out one that is over, is the converse and needs an
  invariant of its own. `OwnersFit`: no two frames have claimed the same turn's
  interrupt, a frame that carries one out does it on the thread the record names,
  while the record is live, and a frame about to claim has none yet. A frame keeps
  what it claimed after it is done, so the claim step needs that the turn claimed was
  never claimed before: `CompletionInvariant` says so (`Knows`: what a frame claimed
  has a record). That a returned call holds nothing then follows from this, the
  locks of `SessionInvariant` and `StartsFit`.

Only model-checked: all liveness (`EveryCallReturns`, delivery by the hub, answers of
the bridge), since fairness and `ENABLED` are outside what `tlapm` proves.
`KeepsTurnLedger`, `NothingAfterTheEnd`, `NoWaitCycle` and `CloseLeavesNothing`
cannot be theorems: the runs of section 5 and the departures listed there violate
them in other scenarios than those of `session`. What of `CloseLeavesNothing` holds
in every scenario, of every call and not only of a close, is stated apart and proved:
`ReturnedCallsHoldNothing`. `ClaimedInterruptHasOneOwner` speaks of interrupts that
were claimed; those that `_claim_interrupt_request` lets through as "legacy" have no
owner, and each runs its effects again (`session_second_interrupt`).

## 5. Where the code departs from what is said of it

Each of these has a run whose counterexample is the schedule.

- `session_close_races_start`. `_close_now` reads the active turn, commits its
  outcome, and clears the context after callbacks ran; `start_turn` binds a turn
  under the admission lock alone. A turn admitted in between is announced and
  never gets an outcome, though "a turn has exactly one terminal outcome".
- `session_lock_order`. `start_turn` emits TURN_STARTED while it holds the
  admission lock; a callback that interrupts needs the operation lock, held by a
  run that waits for the admission lock.
- `session_second_interrupt`. A stage of a running turn calls its subscriber; the run
  has reserved the turn's terminal, so an interrupt made there has no owner. When
  nothing accepts it, it sets the phase to RECOVERING and back to IDLE and leaves the
  turn's context. A second interrupt of the turn asks for IDLE -> RECOVERING and
  raises, though `interrupt` "completes with a typed interrupt result". (The program
  does this with a session of no stages and a subscriber that calls `interrupt`
  twice when LISTENING_STARTED arrives.)
- `voice_cancelled_audio`. The stage decides on a result in one lock region and
  releases the work in the next; a cancel in between reports that delivery is
  suppressed, and the audio is returned.
- `voice_input_restart`. `abort_audio_stream` frees the session, tells its
  callbacks with the lock released, and then clears `_stream_input_context`,
  whosever it is. A stream begun by a callback in between loses its context, and
  its accepted end raises "accepted stream end requires a final result".

Further departures were seen while the models were written and have no run of
their own:

- `_transition` asks the registry and then leaves the lock to emit, so
  TURN_STARTED can follow the turn's CLOSED.
- A close in a runtime callback can wait for an interrupt whose owner waits for
  that callback.
- An interrupt that resolved no turn reads the gate again when it is serialized
  and can retire the generation of a turn started meanwhile.
- A run whose turn was interrupted in a callback resets phase and state on its way
  out, also when that callback started another turn; the interrupt of the other
  turn then asks for IDLE -> RECOVERING and is resolved as failed
  (`session`, scenario `OverlappingTurns`).
- The bridge's `shutdown` schedules `loop.stop` only when the loop is running; a worker
  between publishing its loop and running it is never stopped, though
  `docs/v600_realtime_execution_contract.md` says "worker / loop leak after final
  close: False" (`ClosedWorkerEnds` of `RealtimeExecutionBridge`, in
  `execution_bridge.cfg` in the place of the other properties).
- `submit` hands its coroutine to the loop after it released the bridge's lock, so
  a shutdown in between leaves the caller waiting.
- A callback that leaves with a `BaseException` (`SystemExit`, a cancellation)
  keeps `_dispatching` set, and later events are accepted and never delivered.
- When `handoff_next` gives a stage claim back because the boundary still counts
  the previous work, a cancel in between has promised silence and waits its whole
  time limit; the work stays queued, is claimed again without the cancel request,
  and is heard. If that cancel records its result during the second claim, even
  later cancels and flushes of the work only repeat it. `FlushedIsUnplayable`
  excepts these works (`orphaned`), and a stage that was closed while active,
  whose work a flush cannot cancel any more.

Voice input (the first three are stated in `VoiceInputSession`: put them into
`voice_input.cfg` in the place of the other properties):

- `LatePartialsAreIgnored`. The runtime and the session compare a partial's
  `stream_id` with the active stream's, not the stream. When the next stream has
  the same identity, a partial of the one that is over is told under its turn
  (`docs/v600_public_audio_chunk_streaming.md`: "Late partial callbacks after
  end/abort are ignored").
- `LateChunkIsExplained`. `begin` forgets the last terminal, so a chunk that was in
  the adapter when its stream was aborted and another begun finds neither its
  stream nor its terminal, and `send` raises "stream changed without a terminal
  state".
- `ChunksFailTheirOwnTurn`. A terminal rejection is handled under the session's lock
  after the runtime's was released, and compares no stream: it fails whatever stream
  is current by then. A chunk that is in the adapter when its stream is aborted and
  another begun fails the turn of the new one, and the gate lets go of it.
- Listen, text fallback and transcription look at `_closed` without the lock; a
  close in between leaves them with a turn in a closed session. Its events go
  nowhere.
- After close the first stale diagnostic forgets the retired callbacks; when two
  inputs were under way, the second diagnostic is lost.

Motion (`JoinsTheWorker` and `NoLateSuccess` are stated in `MotionSession`, for
`motion_session.cfg`):

- `JoinsTheWorker`. Two first preflights create two compositions and the earlier
  one is lost with its worker, where the documentation promises "at most one worker
  thread" and that close "joins the worker thread". A preflight that passed the
  closed check has the same effect after a close that found no composition.
- `NoLateSuccess`. Close sets `_closed` before the transport is closed; a trigger
  that completes in between publishes success
  (`docs/v550_motion_session_real_adapter_composition.md`: "A trigger finishing
  after close cannot publish success"). It also writes its state over `CLOSED`.
- A late preflight sets `_vts_preflight_ready` of a closed session again.
- The bridge's timeout cancels the preflight's task, whose client then stays
  connected and unowned by a call, where a failed preflight is documented to
  discard its client. The next preflight replaces it without closing it.
- The bridge's shutdown asks `loop.is_running()`, like the execution bridge's; here
  the join's timeout makes the close report it.

The scenarios of the passing session run order a thread's calls after the turn
they concern (`after`) so that they examine the remaining behaviour.

## 6. Not modelled, and further work

What is not modelled, by component, and why:

- Provider and network calls (LLM engines, speech services, the OpenAI voice input
  provider, the provider adapters of text generation): their results are choices
  of the models that call them.
- Configuration, capability tables, payload validation, plugins and registries:
  values without state.
- Fake and guarded runtimes, smoke scripts, examples, documents. About three
  quarters of the repository's Python lines (`scripts/`, `tests/`) check or
  demonstrate the components above, so the share of lines that a faithful model
  can stand for is small whatever is modelled.
- The older interactive runtime (`core/`): a sequential loop. Its emotion tags split
  over stream chunks are a data transformation.

Left for later, in this order: the session's stage work and its cancellation,
`reset`, playback acknowledgement, barge-in and the motion hooks; the hub's
boundaries composed with the session (a terminal committed whose event is
refused); host playback on top of the voice output queue; the deltas of text
generation against its cancellation; the facade's busy and reset rules.
