---------------------------- MODULE MotionSession ----------------------------
(***************************************************************************)
(* A motion session with the VTube Studio composition                      *)
(* (framework/motion_session.py, framework/vtube_studio_motion_            *)
(* composition.py).  preflight, apply_motion and close are synchronous and *)
(* may be called by any host thread.  The first preflight creates the      *)
(* composition: a transport and a bridge, whose worker thread runs the     *)
(* event loop the transport's coroutines run on.  A host thread submits a  *)
(* coroutine to that loop and waits for it with a timeout.  close runs the *)
(* composition's close on a daemon thread, here Closer, with a timeout.    *)
(*                                                                         *)
(* thread[p].pc is what thread p does next; each action is one step        *)
(* between two points where another thread may run.                        *)
(***************************************************************************)
EXTENDS VTubeStudioPyvtsTransport, Sequences

CONSTANTS
    Host,           \* host threads
    Closer,         \* the daemon thread of _run_bounded_cleanup
    NoTransport, NoOperation,
    Scripts         \* the calls each host thread may make, as functions to sequences

ASSUME MotionAssumption ==
    /\ Scripts \subseteq [Host -> Seq({"preflight", "apply_motion", "close"})]
    /\ Closer \notin Host
    /\ NoTransport \notin Transport
    /\ NoOperation \notin Operation

VARIABLES
    session,        \* the MotionSession
    bridge,         \* the bridge and the worker of each composition
    thread,         \* what each thread does
    calls,          \* the calls each host thread has still to make
    late            \* observed: triggers that ended after the session was closed

sessionVars == <<session, calls>>
motionVars == <<transport, operation, created, discarded, session, bridge, thread, calls, late>>

Thread == Host \cup {Closer}

SessionState ==
    [closed : BOOLEAN,
     state : {"idle", "active", "unavailable", "failed", "interrupted", "closed"},
     ready : BOOLEAN,
     capability : {"configured", "token_missing", "model_not_selected", "closed"},
     composition : Transport \cup {NoTransport},
     closedEvent : BOOLEAN,
     report : {"none", "clean", "dirty"}]

\* worker: the thread's life; "booted" has a loop that is about to run.
BridgeState ==
    [compositionClosed : BOOLEAN, closed : BOOLEAN,
     worker : {"none", "starting", "booted", "running", "stopping", "ended"}]

ThreadState ==
    [pc : {"idle", "ensure", "create", "start", "ready", "schedule", "wait", "apply", "publish", "cleanup", "closed_event",
           "close_composition", "shutdown", "stop_loop", "draining", "join", "done"},
     kind : Kind, on : Transport \cup {NoTransport},
     task : Operation \cup {NoOperation}, outcome : {"idle", "failed", "unavailable"}]

Idle == [pc |-> "idle", kind |-> "close", on |-> NoTransport,
         task |-> NoOperation, outcome |-> "idle"]

MotionInit ==
    /\ TransportInit
    /\ session = [closed |-> FALSE, state |-> "idle", ready |-> FALSE,
                  capability |-> "configured", composition |-> NoTransport,
                  closedEvent |-> FALSE, report |-> "none"]
    /\ bridge = [t \in Transport |->
                    [compositionClosed |-> FALSE, closed |-> FALSE, worker |-> "none"]]
    /\ thread = [p \in Thread |-> Idle]
    /\ calls \in Scripts
    /\ late = {}

At(p, pc) == thread[p].pc = pc
GoTo(p, pc) == thread' = [thread EXCEPT ![p].pc = pc]
BackToIdle(p) == thread' = [thread EXCEPT ![p] = Idle]

\* Whether the worker has set its loop and its ready event, and its loop lives.
LoopKnown(t) == bridge[t].worker \in {"booted", "running", "stopping"}
-----------------------------------------------------------------------------
(* What a thread does with the result of a coroutine it submitted.          *)

\* The capability of a failed preflight, by its outcome and its reason.
FailedCapability(r) ==
    IF r = "closed" THEN "closed"
    ELSE IF r = "authentication" THEN "token_missing"
    ELSE IF r = "model" THEN "model_not_selected"
    ELSE "configured"

PreflightReturns(p, r) ==
    /\ session' = [session EXCEPT !.ready = (r = "ready"),
                                  !.capability = IF r = "ready" THEN "configured"
                                                 ELSE FailedCapability(r)]
    /\ thread' = [thread EXCEPT ![p] = Idle]

ClosedEvent(s) == [s EXCEPT !.closedEvent = TRUE]

\* The motion state of a transport result: _vts_transport_result.
StateOf(r) ==
    IF r = "completed" THEN "idle"
    ELSE IF r \in {"timed_out", "failed"} THEN "failed"
    ELSE "unavailable"

\* A CLOSED result closes the session, which it is already, and is not published.
MotionReturns(p, r) ==
    IF r = "closed"
    THEN /\ session' = ClosedEvent([session EXCEPT !.state = "closed"])
         /\ thread' = [thread EXCEPT ![p] = Idle]
    ELSE /\ session' = [session EXCEPT !.state = StateOf(r)]
         /\ thread' = [thread EXCEPT ![p] = [Idle EXCEPT !.pc = "publish",
                                                         !.outcome = StateOf(r)]]

Returns(p, r) ==
    \/ thread[p].kind = "preflight" /\ PreflightReturns(p, r)
    \/ thread[p].kind = "trigger" /\ MotionReturns(p, r)
    \/ /\ thread[p].kind = "close"
       /\ thread' = [thread EXCEPT ![p].pc = "shutdown", ![p].task = NoOperation,
                                   ![p].outcome = IF r \in {"completed", "closed"}
                                                  THEN "idle" ELSE "failed"]
       /\ UNCHANGED session

(* _PersistentAsyncBridge.start and submit, for a host thread and for the   *)
(* closer.  A RuntimeError or a CancelledError becomes CLOSED or FAILED by  *)
(* the composition's closed flag.                                           *)
BridgeFailure(t) == IF bridge[t].compositionClosed THEN "closed" ELSE "failed"
Fails(p) == Returns(p, BridgeFailure(thread[p].on))

\* A bridge that starts its worker without looking whether it is closed.
StartBridgeMutant(p) ==
    /\ At(p, "start")
    /\ bridge' = [bridge EXCEPT ![thread[p].on].worker = IF @ = "none" THEN "starting" ELSE @]
    /\ GoTo(p, "ready")
    /\ UNCHANGED <<transportVars, session, calls, late>>

StartBridge(p) ==
    LET t == thread[p].on IN
    /\ At(p, "start")
    /\ IF bridge[t].closed
       THEN Fails(p) /\ UNCHANGED bridge
       ELSE /\ bridge' = [bridge EXCEPT ![t].worker = IF @ = "none" THEN "starting" ELSE @]
            /\ GoTo(p, "ready") /\ UNCHANGED session
    /\ UNCHANGED <<transportVars, calls, late>>

\* Two checks under the lock, in start and in submit; the ready event may also
\* not come in time.
AwaitReady(p) ==
    LET t == thread[p].on IN
    /\ At(p, "ready")
    /\ IF LoopKnown(t) /\ ~bridge[t].closed
       THEN GoTo(p, "schedule") /\ UNCHANGED session
       ELSE Fails(p)
    /\ UNCHANGED <<transportVars, calls, bridge, late>>

\* run_coroutine_threadsafe, on the loop that was read under the lock.  Bound:
\* the tasks of Operation.
Schedule(p) ==
    LET t == thread[p].on
        o == CHOOSE free \in Operation : Free(free) IN
    /\ At(p, "schedule")
    /\ \E free \in Operation : Free(free)
    /\ IF LoopKnown(t)
       THEN /\ Submit(o, t, thread[p].kind)
            /\ thread' = [thread EXCEPT ![p].pc = "wait", ![p].task = o]
            /\ UNCHANGED session
       ELSE Fails(p) /\ UNCHANGED transportVars
    /\ UNCHANGED <<calls, bridge, late>>

\* future.result returns, or raises CancelledError.
Answered(p) ==
    LET o == thread[p].task
        r == operation[o].result IN
    /\ At(p, "wait")
    /\ Take(o)
    /\ IF r = "cancelled" THEN Fails(p) ELSE Returns(p, r)
    /\ late' = late \ {o}
    /\ UNCHANGED <<calls, bridge>>

\* A bridge that waits for its futures without a timeout.
GivesUpMutant(p) == FALSE

\* The bridge's timeout: the future is cancelled and the result is TIMED_OUT.
GivesUp(p) ==
    /\ At(p, "wait")
    /\ Abandon(thread[p].task)
    /\ Returns(p, "timed_out")
    /\ UNCHANGED <<calls, bridge, late>>
-----------------------------------------------------------------------------
(* The worker thread, and the tasks its loop runs.                          *)
WorkerBoots(t) ==
    /\ bridge[t].worker = "starting"
    /\ bridge' = [bridge EXCEPT ![t].worker = IF bridge[t].closed THEN "ended" ELSE "booted"]
    /\ UNCHANGED <<transportVars, sessionVars, thread, late>>

WorkerRuns(t) ==
    /\ bridge[t].worker = "booted"
    /\ bridge' = [bridge EXCEPT ![t].worker = "running"]
    /\ UNCHANGED <<transportVars, sessionVars, thread, late>>

WorkerEnds(t) ==
    /\ bridge[t].worker = "stopping"
    /\ bridge' = [bridge EXCEPT ![t].worker = "ended"]
    /\ UNCHANGED <<transportVars, sessionVars, thread, late>>

LoopRuns(o) ==
    /\ bridge[operation[o].on].worker \in {"running", "stopping"}
    /\ LoopStep(o)
    /\ late' = {l \in late \cup {o} : /\ operation'[l].at = "done"
                                      /\ l \in late \/ session.closed}
    /\ UNCHANGED <<sessionVars, bridge, thread>>
-----------------------------------------------------------------------------
(* preflight                                                                *)
Call(p, method) ==
    /\ At(p, "idle") /\ calls[p] # <<>> /\ Head(calls[p]) = method
    /\ calls' = [calls EXCEPT ![p] = Tail(@)]

Preflight(p) ==
    /\ Call(p, "preflight")
    /\ IF session.closed
       THEN session' = [session EXCEPT !.capability = "closed"] /\ UNCHANGED thread
       ELSE /\ thread' = [thread EXCEPT ![p].pc = "ensure", ![p].kind = "preflight"]
            /\ UNCHANGED session
    /\ UNCHANGED <<transportVars, bridge, late>>

\* _ensure_vts_composition takes no lock, and returns the attribute it reads last.
EnsureComposition(p) ==
    /\ At(p, "ensure")
    /\ IF session.composition = NoTransport
       THEN GoTo(p, "create")
       ELSE thread' = [thread EXCEPT ![p].pc = "start", ![p].on = session.composition]
    /\ UNCHANGED <<transportVars, sessionVars, bridge, late>>

Unused(t) == t # session.composition /\ \A p \in Thread : thread[p].on # t
                 /\ bridge[t].worker = "none" /\ ~bridge[t].closed

\* Bound: the compositions of Transport.
CreateComposition(p) ==
    /\ At(p, "create")
    /\ \E t \in Transport : Unused(t)
    /\ session' = [session EXCEPT !.composition = CHOOSE t \in Transport : Unused(t)]
    /\ GoTo(p, "ensure")
    /\ UNCHANGED <<transportVars, calls, bridge, late>>

-----------------------------------------------------------------------------
(* apply_motion                                                             *)
Apply(p) ==
    /\ Call(p, "apply_motion")
    /\ IF session.closed
       THEN session' = ClosedEvent(session) /\ UNCHANGED thread
       ELSE /\ thread' = [thread EXCEPT ![p].pc = "apply", ![p].kind = "trigger"]
            /\ UNCHANGED session
    /\ UNCHANGED <<transportVars, bridge, late>>

\* The state is set, then the capability, the readiness and the binding of the
\* request are looked at, whether or not the session has been closed meanwhile.
BeginMotion(p) ==
    /\ At(p, "apply")
    /\ session' = [session EXCEPT !.state = "active"]
    /\ \/ thread' = [thread EXCEPT ![p].pc = "publish", ![p].outcome = "unavailable"]
       \/ /\ session.capability = "configured" /\ session.ready
          /\ session.composition # NoTransport
          /\ thread' = [thread EXCEPT ![p].pc = "start", ![p].on = session.composition]
    /\ UNCHANGED <<transportVars, bridge, calls, late>>

\* The generation gate of a bound session may find the completion stale.
PublishMotion(p) ==
    /\ At(p, "publish")
    /\ session' = [session EXCEPT !.state = thread[p].outcome]
    /\ BackToIdle(p)
    /\ UNCHANGED <<transportVars, bridge, calls, late>>

DropStaleMotion(p) ==
    /\ At(p, "publish")
    /\ session' = [session EXCEPT !.state = "interrupted"]
    /\ BackToIdle(p)
    /\ UNCHANGED <<transportVars, bridge, calls, late>>
-----------------------------------------------------------------------------
(* close                                                                    *)
Close(p) ==
    /\ Call(p, "close")
    /\ IF session.closed
       THEN UNCHANGED <<session, thread>>
       ELSE /\ session' = [session EXCEPT !.closed = TRUE, !.state = "closed", !.ready = FALSE]
            /\ IF session.composition = NoTransport
               THEN GoTo(p, "closed_event")
               ELSE thread' = [thread EXCEPT
                        ![p].pc = "cleanup", ![p].on = session.composition,
                        ![Closer] = [Idle EXCEPT !.pc = "close_composition",
                                                 !.on = session.composition]]
    /\ UNCHANGED <<transportVars, bridge, late>>

\* The cleanup ended with the transport closed and the worker dead, or it did
\* not, or it is still running after its timeout.
CleanupReturns(p) ==
    LET clean == /\ At(Closer, "done") /\ thread[Closer].outcome = "idle"
                 /\ bridge[thread[p].on].worker \in {"none", "ended"} IN
    /\ At(p, "cleanup")
    /\ \/ /\ At(Closer, "done")
          /\ session' = [session EXCEPT !.report = IF clean THEN "clean" ELSE "dirty"]
       \/ /\ ~At(Closer, "done")
          /\ session' = [session EXCEPT !.report = "dirty"]
    /\ GoTo(p, "closed_event")
    /\ UNCHANGED <<transportVars, bridge, calls, late>>

EmitClosed(p) ==
    /\ At(p, "closed_event")
    /\ session' = [ClosedEvent(session) EXCEPT !.report = IF @ = "none" THEN "clean" ELSE @]
    /\ BackToIdle(p)
    /\ UNCHANGED <<transportVars, bridge, calls, late>>

(* VTubeStudioMotionComposition.close and _PersistentAsyncBridge.shutdown,  *)
(* on the daemon thread.                                                    *)
CloseComposition(p) ==
    LET t == thread[p].on IN
    /\ At(p, "close_composition")
    /\ bridge' = [bridge EXCEPT ![t].compositionClosed = TRUE]
    /\ IF bridge[t].worker = "none"
       THEN GoTo(p, "shutdown")
       ELSE GoTo(p, "start")
    /\ UNCHANGED <<transportVars, sessionVars, late>>

ShutdownBridge(p) ==
    LET t == thread[p].on IN
    /\ At(p, "shutdown")
    /\ bridge' = [bridge EXCEPT ![t].closed = TRUE]
    /\ GoTo(p, IF bridge[t].worker = "none" THEN "done" ELSE "stop_loop")
    /\ UNCHANGED <<transportVars, sessionVars, late>>

\* Waits for the ready event, then cancels what the loop runs, if it runs.
CancelPending(p) ==
    LET t == thread[p].on IN
    /\ At(p, "stop_loop")
    /\ \/ /\ bridge[t].worker \in {"running", "stopping"}
          /\ CancelAll(t)
          /\ GoTo(p, "draining")
       \/ /\ bridge[t].worker \notin {"running", "stopping"}
          /\ GoTo(p, "join")
          /\ UNCHANGED transportVars
    /\ UNCHANGED <<sessionVars, bridge, late>>

\* The cancelled tasks have ended, or the wait for them timed out.
StopLoop(p) ==
    LET t == thread[p].on IN
    /\ At(p, "draining")
    /\ bridge' = [bridge EXCEPT ![t].worker = IF @ = "running" THEN "stopping" ELSE @]
    /\ GoTo(p, "join")
    /\ UNCHANGED <<transportVars, sessionVars, late>>

\* thread.join: the worker has ended, or the join timed out.
Join(p) ==
    /\ At(p, "join")
    /\ GoTo(p, "done")
    /\ UNCHANGED <<transportVars, sessionVars, bridge, late>>
-----------------------------------------------------------------------------
BridgeStep(p) ==
    StartBridge(p) \/ AwaitReady(p) \/ Schedule(p) \/ Answered(p) \/ GivesUp(p)

HostStep(p) ==
    \/ EnsureComposition(p) \/ CreateComposition(p)
    \/ BeginMotion(p) \/ PublishMotion(p) \/ DropStaleMotion(p)
    \/ CleanupReturns(p) \/ EmitClosed(p)

CloserStep(p) ==
    \/ CloseComposition(p) \/ ShutdownBridge(p)
    \/ CancelPending(p) \/ StopLoop(p) \/ Join(p)

WorkerStep(t) == WorkerBoots(t) \/ WorkerRuns(t) \/ WorkerEnds(t)

MotionNext ==
    \/ \E p \in Host : Preflight(p) \/ Apply(p) \/ Close(p) \/ HostStep(p)
    \/ \E p \in Thread : BridgeStep(p)
    \/ CloserStep(Closer)
    \/ \E t \in Transport : WorkerStep(t)
    \/ \E o \in Operation : LoopRuns(o)

\* Every thread that can take a step takes one in the end: the operating system
\* schedules them, and no wait is without a timeout.
MotionFairness ==
    /\ \A p \in Host : WF_motionVars(BridgeStep(p) \/ HostStep(p))
    /\ WF_motionVars(BridgeStep(Closer) \/ CloserStep(Closer))
    /\ \A t \in Transport : WF_motionVars(WorkerStep(t))
    /\ \A o \in Operation : WF_motionVars(LoopRuns(o))

MotionSpec == MotionInit /\ [][MotionNext]_motionVars /\ MotionFairness

-----------------------------------------------------------------------------
(* Properties                                                               *)

(* The variables of the session, its bridges and its threads keep their types. *)
MotionTypes ==
    /\ TransportTypes
    /\ session \in SessionState
    /\ bridge \in [Transport -> BridgeState]
    /\ thread \in [Thread -> ThreadState]
    /\ calls \in [Host -> Seq({"preflight", "apply_motion", "close"})]
    /\ late \in SUBSET Operation

Dead(t) == bridge[t].worker \in {"none", "ended"}

\* A close that reports its cleanup complete has ended the worker of the
\* composition it closed, and nothing starts it again.
CleanCloseEndsWorker ==
    session.report = "clean" =>
        \A t \in Transport : bridge[t].compositionClosed => Dead(t)

\* Every call of the session returns to its thread: a stuck provider, a stopped
\* loop or a lost task costs a timeout, never the thread.
EveryCallReturns == \A p \in Host : ~At(p, "idle") ~> At(p, "idle")

\* The close of a session "joins the worker thread": once it has reported its
\* cleanup complete, the session has no live worker.
JoinsTheWorker == session.report = "clean" => \A t \in Transport : Dead(t)

\* "A trigger finishing after close cannot publish success."
NoLateSuccess ==
    [][\A p \in Host :
          ~(At(p, "wait") /\ thread[p].task \in late
            /\ At(p, "publish")' /\ thread'[p].outcome = "idle")]_motionVars

=============================================================================
