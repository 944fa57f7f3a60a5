---------------------- MODULE VTubeStudioPyvtsTransport ----------------------
(***************************************************************************)
(* The VTube Studio transport (framework/vtube_studio_pyvts_transport.py). *)
(* preflight, trigger_hotkey and close are coroutines of one event loop:   *)
(* what a coroutine does between two awaits is one step, and any other     *)
(* coroutine may run while it awaits its provider client.  Every await of  *)
(* the client is bounded by a timeout, and the task that runs a coroutine  *)
(* may be cancelled from another thread at any await.                      *)
(*                                                                         *)
(* The lifecycle generation is advanced by close alone, in the step that   *)
(* sets closed, and an operation is reserved only while the transport is   *)
(* open: its generation has changed exactly when the transport is closed.  *)
(***************************************************************************)
EXTENDS Naturals

CONSTANTS
    Transport,      \* the transports
    Operation,      \* tasks that run a coroutine of a transport
    MaxClients      \* bound: provider clients created

ASSUME TransportAssumption == Transport # {} /\ MaxClients \in Nat

VARIABLES
    transport,      \* the state of each transport
    operation,      \* what each task runs, and how far it is
    created,        \* provider clients created so far, numbered from 1
    discarded       \* the clients whose close() was called

transportVars == <<transport, operation, created, discarded>>

NoClient == 0
Kind == {"preflight", "trigger", "close"}
Provider == {"connect", "authenticate", "inventory", "discard", "trigger"}
Awaiting == Provider \cup {"close"}
Result == {"none", "ready", "completed", "busy", "closed", "not_found", "timed_out",
           "unavailable", "failed", "authentication", "model", "cancelled"}

TransportState ==
    [closed : BOOLEAN, ready : BOOLEAN, active : BOOLEAN, client : Nat,
     connected : BOOLEAN, authenticated : BOOLEAN, inventory : BOOLEAN]

NewTransport ==
    [closed |-> FALSE, ready |-> FALSE, active |-> FALSE, client |-> NoClient,
     connected |-> FALSE, authenticated |-> FALSE, inventory |-> FALSE]

OperationState ==
    [kind : Kind, on : Transport,
     at : {"free", "scheduled", "done"} \cup Awaiting,
     client : Nat, result : Result, cancel : {"no", "cancelled", "abandoned"}]

\* A task that is not in use.
Free(o) == operation[o].at = "free"

\* A task that has been submitted and has not ended.
Live(o) == operation[o].at \in {"scheduled"} \cup Awaiting

NoTask == [kind |-> "close", on |-> CHOOSE t \in Transport : TRUE, at |-> "free",
           client |-> NoClient, result |-> "none", cancel |-> "no"]

TransportInit ==
    /\ transport = [t \in Transport |-> NewTransport]
    /\ operation = [o \in Operation |-> NoTask]
    /\ created = 0
    /\ discarded = {}

-----------------------------------------------------------------------------
(* How a coroutine goes on: it awaits the client again, or it ends.  A task *)
(* nobody waits for any more is gone when it ends.                          *)
Await(o, point) == operation' = [operation EXCEPT ![o].at = point]

Finish(o, r) ==
    operation' = [operation EXCEPT ![o] =
                     IF @.cancel = "abandoned" THEN NoTask
                     ELSE [@ EXCEPT !.at = "done", !.client = NoClient,
                                    !.result = r, !.cancel = "no"]]

\* A transport whose operations end without giving their reservation back.
ReleasedMutant(state) == state

\* The finally block of preflight and trigger_hotkey, with the state left so far.
Released(state) == [state EXCEPT !.active = FALSE]

\* _reset_runtime_state
Reset(state) ==
    [state EXCEPT !.ready = FALSE, !.connected = FALSE,
                  !.authenticated = FALSE, !.inventory = FALSE]

On(o) == transport[operation[o].on]
SetOn(o, state) == transport' = [transport EXCEPT ![operation[o].on] = state]

\* _generation_changed after an await: the late completion is suppressed.
Suppressed(o) ==
    /\ On(o).closed
    /\ SetOn(o, Released(On(o)))
    /\ Finish(o, "closed")
    /\ UNCHANGED <<created, discarded>>

\* _discard_failed_client, on the way to the result r.  A client that close()
\* has already detached is left to close().
DiscardFailedClient(o, state, r) ==
    /\ \/ /\ state.client = operation[o].client
          /\ SetOn(o, [state EXCEPT !.client = NoClient])
          /\ discarded' = discarded \cup {state.client}
          /\ operation' = [operation EXCEPT ![o].at = "discard", ![o].result = r]
       \/ /\ state.client # operation[o].client
          /\ SetOn(o, Released(Reset(state)))
          /\ Finish(o, r)
          /\ UNCHANGED discarded
    /\ UNCHANGED created

-----------------------------------------------------------------------------
(* preflight()                                                              *)
StartPreflight(o) ==
    LET state == On(o) IN
    /\ operation[o].at = "scheduled" /\ operation[o].kind = "preflight"
    /\ \/ /\ state.closed
          /\ Finish(o, "closed") /\ UNCHANGED <<transport, created, discarded>>
       \/ /\ ~state.closed /\ state.ready /\ state.client # NoClient
          /\ Finish(o, "ready") /\ UNCHANGED <<transport, created, discarded>>
       \/ /\ ~state.closed /\ ~(state.ready /\ state.client # NoClient) /\ state.active
          /\ Finish(o, "busy") /\ UNCHANGED <<transport, created, discarded>>
       \/ /\ ~state.closed /\ ~(state.ready /\ state.client # NoClient) /\ ~state.active
          /\ \/ Finish(o, "unavailable") /\ UNCHANGED <<transport, created, discarded>>
             \/ /\ created < MaxClients
                /\ created' = created + 1
                /\ SetOn(o, [state EXCEPT !.active = TRUE, !.client = created + 1])
                /\ operation' = [operation EXCEPT ![o].at = "connect",
                                                  ![o].client = created + 1]
                /\ UNCHANGED discarded

ConnectReturns(o) ==
    LET state == On(o)
        connected == [state EXCEPT !.connected = TRUE] IN
    /\ operation[o].at = "connect"
    /\ \/ \E r \in {"timed_out", "unavailable"} : DiscardFailedClient(o, state, r)
       \/ Suppressed(o)
       \/ /\ ~state.closed
          /\ \/ DiscardFailedClient(o, connected, "authentication")
             \/ /\ SetOn(o, connected) /\ Await(o, "authenticate")
                /\ UNCHANGED <<created, discarded>>

AuthenticateReturns(o) ==
    LET state == On(o)
        authenticated == [state EXCEPT !.authenticated = TRUE] IN
    /\ operation[o].at = "authenticate"
    /\ \/ DiscardFailedClient(o, state, "authentication")
       \/ Suppressed(o)
       \/ /\ ~state.closed
          /\ \/ DiscardFailedClient(o, authenticated, "failed")
             \/ /\ SetOn(o, authenticated) /\ Await(o, "inventory")
                /\ UNCHANGED <<created, discarded>>

\* A transport that becomes ready without looking at its generation first.
InventoryReturnsMutant(o) ==
    /\ operation[o].at = "inventory"
    /\ SetOn(o, Released([On(o) EXCEPT !.inventory = TRUE, !.ready = TRUE]))
    /\ Finish(o, "ready")
    /\ UNCHANGED <<created, discarded>>

InventoryReturns(o) ==
    LET state == On(o) IN
    /\ operation[o].at = "inventory"
    /\ \/ \E r \in {"timed_out", "failed"} : DiscardFailedClient(o, state, r)
       \/ Suppressed(o)
       \/ /\ ~state.closed
          /\ \/ DiscardFailedClient(o, state, "model")
             \/ /\ SetOn(o, Released([state EXCEPT !.inventory = TRUE, !.ready = TRUE]))
                /\ Finish(o, "ready")
                /\ UNCHANGED <<created, discarded>>

DiscardReturns(o) ==
    /\ operation[o].at = "discard"
    /\ SetOn(o, Released(Reset(On(o))))
    /\ Finish(o, operation[o].result)
    /\ UNCHANGED <<created, discarded>>

-----------------------------------------------------------------------------
(* trigger_hotkey()                                                         *)
StartTrigger(o) ==
    LET state == On(o) IN
    /\ operation[o].at = "scheduled" /\ operation[o].kind = "trigger"
    /\ \/ /\ state.closed
          /\ Finish(o, "closed") /\ UNCHANGED transport
       \/ /\ ~state.closed /\ (~state.ready \/ state.client = NoClient)
          /\ Finish(o, "unavailable") /\ UNCHANGED transport
       \/ /\ ~state.closed /\ state.ready /\ state.client # NoClient
          /\ \/ state.active /\ Finish(o, "busy") /\ UNCHANGED transport
             \/ /\ ~state.active
                /\ \/ \E r \in {"not_found", "failed"} : Finish(o, r) /\ UNCHANGED transport
                   \/ /\ SetOn(o, [state EXCEPT !.active = TRUE])
                      /\ operation' = [operation EXCEPT ![o].at = "trigger",
                                                        ![o].client = state.client]
    /\ UNCHANGED <<created, discarded>>

\* A trigger that does not look at its generation again.
TriggerReturnsMutant(o) ==
    /\ operation[o].at = "trigger"
    /\ \E r \in {"timed_out", "failed", "completed"} : Finish(o, r)
    /\ SetOn(o, Released(On(o))) /\ UNCHANGED <<created, discarded>>

TriggerReturns(o) ==
    /\ operation[o].at = "trigger"
    /\ \/ /\ \E r \in {"timed_out", "failed"} : Finish(o, r)
          /\ SetOn(o, Released(On(o))) /\ UNCHANGED <<created, discarded>>
       \/ Suppressed(o)
       \/ /\ ~On(o).closed
          /\ SetOn(o, Released(On(o))) /\ Finish(o, "completed")
          /\ UNCHANGED <<created, discarded>>

-----------------------------------------------------------------------------
(* close()                                                                  *)
StartClose(o) ==
    LET state == On(o)
        detached == [state EXCEPT !.closed = TRUE, !.ready = FALSE,
                                  !.inventory = FALSE, !.client = NoClient] IN
    /\ operation[o].at = "scheduled" /\ operation[o].kind = "close"
    /\ \/ /\ state.closed
          /\ Finish(o, "completed") /\ UNCHANGED <<transport, discarded>>
       \/ /\ ~state.closed /\ state.client = NoClient
          /\ SetOn(o, [detached EXCEPT !.connected = FALSE, !.authenticated = FALSE])
          /\ Finish(o, "completed")
          /\ UNCHANGED discarded
       \/ /\ ~state.closed /\ state.client # NoClient
          /\ SetOn(o, detached)
          /\ discarded' = discarded \cup {state.client}
          /\ Await(o, "close")
    /\ UNCHANGED created

CloseReturns(o) ==
    /\ operation[o].at = "close"
    /\ SetOn(o, [On(o) EXCEPT !.connected = FALSE, !.authenticated = FALSE])
    /\ \E r \in {"completed", "timed_out", "failed"} : Finish(o, r)
    /\ UNCHANGED <<created, discarded>>

-----------------------------------------------------------------------------
(* A cancelled task gets CancelledError at its await, or before its first   *)
(* step.  No except clause catches it; the finally blocks run.              *)
Cancelled(o) ==
    /\ operation[o].cancel # "no"
    /\ Live(o)
    /\ IF operation[o].at \in Provider THEN SetOn(o, Released(On(o))) ELSE UNCHANGED transport
    /\ Finish(o, "cancelled")
    /\ UNCHANGED <<created, discarded>>

LoopStep(o) ==
    \/ StartPreflight(o) \/ ConnectReturns(o) \/ AuthenticateReturns(o)
    \/ InventoryReturns(o) \/ DiscardReturns(o)
    \/ StartTrigger(o) \/ TriggerReturns(o)
    \/ StartClose(o) \/ CloseReturns(o)
    \/ Cancelled(o)

(* What the bridge does with a task from its own threads.                   *)
Submit(o, t, kind) ==
    /\ Free(o)
    /\ operation' = [operation EXCEPT ![o] = [kind |-> kind, on |-> t, at |-> "scheduled",
                                              client |-> NoClient, result |-> "none",
                                              cancel |-> "no"]]
    /\ UNCHANGED <<transport, created, discarded>>

Take(o) ==
    /\ operation[o].at = "done"
    /\ operation' = [operation EXCEPT ![o] = NoTask]
    /\ UNCHANGED <<transport, created, discarded>>

\* future.cancel() after the bridge's own timeout: nobody takes the result.
Abandon(o) ==
    /\ Live(o)
    /\ operation' = [operation EXCEPT ![o].cancel = "abandoned"]
    /\ UNCHANGED <<transport, created, discarded>>

\* task.cancel() of every task of the transport's loop.
CancelAll(t) ==
    /\ operation' = [o \in Operation |->
                        IF Live(o) /\ operation[o].on = t /\ operation[o].cancel = "no"
                        THEN [operation[o] EXCEPT !.cancel = "cancelled"]
                        ELSE operation[o]]
    /\ UNCHANGED <<transport, created, discarded>>

TransportNext ==
    \/ \E o \in Operation : LoopStep(o) \/ Take(o) \/ Abandon(o)
    \/ \E o \in Operation, t \in Transport, kind \in Kind : Submit(o, t, kind)
    \/ \E t \in Transport : CancelAll(t)

TransportSpec == TransportInit /\ [][TransportNext]_transportVars

-----------------------------------------------------------------------------
(* Properties                                                               *)

(* The variables keep their types, and the clients their bound.             *)
TransportTypes ==
    /\ transport \in [Transport -> TransportState]
    /\ operation \in [Operation -> OperationState]
    /\ created \in 0..MaxClients
    /\ discarded \in SUBSET Nat

\* The task o holds the single-flight reservation of t.
Holds(o, t) == operation[o].at \in Provider /\ operation[o].on = t

\* One preflight or trigger at a time talks to a transport's provider, and the
\* reservation flag is set exactly while one does: neither a failed stage, nor
\* a timeout, nor a cancelled task leaves the transport busy for ever, and none
\* gives the reservation of another task away.
SingleFlight ==
    \A t \in Transport :
        /\ transport[t].active <=> \E o \in Operation : Holds(o, t)
        /\ \A o, p \in Operation : Holds(o, t) /\ Holds(p, t) => o = p

\* A transport that answers READY without reconnecting really is connected,
\* authenticated and has its inventory, over a client nobody has closed.
ReadyMeansUsable ==
    \A t \in Transport : transport[t].ready =>
        /\ ~transport[t].closed
        /\ transport[t].client \in (1..created) \ discarded
        /\ transport[t].connected /\ transport[t].authenticated /\ transport[t].inventory

\* Late-completion suppression: no preflight becomes READY and no trigger
\* COMPLETED once close has marked its transport closed, however far it was.
LateCompletionSuppressed ==
    [][\A o \in Operation :
          /\ operation[o].kind # "close" /\ operation[o].at # "done"
          /\ operation'[o].at = "done" /\ operation'[o].result \in {"ready", "completed"}
          => ~transport[operation[o].on].closed]_transportVars
=============================================================================
