--------------------------- MODULE RealtimeEventHub ----------------------------
(***************************************************************************)
(* framework/realtime_event_hub.py: sequence allocation, bounded history,  *)
(* backpressure admission and serialized callback delivery of one session. *)
(*                                                                         *)
(* Several threads use the hub.  What a method does under the hub lock is  *)
(* one step; _drain_deliveries takes one step for each lock region and one *)
(* for each callback it enters and leaves.  A callback is a thread that    *)
(* uses the hub again: while it runs it may emit, subscribe, unsubscribe,  *)
(* pause, resume and close.                                                *)
(***************************************************************************)
EXTENDS Naturals, Sequences, FiniteSets
LOCAL INSTANCE SequencesExt

CONSTANTS
    Thread,
    Canonical,         \* subscribe(callback)
    Legacy,            \* subscribe(callback, legacy=True)
    HistoryLimit,      \* history_limit
    PendingLimit,      \* delivery_pending_limit
    MaxEvents,         \* bound: events accepted
    MaxRejections,     \* bound: emissions refused by backpressure
    Hosts              \* bound: what the host application does with the hub

\* threads that use the hub, those whose callbacks may raise a BaseException,
\* the callbacks it registers and the boundaries it pauses and resumes.
HostKind ==
    [threads : SUBSET Thread, interruptible : SUBSET Thread,
     subscribers : SUBSET (Canonical \cup Legacy),
     controllable : SUBSET {"subscriber", "delta"}, refusals : 0 .. MaxRejections]

ASSUME HubAssumption ==
    /\ HistoryLimit \in Nat \ {0, 1}
    /\ PendingLimit \in Nat \ {0}
    /\ MaxEvents \in Nat /\ MaxRejections \in Nat
    /\ Hosts \subseteq HostKind

VARIABLES
    host,              \* the host application, one of Hosts
    closed,            \* _closed
    callbacks,         \* _callbacks, in registration order
    legacyCallbacks,   \* _legacy_callbacks, in registration order
    history,           \* _history: the sequence numbers it retains
    dropped,           \* _history_overflow_count
    pending,           \* _pending: the deliveries nobody has taken yet
    boundary,          \* the event_subscriber and response_delta runtimes
    nextSequence,      \* _next_sequence
    dispatching,       \* _dispatching
    rejections,        \* _delivery_backpressure_rejection_count
    pc,                \* where each thread is in _drain_deliveries
    delivery,          \* the delivery each thread has taken
    accepted,          \* history variable: the audience of every accepted event
    calls              \* history variable: the callbacks entered, in order

registry == <<closed, callbacks, legacyCallbacks>>
log      == <<history, dropped, nextSequence, accepted>>
vars     == <<host, registry, log, pending, boundary, dispatching, rejections, pc, delivery, calls>>

Event == 1 .. MaxEvents

Subscribers ==
    INSTANCE BackpressureRuntime
      WITH Item <- Event, MaxPending <- PendingLimit, MaxInFlight <- 1,
           MaxOverflows <- MaxRejections, runtime <- boundary.subscriber

Deltas ==
    INSTANCE BackpressureRuntime
      WITH Item <- Event, MaxPending <- PendingLimit, MaxInFlight <- 1,
           MaxOverflows <- MaxRejections, runtime <- boundary.delta

NoDelivery == [event |-> 0, audience |-> <<>>, delta |-> FALSE, raised |-> FALSE]

Init ==
    /\ host \in Hosts
    /\ closed = FALSE
    /\ callbacks = <<>> /\ legacyCallbacks = <<>>
    /\ history = <<>> /\ dropped = 0 /\ nextSequence = 1
    /\ pending = <<>> /\ dispatching = FALSE /\ rejections = 0
    /\ boundary = [subscriber |-> Subscribers!Empty, delta |-> Deltas!Empty]
    /\ pc = [t \in Thread |-> "outside"]
    /\ delivery = [t \in Thread |-> NoDelivery]
    /\ accepted = <<>> /\ calls = <<>>

(* Host code runs in a thread that is outside the hub or in a callback.      *)
InHostCode(t) == t \in host.threads /\ pc[t] \in {"outside", "in_callback"}

-----------------------------------------------------------------------------
(* emit.                                                                    *)

(* _admit_delivery_locked: both boundaries own the event or none does.       *)
AdmitDelivery(owners, event, delta) ==
    LET subscriber == Subscribers!Admitted(owners.subscriber, event, FALSE)
        deltas     == Deltas!Admitted(owners.delta, event, FALSE)
    IN  IF ~delta \/ ~Subscribers!IsPending(subscriber, event)
          THEN [owners EXCEPT !.subscriber = subscriber]
        ELSE IF Deltas!IsPending(deltas, event)
          THEN [subscriber |-> subscriber, delta |-> deltas]
        ELSE [subscriber |-> Subscribers!Withdrawn(subscriber, event), delta |-> deltas]

Admits(owners, event) == Subscribers!IsPending(owners.subscriber, event)

(* The admission of one event, and of the overflow event that announces      *)
(* what it pushes out of the history: a refusal withdraws the first one.     *)
AdmitAllForgetsFirstMutant(event, delta, announced) ==
    LET one == AdmitDelivery(boundary, event, delta)
    IN  IF ~announced \/ ~Admits(one, event) THEN one
        ELSE AdmitDelivery(one, event + 1, FALSE)

AdmitAll(event, delta, announced) ==
    LET one == AdmitDelivery(boundary, event, delta)
        two == AdmitDelivery(one, event + 1, FALSE)
    IN  IF ~announced \/ ~Admits(one, event) THEN one
        ELSE IF Admits(two, event + 1) THEN two
        ELSE [subscriber |-> Subscribers!Withdrawn(two.subscriber, event),
              delta |-> Deltas!Withdrawn(two.delta, event)]

(* _delivery_locked: the callbacks registered when the event is accepted.    *)
Audience(projected) == callbacks \o (IF projected THEN legacyCallbacks ELSE <<>>)

DropOneMutant(announcing) ==
    IF Len(history) < HistoryLimit THEN 0 ELSE Len(history) + 1 - HistoryLimit

(* How much of the history has to make room.                                 *)
DropCount(announcing) ==
    IF Len(history) < HistoryLimit THEN 0
    ELSE Len(history) + (IF announcing THEN 2 ELSE 1) - HistoryLimit

(* Fault: whoever emits delivers, even while another thread is dispatching.  *)
DispatchersMutant(t) == {t}

(* The emitting thread becomes the dispatcher unless there is one.           *)
Dispatchers(t) == IF dispatching THEN {} ELSE {t}

Accept(t, events, delta, projected, dropCount) ==
    LET deliveries == [i \in 1 .. events |->
                         [NoDelivery EXCEPT !.event = nextSequence + i - 1,
                                            !.audience = Audience(projected),
                                            !.delta = delta /\ i = 1]]
        retained == history \o [i \in 1 .. events |-> nextSequence + i - 1]
    IN  /\ nextSequence' = nextSequence + events
        /\ history' = SubSeq(retained, dropCount + 1, Len(retained))
        /\ dropped' = dropped + dropCount
        /\ pending' = pending \o deliveries
        /\ accepted' = accepted \o [i \in 1 .. events |-> Audience(projected)]
        /\ dispatching' = TRUE
        /\ pc' = [u \in Thread |-> IF u \in Dispatchers(t) THEN "drain" ELSE pc[u]]
        /\ UNCHANGED rejections

Emit(t, delta, projected, announcing) ==
    LET dropCount == DropCount(announcing)
        announced == announcing /\ Len(history) >= HistoryLimit
        events    == IF announced THEN 2 ELSE 1
        owners    == AdmitAll(nextSequence, delta, announced)
    IN  /\ InHostCode(t) /\ ~closed
        /\ nextSequence + events - 1 <= MaxEvents
        /\ boundary' = owners
        /\ \/ /\ Admits(owners, nextSequence)
              /\ Accept(t, events, delta, projected, dropCount)
           \/ /\ ~Admits(owners, nextSequence)          \* EventHubBackpressureError
              /\ rejections < host.refusals
              /\ rejections' = rejections + 1
              /\ UNCHANGED <<log, pending, dispatching, pc>>
        /\ UNCHANGED <<registry, delivery, calls>>

-----------------------------------------------------------------------------
(* subscribe, unsubscribe, close, pause_backpressure, resume_backpressure.    *)

Subscribe(t) ==
    /\ InHostCode(t) /\ ~closed
    /\ \/ \E s \in (host.subscribers \cap Canonical) \ Range(callbacks) :
             /\ callbacks' = Append(callbacks, s)
             /\ UNCHANGED legacyCallbacks
       \/ \E s \in (host.subscribers \cap Legacy) \ Range(legacyCallbacks) :
             /\ legacyCallbacks' = Append(legacyCallbacks, s)
             /\ UNCHANGED callbacks
    /\ UNCHANGED <<closed, log, pending, boundary, dispatching, rejections, pc, delivery, calls>>

(* The registrations in their order, without the one of a subscriber.        *)
Without(registered, s) ==
    LET i == CHOOSE n \in DOMAIN registered : registered[n] = s
    IN  IF \A n \in DOMAIN registered : registered[n] # s THEN registered
        ELSE SubSeq(registered, 1, i - 1) \o SubSeq(registered, i + 1, Len(registered))

Unsubscribe(t) ==
    /\ InHostCode(t)
    /\ \E s \in Range(callbacks) \cup Range(legacyCallbacks) :
          /\ callbacks' = Without(callbacks, s)
          /\ legacyCallbacks' = Without(legacyCallbacks, s)
    /\ UNCHANGED <<closed, log, pending, boundary, dispatching, rejections, pc, delivery, calls>>

CloseDiscardsMutant(t) ==
    /\ InHostCode(t) /\ ~closed
    /\ closed' = TRUE
    /\ callbacks' = <<>> /\ legacyCallbacks' = <<>>
    /\ boundary' = [boundary EXCEPT !.subscriber = Subscribers!Closed(@),
                                    !.delta = Deltas!Closed(@)]
    /\ pending' = <<>>
    /\ UNCHANGED <<log, dispatching, rejections, pc, delivery, calls>>

Close(t) ==
    /\ InHostCode(t) /\ ~closed
    /\ closed' = TRUE
    /\ callbacks' = <<>> /\ legacyCallbacks' = <<>>
    /\ boundary' = [boundary EXCEPT !.subscriber = Subscribers!Closed(@),
                                    !.delta = Deltas!Closed(@)]
    /\ UNCHANGED <<log, pending, dispatching, rejections, pc, delivery, calls>>

ControlBackpressure(t) ==
    /\ InHostCode(t)
    /\ \E name \in host.controllable :
          \/ boundary' = [boundary EXCEPT ![name] = Subscribers!Paused(@)]
          \/ boundary' = [boundary EXCEPT ![name] = Subscribers!Resumed(@)]
    /\ UNCHANGED <<registry, log, pending, dispatching, rejections, pc, delivery, calls>>

-----------------------------------------------------------------------------
(* _drain_deliveries, in the dispatching thread.                             *)

Goto(t, from, to) == pc[t] = from /\ pc' = [pc EXCEPT ![t] = to]

(* The deque is empty: dispatching ends in the same lock region.             *)
DrainEnd(t) ==
    /\ pending = <<>>
    /\ Goto(t, "drain", "outside")
    /\ dispatching' = FALSE
    /\ UNCHANGED <<registry, log, pending, boundary, rejections, delivery, calls>>

DrainTake(t) ==
    /\ pending # <<>>
    /\ Goto(t, "drain", "claim")
    /\ delivery' = [delivery EXCEPT ![t] = Head(pending)]
    /\ pending' = Tail(pending)
    /\ UNCHANGED <<registry, log, boundary, dispatching, rejections, calls>>

(* claim on the subscriber boundary.  A claim that finds nothing raises       *)
(* "claim drift" and leaves the thread out of the hub.                       *)
DrainClaim(t) ==
    LET owners == [boundary EXCEPT !.subscriber = Subscribers!Claimed(@, delivery[t].event)]
    IN  /\ boundary' = owners
        /\ Goto(t, "claim",
                CASE owners = boundary -> "drifted"
                  [] delivery[t].delta -> "claim_delta"
                  [] OTHER             -> "callbacks")
        /\ UNCHANGED <<registry, log, pending, dispatching, rejections, delivery, calls>>

DrainClaimDelta(t) ==
    LET owners  == [boundary EXCEPT !.delta = Deltas!Claimed(@, delivery[t].event)]
        undone  == [boundary EXCEPT !.subscriber = Subscribers!Completed(@, delivery[t].event)]
        drifted == owners = boundary
    IN  /\ boundary' = IF drifted THEN undone ELSE owners
        /\ Goto(t, "claim_delta", IF drifted THEN "drifted" ELSE "callbacks")
        /\ UNCHANGED <<registry, log, pending, dispatching, rejections, delivery, calls>>

CallSkipsMutant(t) ==
    /\ delivery[t].audience # <<>>
    /\ Goto(t, "callbacks", "in_callback")
    /\ calls' = Append(calls, <<delivery[t].event, Head(delivery[t].audience)>>)
    /\ delivery' = [delivery EXCEPT ![t].audience =
                       SelectSeq(Tail(@), LAMBDA s : s \in Range(callbacks \o legacyCallbacks))]
    /\ UNCHANGED <<registry, log, pending, boundary, dispatching, rejections>>

(* _deliver_callbacks calls the next callback of the audience ...            *)
Call(t) ==
    /\ delivery[t].audience # <<>>
    /\ Goto(t, "callbacks", "in_callback")
    /\ calls' = Append(calls, <<delivery[t].event, Head(delivery[t].audience)>>)
    /\ delivery' = [delivery EXCEPT ![t].audience = Tail(@)]
    /\ UNCHANGED <<registry, log, pending, boundary, dispatching, rejections>>

(* ... which returns or raises an Exception, which is counted only ...       *)
Return(t) ==
    /\ Goto(t, "in_callback", "callbacks")
    /\ UNCHANGED <<registry, log, pending, boundary, dispatching, rejections, delivery, calls>>

(* ... or raises a BaseException (KeyboardInterrupt, SystemExit), which      *)
(* passes the except Exception and leaves _drain_deliveries and emit.        *)
RaiseBaseException(t) ==
    /\ t \in host.interruptible
    /\ Goto(t, "in_callback", "complete")
    /\ delivery' = [delivery EXCEPT ![t].raised = TRUE]
    /\ UNCHANGED <<registry, log, pending, boundary, dispatching, rejections, calls>>

CallsDone(t) ==
    /\ delivery[t].audience = <<>>
    /\ Goto(t, "callbacks", "complete")
    /\ UNCHANGED <<registry, log, pending, boundary, dispatching, rejections, delivery, calls>>

AfterCompletion(t) == IF delivery[t].raised THEN "outside" ELSE "drain"

(* The finally clause gives the event back to both boundaries.               *)
Complete(t) ==
    /\ boundary' = [boundary EXCEPT !.subscriber = Subscribers!Completed(@, delivery[t].event)]
    /\ IF delivery[t].delta
         THEN Goto(t, "complete", "complete_delta") /\ UNCHANGED delivery
         ELSE /\ Goto(t, "complete", AfterCompletion(t))
              /\ delivery' = [delivery EXCEPT ![t] = NoDelivery]
    /\ UNCHANGED <<registry, log, pending, dispatching, rejections, calls>>

CompleteDelta(t) ==
    /\ boundary' = [boundary EXCEPT !.delta = Deltas!Completed(@, delivery[t].event)]
    /\ Goto(t, "complete_delta", AfterCompletion(t))
    /\ delivery' = [delivery EXCEPT ![t] = NoDelivery]
    /\ UNCHANGED <<registry, log, pending, dispatching, rejections, calls>>

-----------------------------------------------------------------------------
Drain(t) ==
    \/ DrainEnd(t) \/ DrainTake(t) \/ DrainClaim(t) \/ DrainClaimDelta(t)
    \/ Call(t) \/ CallsDone(t) \/ Complete(t) \/ CompleteDelta(t)

Host(t) ==
    \/ \E delta, projected, announcing \in BOOLEAN : Emit(t, delta, projected, announcing)
    \/ Subscribe(t) \/ Unsubscribe(t) \/ Close(t) \/ ControlBackpressure(t)

Next ==
    /\ \E t \in Thread : Host(t) \/ Drain(t) \/ Return(t) \/ RaiseBaseException(t)
    /\ UNCHANGED host

Spec == Init /\ [][Next]_vars

(* The dispatching thread keeps running and host callbacks return; nothing   *)
(* is assumed of the host's own calls.                                       *)
FairSpec ==
    Spec /\ \A t \in Thread :
               /\ WF_vars(Drain(t) /\ UNCHANGED host)
               /\ WF_vars(Return(t) /\ UNCHANGED host)

-----------------------------------------------------------------------------
Delivery == [event : {0} \cup Event, audience : Seq(Canonical \cup Legacy),
             delta : BOOLEAN, raised : BOOLEAN]

(* The types of the hub's state.                                             *)
TypeInvariant ==
    /\ closed \in BOOLEAN /\ dispatching \in BOOLEAN
    /\ callbacks \in Seq(Canonical) /\ legacyCallbacks \in Seq(Legacy)
    /\ history \in Seq(Event)
    /\ pending \in Seq(Delivery)
    /\ Subscribers!RuntimeTypes /\ Deltas!RuntimeTypes
    /\ nextSequence \in Nat /\ dropped \in Nat /\ rejections \in Nat
    /\ pc \in [Thread -> {"outside", "drain", "claim", "claim_delta", "callbacks",
                          "in_callback", "complete", "complete_delta", "drifted"}]
    /\ delivery \in [Thread -> Delivery]

(* Deliveries in the order of the queue: taken ones before pending ones.     *)
Taken == {delivery[t] : t \in {u \in Thread : delivery[u] # NoDelivery}}
Undelivered == Taken \cup {pending[i] : i \in DOMAIN pending}

(* The boundaries own exactly the accepted events that are not delivered yet: *)
(* a refused emission, of one event or of an event and its overflow event,    *)
(* leaves nothing behind, and a delivered event gives its capacity back.     *)
BoundariesOwnTheQueue ==
    /\ Subscribers!Owned(boundary.subscriber) =
          {d.event : d \in {e \in Undelivered :
                              \A t \in Thread : pc[t] = "complete_delta" => delivery[t] # e}}
    /\ Deltas!Owned(boundary.delta) = {d.event : d \in {e \in Undelivered : e.delta}}

(* "history overflow silent: False": the bounded history is the contiguous    *)
(* tail of the allocated sequence numbers, overflow events included, and the  *)
(* overflow count is all that precedes it.                                   *)
HistoryIsTheTail ==
    /\ Len(history) <= HistoryLimit
    /\ dropped + Len(history) = nextSequence - 1
    /\ \A i \in DOMAIN history : history[i] = dropped + i

(* Only the thread that set _dispatching is in _drain_deliveries, and claims   *)
(* never miss: the RuntimeError "claim drift" of the code is unreachable.     *)
OneDispatcher ==
    /\ Cardinality({t \in Thread : pc[t] # "outside"}) <= 1
    /\ ~dispatching => \A t \in Thread : pc[t] = "outside"
    /\ \A t \in Thread : pc[t] # "drifted"

Broadcast == INSTANCE OrderedBroadcast WITH Subscriber <- Canonical \cup Legacy

(* "serialized callback delivery": the callbacks are called as the ordered     *)
(* broadcast prescribes, for the audience fixed when the event was accepted,  *)
(* whoever emits, unsubscribes or closes in the meantime.                     *)
DeliversInOrder == Broadcast!Spec

(* "Already accepted pending delivery: allowed to drain": every accepted       *)
(* event is delivered to its whole audience, unless a callback ends a          *)
(* dispatching thread with a BaseException.                                  *)
EveryEventIsDelivered ==
    host.interruptible = {} => []<>(\A event \in DOMAIN accepted : Broadcast!Told(event))
=============================================================================
