------------------------ MODULE RealtimeEventHubProofs ------------------------
(***************************************************************************)
(* What framework/realtime_event_hub.py keeps under its lock, for every    *)
(* number of threads, subscribers and events and every limit: the history  *)
(* is the tail of what was accepted, and one thread at a time dispatches.  *)
(***************************************************************************)
EXTENDS RealtimeEventHub, SequenceTheorems, FiniteSetTheorems, TLAPS

-----------------------------------------------------------------------------
(* The history.                                                             *)

HistoryInvariant ==
    /\ history \in Seq(Nat)
    /\ dropped \in Nat /\ nextSequence \in Nat
    /\ HistoryIsTheTail

(* How many events an emission appends: its own and the overflow event.      *)
Appended(announcing) == IF announcing /\ Len(history) >= HistoryLimit THEN 2 ELSE 1

(* Room is made for what is appended, and only where there is none.          *)
LEMMA RoomIsMade ==
    ASSUME HistoryInvariant, NEW announcing \in BOOLEAN
    PROVE  /\ Appended(announcing) \in {1, 2}
           /\ DropCount(announcing) \in 0 .. Len(history)
           /\ Len(history) + Appended(announcing) - DropCount(announcing) <= HistoryLimit
<1>1. Len(history) \in Nat /\ HistoryLimit \in Nat \ {0, 1} /\ Len(history) <= HistoryLimit
  BY HubAssumption, LenProperties DEF HistoryInvariant, HistoryIsTheTail
<1>2. QED
  BY <1>1 DEF Appended, DropCount

(* A contiguous tail, continued and cut at its front, is one.                *)
LEMMA AcceptKeepsTail ==
    ASSUME HistoryInvariant, NEW t, NEW delta, NEW projected, NEW events \in {1, 2},
           NEW dropCount \in 0 .. Len(history),
           Len(history) + events - dropCount <= HistoryLimit,
           Accept(t, events, delta, projected, dropCount)
    PROVE  HistoryInvariant'
<1> DEFINE new == [i \in 1 .. events |-> nextSequence + i - 1]
           retained == history \o new
<1>1. /\ history \in Seq(Nat) /\ dropped \in Nat /\ nextSequence \in Nat
      /\ Len(history) \in Nat
      /\ dropped + Len(history) = nextSequence - 1
      /\ \A i \in 1 .. Len(history) : history[i] = dropped + i
  BY LenProperties DEF HistoryInvariant, HistoryIsTheTail
<1>2. nextSequence = dropped + Len(history) + 1 /\ nextSequence >= 1
  BY <1>1
<1>3. new \in Seq(Nat) /\ Len(new) = events
  <2>1. new \in [1 .. events -> Nat]
    BY <1>1, <1>2
  <2>2. QED
    BY <2>1, SeqDef, LenProperties
<1>4. /\ retained \in Seq(Nat) /\ Len(retained) = Len(history) + events
      /\ \A i \in 1 .. Len(retained) : retained[i] = dropped + i
  <2>1. retained \in Seq(Nat) /\ Len(retained) = Len(history) + events
    BY <1>1, <1>3, ConcatProperties
  <2>2. ASSUME NEW i \in 1 .. Len(retained) PROVE retained[i] = dropped + i
    <3>1. CASE i <= Len(history)
      <4>1. retained[i] = history[i]
        BY <1>1, <1>3, <2>1, <3>1, ConcatProperties
      <4>2. QED
        BY <1>1, <2>1, <3>1, <4>1
    <3>2. CASE i > Len(history)
      <4>1. retained[i] = new[i - Len(history)] /\ i - Len(history) \in 1 .. events
        BY <1>1, <1>3, <2>1, <3>2, ConcatProperties
      <4>2. new[i - Len(history)] = nextSequence + (i - Len(history)) - 1
        BY <4>1
      <4> HIDE DEF new, retained
      <4>3. retained[i] = nextSequence + (i - Len(history)) - 1
        BY <4>1, <4>2
      <4>4. i \in Int
        BY <2>1
      <4>5. QED
        BY <1>1, <1>2, <4>3, <4>4
    <3>3. QED
      BY <1>1, <2>1, <3>1, <3>2
  <2>3. QED
    BY <2>1, <2>2
<1>5. /\ history' = SubSeq(retained, dropCount + 1, Len(retained))
      /\ dropped' = dropped + dropCount /\ nextSequence' = nextSequence + events
  BY DEF Accept
<1> HIDE DEF retained, new
<1>6. /\ history' \in Seq(Nat) /\ Len(history') = Len(history) + events - dropCount
      /\ \A i \in 1 .. Len(history') : history'[i] = retained[dropCount + i]
  <2>1. dropCount + 1 \in 1 .. Len(retained) + 1 /\ Len(retained) \in 0 .. Len(retained)
    BY <1>1, <1>4
  <2>2. QED
    BY <1>1, <1>4, <1>5, <2>1, SubSeqProperties
<1>7. DOMAIN history' = 1 .. Len(history')
  BY <1>6, LenProperties
<1>8. \A i \in 1 .. Len(history') : history'[i] = dropped' + i
  BY <1>1, <1>4, <1>5, <1>6
<1>9. /\ dropped' \in Nat /\ nextSequence' \in Nat
      /\ dropped' + Len(history') = nextSequence' - 1
      /\ Len(history') <= HistoryLimit
  <2>1. dropCount \in Nat /\ events \in Nat
    BY <1>1
  <2>2. dropped' \in Nat /\ nextSequence' \in Nat
    BY <1>1, <1>5, <2>1
  <2>3. dropped' + Len(history') = dropped + Len(history) + events
    <3> DEFINE kept == Len(history') before == Len(history)
    <3>1. before \in Nat /\ kept = before + events - dropCount
      BY <1>1, <1>6
    <3> HIDE DEF kept, before
    <3>2. dropped' + kept = dropped + before + events
      BY <1>1, <1>5, <2>1, <3>1
    <3>3. QED
      BY <3>2 DEF kept, before
  <2>6. nextSequence' - 1 = dropped + Len(history) + events
    BY <1>1, <1>2, <1>5, <2>1
  <2>4. Len(history') <= HistoryLimit
    BY <1>6
  <2>5. QED
    BY <2>2, <2>3, <2>4, <2>6
<1>10. QED
  BY <1>6, <1>7, <1>8, <1>9 DEF HistoryInvariant, HistoryIsTheTail

LEMMA HistoryStep == HistoryInvariant /\ [Next]_vars => HistoryInvariant'
<1> SUFFICES ASSUME HistoryInvariant, [Next]_vars
             PROVE  HistoryInvariant'
  OBVIOUS
<1>1. ASSUME UNCHANGED log
      PROVE  HistoryInvariant'
  BY <1>1 DEF log, HistoryInvariant, HistoryIsTheTail
<1>2. ASSUME NEW t \in Thread, NEW delta \in BOOLEAN, NEW projected \in BOOLEAN,
             NEW announcing \in BOOLEAN, Emit(t, delta, projected, announcing)
      PROVE  HistoryInvariant'
  <2>1. \/ UNCHANGED log
        \/ Accept(t, Appended(announcing), delta, projected, DropCount(announcing))
    BY <1>2 DEF Emit, Appended
  <2>2. QED
    BY <1>1, <2>1, RoomIsMade, AcceptKeepsTail
<1>3. ASSUME NEW t \in Thread,
             Subscribe(t) \/ Unsubscribe(t) \/ Close(t) \/ ControlBackpressure(t)
      PROVE  UNCHANGED log
  BY <1>3 DEF Subscribe, Unsubscribe, Close, ControlBackpressure
<1>4. ASSUME NEW t \in Thread, Drain(t) \/ Return(t) \/ RaiseBaseException(t)
      PROVE  UNCHANGED log
  BY <1>4 DEF Drain, DrainEnd, DrainTake, DrainClaim, DrainClaimDelta, Call, CallsDone, Complete,
              CompleteDelta, Return, RaiseBaseException
<1>5. CASE UNCHANGED vars
  BY <1>1, <1>5 DEF vars
<1>6. QED
  BY <1>1, <1>2, <1>3, <1>4, <1>5 DEF Next, Host

(* "history overflow silent: False": the bounded history is the contiguous    *)
(* tail of the allocated sequence numbers, overflow events included, and the  *)
(* overflow count is all that precedes it.                                   *)
THEOREM HistoryStaysTheTail == Spec => []HistoryIsTheTail
<1>1. Init => HistoryInvariant
  <2> SUFFICES ASSUME Init PROVE HistoryInvariant
    OBVIOUS
  <2>1. history = <<>> /\ dropped = 0 /\ nextSequence = 1
    BY DEF Init
  <2>2. history \in Seq(Nat) /\ Len(history) = 0 /\ DOMAIN history = {}
    BY <2>1
  <2>3. QED
    BY <2>1, <2>2, HubAssumption DEF HistoryInvariant, HistoryIsTheTail
<1>2. HistoryInvariant => HistoryIsTheTail
  BY DEF HistoryInvariant
<1>3. QED
  BY <1>1, <1>2, HistoryStep, PTL DEF Spec

-----------------------------------------------------------------------------
(* The dispatcher.                                                          *)

(* The thread in _drain_deliveries is the one that set _dispatching, and the  *)
(* flag is down only when no thread is there.                                *)
SerializedDispatch ==
    /\ \A t, u \in Thread : pc[t] # "outside" /\ pc[u] # "outside" => t = u
    /\ ~dispatching => \A t \in Thread : pc[t] = "outside"

DispatchInvariant == DOMAIN pc = Thread /\ SerializedDispatch

(* An emission makes its thread the dispatcher only when there is none.       *)
LEMMA EmitKeepsDispatcher ==
    ASSUME DispatchInvariant, NEW t \in Thread, NEW events, NEW delta, NEW projected,
           NEW dropCount, Accept(t, events, delta, projected, dropCount)
    PROVE  DispatchInvariant'
<1>1. /\ dispatching'
      /\ pc' = [u \in Thread |-> IF u \in Dispatchers(t) THEN "drain" ELSE pc[u]]
  BY DEF Accept
<1>2. \A u, v \in Thread : pc'[u] # "outside" /\ pc'[v] # "outside" => u = v
  BY <1>1 DEF DispatchInvariant, SerializedDispatch, Dispatchers
<1>3. QED
  BY <1>1, <1>2 DEF DispatchInvariant, SerializedDispatch

(* The dispatcher's own steps let nobody else in.                            *)
LEMMA DispatcherGoesOn ==
    ASSUME DispatchInvariant, NEW t \in Thread, NEW from, NEW to, from # "outside",
           Goto(t, from, to), dispatching' = dispatching \/ to = "outside"
    PROVE  DispatchInvariant'
<1>1. pc[t] # "outside" /\ pc' = [pc EXCEPT ![t] = to] /\ dispatching
  BY DEF Goto, DispatchInvariant, SerializedDispatch
<1>2. \A u \in Thread : u # t => pc'[u] = "outside"
  BY <1>1 DEF DispatchInvariant, SerializedDispatch
<1>3. QED
  BY <1>1, <1>2 DEF DispatchInvariant, SerializedDispatch

LEMMA DispatchStep == DispatchInvariant /\ [Next]_vars => DispatchInvariant'
<1> SUFFICES ASSUME DispatchInvariant, [Next]_vars
             PROVE  DispatchInvariant'
  OBVIOUS
<1>1. ASSUME UNCHANGED <<pc, dispatching>>
      PROVE  DispatchInvariant'
  BY <1>1 DEF DispatchInvariant, SerializedDispatch
<1>2. ASSUME NEW t \in Thread, NEW delta \in BOOLEAN, NEW projected \in BOOLEAN,
             NEW announcing \in BOOLEAN, Emit(t, delta, projected, announcing)
      PROVE  DispatchInvariant'
  <2>1. \/ UNCHANGED <<pc, dispatching>>
        \/ Accept(t, Appended(announcing), delta, projected, DropCount(announcing))
    BY <1>2 DEF Emit, Appended
  <2>2. QED
    BY <1>1, <2>1, EmitKeepsDispatcher
<1>3. ASSUME NEW t \in Thread,
             Subscribe(t) \/ Unsubscribe(t) \/ Close(t) \/ ControlBackpressure(t)
      PROVE  UNCHANGED <<pc, dispatching>>
  BY <1>3 DEF Subscribe, Unsubscribe, Close, ControlBackpressure
<1>4. ASSUME NEW t \in Thread, Drain(t)
      PROVE  DispatchInvariant'
  <2>1. CASE DrainEnd(t)
    BY <2>1, DispatcherGoesOn DEF DrainEnd
  <2>2. CASE DrainTake(t) \/ DrainClaim(t) \/ DrainClaimDelta(t)
    BY <2>2, DispatcherGoesOn DEF DrainTake, DrainClaim, DrainClaimDelta
  <2>3. CASE Call(t) \/ CallsDone(t)
    BY <2>3, DispatcherGoesOn DEF Call, CallsDone
  <2>4. CASE Complete(t) \/ CompleteDelta(t)
    BY <2>4, DispatcherGoesOn DEF Complete, CompleteDelta
  <2>5. QED
    BY <1>4, <2>1, <2>2, <2>3, <2>4 DEF Drain
<1>5. ASSUME NEW t \in Thread, Return(t) \/ RaiseBaseException(t)
      PROVE  DispatchInvariant'
  BY <1>5, DispatcherGoesOn DEF Return, RaiseBaseException
<1>6. CASE UNCHANGED vars
  BY <1>1, <1>6 DEF vars
<1>7. QED
  BY <1>1, <1>2, <1>3, <1>4, <1>5, <1>6 DEF Next, Host

(* "serialized callback delivery", its first half: however many threads emit  *)
(* and whatever their callbacks do, at most one of them is delivering.        *)
THEOREM DispatchIsSerialized == Spec => []SerializedDispatch
<1>1. Init => DispatchInvariant
  BY DEF Init, DispatchInvariant, SerializedDispatch
<1>2. DispatchInvariant => SerializedDispatch
  BY DEF DispatchInvariant
<1>3. QED
  BY <1>1, <1>2, DispatchStep, PTL DEF Spec

-----------------------------------------------------------------------------
(* The boundaries. Their operations are the backpressure runtime's, whose     *)
(* lemmas are used here.                                                     *)

Owner ==
    INSTANCE BackpressureRuntimeProofs
      WITH Item <- Event, MaxPending <- PendingLimit, MaxInFlight <- 1,
           MaxOverflows <- MaxRejections, runtime <- boundary.subscriber

Waiting(rt) == {rt.pending[i] : i \in DOMAIN rt.pending}

(* Both boundaries are runtimes of one kind.                                  *)
LEMMA SameOperations ==
    ASSUME NEW rt, NEW event
    PROVE  /\ Subscribers!IsPending(rt, event) <=> event \in Waiting(rt)
           /\ Deltas!IsPending(rt, event) <=> event \in Waiting(rt)
           /\ Owner!IsPending(rt, event) <=> event \in Waiting(rt)
           /\ Subscribers!Admitted(rt, event, FALSE) = Owner!Admitted(rt, event, FALSE)
           /\ Deltas!Admitted(rt, event, FALSE) = Owner!Admitted(rt, event, FALSE)
           /\ Subscribers!Withdrawn(rt, event) = Owner!Withdrawn(rt, event)
           /\ Deltas!Withdrawn(rt, event) = Owner!Withdrawn(rt, event)
           /\ Subscribers!Claimed(rt, event) = Owner!Claimed(rt, event)
           /\ Deltas!Claimed(rt, event) = Owner!Claimed(rt, event)
           /\ Subscribers!Completed(rt, event) = Owner!Completed(rt, event)
           /\ Deltas!Completed(rt, event) = Owner!Completed(rt, event)
<1>1. /\ Subscribers!IsPending(rt, event) <=> event \in Waiting(rt)
      /\ Deltas!IsPending(rt, event) <=> event \in Waiting(rt)
      /\ Owner!IsPending(rt, event) <=> event \in Waiting(rt)
  BY DEF Subscribers!IsPending, Deltas!IsPending, Owner!IsPending, Waiting
<1>2. /\ Subscribers!Without(rt.pending, event) = Owner!Without(rt.pending, event)
      /\ Deltas!Without(rt.pending, event) = Owner!Without(rt.pending, event)
  BY DEF Subscribers!Without, Deltas!Without, Owner!Without, Subscribers!SeqExt!RemoveAt,
         Deltas!SeqExt!RemoveAt, Owner!SeqExt!RemoveAt
<1>3. /\ Subscribers!Rejection(rt, FALSE) = Owner!Rejection(rt, FALSE)
      /\ Deltas!Rejection(rt, FALSE) = Owner!Rejection(rt, FALSE)
  BY DEF Subscribers!Rejection, Deltas!Rejection, Owner!Rejection, Subscribers!AtCapacity,
         Deltas!AtCapacity, Owner!AtCapacity
<1>4. /\ Subscribers!Admitted(rt, event, FALSE) = Owner!Admitted(rt, event, FALSE)
      /\ Deltas!Admitted(rt, event, FALSE) = Owner!Admitted(rt, event, FALSE)
  BY <1>3 DEF Subscribers!Admitted, Deltas!Admitted, Owner!Admitted
<1>5. /\ Subscribers!Withdrawn(rt, event) = Owner!Withdrawn(rt, event)
      /\ Deltas!Withdrawn(rt, event) = Owner!Withdrawn(rt, event)
  BY <1>1, <1>2 DEF Subscribers!Withdrawn, Deltas!Withdrawn, Owner!Withdrawn
<1>6. /\ Subscribers!Claimed(rt, event) = Owner!Claimed(rt, event)
      /\ Deltas!Claimed(rt, event) = Owner!Claimed(rt, event)
  <2>1. /\ Subscribers!Cardinality(rt.inFlight) = Owner!Cardinality(rt.inFlight)
        /\ Deltas!Cardinality(rt.inFlight) = Owner!Cardinality(rt.inFlight)
    BY DEF Subscribers!Cardinality, Deltas!Cardinality, Owner!Cardinality
  <2>2. QED
    BY <1>1, <1>2, <2>1 DEF Subscribers!Claimed, Deltas!Claimed, Owner!Claimed
<1>7. /\ Subscribers!Completed(rt, event) = Owner!Completed(rt, event)
      /\ Deltas!Completed(rt, event) = Owner!Completed(rt, event)
  BY DEF Subscribers!Completed, Deltas!Completed, Owner!Completed
<1>8. QED
  BY <1>1, <1>4, <1>5, <1>6, <1>7

(* Who holds an event: it waits in a boundary, or it is in flight.            *)
Holds(rt, event) == event \in Waiting(rt) \/ event \in rt.inFlight

(* An admission adds its event at most, a withdrawal takes its event only, a  *)
(* claim moves its event and a completion forgets it.                        *)
LEMMA AdmittedWaits ==
    ASSUME NEW rt, Owner!Sound(rt), NEW event \in Event, ~Holds(rt, event)
    PROVE  LET new == Owner!Admitted(rt, event, FALSE)
           IN  /\ Owner!Sound(new) /\ new.inFlight = rt.inFlight
               /\ Waiting(new) \in {Waiting(rt), Waiting(rt) \cup {event}}
<1> DEFINE new == Owner!Admitted(rt, event, FALSE)
<1>1. Owner!Sound(new)
  <2>1. event \notin Owner!Owned(rt)
    BY DEF Owner!Owned, Owner!IsPending, Holds, Waiting
  <2>2. ASSUME NEW immediately \in BOOLEAN
        PROVE  Owner!Sound(Owner!Admitted(rt, event, immediately))
    BY <2>1, Owner!AdmittedIsSound, HubAssumption
  <2>3. QED
    BY <2>2, Zenon
<1>2. rt \in Owner!Runtime /\ rt.pending \in Seq(Event)
  BY DEF Owner!Sound, Owner!Runtime
<1>3. CASE Owner!Rejection(rt, FALSE) # "none"
  <2>1. new.inFlight = rt.inFlight /\ new.pending = rt.pending
    BY <1>2, <1>3 DEF Owner!Admitted, Owner!Runtime
  <2>2. QED
    BY <1>1, <2>1 DEF Waiting
<1>4. CASE Owner!Rejection(rt, FALSE) = "none"
  <2>1. new.inFlight = rt.inFlight /\ new.pending = Append(rt.pending, event)
    BY <1>2, <1>4 DEF Owner!Admitted, Owner!Runtime
  <2>2. /\ DOMAIN Append(rt.pending, event) = DOMAIN rt.pending \cup {Len(rt.pending) + 1}
        /\ Append(rt.pending, event)[Len(rt.pending) + 1] = event
        /\ \A i \in DOMAIN rt.pending : Append(rt.pending, event)[i] = rt.pending[i]
    BY <1>2, AppendProperties
  <2> HIDE DEF new
  <2>3. Waiting(new) = Waiting(rt) \cup {event}
    BY <2>1, <2>2 DEF Waiting
  <2>4. QED
    BY <1>1, <2>1, <2>3 DEF new
<1>5. QED
  BY <1>3, <1>4

LEMMA WithoutWaits ==
    ASSUME NEW rt, Owner!Sound(rt), NEW event, event \in Waiting(rt),
           NEW new \in Owner!Runtime, new.pending = Owner!Without(rt.pending, event)
    PROVE  Waiting(new) = Waiting(rt) \ {event}
<1> DEFINE rest == Owner!Without(rt.pending, event)
<1>1. /\ rt.pending \in Seq(Event) /\ Owner!Distinct(rt.pending)
      /\ \E i \in DOMAIN rt.pending : rt.pending[i] = event
  BY DEF Owner!Sound, Owner!Runtime, Waiting
<1>2. /\ \A i \in DOMAIN rest : rest[i] # event
      /\ \A i \in DOMAIN rest : \E j \in DOMAIN rt.pending : rest[i] = rt.pending[j]
      /\ \A j \in DOMAIN rt.pending : rt.pending[j] # event =>
            \E i \in DOMAIN rest : rest[i] = rt.pending[j]
  BY <1>1, Owner!WithoutIsDistinct, HubAssumption
<1> HIDE DEF rest
<1>3. QED
  BY <1>2 DEF Waiting, rest

LEMMA WithdrawnWaits ==
    ASSUME NEW rt, Owner!Sound(rt), NEW event \in Event
    PROVE  LET new == Owner!Withdrawn(rt, event)
           IN  /\ Owner!Sound(new) /\ new.inFlight = rt.inFlight
               /\ Waiting(new) = Waiting(rt) \ {event}
<1> DEFINE new == Owner!Withdrawn(rt, event)
<1>1. Owner!Sound(new)
  BY Owner!WithdrawnIsSound, HubAssumption
<1>2. CASE event \notin Waiting(rt)
  <2>1. new = rt
    BY <1>2 DEF Owner!Withdrawn, Owner!IsPending, Waiting
  <2>2. QED
    BY <1>1, <1>2, <2>1
<1>3. CASE event \in Waiting(rt)
  <2>1. /\ new.inFlight = rt.inFlight /\ new \in Owner!Runtime
        /\ new.pending = Owner!Without(rt.pending, event)
    BY <1>1, <1>3 DEF Owner!Withdrawn, Owner!IsPending, Waiting, Owner!Sound, Owner!Runtime
  <2>2. Waiting(new) = Waiting(rt) \ {event}
    BY <1>3, <2>1, WithoutWaits
  <2>3. QED
    BY <1>1, <2>1, <2>2
<1>4. QED
  BY <1>2, <1>3

LEMMA ClaimedMoves ==
    ASSUME NEW rt, Owner!Sound(rt), NEW event \in Event, event \in Waiting(rt), rt.inFlight = {}
    PROVE  LET new == Owner!Claimed(rt, event)
           IN  /\ Owner!Sound(new) /\ new.inFlight = {event} /\ new # rt
               /\ Waiting(new) = Waiting(rt) \ {event}
<1> DEFINE new == Owner!Claimed(rt, event)
<1>1. Owner!Sound(new)
  BY Owner!ClaimedIsSound, HubAssumption
<1>2. Owner!Cardinality(rt.inFlight) = 0
  <2>1. Owner!Cardinality(rt.inFlight) = Cardinality(rt.inFlight)
    BY DEF Owner!Cardinality, Cardinality
  <2>2. QED
    BY <2>1, FS_EmptySet
<1>3. rt \in Owner!Runtime /\ new \in Owner!Runtime
  BY <1>1 DEF Owner!Sound
<1>4. new = [rt EXCEPT !.pending = Owner!Without(@, event), !.inFlight = @ \cup {event}]
  BY <1>2 DEF Owner!Claimed, Owner!IsPending, Waiting
<1>5. new.pending = Owner!Without(rt.pending, event) /\ new.inFlight = {event}
  BY <1>3, <1>4 DEF Owner!Runtime
<1> HIDE DEF new
<1>6. Waiting(new) = Waiting(rt) \ {event}
  BY <1>3, <1>5, WithoutWaits
<1>7. QED
  BY <1>1, <1>5, <1>6 DEF new

LEMMA CompletedForgets ==
    ASSUME NEW rt, Owner!Sound(rt), NEW event \in Event
    PROVE  LET new == Owner!Completed(rt, event)
           IN  /\ Owner!Sound(new) /\ new.inFlight = rt.inFlight \ {event}
               /\ Waiting(new) = Waiting(rt)
<1>1. Owner!Sound(Owner!Completed(rt, event))
  BY Owner!CompletedIsSound, HubAssumption
<1>2. rt \in Owner!Runtime
  BY DEF Owner!Sound
<1>3. QED
  BY <1>1, <1>2 DEF Owner!Completed, Owner!Runtime, Waiting

LEMMA ControlKeeps ==
    ASSUME NEW rt, Owner!Sound(rt),
           NEW new \in {Subscribers!Paused(rt), Subscribers!Resumed(rt), Subscribers!Closed(rt),
                        Deltas!Closed(rt)}
    PROVE  Owner!Sound(new) /\ new.inFlight = rt.inFlight /\ Waiting(new) = Waiting(rt)
<1>1. new \in {Owner!Paused(rt), Owner!Resumed(rt), Owner!Closed(rt)}
  BY DEF Subscribers!Paused, Subscribers!Resumed, Subscribers!Closed, Deltas!Closed,
         Owner!Paused, Owner!Resumed, Owner!Closed
<1>2. Owner!Sound(new)
  BY <1>1, Owner!ControlIsSound, HubAssumption
<1>3. rt \in Owner!Runtime
  BY DEF Owner!Sound
<1>4. QED
  BY <1>1, <1>2, <1>3 DEF Owner!Paused, Owner!Resumed, Owner!Closed, Owner!Runtime, Waiting

-----------------------------------------------------------------------------
(* Admission: both boundaries own an event or none does.                      *)

SoundPair(owners) ==
    /\ owners \in [subscriber : Owner!Runtime, delta : Owner!Runtime]
    /\ Owner!Sound(owners.subscriber) /\ Owner!Sound(owners.delta)

SameInFlight(old, new) ==
    new.subscriber.inFlight = old.subscriber.inFlight /\ new.delta.inFlight = old.delta.inFlight

Unknown(owners, event) == ~Holds(owners.subscriber, event) /\ ~Holds(owners.delta, event)

LEMMA AdmitOne ==
    ASSUME NEW old, SoundPair(old), NEW event \in Event, Unknown(old, event), NEW delta \in BOOLEAN
    PROVE  LET new == AdmitDelivery(old, event, delta)
           IN  /\ SoundPair(new) /\ SameInFlight(old, new)
               /\ Waiting(new.subscriber) \in
                     {Waiting(old.subscriber), Waiting(old.subscriber) \cup {event}}
               /\ delta /\ event \in Waiting(new.subscriber)
                     => Waiting(new.delta) = Waiting(old.delta) \cup {event}
               /\ ~(delta /\ event \in Waiting(new.subscriber))
                     => Waiting(new.delta) = Waiting(old.delta)
<1> DEFINE new == AdmitDelivery(old, event, delta)
           subscriber == Owner!Admitted(old.subscriber, event, FALSE)
           deltas == Owner!Admitted(old.delta, event, FALSE)
           undone == Owner!Withdrawn(subscriber, event)
<1>1. /\ Owner!Sound(subscriber) /\ subscriber.inFlight = old.subscriber.inFlight
      /\ Waiting(subscriber) \in {Waiting(old.subscriber), Waiting(old.subscriber) \cup {event}}
  BY AdmittedWaits DEF SoundPair, Unknown
<1>2. /\ Owner!Sound(deltas) /\ deltas.inFlight = old.delta.inFlight
      /\ Waiting(deltas) \in {Waiting(old.delta), Waiting(old.delta) \cup {event}}
  BY AdmittedWaits DEF SoundPair, Unknown
<1>3. /\ Owner!Sound(undone) /\ undone.inFlight = subscriber.inFlight
      /\ Waiting(undone) = Waiting(subscriber) \ {event}
  BY <1>1, WithdrawnWaits
<1>4. new = IF ~delta \/ event \notin Waiting(subscriber)
              THEN [old EXCEPT !.subscriber = subscriber]
            ELSE IF event \in Waiting(deltas)
              THEN [subscriber |-> subscriber, delta |-> deltas]
            ELSE [subscriber |-> undone, delta |-> deltas]
  <2>1. /\ Subscribers!Admitted(old.subscriber, event, FALSE) = subscriber
        /\ Deltas!Admitted(old.delta, event, FALSE) = deltas
        /\ Subscribers!Withdrawn(subscriber, event) = undone
    BY SameOperations
  <2>2. /\ Subscribers!IsPending(subscriber, event) <=> event \in Waiting(subscriber)
        /\ Deltas!IsPending(deltas, event) <=> event \in Waiting(deltas)
    BY SameOperations
  <2> QED BY <2>1, <2>2 DEF AdmitDelivery
<1>5. event \notin Waiting(old.subscriber) /\ event \notin Waiting(old.delta)
  BY DEF Unknown, Holds
<1>6. /\ subscriber \in Owner!Runtime /\ deltas \in Owner!Runtime /\ undone \in Owner!Runtime
      /\ old \in [subscriber : Owner!Runtime, delta : Owner!Runtime]
      /\ Owner!Sound(old.subscriber) /\ Owner!Sound(old.delta)
  BY <1>1, <1>2, <1>3 DEF Owner!Sound, SoundPair
<1> HIDE DEF new, subscriber, deltas, undone
<1>7. CASE ~delta \/ event \notin Waiting(subscriber)
  <2>1. new = [old EXCEPT !.subscriber = subscriber]
    BY <1>4, <1>7
  <2>2. /\ new.subscriber = subscriber /\ new.delta = old.delta
        /\ new \in [subscriber : Owner!Runtime, delta : Owner!Runtime]
    BY <1>6, <2>1
  <2>3. SoundPair(new) /\ SameInFlight(old, new)
    BY <1>1, <1>6, <2>2 DEF SoundPair, SameInFlight
  <2>4. QED
    BY <1>1, <1>7, <2>2, <2>3 DEF new
<1>8. CASE delta /\ event \in Waiting(subscriber) /\ event \in Waiting(deltas)
  <2>1. new = [subscriber |-> subscriber, delta |-> deltas]
    BY <1>4, <1>8
  <2>2. /\ new.subscriber = subscriber /\ new.delta = deltas
        /\ new \in [subscriber : Owner!Runtime, delta : Owner!Runtime]
    BY <1>6, <2>1
  <2>3. SoundPair(new) /\ SameInFlight(old, new)
    BY <1>1, <1>2, <2>2 DEF SoundPair, SameInFlight
  <2>4. Waiting(deltas) = Waiting(old.delta) \cup {event}
    BY <1>2, <1>5, <1>8
  <2>5. QED
    BY <1>1, <1>8, <2>2, <2>3, <2>4 DEF new
<1>9. CASE delta /\ event \in Waiting(subscriber) /\ event \notin Waiting(deltas)
  <2>1. new = [subscriber |-> undone, delta |-> deltas]
    BY <1>4, <1>9
  <2>2. /\ new.subscriber = undone /\ new.delta = deltas
        /\ new \in [subscriber : Owner!Runtime, delta : Owner!Runtime]
    BY <1>6, <2>1
  <2>3. SoundPair(new) /\ SameInFlight(old, new)
    BY <1>1, <1>2, <1>3, <2>2 DEF SoundPair, SameInFlight
  <2>4. Waiting(deltas) = Waiting(old.delta) /\ Waiting(undone) = Waiting(old.subscriber)
    BY <1>1, <1>2, <1>3, <1>5, <1>9
  <2>5. QED
    BY <1>5, <2>2, <2>3, <2>4 DEF new
<1>10. QED
  BY <1>7, <1>8, <1>9

(* An accepted emission waits with everything it announces, and the boundaries *)
(* forget a refused one.                                                     *)
Admission(old, new, event, delta, announced) ==
    LET added == IF announced THEN {event, event + 1} ELSE {event}
    IN  /\ SoundPair(new) /\ SameInFlight(old, new)
        /\ \/ /\ Admits(new, event)
              /\ Waiting(new.subscriber) = Waiting(old.subscriber) \cup added
              /\ Waiting(new.delta) = Waiting(old.delta) \cup (IF delta THEN {event} ELSE {})
           \/ /\ ~Admits(new, event)
              /\ Waiting(new.subscriber) = Waiting(old.subscriber)
              /\ Waiting(new.delta) = Waiting(old.delta)

LEMMA AdmitIsAllOrNothing ==
    ASSUME SoundPair(boundary), NEW event \in Event, NEW delta \in BOOLEAN, NEW announced \in BOOLEAN,
           announced => event + 1 \in Event /\ Unknown(boundary, event + 1),
           Unknown(boundary, event)
    PROVE  Admission(boundary, AdmitAll(event, delta, announced), event, delta, announced)
<1> DEFINE new == AdmitAll(event, delta, announced)
           one == AdmitDelivery(boundary, event, delta)
           two == AdmitDelivery(one, event + 1, FALSE)
           undone == [subscriber |-> Owner!Withdrawn(two.subscriber, event),
                      delta |-> Owner!Withdrawn(two.delta, event)]
<1>1. /\ SoundPair(one) /\ SameInFlight(boundary, one)
      /\ Waiting(one.subscriber) \in
            {Waiting(boundary.subscriber), Waiting(boundary.subscriber) \cup {event}}
      /\ delta /\ event \in Waiting(one.subscriber)
            => Waiting(one.delta) = Waiting(boundary.delta) \cup {event}
      /\ ~(delta /\ event \in Waiting(one.subscriber))
            => Waiting(one.delta) = Waiting(boundary.delta)
  BY AdmitOne
<1>2. \A owners, e : Admits(owners, e) <=> e \in Waiting(owners.subscriber)
  BY SameOperations DEF Admits
<1>3. new = IF ~announced \/ event \notin Waiting(one.subscriber) THEN one
            ELSE IF event + 1 \in Waiting(two.subscriber) THEN two ELSE undone
  BY <1>2, SameOperations DEF AdmitAll
<1>4. event \notin Waiting(boundary.subscriber) /\ event \notin Waiting(boundary.delta)
  BY DEF Unknown, Holds
<1>5. announced => event + 1 # event
  BY DEF Event
<1> HIDE DEF new, one, two, undone
<1>6. CASE ~announced \/ event \notin Waiting(one.subscriber)
  <2>1. new = one
    BY <1>3, <1>6
  <2>2. QED
    BY <1>1, <1>2, <1>4, <1>6, <2>1 DEF Admission, new
<1>7. CASE announced /\ event \in Waiting(one.subscriber)
  <2>1. Unknown(one, event + 1)
    BY <1>1, <1>5, <1>7 DEF Unknown, Holds, SameInFlight
  <2>2. /\ SoundPair(two) /\ SameInFlight(one, two)
        /\ Waiting(two.subscriber) \in
              {Waiting(one.subscriber), Waiting(one.subscriber) \cup {event + 1}}
        /\ Waiting(two.delta) = Waiting(one.delta)
    <3>1. /\ SoundPair(two) /\ SameInFlight(one, two)
          /\ Waiting(two.subscriber) \in
                {Waiting(one.subscriber), Waiting(one.subscriber) \cup {event + 1}}
          /\ ~(FALSE /\ event + 1 \in Waiting(two.subscriber))
                => Waiting(two.delta) = Waiting(one.delta)
      BY <1>1, <1>7, <2>1, AdmitOne, Zenon DEF two
    <3>2. QED
      BY <3>1
  <2>3. CASE event + 1 \in Waiting(two.subscriber)
    <3>1. new = two
      BY <1>3, <1>7, <2>3
    <3>2. SameInFlight(boundary, two)
      BY <1>1, <2>2 DEF SameInFlight
    <3>3. /\ Waiting(two.subscriber) = Waiting(boundary.subscriber) \cup {event, event + 1}
          /\ Waiting(two.delta) = Waiting(boundary.delta) \cup (IF delta THEN {event} ELSE {})
      BY <1>1, <1>4, <1>7, <2>1, <2>2, <2>3 DEF Unknown, Holds
    <3>4. QED
      BY <1>2, <1>7, <2>2, <3>1, <3>2, <3>3 DEF Admission, new
  <2>4. CASE event + 1 \notin Waiting(two.subscriber)
    <3>1. new = undone
      BY <1>3, <1>7, <2>4
    <3> DEFINE subscriber == Owner!Withdrawn(two.subscriber, event)
               deltas == Owner!Withdrawn(two.delta, event)
    <3>2. /\ Owner!Sound(subscriber) /\ subscriber.inFlight = two.subscriber.inFlight
          /\ Waiting(subscriber) = Waiting(two.subscriber) \ {event}
          /\ Owner!Sound(deltas) /\ deltas.inFlight = two.delta.inFlight
          /\ Waiting(deltas) = Waiting(two.delta) \ {event}
      BY <2>2, WithdrawnWaits DEF SoundPair
    <3>3. undone = [subscriber |-> subscriber, delta |-> deltas]
      BY DEF undone
    <3>4. subscriber \in Owner!Runtime /\ deltas \in Owner!Runtime
      BY <3>2 DEF Owner!Sound
    <3> HIDE DEF subscriber, deltas
    <3>5. SoundPair(undone) /\ SameInFlight(boundary, undone)
      BY <1>1, <2>2, <3>2, <3>3, <3>4 DEF SoundPair, SameInFlight
    <3>6. /\ Waiting(undone.subscriber) = Waiting(boundary.subscriber)
          /\ Waiting(undone.delta) = Waiting(boundary.delta)
      BY <1>1, <1>4, <2>2, <2>4, <3>2, <3>3
    <3>7. QED
      BY <1>2, <1>4, <3>1, <3>5, <3>6 DEF Admission, new
  <2>5. QED
    BY <2>3, <2>4
<1>8. QED
  BY <1>6, <1>7

-----------------------------------------------------------------------------
(* The delivery queue.                                                       *)

(* While its event is in flight on a boundary a dispatcher is at one of these. *)
WithSubscriber == {"claim_delta", "callbacks", "in_callback", "complete"}
WithDelta      == {"callbacks", "in_callback", "complete", "complete_delta"}

Fields == {"event", "audience", "delta", "raised"}

(* What is queued waits in its boundaries, once, and was accepted.            *)
QueueIsBacked ==
    /\ \E S : pending \in Seq(S)
    /\ \A i \in DOMAIN pending :
          /\ DOMAIN pending[i] = Fields
          /\ pending[i].event \in Waiting(boundary.subscriber)
          /\ pending[i].delta \in BOOLEAN
          /\ pending[i].delta => pending[i].event \in Waiting(boundary.delta)
    /\ \A i, j \in DOMAIN pending : pending[i].event = pending[j].event => i = j

(* The dispatcher's delivery still waits where it has yet to claim it.        *)
DeliveryIsBacked ==
    /\ DOMAIN delivery = Thread
    /\ \A t \in Thread : DOMAIN delivery[t] = Fields
    /\ \A t \in Thread : pc[t] \in {"claim"} \cup WithSubscriber \cup WithDelta =>
          delivery[t].event \in Event /\ delivery[t].delta \in BOOLEAN
    /\ \A t \in Thread : pc[t] \in {"claim_delta", "complete_delta"} => delivery[t].delta
    /\ \A t \in Thread : pc[t] = "claim" => delivery[t].event \in Waiting(boundary.subscriber)
    /\ \A t \in Thread : pc[t] \in {"claim", "claim_delta"} =>
          /\ delivery[t].delta => delivery[t].event \in Waiting(boundary.delta)
          /\ \A i \in DOMAIN pending : pending[i].event # delivery[t].event

(* An event in flight is the dispatcher's.                                   *)
FlightIsOwned ==
    /\ \A e \in boundary.subscriber.inFlight :
          \E t \in Thread : pc[t] \in WithSubscriber /\ delivery[t].event = e
    /\ \A e \in boundary.delta.inFlight :
          \E t \in Thread : pc[t] \in WithDelta /\ delivery[t].event = e /\ delivery[t].delta

(* The boundaries know nothing of events that are still to be accepted.       *)
NothingAhead ==
    /\ nextSequence \in Nat \ {0}
    /\ \A e \in Event : e >= nextSequence => Unknown(boundary, e)
    /\ \A t \in Thread : pc[t] \in {"claim", "claim_delta"} => delivery[t].event < nextSequence

(* What waits in a boundary is queued, or the dispatcher is about to claim it. *)
WaitingIsQueued ==
    /\ \A e \in Waiting(boundary.subscriber) :
          \/ \E i \in DOMAIN pending : pending[i].event = e
          \/ \E t \in Thread : pc[t] = "claim" /\ delivery[t].event = e
    /\ \A e \in Waiting(boundary.delta) :
          \/ \E i \in DOMAIN pending : pending[i].event = e /\ pending[i].delta
          \/ \E t \in Thread : /\ pc[t] \in {"claim", "claim_delta"}
                               /\ delivery[t].event = e /\ delivery[t].delta

(* What the dispatcher has claimed is in flight; without a delivery in hand it *)
(* holds none.                                                               *)
HeldIsInFlight ==
    \A t \in Thread :
       /\ pc[t] \in WithSubscriber => delivery[t].event \in boundary.subscriber.inFlight
       /\ pc[t] \in WithDelta /\ delivery[t].delta => delivery[t].event \in boundary.delta.inFlight
       /\ pc[t] \in {"outside", "drain"} => delivery[t] = NoDelivery

NoDrift == \A t \in Thread : pc[t] \in {"outside", "drain", "claim"} \cup WithSubscriber \cup WithDelta

DeliveryInvariant ==
    /\ DispatchInvariant /\ SoundPair(boundary)
    /\ QueueIsBacked /\ DeliveryIsBacked /\ FlightIsOwned /\ NothingAhead /\ NoDrift
    /\ WaitingIsQueued /\ HeldIsInFlight

(* Waiting events are events, and accepted ones.                              *)
LEMMA WaitingWasAccepted ==
    ASSUME DeliveryInvariant, NEW e,
           e \in Waiting(boundary.subscriber) \/ e \in Waiting(boundary.delta)
    PROVE  e \in Event /\ e \in Nat /\ e < nextSequence
<1>1. boundary.subscriber.pending \in Seq(Event) /\ boundary.delta.pending \in Seq(Event)
  BY DEF DeliveryInvariant, SoundPair, Owner!Sound, Owner!Runtime
<1>2. e \in Event
  BY <1>1 DEF Waiting
<1>3. e \in Nat /\ nextSequence \in Nat
  BY <1>2 DEF Event, DeliveryInvariant, NothingAhead
<1>4. ~(e >= nextSequence)
  BY <1>2 DEF DeliveryInvariant, NothingAhead, Unknown, Holds
<1>5. QED
  BY <1>2, <1>3, <1>4

LEMMA OthersAreOutside ==
    ASSUME DeliveryInvariant, NEW t \in Thread, pc[t] # "outside"
    PROVE  \A u \in Thread : u # t => pc[u] = "outside"
BY DEF DeliveryInvariant, DispatchInvariant, SerializedDispatch

(* Steps that touch neither the queue nor the dispatcher.                     *)
LEMMA SameHoldingsKeep ==
    ASSUME DeliveryInvariant, DispatchInvariant', SoundPair(boundary'),
           SameInFlight(boundary, boundary'),
           Waiting(boundary'.subscriber) = Waiting(boundary.subscriber),
           Waiting(boundary'.delta) = Waiting(boundary.delta),
           UNCHANGED <<pending, delivery, nextSequence, pc>>
    PROVE  DeliveryInvariant'
<1>1. (Waiting(boundary.subscriber))' = Waiting(boundary.subscriber)
      /\ (Waiting(boundary.delta))' = Waiting(boundary.delta)
  BY DEF Waiting
<1>2. boundary'.subscriber.inFlight = boundary.subscriber.inFlight
      /\ boundary'.delta.inFlight = boundary.delta.inFlight
  BY DEF SameInFlight
<1>3. (SoundPair(boundary))'
  BY DEF SoundPair, Owner!Sound, Owner!Runtime
<1>4. QueueIsBacked'
  BY <1>1 DEF DeliveryInvariant, QueueIsBacked
<1>5. DeliveryIsBacked'
  BY <1>1 DEF DeliveryInvariant, DeliveryIsBacked
<1>6. FlightIsOwned'
  BY <1>2 DEF DeliveryInvariant, FlightIsOwned
<1>7. NothingAhead'
  BY <1>1, <1>2 DEF DeliveryInvariant, NothingAhead, Unknown, Holds
<1>8. WaitingIsQueued'
  BY <1>1 DEF DeliveryInvariant, WaitingIsQueued
<1>9. HeldIsInFlight'
  BY <1>2 DEF DeliveryInvariant, HeldIsInFlight
<1>10. QED
  BY <1>3, <1>4, <1>5, <1>6, <1>7, <1>8, <1>9 DEF DeliveryInvariant, NoDrift

(* An emission queues what its admission made the boundaries wait for.        *)
LEMMA AcceptKeeps ==
    ASSUME DeliveryInvariant, NEW t \in Thread, NEW delta \in BOOLEAN, NEW projected,
           NEW announced \in BOOLEAN, NEW events, NEW dropCount,
           events = (IF announced THEN 2 ELSE 1),
           Admission(boundary, boundary', nextSequence, delta, announced),
           Admits(boundary', nextSequence),
           Accept(t, events, delta, projected, dropCount),
           DispatchInvariant', delivery' = delivery
    PROVE  DeliveryInvariant'
<1> DEFINE n == nextSequence
           added == IF announced THEN {n, n + 1} ELSE {n}
           new == [i \in 1 .. events |->
                     [NoDelivery EXCEPT !.event = n + i - 1, !.audience = Audience(projected),
                                        !.delta = delta /\ i = 1]]
<1>1. /\ n \in Nat \ {0} /\ events \in {1, 2} /\ n' = n + events
      /\ pending' = pending \o new
  BY DEF Accept, DeliveryInvariant, NothingAhead
<1>2. /\ SoundPair(boundary') /\ SameInFlight(boundary, boundary')
      /\ Waiting(boundary'.subscriber) = Waiting(boundary.subscriber) \cup added
      /\ Waiting(boundary'.delta) = Waiting(boundary.delta) \cup (IF delta THEN {n} ELSE {})
  BY DEF Admission
<1>3. /\ (Waiting(boundary.subscriber))' = Waiting(boundary.subscriber) \cup added
      /\ (Waiting(boundary.delta))' = Waiting(boundary.delta) \cup (IF delta THEN {n} ELSE {})
  BY <1>2 DEF Waiting
<1>4. (SoundPair(boundary))'
  BY <1>2 DEF SoundPair, Owner!Sound, Owner!Runtime
<1>5. \A u \in Thread : pc'[u] = pc[u] \/ (pc[u] = "outside" /\ pc'[u] = "drain")
  BY DEF Accept, Dispatchers, DeliveryInvariant, DispatchInvariant, SerializedDispatch
<1>6. \A i \in 1 .. events :
         /\ DOMAIN new[i] = Fields /\ new[i].event = n + i - 1
         /\ new[i].delta \in BOOLEAN /\ (i = 1 => new[i].delta = delta)
         /\ (i # 1 => ~new[i].delta)
  <2> SUFFICES ASSUME NEW i \in 1 .. events
               PROVE  /\ DOMAIN new[i] = Fields /\ new[i].event = n + i - 1
                      /\ new[i].delta \in BOOLEAN /\ (i = 1 => new[i].delta = delta)
                      /\ (i # 1 => ~new[i].delta)
    OBVIOUS
  <2>1. DOMAIN new[i] = Fields /\ new[i].event = n + i - 1
    BY DEF NoDelivery, Fields
  <2>2. CASE i = 1
    BY <2>1, <2>2 DEF NoDelivery
  <2>3. CASE i # 1
    BY <2>1, <2>3 DEF NoDelivery
  <2>4. QED
    BY <2>1, <2>2, <2>3
<1> DEFINE Queued == {new[i] : i \in 1 .. events}
<1>7. new \in [1 .. events -> Queued]
  OBVIOUS
<1> HIDE DEF n, new, Queued
<1>8. \A i \in 1 .. events :
         /\ new[i].event \in added /\ new[i].event \in Nat /\ new[i].event >= n
         /\ new[i].delta \in BOOLEAN /\ (new[i].delta => delta /\ new[i].event = n)
  <2> SUFFICES ASSUME NEW i \in 1 .. events
               PROVE  /\ new[i].event \in added /\ new[i].event \in Nat /\ new[i].event >= n
                      /\ new[i].delta \in BOOLEAN /\ (new[i].delta => delta /\ new[i].event = n)
    OBVIOUS
  <2>1. i = 1 \/ (i = 2 /\ announced)
    BY <1>1
  <2>2. CASE i = 1
    BY <1>1, <1>6, <2>2
  <2>3. CASE i = 2 /\ announced
    BY <1>1, <1>6, <2>3
  <2>4. QED
    BY <2>1, <2>2, <2>3
<1>9. PICK S : pending \in Seq(S)
  BY DEF DeliveryInvariant, QueueIsBacked
<1>10. new \in Seq(Queued) /\ Len(new) = events /\ DOMAIN new = 1 .. events
  <2>1. new \in Seq(Queued)
    BY <1>1, <1>7, SeqDef
  <2>2. QED
    BY <1>1, <1>7, <2>1, LenProperties
<1> DEFINE All == S \cup Queued
<1>11. pending \in Seq(All) /\ new \in Seq(All)
  <2>1. S \subseteq All /\ Queued \subseteq All
    OBVIOUS
  <2> HIDE DEF All
  <2>2. QED
    BY <1>9, <1>10, <2>1, SeqMonotonic
<1> HIDE DEF All
<1>12. /\ pending' \in Seq(All) /\ Len(pending) \in Nat
       /\ DOMAIN pending = 1 .. Len(pending) /\ DOMAIN pending' = 1 .. Len(pending) + events
       /\ \A i \in DOMAIN pending : pending'[i] = pending[i]
       /\ \A i \in DOMAIN pending' \ DOMAIN pending :
             i - Len(pending) \in 1 .. events /\ pending'[i] = new[i - Len(pending)]
  BY <1>1, <1>10, <1>11, ConcatProperties, LenProperties
<1>13. \A i \in DOMAIN pending : pending[i].event \in Nat /\ pending[i].event < n
  BY WaitingWasAccepted DEF DeliveryInvariant, QueueIsBacked, n
<1>14. QueueIsBacked'
  <2>1. ASSUME NEW i \in DOMAIN pending'
        PROVE  /\ DOMAIN pending'[i] = Fields
               /\ pending'[i].event \in (Waiting(boundary.subscriber))'
               /\ pending'[i].delta \in BOOLEAN
               /\ pending'[i].delta => pending'[i].event \in (Waiting(boundary.delta))'
    <3>1. CASE i \in DOMAIN pending
      BY <1>3, <1>12, <3>1 DEF DeliveryInvariant, QueueIsBacked
    <3>2. CASE i \notin DOMAIN pending
      BY <1>3, <1>6, <1>8, <1>12, <3>2
    <3>3. QED
      BY <3>1, <3>2
  <2>2. ASSUME NEW i \in DOMAIN pending', NEW j \in DOMAIN pending',
               pending'[i].event = pending'[j].event
        PROVE  i = j
    <3>1. CASE i \in DOMAIN pending /\ j \in DOMAIN pending
      BY <1>12, <2>2, <3>1 DEF DeliveryInvariant, QueueIsBacked
    <3>2. CASE i \in DOMAIN pending /\ j \notin DOMAIN pending
      BY <1>1, <1>8, <1>12, <1>13, <2>2, <3>2
    <3>3. CASE i \notin DOMAIN pending /\ j \in DOMAIN pending
      BY <1>1, <1>8, <1>12, <1>13, <2>2, <3>3
    <3>4. CASE i \notin DOMAIN pending /\ j \notin DOMAIN pending
      <4> DEFINE a == i - Len(pending) b == j - Len(pending)
      <4>1. /\ i \in Nat /\ j \in Nat /\ a \in 1 .. events /\ b \in 1 .. events
            /\ new[a].event = new[b].event
        BY <1>1, <1>12, <2>2, <3>4
      <4> HIDE DEF a, b
      <4>2. n + a - 1 = n + b - 1 /\ a \in Int /\ b \in Int
        BY <1>6, <4>1
      <4>3. a = b
        BY <1>1, <4>2
      <4>4. QED
        BY <1>12, <4>1, <4>3 DEF a, b
    <3>5. QED
      BY <3>1, <3>2, <3>3, <3>4
  <2>3. QED
    BY <1>12, <2>1, <2>2 DEF QueueIsBacked
<1>15. DeliveryIsBacked'
  <2>1. \A u \in Thread : pc'[u] # "drain" => pc'[u] = pc[u]
    BY <1>5
  <2>2. ASSUME NEW u \in Thread, pc'[u] \in {"claim", "claim_delta"}
        PROVE  /\ delivery'[u].delta => delivery'[u].event \in (Waiting(boundary.delta))'
               /\ \A i \in DOMAIN pending' : pending'[i].event # delivery'[u].event
    <3>1. pc[u] \in {"claim", "claim_delta"}
      BY <2>1, <2>2
    <3>2. delivery[u].event \in Nat /\ delivery[u].event < n
      BY <3>1 DEF DeliveryInvariant, DeliveryIsBacked, NothingAhead, WithSubscriber, Event, n
    <3>3. \A i \in DOMAIN pending : pending[i].event # delivery[u].event
      BY <3>1 DEF DeliveryInvariant, DeliveryIsBacked
    <3>4. \A i \in DOMAIN pending' : pending'[i].event # delivery[u].event
      BY <1>1, <1>8, <1>12, <3>2, <3>3
    <3>5. QED
      BY <1>3, <3>1, <3>4 DEF DeliveryInvariant, DeliveryIsBacked
  <2>3. QED
    BY <1>3, <2>1, <2>2 DEF DeliveryInvariant, DeliveryIsBacked, WithSubscriber, WithDelta
<1>16. FlightIsOwned'
  <2>1. \A u \in Thread : pc[u] # "outside" => pc'[u] = pc[u]
    BY <1>5
  <2>2. QED
    BY <1>2, <2>1
    DEF DeliveryInvariant, FlightIsOwned, SameInFlight, WithSubscriber, WithDelta
<1>17. NothingAhead'
  <2>1. n' \in Nat \ {0}
    BY <1>1
  <2>2. ASSUME NEW e \in Event, e >= n'
        PROVE  (Unknown(boundary, e))'
    <3>1. e \in Nat /\ e >= n /\ e \notin added /\ e # n
      BY <1>1, <2>2 DEF Event
    <3>2. Unknown(boundary, e)
      BY <3>1 DEF DeliveryInvariant, NothingAhead, n
    <3>3. QED
      BY <1>2, <1>3, <3>1, <3>2 DEF Unknown, Holds, SameInFlight
  <2>3. ASSUME NEW u \in Thread, pc'[u] \in {"claim", "claim_delta"}
        PROVE  delivery'[u].event < n'
    <3>1. pc[u] \in {"claim", "claim_delta"}
      BY <1>5, <2>3
    <3>2. delivery[u].event \in Nat /\ delivery[u].event < n
      BY <3>1 DEF DeliveryInvariant, DeliveryIsBacked, NothingAhead, WithSubscriber, Event, n
    <3>3. QED
      BY <1>1, <3>2
  <2>4. QED
    BY <2>1, <2>2, <2>3 DEF NothingAhead, n
<1>18. NoDrift'
  BY <1>5 DEF DeliveryInvariant, NoDrift
<1>19. WaitingIsQueued'
  <2>1. \A i \in DOMAIN pending : i \in DOMAIN pending' /\ pending'[i] = pending[i]
    BY <1>1, <1>12
  <2>2. \A k \in 1 .. events :
           Len(pending) + k \in DOMAIN pending' /\ pending'[Len(pending) + k] = new[k]
    <3>1. SUFFICES ASSUME NEW k \in 1 .. events
                   PROVE  Len(pending) + k \in DOMAIN pending' /\ pending'[Len(pending) + k] = new[k]
      OBVIOUS
    <3>2. k \in Nat \ {0} /\ Len(pending) + k \in DOMAIN pending' \ DOMAIN pending
      BY <1>1, <1>12
    <3>3. Len(pending) + k - Len(pending) = k
      BY <1>12, <3>2
    <3>4. QED
      BY <1>12, <3>2, <3>3
  <2>3. \A k \in 1 .. events : \E i \in DOMAIN pending' : pending'[i] = new[k]
    BY <2>2
  <2>4. new[1].event = n /\ (announced => new[2].event = n + 1) /\ new[1].delta = delta
    BY <1>1, <1>6
  <2>5. /\ \E i \in DOMAIN pending' : pending'[i].event = n /\ pending'[i].delta = delta
        /\ announced => \E i \in DOMAIN pending' : pending'[i].event = n + 1
    <3>1. 1 \in 1 .. events /\ (announced => 2 \in 1 .. events)
      BY <1>1
    <3>2. QED
      BY <2>3, <2>4, <3>1
  <2>6. \A u \in Thread : pc[u] # "outside" => pc'[u] = pc[u]
    BY <1>5
  <2>7. ASSUME NEW e \in (Waiting(boundary.subscriber))'
        PROVE  \/ \E i \in DOMAIN pending' : pending'[i].event = e
               \/ \E u \in Thread : pc'[u] = "claim" /\ delivery'[u].event = e
    <3>1. CASE e \in Waiting(boundary.subscriber)
      BY <2>1, <2>6, <3>1 DEF DeliveryInvariant, WaitingIsQueued
    <3>2. CASE e \in added
      BY <2>5, <3>2
    <3>3. QED
      BY <1>3, <3>1, <3>2
  <2>8. ASSUME NEW e \in (Waiting(boundary.delta))'
        PROVE  \/ \E i \in DOMAIN pending' : pending'[i].event = e /\ pending'[i].delta
               \/ \E u \in Thread : /\ pc'[u] \in {"claim", "claim_delta"}
                                    /\ delivery'[u].event = e /\ delivery'[u].delta
    <3>1. CASE e \in Waiting(boundary.delta)
      BY <2>1, <2>6, <3>1 DEF DeliveryInvariant, WaitingIsQueued
    <3>2. CASE delta /\ e = n
      BY <2>5, <3>2
    <3>3. QED
      BY <1>3, <3>1, <3>2
  <2>9. QED
    BY <2>7, <2>8 DEF WaitingIsQueued
<1>20. HeldIsInFlight'
  <2>1. \A u \in Thread : pc'[u] # "drain" => pc'[u] = pc[u]
    BY <1>5
  <2>2. \A u \in Thread : pc'[u] = "drain" => pc[u] \in {"outside", "drain"}
    BY <1>5
  <2>3. QED
    BY <1>2, <2>1, <2>2
       DEF DeliveryInvariant, HeldIsInFlight, SameInFlight, WithSubscriber, WithDelta
<1>21. QED
  BY <1>4, <1>14, <1>15, <1>16, <1>17, <1>18, <1>19, <1>20 DEF DeliveryInvariant

LEMMA EmitKeeps ==
    ASSUME DeliveryInvariant, DispatchInvariant', NEW t \in Thread, NEW delta \in BOOLEAN,
           NEW projected \in BOOLEAN, NEW announcing \in BOOLEAN,
           Emit(t, delta, projected, announcing)
    PROVE  DeliveryInvariant'
<1> DEFINE announced == announcing /\ Len(history) >= HistoryLimit
           events == IF announced THEN 2 ELSE 1
<1>1. announced \in BOOLEAN
  OBVIOUS
<1>2. /\ boundary' = AdmitAll(nextSequence, delta, announced)
      /\ nextSequence + events - 1 <= MaxEvents /\ delivery' = delivery
  BY DEF Emit
<1>3. nextSequence \in Nat \ {0}
  BY DEF DeliveryInvariant, NothingAhead
<1>4. nextSequence \in Event /\ (announced => nextSequence + 1 \in Event)
  BY <1>2, <1>3, HubAssumption DEF Event
<1>5. Unknown(boundary, nextSequence) /\ (announced => Unknown(boundary, nextSequence + 1))
  BY <1>3, <1>4 DEF DeliveryInvariant, NothingAhead
<1>6. \/ /\ Admits(boundary', nextSequence)
         /\ Accept(t, events, delta, projected, DropCount(announcing))
      \/ /\ ~Admits(boundary', nextSequence)
         /\ UNCHANGED <<log, pending, dispatching, pc>>
  BY DEF Emit
<1> HIDE DEF announced
<1>7. Admission(boundary, boundary', nextSequence, delta, announced)
  BY <1>1, <1>2, <1>4, <1>5, AdmitIsAllOrNothing DEF DeliveryInvariant
<1>8. CASE Admits(boundary', nextSequence)
  BY <1>1, <1>2, <1>6, <1>7, <1>8, AcceptKeeps
<1>9. CASE ~Admits(boundary', nextSequence)
  BY <1>2, <1>6, <1>7, <1>9, SameHoldingsKeep DEF Admission, log
<1>10. QED
  BY <1>8, <1>9

(* Taking the head of the queue hands its waiting event to the dispatcher.    *)
LEMMA TakeKeeps ==
    ASSUME DeliveryInvariant, DispatchInvariant', NEW t \in Thread, DrainTake(t)
    PROVE  DeliveryInvariant'
<1>1. /\ pending # <<>> /\ pc[t] = "drain" /\ pc' = [pc EXCEPT ![t] = "claim"]
      /\ delivery' = [delivery EXCEPT ![t] = Head(pending)]
      /\ pending' = Tail(pending) /\ UNCHANGED <<boundary, nextSequence>>
  BY DEF DrainTake, Goto, log
<1>2. PICK S : pending \in Seq(S)
  BY DEF DeliveryInvariant, QueueIsBacked
<1>3. /\ pending' \in Seq(S) /\ Len(pending) \in Nat \ {0} /\ DOMAIN pending = 1 .. Len(pending)
      /\ DOMAIN pending' = 1 .. Len(pending) - 1
      /\ \A i \in DOMAIN pending' : i + 1 \in DOMAIN pending /\ pending'[i] = pending[i + 1]
      /\ 1 \in DOMAIN pending /\ Head(pending) = pending[1]
  BY <1>1, <1>2, HeadTailProperties, LenProperties
<1>4. \A u \in Thread : u # t => pc[u] = "outside" /\ pc'[u] = "outside"
  BY <1>1, OthersAreOutside DEF DeliveryInvariant, DispatchInvariant
<1>5. pc'[t] = "claim" /\ delivery'[t] = pending[1]
  BY <1>1, <1>3 DEF DeliveryInvariant, DispatchInvariant, DeliveryIsBacked
<1>6. /\ DOMAIN pending[1] = Fields /\ pending[1].delta \in BOOLEAN
      /\ pending[1].event \in Waiting(boundary.subscriber)
      /\ pending[1].delta => pending[1].event \in Waiting(boundary.delta)
      /\ pending[1].event \in Event /\ pending[1].event < nextSequence
  BY <1>3, WaitingWasAccepted DEF DeliveryInvariant, QueueIsBacked
<1>7. (Waiting(boundary.subscriber))' = Waiting(boundary.subscriber)
      /\ (Waiting(boundary.delta))' = Waiting(boundary.delta)
  BY <1>1 DEF Waiting
<1>8. QueueIsBacked'
  BY <1>3, <1>7 DEF DeliveryInvariant, QueueIsBacked
<1>9. DeliveryIsBacked'
  <2>1. \A i \in DOMAIN pending' : pending'[i].event # pending[1].event
    BY <1>3 DEF DeliveryInvariant, QueueIsBacked
  <2>2. \A u \in Thread : DOMAIN delivery'[u] = Fields
    BY <1>1, <1>5, <1>6 DEF DeliveryInvariant, DeliveryIsBacked
  <2>3. DOMAIN delivery' = Thread
    BY <1>1 DEF DeliveryInvariant, DeliveryIsBacked
  <2>4. QED
    BY <1>4, <1>5, <1>6, <1>7, <2>1, <2>2, <2>3 DEF DeliveryIsBacked, WithSubscriber, WithDelta
<1>10. FlightIsOwned'
  BY <1>1, <1>4 DEF DeliveryInvariant, FlightIsOwned, WithSubscriber, WithDelta
<1>11. NothingAhead'
  BY <1>1, <1>4, <1>5, <1>6, <1>7 DEF DeliveryInvariant, NothingAhead, Unknown, Holds
<1>12. SoundPair(boundary)' /\ NoDrift'
  BY <1>1, <1>4, <1>5 DEF DeliveryInvariant, NoDrift, WithSubscriber, WithDelta, SoundPair, Owner!Sound, Owner!Runtime
<1>13. WaitingIsQueued'
  <2>1. \A i \in DOMAIN pending : i # 1 => i - 1 \in DOMAIN pending' /\ pending'[i - 1] = pending[i]
    <3>1. SUFFICES ASSUME NEW i \in DOMAIN pending, i # 1
                   PROVE  i - 1 \in DOMAIN pending' /\ pending'[i - 1] = pending[i]
      OBVIOUS
    <3>2. i \in Nat /\ i - 1 \in DOMAIN pending' /\ (i - 1) + 1 = i
      BY <1>3, <3>1
    <3>3. QED
      BY <1>3, <3>2
  <2>2. \A u \in Thread : pc[u] \notin {"claim", "claim_delta"}
    BY <1>1, <1>4
  <2>3. \A i \in DOMAIN pending :
           (\E j \in DOMAIN pending' : pending'[j] = pending[i]) \/ pending[i] = delivery'[t]
    BY <1>5, <2>1
  <2>4. QED
    BY <1>5, <1>7, <2>2, <2>3 DEF DeliveryInvariant, WaitingIsQueued
<1>14. HeldIsInFlight'
  BY <1>1, <1>4, <1>5 DEF DeliveryInvariant, HeldIsInFlight, WithSubscriber, WithDelta
<1>15. QED
  BY <1>8, <1>9, <1>10, <1>11, <1>12, <1>13, <1>14 DEF DeliveryInvariant

(* The claims find their event waiting and the boundary free.                 *)
LEMMA ClaimKeeps ==
    ASSUME DeliveryInvariant, DispatchInvariant', NEW t \in Thread, DrainClaim(t)
    PROVE  DeliveryInvariant'
<1> DEFINE event == delivery[t].event
           claimed == Subscribers!Claimed(boundary.subscriber, event)
           owners == [boundary EXCEPT !.subscriber = claimed]
<1>1. /\ pc[t] = "claim" /\ boundary' = owners
      /\ UNCHANGED <<pending, delivery, nextSequence>>
      /\ owners # boundary =>
            pc' = [pc EXCEPT ![t] = IF delivery[t].delta THEN "claim_delta" ELSE "callbacks"]
      /\ \E to : pc' = [pc EXCEPT ![t] = to]
  BY DEF DrainClaim, Goto, log
<1>2. \A u \in Thread : u # t => pc[u] = "outside" /\ pc'[u] = "outside"
  BY <1>1, OthersAreOutside DEF DeliveryInvariant, DispatchInvariant
<1>3. /\ event \in Event /\ event \in Waiting(boundary.subscriber)
      /\ delivery[t].delta \in BOOLEAN
      /\ delivery[t].delta => event \in Waiting(boundary.delta)
      /\ \A i \in DOMAIN pending : pending[i].event # event
      /\ event < nextSequence
  BY <1>1 DEF DeliveryInvariant, DeliveryIsBacked, NothingAhead
<1>4. boundary.subscriber.inFlight = {} /\ boundary.delta.inFlight = {}
  BY <1>1, <1>2 DEF DeliveryInvariant, FlightIsOwned, WithSubscriber, WithDelta
<1>5. /\ Owner!Sound(claimed) /\ claimed.inFlight = {event} /\ claimed # boundary.subscriber
      /\ Waiting(claimed) = Waiting(boundary.subscriber) \ {event}
  <2>1. Subscribers!Claimed(boundary.subscriber, event) = Owner!Claimed(boundary.subscriber, event)
    BY SameOperations
  <2>2. Owner!Sound(boundary.subscriber)
    BY DEF DeliveryInvariant, SoundPair
  <2> HIDE DEF event
  <2>3. LET new == Owner!Claimed(boundary.subscriber, event)
        IN  /\ Owner!Sound(new) /\ new.inFlight = {event} /\ new # boundary.subscriber
            /\ Waiting(new) = Waiting(boundary.subscriber) \ {event}
    BY <1>3, <1>4, <2>2, ClaimedMoves
  <2>4. QED
    BY <2>1, <2>3
<1> HIDE DEF event, claimed
<1>6. /\ boundary'.subscriber = claimed /\ boundary'.delta = boundary.delta /\ owners # boundary
      /\ boundary' \in [subscriber : Owner!Runtime, delta : Owner!Runtime]
  BY <1>1, <1>5 DEF DeliveryInvariant, SoundPair, Owner!Sound
<1>7. pc'[t] = IF delivery[t].delta THEN "claim_delta" ELSE "callbacks"
  BY <1>1, <1>6 DEF DeliveryInvariant, DispatchInvariant
<1>8. (Waiting(boundary.subscriber))' = Waiting(boundary.subscriber) \ {event}
      /\ (Waiting(boundary.delta))' = Waiting(boundary.delta)
  BY <1>5, <1>6 DEF Waiting
<1>9. QueueIsBacked'
  BY <1>1, <1>3, <1>8 DEF DeliveryInvariant, QueueIsBacked
<1>10. DeliveryIsBacked'
  BY <1>1, <1>2, <1>3, <1>7, <1>8
  DEF DeliveryInvariant, DeliveryIsBacked, WithSubscriber, WithDelta, event
<1>11. FlightIsOwned'
  BY <1>1, <1>4, <1>5, <1>6, <1>7 DEF FlightIsOwned, WithSubscriber, event
<1>12. NothingAhead'
  <2>1. ASSUME NEW e \in Event, e >= nextSequence
        PROVE  e # event
    BY <1>3, <2>1 DEF DeliveryInvariant, NothingAhead, Event
  <2>2. ASSUME NEW e \in Event, e >= nextSequence
        PROVE  (Unknown(boundary, e))'
    BY <1>5, <1>6, <1>8, <2>1, <2>2 DEF DeliveryInvariant, NothingAhead, Unknown, Holds
  <2>3. QED
    BY <1>1, <1>2, <1>3, <2>2 DEF DeliveryInvariant, NothingAhead, event
<1>13. (SoundPair(boundary))'
  BY <1>5, <1>6 DEF DeliveryInvariant, SoundPair, Owner!Sound, Owner!Runtime
<1>14. NoDrift'
  BY <1>2, <1>7 DEF NoDrift, WithSubscriber
<1>15. WaitingIsQueued'
  <2>1. \A u \in Thread : pc[u] \in {"claim", "claim_delta"} => u = t
    BY <1>2
  <2>2. QED
    BY <1>1, <1>3, <1>7, <1>8, <2>1 DEF DeliveryInvariant, WaitingIsQueued, event
<1>16. HeldIsInFlight'
  BY <1>1, <1>2, <1>5, <1>6, <1>7
     DEF DeliveryInvariant, HeldIsInFlight, WithSubscriber, WithDelta, event
<1>17. QED
  BY <1>9, <1>10, <1>11, <1>12, <1>13, <1>14, <1>15, <1>16 DEF DeliveryInvariant

LEMMA ClaimDeltaKeeps ==
    ASSUME DeliveryInvariant, DispatchInvariant', NEW t \in Thread, DrainClaimDelta(t)
    PROVE  DeliveryInvariant'
<1> DEFINE event == delivery[t].event
           claimed == Owner!Claimed(boundary.delta, event)
           owners == [boundary EXCEPT !.delta = claimed]
           drifted == owners = boundary
<1>1. /\ pc[t] = "claim_delta" /\ (~drifted => boundary' = owners)
      /\ UNCHANGED <<pending, delivery, nextSequence>>
      /\ pc' = [pc EXCEPT ![t] = IF drifted THEN "drifted" ELSE "callbacks"]
  BY SameOperations DEF DrainClaimDelta, Goto, log
<1>2. \A u \in Thread : u # t => pc[u] = "outside" /\ pc'[u] = "outside"
  BY <1>1, OthersAreOutside DEF DeliveryInvariant, DispatchInvariant
<1>3. /\ event \in Event /\ event \in Waiting(boundary.delta)
      /\ delivery[t].delta \in BOOLEAN /\ delivery[t].delta
      /\ \A i \in DOMAIN pending : pending[i].event # event
      /\ event < nextSequence
  BY <1>1 DEF DeliveryInvariant, DeliveryIsBacked, NothingAhead, WithSubscriber
<1>4. boundary.delta.inFlight = {}
  BY <1>1, <1>2 DEF DeliveryInvariant, FlightIsOwned, WithDelta
<1>5. /\ Owner!Sound(claimed) /\ claimed.inFlight = {event} /\ claimed # boundary.delta
      /\ Waiting(claimed) = Waiting(boundary.delta) \ {event}
  BY <1>3, <1>4, ClaimedMoves DEF DeliveryInvariant, SoundPair
<1> HIDE DEF event, claimed
<1>6. ~drifted
  BY <1>5 DEF DeliveryInvariant, SoundPair
<1>7. /\ boundary'.delta = claimed /\ boundary'.subscriber = boundary.subscriber
      /\ boundary' \in [subscriber : Owner!Runtime, delta : Owner!Runtime]
  BY <1>1, <1>5, <1>6 DEF DeliveryInvariant, SoundPair, Owner!Sound
<1>8. pc'[t] = "callbacks"
  BY <1>1, <1>6 DEF DeliveryInvariant, DispatchInvariant
<1>9. (Waiting(boundary.delta))' = Waiting(boundary.delta) \ {event}
      /\ (Waiting(boundary.subscriber))' = Waiting(boundary.subscriber)
  BY <1>5, <1>7 DEF Waiting
<1>10. QueueIsBacked'
  BY <1>1, <1>3, <1>9 DEF DeliveryInvariant, QueueIsBacked
<1>11. DeliveryIsBacked'
  BY <1>1, <1>2, <1>3, <1>8, <1>9
  DEF DeliveryInvariant, DeliveryIsBacked, WithSubscriber, WithDelta, event
<1>12. FlightIsOwned'
  BY <1>1, <1>2, <1>3, <1>5, <1>7, <1>8
  DEF DeliveryInvariant, FlightIsOwned, WithSubscriber, WithDelta, event
<1>13. NothingAhead'
  <2>1. ASSUME NEW e \in Event, e >= nextSequence
        PROVE  e # event
    BY <1>3, <2>1 DEF DeliveryInvariant, NothingAhead, Event
  <2>2. ASSUME NEW e \in Event, e >= nextSequence
        PROVE  (Unknown(boundary, e))'
    BY <1>5, <1>7, <1>9, <2>1, <2>2 DEF DeliveryInvariant, NothingAhead, Unknown, Holds
  <2>3. QED
    BY <1>1, <1>2, <1>8, <2>2 DEF DeliveryInvariant, NothingAhead
<1>14. (SoundPair(boundary))'
  BY <1>5, <1>7 DEF DeliveryInvariant, SoundPair, Owner!Sound, Owner!Runtime
<1>15. NoDrift'
  BY <1>2, <1>8 DEF NoDrift, WithSubscriber
<1>16. WaitingIsQueued'
  <2>1. \A u \in Thread : pc[u] \in {"claim", "claim_delta"} => u = t
    BY <1>2
  <2>2. QED
    BY <1>1, <1>9, <2>1 DEF DeliveryInvariant, WaitingIsQueued, event
<1>17. HeldIsInFlight'
  BY <1>1, <1>2, <1>5, <1>7, <1>8
     DEF DeliveryInvariant, HeldIsInFlight, WithSubscriber, WithDelta, event
<1>18. QED
  BY <1>10, <1>11, <1>12, <1>13, <1>14, <1>15, <1>16, <1>17 DEF DeliveryInvariant

(* Within a delivery only the dispatcher's place and what is left of its       *)
(* audience change.                                                          *)
LEMMA CallbacksKeep ==
    ASSUME DeliveryInvariant, DispatchInvariant', NEW t \in Thread,
           Call(t) \/ CallsDone(t) \/ Return(t) \/ RaiseBaseException(t)
    PROVE  DeliveryInvariant'
<1> DEFINE during == {"callbacks", "in_callback", "complete"}
<1>1. /\ pc[t] \in during /\ UNCHANGED <<boundary, pending, nextSequence>>
      /\ \E to \in during : pc' = [pc EXCEPT ![t] = to]
  BY DEF Call, CallsDone, Return, RaiseBaseException, Goto, log
<1>2. \/ delivery' = delivery
      \/ \E rest : delivery' = [delivery EXCEPT ![t].audience = rest]
      \/ delivery' = [delivery EXCEPT ![t].raised = TRUE]
  BY DEF Call, CallsDone, Return, RaiseBaseException
<1>3. \A u \in Thread : u # t => pc[u] = "outside" /\ pc'[u] = "outside"
  BY <1>1, OthersAreOutside DEF DeliveryInvariant, DispatchInvariant
<1>4. pc'[t] \in during
  BY <1>1 DEF DeliveryInvariant, DispatchInvariant
<1>5. /\ DOMAIN delivery' = Thread
      /\ \A u \in Thread : /\ DOMAIN delivery'[u] = Fields
                           /\ delivery'[u].event = delivery[u].event
                           /\ delivery'[u].delta = delivery[u].delta
  BY <1>2 DEF DeliveryInvariant, DeliveryIsBacked, Fields
<1>6. (Waiting(boundary.subscriber))' = Waiting(boundary.subscriber)
      /\ (Waiting(boundary.delta))' = Waiting(boundary.delta)
  BY <1>1 DEF Waiting
<1>7. QueueIsBacked'
  BY <1>1, <1>6 DEF DeliveryInvariant, QueueIsBacked
<1>8. DeliveryIsBacked'
  BY <1>1, <1>3, <1>4, <1>5
  DEF DeliveryInvariant, DeliveryIsBacked, WithSubscriber, WithDelta
<1>9. FlightIsOwned'
  BY <1>1, <1>3, <1>4, <1>5 DEF DeliveryInvariant, FlightIsOwned, WithSubscriber, WithDelta
<1>10. NothingAhead'
  BY <1>1, <1>3, <1>4, <1>6 DEF DeliveryInvariant, NothingAhead, Unknown, Holds
<1>11. (SoundPair(boundary))' /\ NoDrift'
  BY <1>1, <1>3, <1>4 DEF DeliveryInvariant, NoDrift, WithSubscriber, WithDelta, SoundPair, Owner!Sound, Owner!Runtime
<1>12. WaitingIsQueued'
  BY <1>1, <1>3, <1>4, <1>6 DEF DeliveryInvariant, WaitingIsQueued
<1>13. HeldIsInFlight'
  <2>1. \A u \in Thread : u # t => delivery'[u] = delivery[u]
    BY <1>2 DEF DeliveryInvariant, DeliveryIsBacked
  <2>2. QED
    BY <1>1, <1>3, <1>4, <1>5, <2>1 DEF DeliveryInvariant, HeldIsInFlight, WithSubscriber, WithDelta
<1>14. QED
  BY <1>7, <1>8, <1>9, <1>10, <1>11, <1>12, <1>13 DEF DeliveryInvariant

(* The completions leave nothing in flight behind.                            *)
LEMMA CompletionsKeep ==
    ASSUME DeliveryInvariant, DispatchInvariant', NEW t \in Thread,
           Complete(t) \/ CompleteDelta(t)
    PROVE  DeliveryInvariant'
<1> DEFINE event == delivery[t].event
<1>1. /\ pc[t] \in {"complete", "complete_delta"} /\ UNCHANGED <<pending, nextSequence>>
      /\ \/ /\ pc[t] = "complete" /\ delivery[t].delta
            /\ pc' = [pc EXCEPT ![t] = "complete_delta"] /\ delivery' = delivery
         \/ /\ pc[t] = "complete" => ~delivery[t].delta
            /\ \E to \in {"outside", "drain"} : pc' = [pc EXCEPT ![t] = to]
            /\ delivery' = [delivery EXCEPT ![t] = NoDelivery]
  BY DEF Complete, CompleteDelta, Goto, AfterCompletion, log
<1>2. \A u \in Thread : u # t => pc[u] = "outside" /\ pc'[u] = "outside"
  BY <1>1, OthersAreOutside DEF DeliveryInvariant, DispatchInvariant
<1>3. event \in Event /\ delivery[t].delta \in BOOLEAN
  BY <1>1 DEF DeliveryInvariant, DeliveryIsBacked, WithSubscriber, WithDelta
<1>4. /\ pc[t] = "complete_delta" => boundary.subscriber.inFlight = {}
      /\ boundary.subscriber.inFlight \subseteq {event}
      /\ boundary.delta.inFlight \subseteq {event}
      /\ ~delivery[t].delta => boundary.delta.inFlight = {}
  BY <1>1, <1>2 DEF DeliveryInvariant, FlightIsOwned, WithSubscriber, WithDelta
<1>5. /\ boundary' \in [subscriber : Owner!Runtime, delta : Owner!Runtime]
      /\ Owner!Sound(boundary'.subscriber) /\ Owner!Sound(boundary'.delta)
      /\ Waiting(boundary'.subscriber) = Waiting(boundary.subscriber)
      /\ Waiting(boundary'.delta) = Waiting(boundary.delta)
      /\ boundary'.subscriber.inFlight = {}
      /\ boundary'.delta.inFlight \subseteq boundary.delta.inFlight
      /\ pc[t] = "complete_delta" => boundary'.delta.inFlight = {}
      /\ pc[t] = "complete" => boundary'.delta.inFlight = boundary.delta.inFlight
  <2>1. CASE Complete(t)
    <3> DEFINE done == Owner!Completed(boundary.subscriber, event)
    <3>1. /\ Owner!Sound(done) /\ done.inFlight = boundary.subscriber.inFlight \ {event}
          /\ Waiting(done) = Waiting(boundary.subscriber) /\ done \in Owner!Runtime
      BY <1>3, CompletedForgets DEF DeliveryInvariant, SoundPair, Owner!Sound
    <3>2. boundary' = [boundary EXCEPT !.subscriber = done] /\ pc[t] = "complete"
      BY <2>1, SameOperations DEF Complete, Goto
    <3> HIDE DEF done
    <3>3. QED
      BY <1>4, <3>1, <3>2 DEF DeliveryInvariant, SoundPair
  <2>2. CASE CompleteDelta(t)
    <3> DEFINE done == Owner!Completed(boundary.delta, event)
    <3>1. /\ Owner!Sound(done) /\ done.inFlight = boundary.delta.inFlight \ {event}
          /\ Waiting(done) = Waiting(boundary.delta) /\ done \in Owner!Runtime
      BY <1>3, CompletedForgets DEF DeliveryInvariant, SoundPair, Owner!Sound
    <3>2. boundary' = [boundary EXCEPT !.delta = done] /\ pc[t] = "complete_delta"
      BY <2>2, SameOperations DEF CompleteDelta, Goto
    <3> HIDE DEF done
    <3>3. QED
      BY <1>4, <3>1, <3>2 DEF DeliveryInvariant, SoundPair
  <2>3. QED
    BY <2>1, <2>2
<1>6. (Waiting(boundary.subscriber))' = Waiting(boundary.subscriber)
      /\ (Waiting(boundary.delta))' = Waiting(boundary.delta)
  BY <1>5 DEF Waiting
<1>7. pc'[t] \in {"complete_delta", "outside", "drain"}
  BY <1>1 DEF DeliveryInvariant, DispatchInvariant
<1>8. QueueIsBacked'
  BY <1>1, <1>6 DEF DeliveryInvariant, QueueIsBacked
<1>9. DeliveryIsBacked'
  <2>1. DOMAIN NoDelivery = Fields
    BY DEF NoDelivery, Fields
  <2>2. /\ DOMAIN delivery' = Thread
        /\ \A u \in Thread : DOMAIN delivery'[u] = Fields
    BY <1>1, <2>1 DEF DeliveryInvariant, DeliveryIsBacked
  <2>3. pc'[t] = "complete_delta" => delivery' = delivery /\ delivery[t].delta
    BY <1>1 DEF DeliveryInvariant, DispatchInvariant
  <2>4. QED
    BY <1>2, <1>3, <1>7, <2>2, <2>3 DEF DeliveryIsBacked, WithSubscriber, WithDelta
<1>10. FlightIsOwned'
  <2>1. CASE boundary'.delta.inFlight = {}
    BY <1>5, <2>1 DEF FlightIsOwned
  <2>2. CASE boundary'.delta.inFlight # {}
    <3>1. pc[t] = "complete" /\ delivery[t].delta
      BY <1>1, <1>4, <1>5, <2>2
    <3>2. pc'[t] = "complete_delta" /\ delivery' = delivery
      BY <1>1, <3>1 DEF DeliveryInvariant, DispatchInvariant
    <3>3. QED
      BY <1>4, <1>5, <3>1, <3>2 DEF FlightIsOwned, WithDelta
  <2>3. QED
    BY <2>1, <2>2
<1>11. NothingAhead'
  BY <1>1, <1>2, <1>5, <1>6, <1>7, <1>4 DEF DeliveryInvariant, NothingAhead, Unknown, Holds
<1>12. (SoundPair(boundary))' /\ NoDrift'
  BY <1>2, <1>5, <1>7 DEF NoDrift, WithSubscriber, WithDelta, SoundPair, Owner!Sound, Owner!Runtime
<1>13. WaitingIsQueued'
  BY <1>1, <1>2, <1>6 DEF DeliveryInvariant, WaitingIsQueued
<1>14. HeldIsInFlight'
  <2>1. \A u \in Thread : u # t => delivery'[u] = delivery[u] /\ delivery[u] = NoDelivery
    BY <1>1, <1>2 DEF DeliveryInvariant, DeliveryIsBacked, HeldIsInFlight
  <2>2. \/ pc[t] = "complete" /\ pc'[t] = "complete_delta" /\ delivery'[t] = delivery[t]
        \/ pc'[t] \in {"outside", "drain"} /\ delivery'[t] = NoDelivery
    BY <1>1 DEF DeliveryInvariant, DispatchInvariant, DeliveryIsBacked
  <2>3. QED
    BY <1>2, <1>5, <2>1, <2>2 DEF DeliveryInvariant, HeldIsInFlight, WithSubscriber, WithDelta
<1>15. QED
  BY <1>8, <1>9, <1>10, <1>11, <1>12, <1>13, <1>14 DEF DeliveryInvariant

(* An empty queue ends the dispatching.                                      *)
LEMMA DrainEndKeeps ==
    ASSUME DeliveryInvariant, DispatchInvariant', NEW t \in Thread, DrainEnd(t)
    PROVE  DeliveryInvariant'
<1>1. /\ pc[t] = "drain" /\ pc' = [pc EXCEPT ![t] = "outside"]
      /\ UNCHANGED <<boundary, pending, delivery, nextSequence>>
  BY DEF DrainEnd, Goto, log
<1>2. \A u \in Thread : pc'[u] = "outside" /\ pc[u] \in {"outside", "drain"}
  BY <1>1, OthersAreOutside DEF DeliveryInvariant, DispatchInvariant
<1>3. (Waiting(boundary.subscriber))' = Waiting(boundary.subscriber)
      /\ (Waiting(boundary.delta))' = Waiting(boundary.delta)
  BY <1>1 DEF Waiting
<1>4. QueueIsBacked' /\ DeliveryIsBacked'
  BY <1>1, <1>2, <1>3
  DEF DeliveryInvariant, QueueIsBacked, DeliveryIsBacked, WithSubscriber, WithDelta
<1>5. FlightIsOwned' /\ NothingAhead'
  BY <1>1, <1>2, <1>3
  DEF DeliveryInvariant, FlightIsOwned, NothingAhead, Unknown, Holds, WithSubscriber, WithDelta
<1>6. (SoundPair(boundary))' /\ NoDrift'
  BY <1>1, <1>2 DEF DeliveryInvariant, NoDrift, WithSubscriber, WithDelta, SoundPair, Owner!Sound, Owner!Runtime
<1>7. WaitingIsQueued' /\ HeldIsInFlight'
  BY <1>1, <1>2, <1>3
     DEF DeliveryInvariant, WaitingIsQueued, HeldIsInFlight, WithSubscriber, WithDelta
<1>8. QED
  BY <1>4, <1>5, <1>6, <1>7 DEF DeliveryInvariant

(* Closing, pausing and resuming the boundaries moves no event.               *)
LEMMA BoundaryControlKeeps ==
    ASSUME DeliveryInvariant, DispatchInvariant', NEW t \in Thread,
           Close(t) \/ ControlBackpressure(t)
    PROVE  DeliveryInvariant'
<1>1. UNCHANGED <<pending, delivery, nextSequence, pc>>
  BY DEF Close, ControlBackpressure, log
<1>2. PICK subscriber, deltas :
         /\ boundary' = [boundary EXCEPT !.subscriber = subscriber, !.delta = deltas]
         /\ subscriber \in {boundary.subscriber, Subscribers!Paused(boundary.subscriber),
                            Subscribers!Resumed(boundary.subscriber),
                            Subscribers!Closed(boundary.subscriber)}
         /\ deltas \in {boundary.delta, Subscribers!Paused(boundary.delta),
                        Subscribers!Resumed(boundary.delta), Deltas!Closed(boundary.delta)}
  <2>1. boundary \in [subscriber : Owner!Runtime, delta : Owner!Runtime]
    BY DEF DeliveryInvariant, SoundPair
  <2>2. CASE Close(t)
    BY <2>2 DEF Close
  <2>3. CASE ControlBackpressure(t)
    <3>1. PICK name \in host.controllable :
             \/ boundary' = [boundary EXCEPT ![name] = Subscribers!Paused(@)]
             \/ boundary' = [boundary EXCEPT ![name] = Subscribers!Resumed(@)]
      BY <2>3 DEF ControlBackpressure
    <3>2. CASE name = "subscriber"
      <4>1. PICK new \in {Subscribers!Paused(boundary.subscriber),
                          Subscribers!Resumed(boundary.subscriber)} :
               boundary' = [boundary EXCEPT !.subscriber = new]
        BY <3>1, <3>2
      <4>2. boundary' = [boundary EXCEPT !.subscriber = new, !.delta = boundary.delta]
        BY <2>1, <4>1
      <4>3. QED
        BY <4>2
    <3>3. CASE name = "delta"
      <4>1. PICK new \in {Subscribers!Paused(boundary.delta), Subscribers!Resumed(boundary.delta)} :
               boundary' = [boundary EXCEPT !.delta = new]
        BY <3>1, <3>3
      <4>2. boundary' = [boundary EXCEPT !.subscriber = boundary.subscriber, !.delta = new]
        BY <2>1, <4>1
      <4>3. QED
        BY <4>2
    <3>4. CASE name \notin {"subscriber", "delta"}
      <4>1. boundary' = boundary
        BY <2>1, <3>1, <3>4
      <4>2. QED
        BY <2>1, <4>1
    <3>5. QED
      BY <3>2, <3>3, <3>4
  <2>4. QED
    BY <2>2, <2>3
<1>3. /\ Owner!Sound(subscriber) /\ subscriber.inFlight = boundary.subscriber.inFlight
      /\ Waiting(subscriber) = Waiting(boundary.subscriber)
  BY <1>2, ControlKeeps DEF DeliveryInvariant, SoundPair
<1>4. /\ Owner!Sound(deltas) /\ deltas.inFlight = boundary.delta.inFlight
      /\ Waiting(deltas) = Waiting(boundary.delta)
  BY <1>2, ControlKeeps DEF DeliveryInvariant, SoundPair
<1>5. /\ boundary'.subscriber = subscriber /\ boundary'.delta = deltas
      /\ boundary' \in [subscriber : Owner!Runtime, delta : Owner!Runtime]
  BY <1>2, <1>3, <1>4 DEF DeliveryInvariant, SoundPair, Owner!Sound
<1>6. SoundPair(boundary') /\ SameInFlight(boundary, boundary')
  BY <1>3, <1>4, <1>5 DEF SoundPair, SameInFlight
<1>7. QED
  BY <1>1, <1>3, <1>4, <1>5, <1>6, SameHoldingsKeep

LEMMA DeliveryStep == DeliveryInvariant /\ [Next]_vars => DeliveryInvariant'
<1> SUFFICES ASSUME DeliveryInvariant, [Next]_vars
             PROVE  DeliveryInvariant'
  OBVIOUS
<1>1. DispatchInvariant'
  BY DispatchStep DEF DeliveryInvariant
<1>2. ASSUME UNCHANGED <<boundary, pending, delivery, nextSequence, pc>>
      PROVE  DeliveryInvariant'
  BY <1>1, <1>2, SameHoldingsKeep DEF DeliveryInvariant, SameInFlight
<1>3. ASSUME NEW t \in Thread, Host(t)
      PROVE  DeliveryInvariant'
  <2>1. CASE Subscribe(t) \/ Unsubscribe(t)
    BY <1>2, <2>1 DEF Subscribe, Unsubscribe, log
  <2>2. CASE Close(t) \/ ControlBackpressure(t)
    BY <1>1, <2>2, BoundaryControlKeeps
  <2>3. ASSUME NEW delta \in BOOLEAN, NEW projected \in BOOLEAN, NEW announcing \in BOOLEAN,
               Emit(t, delta, projected, announcing)
        PROVE  DeliveryInvariant'
    BY <1>1, <2>3, EmitKeeps
  <2>4. QED
    BY <1>3, <2>1, <2>2, <2>3 DEF Host
<1>4. ASSUME NEW t \in Thread, Drain(t) \/ Return(t) \/ RaiseBaseException(t)
      PROVE  DeliveryInvariant'
  BY <1>1, <1>4, DrainEndKeeps, TakeKeeps, ClaimKeeps, ClaimDeltaKeeps, CallbacksKeep,
     CompletionsKeep DEF Drain
<1>5. CASE UNCHANGED vars
  BY <1>2, <1>5 DEF vars, log
<1>6. QED
  BY <1>3, <1>4, <1>5 DEF Next

LEMMA DeliveryInit == Init => DeliveryInvariant
<1> SUFFICES ASSUME Init PROVE DeliveryInvariant
  OBVIOUS
<1>1. DispatchInvariant
  BY DEF Init, DispatchInvariant, SerializedDispatch
<1>2. boundary = [subscriber |-> Owner!Empty, delta |-> Owner!Empty]
  BY DEF Init, Subscribers!Empty, Deltas!Empty, Owner!Empty
<1>3. Owner!Empty.pending = <<>> /\ Owner!Empty.inFlight = {} /\ Owner!Empty \in Owner!Runtime
  BY DEF Owner!Empty, Owner!Runtime
<1>4. Owner!Sound(Owner!Empty)
  <2>1. /\ Owner!IsFiniteSet({}) /\ Owner!Cardinality({}) = 0
    <3>1. /\ Owner!Cardinality({}) = Cardinality({})
          /\ Owner!IsFiniteSet({}) <=> IsFiniteSet({})
      BY DEF Owner!Cardinality, Cardinality, Owner!IsFiniteSet, IsFiniteSet
    <3>2. QED
      BY <3>1, FS_EmptySet
  <2>2. QED
    BY <1>3, <2>1, HubAssumption DEF Owner!Sound, Owner!Distinct
<1>5. SoundPair(boundary)
  BY <1>2, <1>3, <1>4 DEF SoundPair
<1>6. Waiting(boundary.subscriber) = {} /\ Waiting(boundary.delta) = {}
  BY <1>2, <1>3 DEF Waiting
<1>7. QueueIsBacked
  BY DEF Init, QueueIsBacked
<1>8. DeliveryIsBacked /\ NoDrift
  BY DEF Init, DeliveryIsBacked, NoDrift, NoDelivery, Fields, WithSubscriber, WithDelta
<1>9. FlightIsOwned
  BY <1>2, <1>3 DEF FlightIsOwned
<1>10. NothingAhead
  BY <1>2, <1>3, <1>6 DEF Init, NothingAhead, Unknown, Holds
<1>11. WaitingIsQueued /\ HeldIsInFlight
  BY <1>6 DEF Init, WaitingIsQueued, HeldIsInFlight, WithSubscriber, WithDelta
<1>12. QED
  BY <1>1, <1>5, <1>7, <1>8, <1>9, <1>10, <1>11 DEF DeliveryInvariant

(* Only the thread that set _dispatching is in _drain_deliveries, and claims   *)
(* never miss: the RuntimeError "claim drift" of the code is unreachable,     *)
(* whatever is refused, withdrawn, paused, closed or raised meanwhile.        *)
THEOREM HubHasOneDispatcher == Spec => []OneDispatcher
<1>1. DeliveryInvariant => OneDispatcher
  <2> SUFFICES ASSUME DeliveryInvariant PROVE OneDispatcher
    OBVIOUS
  <2> DEFINE Inside == {t \in Thread : pc[t] # "outside"}
  <2>1. Cardinality(Inside) <= 1
    <3>1. CASE Inside = {}
      BY <3>1, FS_EmptySet
    <3>2. CASE Inside # {}
      <4>1. PICK t \in Inside : TRUE
        BY <3>2
      <4>2. Inside = {t}
        BY <4>1, OthersAreOutside
      <4>3. Cardinality({t}) = 1
        BY FS_Singleton
      <4>4. QED
        BY <4>2, <4>3
    <3>3. QED
      BY <3>1, <3>2
  <2>2. QED
    BY <2>1 DEF OneDispatcher, DeliveryInvariant, DispatchInvariant, SerializedDispatch, NoDrift,
                WithSubscriber, WithDelta
<1>2. QED
  BY <1>1, DeliveryInit, DeliveryStep, PTL DEF Spec

BoundariesWithinLimits ==
    \A rt \in {boundary.subscriber, boundary.delta} :
        Len(rt.pending) <= PendingLimit /\ Cardinality(rt.inFlight) <= 1

(* delivery_pending_limit: neither boundary of the hub ever exceeds its        *)
(* limits, also when one of them withdraws what the other refused.           *)
THEOREM HubRespectsLimits == Spec => []BoundariesWithinLimits
<1>1. DeliveryInvariant => BoundariesWithinLimits
  <2>1. \A S : Owner!Cardinality(S) = Cardinality(S)
    BY DEF Owner!Cardinality, Cardinality
  <2>2. QED
    BY <2>1 DEF BoundariesWithinLimits, DeliveryInvariant, SoundPair, Owner!Sound
<1>2. QED
  BY <1>1, DeliveryInit, DeliveryStep, PTL DEF Spec

(* emit admits an event and its overflow event to both boundaries or to none,  *)
(* and _drain_deliveries gives their capacity back, whatever was refused,     *)
(* withdrawn, paused, closed or raised: the boundaries own exactly the events *)
(* that are accepted and not delivered yet, so capacity never leaks.         *)
THEOREM CapacityNeverLeaks == Spec => []BoundariesOwnTheQueue
<1>1. DeliveryInvariant => BoundariesOwnTheQueue
  <2> SUFFICES ASSUME DeliveryInvariant PROVE BoundariesOwnTheQueue
    OBVIOUS
  <2> DEFINE Completing(d) == \E t \in Thread : pc[t] = "complete_delta" /\ delivery[t] = d
             subscribed == {d \in Undelivered : ~Completing(d)}
             deltas == {d \in Undelivered : d.delta}
             Inside == {"claim"} \cup WithSubscriber \cup WithDelta
  <2>1. /\ Subscribers!Owned(boundary.subscriber)
              = Waiting(boundary.subscriber) \cup boundary.subscriber.inFlight
        /\ Deltas!Owned(boundary.delta) = Waiting(boundary.delta) \cup boundary.delta.inFlight
    <3>1. Waiting(boundary.subscriber) \subseteq Event /\ Waiting(boundary.delta) \subseteq Event
      BY WaitingWasAccepted
    <3>2. QED
      BY <3>1, SameOperations DEF Subscribers!Owned, Deltas!Owned
  <2>2. \A d : d \in Undelivered <=> d \in Taken \/ \E i \in DOMAIN pending : d = pending[i]
    BY Zenon DEF Undelivered
  <2>3. \A t \in Thread : delivery[t] # NoDelivery <=> pc[t] \in Inside
    <3>1. SUFFICES ASSUME NEW t \in Thread PROVE delivery[t] # NoDelivery <=> pc[t] \in Inside
      OBVIOUS
    <3>2. pc[t] \in Inside => delivery[t].event \in Event
      BY DEF DeliveryInvariant, DeliveryIsBacked
    <3>3. NoDelivery.event \notin Event
      BY DEF NoDelivery, Event
    <3>4. pc[t] \notin Inside => pc[t] \in {"outside", "drain"}
      BY DEF DeliveryInvariant, NoDrift
    <3>5. QED
      BY <3>2, <3>3, <3>4 DEF DeliveryInvariant, HeldIsInFlight
  <2>4. \A d : d \in Undelivered <=> \/ \E i \in DOMAIN pending : d = pending[i]
                                     \/ \E t \in Thread : pc[t] \in Inside /\ d = delivery[t]
    <3>1. \A d : d \in Taken <=> \E t \in Thread : delivery[t] # NoDelivery /\ d = delivery[t]
      BY DEF Taken
    <3> HIDE DEF Inside
    <3>2. \A d : d \in Taken <=> \E t \in Thread : pc[t] \in Inside /\ d = delivery[t]
      BY <2>3, <3>1
    <3>3. QED
      BY <2>2, <3>2, Zenon
  <2>5. \A t, u \in Thread : pc[t] # "outside" /\ pc[u] # "outside" => t = u
    BY OthersAreOutside
  <2>6. /\ boundary.subscriber.inFlight \cap Waiting(boundary.subscriber) = {}
        /\ boundary.delta.inFlight \cap Waiting(boundary.delta) = {}
    BY DEF DeliveryInvariant, SoundPair, Owner!Sound, Waiting
  <2>7. \A i \in DOMAIN pending : ~Completing(pending[i])
    <3>1. SUFFICES ASSUME NEW i \in DOMAIN pending, NEW t \in Thread,
                          pc[t] = "complete_delta", delivery[t] = pending[i]
                   PROVE  FALSE
      OBVIOUS
    <3>2. delivery[t].delta /\ delivery[t].event \in boundary.delta.inFlight
      BY <3>1 DEF DeliveryInvariant, DeliveryIsBacked, HeldIsInFlight, WithDelta
    <3>3. pending[i].event \in Waiting(boundary.delta)
      BY <3>1, <3>2 DEF DeliveryInvariant, QueueIsBacked
    <3>4. QED
      BY <2>6, <3>1, <3>2, <3>3
  <2>8. \A t \in Thread : pc[t] \in {"claim"} \cup WithSubscriber => ~Completing(delivery[t])
    BY <2>5 DEF WithSubscriber
  <2>9. Waiting(boundary.subscriber) \cup boundary.subscriber.inFlight = {d.event : d \in subscribed}
    <3>1. ASSUME NEW e \in Waiting(boundary.subscriber) \cup boundary.subscriber.inFlight
          PROVE  \E d \in subscribed : d.event = e
      <4>1. \/ \E i \in DOMAIN pending : pending[i].event = e
            \/ \E t \in Thread : pc[t] \in {"claim"} \cup WithSubscriber /\ delivery[t].event = e
        BY <3>1 DEF DeliveryInvariant, WaitingIsQueued, FlightIsOwned
      <4> HIDE DEF Completing
      <4>2. QED
        BY <2>4, <2>7, <2>8, <4>1
    <3>2. ASSUME NEW d \in subscribed
          PROVE  d.event \in Waiting(boundary.subscriber) \cup boundary.subscriber.inFlight
      <4>1. \/ \E i \in DOMAIN pending : d = pending[i]
            \/ \E t \in Thread : pc[t] \in {"claim"} \cup WithSubscriber /\ d = delivery[t]
        BY <2>4, <3>2 DEF WithSubscriber, WithDelta
      <4>2. QED
        BY <4>1 DEF DeliveryInvariant, QueueIsBacked, DeliveryIsBacked, HeldIsInFlight
    <3> HIDE DEF subscribed
    <3>3. QED
      BY <3>1, <3>2
  <2>10. Waiting(boundary.delta) \cup boundary.delta.inFlight = {d.event : d \in deltas}
    <3>1. ASSUME NEW e \in Waiting(boundary.delta) \cup boundary.delta.inFlight
          PROVE  \E d \in deltas : d.event = e
      <4>1. \/ \E i \in DOMAIN pending : pending[i].event = e /\ pending[i].delta
            \/ \E t \in Thread : pc[t] \in Inside /\ delivery[t].event = e /\ delivery[t].delta
        BY <3>1 DEF DeliveryInvariant, WaitingIsQueued, FlightIsOwned, WithSubscriber
      <4>2. QED
        BY <2>4, <4>1
    <3>2. ASSUME NEW d \in deltas
          PROVE  d.event \in Waiting(boundary.delta) \cup boundary.delta.inFlight
      <4>1. \/ \E i \in DOMAIN pending : d = pending[i]
            \/ \E t \in Thread : pc[t] \in Inside /\ d = delivery[t]
        BY <2>4, <3>2
      <4>2. CASE \E i \in DOMAIN pending : d = pending[i]
        BY <3>2, <4>2 DEF DeliveryInvariant, QueueIsBacked
      <4>3. CASE \E t \in Thread : pc[t] \in Inside /\ d = delivery[t]
        BY <3>2, <4>3
           DEF DeliveryInvariant, DeliveryIsBacked, HeldIsInFlight, WithSubscriber, WithDelta
      <4>4. QED
        BY <4>1, <4>2, <4>3
    <3> HIDE DEF deltas
    <3>3. QED
      BY <3>1, <3>2
  <2>11. subscribed = {e \in Undelivered : \A t \in Thread : pc[t] = "complete_delta" => delivery[t] # e}
    OBVIOUS
  <2>12. QED
    BY <2>1, <2>9, <2>10, <2>11 DEF BoundariesOwnTheQueue
<1>2. QED
  BY <1>1, DeliveryInit, DeliveryStep, PTL DEF Spec

-----------------------------------------------------------------------------
(* The order of the calls: the hub implements OrderedBroadcast.              *)

Everyone == Canonical \cup Legacy
Inside   == {"claim"} \cup WithSubscriber \cup WithDelta
Made(e)  == Broadcast!Made(e)
Told(e)  == Broadcast!Told(e)

(* The number of the first queued event, or of the next one.                 *)
First == nextSequence - Len(pending)
ToldBefore(n) == \A e \in 1 .. n - 1 : Told(e)

(* The queue holds the last events that were accepted, in their order, with   *)
(* the audiences they were accepted with; none of them has been called.      *)
QueueInOrder ==
    /\ accepted \in Seq(Seq(Everyone)) /\ Len(accepted) = nextSequence - 1
    /\ nextSequence \in Nat /\ Len(pending) < nextSequence
    /\ \A i \in DOMAIN pending :
          /\ pending[i].event = First + i - 1
          /\ pending[i].audience = accepted[First + i - 1]
          /\ ~pending[i].raised
    /\ \E S : calls \in Seq(S)
    /\ \A e \in Nat : e >= First => Made(e) = 0

(* What remains of the dispatcher's delivery is what remains of its event's   *)
(* audience, and all earlier events are told.                                *)
Remainder(e, audience) ==
    /\ e = First - 1 /\ e \in Nat \ {0} /\ ToldBefore(e)
    /\ audience \in Seq(Everyone)
    /\ Made(e) + Len(audience) = Len(accepted[e])
    /\ \A k \in 1 .. Len(audience) : audience[k] = accepted[e][Made(e) + k]

Remains(t) == Remainder(delivery[t].event, delivery[t].audience)

(* A delivery ended by a BaseException is the last one: its thread leaves     *)
(* _dispatching set, so nobody drains again.                                 *)
DispatcherInOrder ==
    /\ \A t \in Thread :
          /\ pc[t] = "drain" => ToldBefore(First)
          /\ pc[t] \in Inside /\ ~delivery[t].raised => Remains(t)
          /\ pc[t] \in {"claim", "claim_delta", "callbacks", "in_callback"} => ~delivery[t].raised
          /\ pc[t] \in {"complete", "complete_delta"} /\ ~delivery[t].raised =>
                delivery[t].audience = <<>>
    /\ ~dispatching => pending = <<>> /\ ToldBefore(First)

OrderInvariant ==
    /\ callbacks \in Seq(Canonical) /\ legacyCallbacks \in Seq(Legacy)
    /\ QueueInOrder /\ DispatcherInOrder

LEMMA MadeIsCounted ==
    \A e : /\ Made(e) = Cardinality({n \in DOMAIN calls : calls[n][1] = e})
           /\ Told(e) <=> Made(e) = Len(accepted[e])
<1>1. \A S : Broadcast!Cardinality(S) = Cardinality(S)
  BY DEF Broadcast!Cardinality, Cardinality
<1>2. QED
  BY <1>1 DEF Made, Told, Broadcast!Made, Broadcast!Told

LEMMA MadeIsNat ==
    ASSUME QueueInOrder, NEW e
    PROVE  Made(e) \in Nat
<1> DEFINE these == {n \in DOMAIN calls : calls[n][1] = e}
<1>1. PICK S : calls \in Seq(S)
  BY DEF QueueInOrder
<1>2. Len(calls) \in Nat /\ DOMAIN calls = 1 .. Len(calls)
  BY <1>1, LenProperties
<1>3. IsFiniteSet(1 .. Len(calls)) /\ these \subseteq 1 .. Len(calls)
  BY <1>2, FS_Interval
<1> HIDE DEF these
<1>4. IsFiniteSet(these)
  BY <1>3, FS_Subset
<1>5. QED
  BY <1>4, FS_CardinalityType, MadeIsCounted DEF these

(* One more call counts for its event and for no other.                      *)
LEMMA MadeGrows ==
    ASSUME QueueInOrder, NEW x, calls' = Append(calls, x)
    PROVE  /\ \A e : Made(e)' = Made(e) + (IF x[1] = e THEN 1 ELSE 0)
           /\ (\E S : calls \in Seq(S))'
<1>1. PICK S : calls \in Seq(S)
  BY DEF QueueInOrder
<1>2. Len(calls) \in Nat /\ DOMAIN calls = 1 .. Len(calls)
  BY <1>1, LenProperties
<1>3. calls \in Seq(S \cup {x})
  <2>1. \A i \in 1 .. Len(calls) : calls[i] \in S \cup {x}
    BY <1>1, <1>2, ElementOfSeq
  <2>2. QED
    BY <1>1, <1>2, <2>1, SeqDef
<1>4. /\ calls' \in Seq(S \cup {x}) /\ Len(calls') = Len(calls) + 1
      /\ \A i \in 1 .. Len(calls) : calls'[i] = calls[i]
      /\ calls'[Len(calls) + 1] = x
  BY <1>3, AppendProperties
<1>5. DOMAIN calls' = 1 .. Len(calls) + 1
  BY <1>4, LenProperties
<1>6. SUFFICES ASSUME NEW e PROVE Made(e)' = Made(e) + (IF x[1] = e THEN 1 ELSE 0)
  BY <1>4
<1> DEFINE before == {n \in DOMAIN calls : calls[n][1] = e}
           after == {n \in DOMAIN calls' : calls'[n][1] = e}
           last == Len(calls) + 1
<1>7. Made(e) = Cardinality(before) /\ Made(e)' = Cardinality(after)
  <2>1. \A T : Broadcast!Cardinality(T) = Cardinality(T)
    BY DEF Broadcast!Cardinality, Cardinality
  <2>2. QED
    BY <2>1 DEF Made, Broadcast!Made
<1>8. IsFiniteSet(before) /\ last \notin before /\ Cardinality(before) \in Nat
  <2>1. before \subseteq 1 .. Len(calls) /\ last \notin 1 .. Len(calls)
    BY <1>2
  <2>2. IsFiniteSet(1 .. Len(calls))
    BY <1>2, FS_Interval
  <2> HIDE DEF before, last
  <2>3. IsFiniteSet(before)
    BY <2>1, <2>2, FS_Subset
  <2>4. QED
    BY <2>1, <2>3, FS_CardinalityType
<1>9. after = IF x[1] = e THEN before \cup {last} ELSE before
  <2>1. \A n : n \in DOMAIN calls' <=> n \in DOMAIN calls \/ n = last
    BY <1>2, <1>5
  <2>2. \A n \in DOMAIN calls : n # last /\ calls'[n] = calls[n]
    BY <1>2, <1>4
  <2>3. calls'[last] = x
    BY <1>4
  <2> HIDE DEF last
  <2>4. QED
    BY <2>1, <2>2, <2>3
<1> HIDE DEF before, after, last
<1>10. Cardinality(before \cup {last}) = Cardinality(before) + 1
  BY <1>8, FS_AddElement
<1>11. QED
  BY <1>7, <1>8, <1>9, <1>10

LEMMA FirstIsNat ==
    ASSUME QueueInOrder, DeliveryInvariant
    PROVE  First \in Nat \ {0} /\ First <= nextSequence
<1> DEFINE q == Len(pending)
<1>1. q \in Nat
  <2>1. \E S : pending \in Seq(S)
    BY DEF DeliveryInvariant, QueueIsBacked
  <2>2. QED
    BY <2>1, LenProperties
<1>2. nextSequence \in Nat /\ q < nextSequence /\ First = nextSequence - q
  BY DEF QueueInOrder, First
<1> HIDE DEF q
<1>3. QED
  BY <1>1, <1>2

LEMMA SameCalls ==
    ASSUME UNCHANGED calls
    PROVE  \A e : Made(e)' = Made(e)
BY DEF Made, Broadcast!Made

LEMMA SameTold ==
    ASSUME UNCHANGED <<calls, accepted>>
    PROVE  \A e : Told(e)' <=> Told(e)
BY DEF Told, Broadcast!Told, Broadcast!Made

LEMMA QueueStays ==
    ASSUME QueueInOrder, UNCHANGED <<accepted, calls, pending, nextSequence>>
    PROVE  QueueInOrder' /\ First' = First
<1>1. First' = First
  BY DEF First
<1>2. QED
  BY <1>1, SameCalls DEF QueueInOrder

(* Steps that leave the queue and the log alone, and the dispatcher's          *)
(* delivery: where the dispatcher may be is all that has to be looked at.     *)
LEMMA RemainsStays ==
    ASSUME UNCHANGED <<accepted, calls, pending, nextSequence>>,
           NEW t \in Thread, Remains(t), delivery'[t] = delivery[t]
    PROVE  Remains(t)'
<1>1. First' = First
  BY DEF First
<1>2. \A e, audience : Remainder(e, audience) => Remainder(e, audience)'
  BY <1>1, SameCalls, SameTold DEF Remainder, ToldBefore
<1>3. QED
  BY <1>2 DEF Remains

LEMMA NothingMoves ==
    ASSUME QueueInOrder, DispatcherInOrder,
           UNCHANGED <<accepted, calls, pending, nextSequence, delivery, pc, dispatching>>
    PROVE  QueueInOrder' /\ DispatcherInOrder'
<1>1. First' = First
  BY DEF First
<1>2. ToldBefore(First)' <=> ToldBefore(First)
  BY <1>1, SameTold DEF ToldBefore
<1>3. DispatcherInOrder'
  BY <1>2, RemainsStays DEF DispatcherInOrder
<1>4. QED
  BY <1>3, QueueStays

LEMMA WithoutIsSeq ==
    ASSUME NEW S, NEW registered \in Seq(S), NEW s
    PROVE  Without(registered, s) \in Seq(S)
<1> DEFINE i == CHOOSE n \in DOMAIN registered : registered[n] = s
<1>1. CASE \A n \in DOMAIN registered : registered[n] # s
  BY <1>1 DEF Without
<1>2. CASE \E n \in DOMAIN registered : registered[n] = s
  <2>1. i \in 1 .. Len(registered) /\ Len(registered) \in Nat
    BY <1>2, LenProperties
  <2>2. Without(registered, s)
          = SubSeq(registered, 1, i - 1) \o SubSeq(registered, i + 1, Len(registered))
    BY <1>2 DEF Without
  <2> HIDE DEF i
  <2>3. SubSeq(registered, 1, i - 1) \in Seq(S)
    BY <2>1, SubSeqProperties
  <2>4. SubSeq(registered, i + 1, Len(registered)) \in Seq(S)
    BY <2>1, SubSeqProperties
  <2>5. QED
    BY <2>2, <2>3, <2>4, ConcatProperties
<1>3. QED
  BY <1>1, <1>2

LEMMA RegistrationKeepsOrder ==
    ASSUME OrderInvariant, NEW t,
           Subscribe(t) \/ Unsubscribe(t) \/ Close(t) \/ ControlBackpressure(t)
    PROVE  OrderInvariant' /\ UNCHANGED <<accepted, calls>>
<1>1. UNCHANGED <<accepted, calls, pending, nextSequence, delivery, pc, dispatching>>
  BY DEF Subscribe, Unsubscribe, Close, ControlBackpressure, log
<1>2. callbacks \in Seq(Canonical) /\ legacyCallbacks \in Seq(Legacy)
  BY DEF OrderInvariant
<1>3. callbacks' \in Seq(Canonical) /\ legacyCallbacks' \in Seq(Legacy)
  <2>1. CASE Subscribe(t)
    <3>1. \/ UNCHANGED legacyCallbacks /\ \E s \in Canonical : callbacks' = Append(callbacks, s)
          \/ UNCHANGED callbacks
             /\ \E s \in Legacy : legacyCallbacks' = Append(legacyCallbacks, s)
      BY <2>1 DEF Subscribe
    <3>2. QED
      BY <1>2, <3>1, AppendProperties
  <2>2. CASE Unsubscribe(t)
    <3>1. \E s : callbacks' = Without(callbacks, s) /\ legacyCallbacks' = Without(legacyCallbacks, s)
      BY <2>2 DEF Unsubscribe
    <3>2. QED
      BY <1>2, <3>1, WithoutIsSeq
  <2>3. CASE Close(t)
    <3>1. callbacks' = <<>> /\ legacyCallbacks' = <<>>
      BY <2>3 DEF Close
    <3>2. QED
      BY <3>1, EmptySeq
  <2>4. CASE ControlBackpressure(t)
    BY <1>2, <2>4 DEF ControlBackpressure, registry
  <2>5. QED
    BY <2>1, <2>2, <2>3, <2>4
<1>4. QED
  BY <1>1, <1>3, NothingMoves DEF OrderInvariant

(* An emission appends events with their audiences, to the queue and to what  *)
(* was accepted alike.                                                       *)
LEMMA AcceptKeepsOrder ==
    ASSUME OrderInvariant, DeliveryInvariant, NEW t \in Thread, NEW delta, NEW projected,
           NEW events \in {1, 2}, NEW dropCount,
           Accept(t, events, delta, projected, dropCount), UNCHANGED <<registry, delivery, calls>>
    PROVE  OrderInvariant' /\ Broadcast!Accept
<1> DEFINE n == nextSequence
           audience == Audience(projected)
           new == [i \in 1 .. events |->
                     [NoDelivery EXCEPT !.event = n + i - 1, !.audience = audience,
                                        !.delta = delta /\ i = 1]]
           more == [i \in 1 .. events |-> audience]
<1>1. /\ n' = n + events /\ pending' = pending \o new /\ accepted' = accepted \o more
      /\ dispatching'
      /\ pc' = [u \in Thread |-> IF u \in Dispatchers(t) THEN "drain" ELSE pc[u]]
  BY DEF Accept
<1>2. /\ accepted \in Seq(Seq(Everyone)) /\ Len(accepted) = n - 1 /\ n \in Nat
      /\ Len(pending) < n /\ callbacks \in Seq(Canonical) /\ legacyCallbacks \in Seq(Legacy)
  BY DEF OrderInvariant, QueueInOrder
<1>3. audience \in Seq(Everyone)
  <2>1. callbacks \in Seq(Everyone) /\ legacyCallbacks \in Seq(Everyone) /\ <<>> \in Seq(Everyone)
    BY <1>2, SeqMonotonic, EmptySeq DEF Everyone
  <2>2. QED
    BY <2>1, ConcatProperties DEF Audience
<1>4. more \in Seq(Seq(Everyone)) /\ Len(more) = events /\ DOMAIN more = 1 .. events
  <2> HIDE DEF audience
  <2>1. more \in [1 .. events -> Seq(Everyone)]
    BY <1>3
  <2>2. QED
    BY <2>1, SeqDef, LenProperties
<1>5. PICK S : pending \in Seq(S)
  BY DEF DeliveryInvariant, QueueIsBacked
<1>6. \A i \in 1 .. events :
         /\ new[i].event = n + i - 1 /\ new[i].audience = audience /\ ~new[i].raised
         /\ more[i] = audience
  BY DEF NoDelivery
<1> DEFINE R == S \cup {new[i] : i \in 1 .. events}
<1>7. new \in Seq(R) /\ Len(new) = events /\ DOMAIN new = 1 .. events
  <2>1. new \in [1 .. events -> R]
    OBVIOUS
  <2> HIDE DEF new, R
  <2>2. QED
    BY <2>1, SeqDef, LenProperties
<1> HIDE DEF new, more, audience, R
<1>8. pending \in Seq(R) /\ Len(pending) \in Nat /\ DOMAIN pending = 1 .. Len(pending)
  <2>1. S \subseteq R
    BY DEF R
  <2>2. QED
    BY <1>5, <2>1, SeqMonotonic, LenProperties
<1>9. /\ pending' \in Seq(R) /\ Len(pending') = Len(pending) + events
      /\ DOMAIN pending' = 1 .. Len(pending) + events
      /\ \A i \in 1 .. Len(pending) : pending'[i] = pending[i]
      /\ \A i \in DOMAIN pending' :
            i \notin 1 .. Len(pending) => i - Len(pending) \in 1 .. events
                                          /\ pending'[i] = new[i - Len(pending)]
  BY <1>1, <1>7, <1>8, ConcatProperties, LenProperties
<1>10. Len(accepted) \in Nat /\ DOMAIN accepted = 1 .. Len(accepted)
  BY <1>2, LenProperties
<1>11. /\ accepted' \in Seq(Seq(Everyone)) /\ Len(accepted') = Len(accepted) + events
       /\ DOMAIN accepted' = 1 .. Len(accepted) + events
       /\ \A i \in 1 .. Len(accepted) : accepted'[i] = accepted[i]
       /\ \A i \in 1 .. events : accepted'[Len(accepted) + i] = more[i]
  <2>1. /\ accepted' \in Seq(Seq(Everyone)) /\ Len(accepted') = Len(accepted) + events
        /\ \A i \in 1 .. Len(accepted) + events :
              accepted'[i] = IF i <= Len(accepted) THEN accepted[i] ELSE more[i - Len(accepted)]
    BY <1>1, <1>2, <1>4, ConcatProperties
  <2>2. DOMAIN accepted' = 1 .. Len(accepted) + events
    BY <2>1, LenProperties
  <2> DEFINE k == Len(accepted)
  <2>3. \A i \in 1 .. k + events : accepted'[i] = IF i <= k THEN accepted[i] ELSE more[i - k]
    BY <2>1
  <2>4. k \in Nat
    BY <1>10
  <2> HIDE DEF k
  <2>5. \A i \in 1 .. k : accepted'[i] = accepted[i]
    BY <2>3, <2>4
  <2>6. \A i \in 1 .. events : accepted'[k + i] = more[i]
    <3>1. \A i \in 1 .. events : k + i \in 1 .. k + events /\ ~(k + i <= k) /\ (k + i) - k = i
      BY <2>4
    <3>2. QED
      BY <2>3, <3>1
  <2>7. QED
    BY <2>1, <2>2, <2>5, <2>6 DEF k
<1>12. First' = First /\ First \in Nat \ {0}
  <2> DEFINE q == Len(pending)
             r == Len(pending')
  <2>1. q \in Nat /\ r = q + events /\ q < n /\ n \in Nat /\ n' = n + events
    BY <1>1, <1>2, <1>8, <1>9
  <2>2. First = n - q /\ First' = n' - r
    BY DEF First, n
  <2> HIDE DEF q, r
  <2>3. QED
    BY <2>1, <2>2
<1> DEFINE a == Len(accepted)
           q == Len(pending)
<1>13. a \in Nat /\ q \in Nat /\ n \in Nat /\ a = n - 1 /\ First = n - q
  BY <1>2, <1>8 DEF First, n
<1>14. \A e : Made(e)' = Made(e)
  BY SameCalls
<1>15. \A e \in 1 .. Len(accepted) : Told(e)' <=> Told(e)
  <2>1. \A e \in 1 .. Len(accepted) : (Len(accepted[e]))' = Len(accepted[e])
    BY <1>11
  <2>2. \A T : Broadcast!Cardinality(T) = Cardinality(T)
    BY DEF Broadcast!Cardinality, Cardinality
  <2>3. QED
    BY <1>14, <2>1 DEF Told, Broadcast!Told, Made
<1>16. QueueInOrder'
  <2>1. ASSUME NEW i \in DOMAIN pending'
        PROVE  /\ pending'[i].event = First + i - 1
               /\ pending'[i].audience = accepted'[First + i - 1]
               /\ ~pending'[i].raised
    <3>1. CASE i \in 1 .. Len(pending)
      <4>1. First + i - 1 \in 1 .. Len(accepted)
        <5>1. i \in 1 .. q
          BY <3>1
        <5> HIDE DEF a, q
        <5>2. First + i - 1 \in 1 .. a
          BY <1>12, <1>13, <5>1
        <5>3. QED
          BY <5>2 DEF a
      <4>2. pending'[i] = pending[i] /\ accepted'[First + i - 1] = accepted[First + i - 1]
        BY <1>9, <1>11, <3>1, <4>1
      <4>3. QED
        BY <1>8, <3>1, <4>2 DEF OrderInvariant, QueueInOrder
    <3>2. CASE i \notin 1 .. Len(pending)
      <4> DEFINE j == i - Len(pending)
      <4>1. j \in 1 .. events /\ pending'[i] = new[j]
        BY <1>9, <3>2
      <4>2. i \in Int /\ First + i - 1 = n + j - 1 /\ First + i - 1 = Len(accepted) + j
        BY <1>2, <1>8, <1>9 DEF First
      <4> HIDE DEF j
      <4>3. QED
        BY <1>6, <1>11, <4>1, <4>2
    <3>3. QED
      BY <3>1, <3>2
  <2>2. n' \in Nat /\ Len(accepted') = n' - 1 /\ Len(pending') < n'
    <3> DEFINE r == Len(pending')
               b == Len(accepted')
    <3>1. b = a + events /\ r = q + events /\ q < n
      BY <1>2, <1>9, <1>11
    <3> HIDE DEF a, q, r, b
    <3>2. n' \in Nat /\ b = n' - 1 /\ r < n'
      BY <1>1, <1>13, <3>1
    <3>3. QED
      BY <3>2 DEF r, b, n
  <2>3. (\E T : calls \in Seq(T))' /\ (\A e \in Nat : e >= First => Made(e) = 0)'
    BY <1>12, <1>14 DEF OrderInvariant, QueueInOrder
  <2>4. QED
    BY <1>11, <1>12, <2>1, <2>2, <2>3 DEF QueueInOrder
<1>17. \A k \in Nat : k <= First => (ToldBefore(k)' <=> ToldBefore(k))
  <2>1. \A k \in Nat : k <= First => 1 .. k - 1 \subseteq 1 .. Len(accepted)
    <3> HIDE DEF a, q
    <3>1. \A k \in Nat : k <= First => 1 .. k - 1 \subseteq 1 .. a
      BY <1>12, <1>13
    <3>2. QED
      BY <3>1 DEF a
  <2>2. QED
    BY <1>15, <2>1 DEF ToldBefore
<1>18. DispatcherInOrder'
  <2>1. ASSUME NEW u \in Thread PROVE pc'[u] = pc[u] \/ (pc'[u] = "drain" /\ ToldBefore(First))
    BY <1>1 DEF Dispatchers, OrderInvariant, DispatcherInOrder
  <2>2. ToldBefore(First)' <=> ToldBefore(First)
    BY <1>12, <1>17
  <2>3. ASSUME NEW u \in Thread, Remains(u) PROVE Remains(u)'
    <3>1. SUFFICES ASSUME NEW e, NEW rest, Remainder(e, rest)
                   PROVE  Remainder(e, rest)'
      BY <2>3 DEF Remains
    <3>2. e \in 1 .. Len(accepted) /\ e <= First /\ e \in Nat
      <4>1. e = First - 1 /\ e \in Nat \ {0}
        BY <3>1 DEF Remainder
      <4> HIDE DEF a, q
      <4>2. e \in 1 .. a /\ e <= First
        BY <1>12, <1>13, <4>1
      <4>3. QED
        BY <4>1, <4>2 DEF a
    <3>3. ToldBefore(e)' /\ accepted'[e] = accepted[e]
      BY <1>11, <1>17, <3>1, <3>2 DEF Remainder
    <3>4. QED
      BY <1>12, <1>14, <3>1, <3>2, <3>3 DEF Remainder
  <2>4. \A u \in Thread : pc'[u] = "drain" => ToldBefore(First)
    BY <2>1 DEF OrderInvariant, DispatcherInOrder
  <2>5. \A u \in Thread : pc'[u] \in Inside => pc'[u] = pc[u]
    BY <2>1 DEF Inside, WithSubscriber, WithDelta
  <2>6. \A u \in Thread : pc'[u] # "drain" => pc'[u] = pc[u]
    BY <2>1
  <2>7. QED
    BY <1>1, <2>2, <2>3, <2>4, <2>5, <2>6 DEF OrderInvariant, DispatcherInOrder
<1>19. Broadcast!Accept
  BY <1>2, <1>10, <1>11 DEF Broadcast!Accept, Everyone
<1>20. QED
  BY <1>2, <1>16, <1>18, <1>19 DEF OrderInvariant, registry

LEMMA EmitKeepsOrder ==
    ASSUME OrderInvariant, DeliveryInvariant, NEW t \in Thread, NEW delta \in BOOLEAN,
           NEW projected \in BOOLEAN, NEW announcing \in BOOLEAN,
           Emit(t, delta, projected, announcing)
    PROVE  OrderInvariant' /\ (Broadcast!Accept \/ UNCHANGED <<accepted, calls>>)
<1>1. /\ \/ Accept(t, Appended(announcing), delta, projected, DropCount(announcing))
         \/ UNCHANGED <<log, pending, dispatching, pc>>
      /\ UNCHANGED <<registry, delivery, calls>>
  BY DEF Emit, Appended
<1>2. CASE Accept(t, Appended(announcing), delta, projected, DropCount(announcing))
  <2>1. Appended(announcing) \in {1, 2}
    BY DEF Appended
  <2>2. QED
    BY <1>1, <1>2, <2>1, AcceptKeepsOrder
<1>3. CASE UNCHANGED <<log, pending, dispatching, pc>>
  BY <1>1, <1>3, NothingMoves DEF OrderInvariant, log, registry
<1>4. QED
  BY <1>1, <1>2, <1>3

(* What the dispatcher's own steps have in common.                           *)
LEMMA DispatcherAlone ==
    ASSUME DeliveryInvariant, NEW t \in Thread, NEW from, NEW to, from # "outside",
           Goto(t, from, to)
    PROVE  /\ pc[t] = from /\ pc'[t] = to /\ dispatching
           /\ \A u \in Thread : u # t => pc[u] = "outside" /\ pc'[u] = "outside"
<1>1. pc[t] = from /\ pc' = [pc EXCEPT ![t] = to]
  BY DEF Goto
<1>2. QED
  BY <1>1, OthersAreOutside DEF DeliveryInvariant, DispatchInvariant, SerializedDispatch

(* Where the dispatcher goes on with the delivery it has, nothing is lost.     *)
LEMMA SameDeliveryKeepsOrder ==
    ASSUME OrderInvariant, DeliveryInvariant, NEW t \in Thread, NEW from \in Inside, NEW to,
           Goto(t, from, to), UNCHANGED <<registry, log, pending, dispatching, delivery, calls>>,
           \/ /\ to \in {"claim_delta", "callbacks"}
              /\ from \in {"claim", "claim_delta", "in_callback"}
           \/ to = "complete" /\ delivery[t].audience = <<>>
           \/ to = "complete_delta" /\ from = "complete"
    PROVE  OrderInvariant' /\ UNCHANGED <<accepted, calls>>
<1>1. UNCHANGED <<accepted, calls, pending, nextSequence>>
  BY DEF log
<1>2. /\ pc[t] = from /\ pc'[t] = to /\ dispatching
      /\ \A u \in Thread : u # t => pc[u] = "outside" /\ pc'[u] = "outside"
  BY DispatcherAlone DEF Inside, WithSubscriber, WithDelta
<1>3. Remains(t) \/ delivery[t].raised
  BY <1>2 DEF OrderInvariant, DispatcherInOrder
<1>4. Remains(t) => Remains(t)'
  BY <1>1, RemainsStays
<1>5. DispatcherInOrder'
  BY <1>2, <1>3, <1>4 DEF OrderInvariant, DispatcherInOrder, Inside, WithSubscriber, WithDelta
<1>6. QED
  BY <1>1, <1>5, QueueStays DEF OrderInvariant, registry

(* DrainTake: the head of the queue is the event after the ones told.          *)
LEMMA TakeKeepsOrder ==
    ASSUME OrderInvariant, DeliveryInvariant, NEW t \in Thread, DrainTake(t)
    PROVE  OrderInvariant' /\ UNCHANGED <<accepted, calls>>
<1>1. /\ pending # <<>> /\ Goto(t, "drain", "claim")
      /\ delivery' = [delivery EXCEPT ![t] = Head(pending)] /\ pending' = Tail(pending)
      /\ UNCHANGED <<registry, accepted, nextSequence, dispatching, calls>>
  BY DEF DrainTake, log
<1>2. /\ pc[t] = "drain" /\ pc'[t] = "claim" /\ dispatching
      /\ \A u \in Thread : u # t => pc[u] = "outside" /\ pc'[u] = "outside"
  BY <1>1, DispatcherAlone
<1>3. PICK S : pending \in Seq(S)
  BY DEF DeliveryInvariant, QueueIsBacked
<1> DEFINE q == Len(pending)
           r == Len(pending')
           a == Len(accepted)
           n == nextSequence
<1>4. /\ q \in Nat \ {0} /\ DOMAIN pending = 1 .. q /\ r = q - 1 /\ DOMAIN pending' = 1 .. r
      /\ \A i \in 1 .. r : pending'[i] = pending[i + 1]
      /\ Head(pending) = pending[1]
  BY <1>1, <1>3, HeadTailProperties, LenProperties
<1>5. n \in Nat /\ q < n /\ a = n - 1 /\ accepted \in Seq(Seq(Everyone)) /\ n' = n
  BY <1>1 DEF OrderInvariant, QueueInOrder
<1>6. First = n - q /\ First' = n' - r
  BY DEF First
<1> HIDE DEF q, r, a, n
<1>7. First \in Nat \ {0} /\ First' = First + 1 /\ First \in 1 .. a /\ a \in Nat
  BY <1>4, <1>5, <1>6
<1>8. \A e : (Made(e)' = Made(e)) /\ (Told(e)' <=> Told(e))
  BY <1>1, SameCalls, SameTold
<1>9. QueueInOrder'
  <2>1. \A i \in DOMAIN pending' :
           /\ pending'[i].event = First' + i - 1 /\ pending'[i].audience = accepted[First' + i - 1]
           /\ ~pending'[i].raised
    <3>1. SUFFICES ASSUME NEW i \in 1 .. r
                   PROVE  /\ pending'[i].event = First' + i - 1
                          /\ pending'[i].audience = accepted[First' + i - 1]
                          /\ ~pending'[i].raised
      BY <1>4
    <3>2. i + 1 \in DOMAIN pending /\ pending'[i] = pending[i + 1] /\ First' + i - 1 = First + (i + 1) - 1
      BY <1>4, <1>7
    <3>3. QED
      BY <3>2 DEF OrderInvariant, QueueInOrder
  <2>2. r < n
    BY <1>4, <1>5
  <2>3. \A e \in Nat : e >= First' => Made(e)' = 0
    BY <1>7, <1>8 DEF OrderInvariant, QueueInOrder
  <2>4. QED
    BY <1>1, <2>1, <2>2, <2>3 DEF OrderInvariant, QueueInOrder, r, n
<1>10. delivery'[t] = pending[1]
  BY <1>1, <1>4 DEF DeliveryInvariant, DeliveryIsBacked
<1>11. /\ pending[1].event = First /\ pending[1].audience = accepted[First]
       /\ ~pending[1].raised
  <2>1. 1 \in DOMAIN pending /\ First + 1 - 1 = First
    BY <1>4, <1>7
  <2>2. QED
    BY <2>1 DEF OrderInvariant, QueueInOrder
<1>12. Made(First) = 0 /\ ToldBefore(First)
  BY <1>2, <1>7 DEF OrderInvariant, QueueInOrder, DispatcherInOrder
<1>13. accepted[First] \in Seq(Everyone) /\ Len(accepted[First]) \in Nat
  BY <1>5, <1>7, ElementOfSeq, LenProperties DEF a
<1>14. Remains(t)'
  <2>1. PICK e, audience : e = pending[1].event /\ audience = pending[1].audience
    OBVIOUS
  <2>2. e = First' - 1 /\ e \in Nat \ {0} /\ ToldBefore(e)'
    BY <1>7, <1>8, <1>11, <1>12, <2>1 DEF ToldBefore
  <2>3. Made(e)' = 0 /\ accepted' = accepted
    BY <1>1, <1>8, <1>11, <1>12, <2>1
  <2>4. audience = accepted[e] /\ audience \in Seq(Everyone) /\ Len(audience) \in Nat
    BY <1>11, <1>13, <2>1
  <2>5. \A k \in 1 .. Len(audience) : 0 + k = k
    BY <2>4
  <2>6. Remainder(e, audience)'
    BY <2>2, <2>3, <2>4, <2>5 DEF Remainder
  <2>7. QED
    BY <1>10, <2>1, <2>6 DEF Remains
<1>15. DispatcherInOrder'
  BY <1>1, <1>2, <1>10, <1>11, <1>14 DEF DispatcherInOrder, Inside, WithSubscriber, WithDelta
<1>16. QED
  BY <1>1, <1>9, <1>15 DEF OrderInvariant, registry

(* Call: the next member of the audience is the one the broadcast prescribes.  *)
LEMMA CallKeepsOrder ==
    ASSUME OrderInvariant, DeliveryInvariant, NEW t \in Thread, Call(t)
    PROVE  OrderInvariant' /\ Broadcast!Call
<1>1. PICK d : d = delivery[t]
  OBVIOUS
<1>2. PICK e, m, l : e = d.event /\ m = Made(e) /\ l = Len(d.audience)
  OBVIOUS
<1>3. /\ d.audience # <<>> /\ Goto(t, "callbacks", "in_callback")
      /\ calls' = Append(calls, <<e, Head(d.audience)>>)
      /\ delivery' = [delivery EXCEPT ![t].audience = Tail(@)]
      /\ UNCHANGED <<registry, accepted, nextSequence, pending, dispatching>>
  BY <1>1, <1>2 DEF Call, log
<1>4. /\ pc[t] = "callbacks" /\ pc'[t] = "in_callback" /\ dispatching
      /\ \A u \in Thread : u # t => pc[u] = "outside" /\ pc'[u] = "outside"
  BY <1>3, DispatcherAlone
<1>5. Remainder(e, d.audience) /\ ~d.raised
  BY <1>4, <1>1, <1>2 DEF Remains, OrderInvariant, DispatcherInOrder, Inside, WithSubscriber, WithDelta
<1>6. m \in Nat
  BY <1>2, MadeIsNat DEF OrderInvariant
<1>7. /\ l \in Nat \ {0} /\ Head(d.audience) = d.audience[1]
      /\ Tail(d.audience) \in Seq(Everyone) /\ Len(Tail(d.audience)) = l - 1
      /\ \A k \in 1 .. l - 1 : Tail(d.audience)[k] = d.audience[k + 1]
  BY <1>3, <1>5, <1>2, HeadTailProperties, LenProperties DEF Remainder
<1>8. /\ e = First - 1 /\ e \in Nat \ {0} /\ ToldBefore(e) /\ m + l = Len(accepted[e])
      /\ \A k \in 1 .. l : d.audience[k] = accepted[e][m + k]
  BY <1>5, <1>2 DEF Remainder
<1>9. /\ \A f : Made(f)' = Made(f) + (IF e = f THEN 1 ELSE 0)
      /\ (\E S : calls \in Seq(S))'
  <2>1. <<e, Head(d.audience)>>[1] = e
    OBVIOUS
  <2>2. QED
    BY <1>3, <2>1, MadeGrows DEF OrderInvariant
<1>10. /\ delivery'[t].event = e /\ delivery'[t].audience = Tail(d.audience)
      /\ delivery'[t].raised = d.raised
  BY <1>3, <1>1, <1>2 DEF DeliveryInvariant, DeliveryIsBacked, Fields
<1>11. First' = First
  BY <1>3 DEF First
<1>12. e \in DOMAIN accepted /\ First \in Nat
  <2> DEFINE a == Len(accepted)
             q == Len(pending)
             n == nextSequence
  <2>1. a = n - 1 /\ n \in Nat /\ q \in Nat /\ First = n - q /\ DOMAIN accepted = 1 .. a
    <3>1. \E S : pending \in Seq(S)
      BY DEF DeliveryInvariant, QueueIsBacked
    <3>2. QED
      BY <3>1, LenProperties DEF OrderInvariant, QueueInOrder, First
  <2> HIDE DEF a, q, n
  <2>2. QED
    BY <1>8, <2>1
<1>13. Made(e)' = m + 1 /\ \A f : f # e => Made(f)' = Made(f)
  <2>1. \A f \in Nat : Made(f) \in Nat
    BY MadeIsNat DEF OrderInvariant
  <2>2. Made(e)' = Made(e) + 1
    BY <1>9
  <2>3. \A f : f # e => Made(f)' = Made(f) + 0
    BY <1>9
  <2>4. \A f : Made(f) + 0 = Made(f)
    BY MadeIsNat DEF OrderInvariant
  <2>5. QED
    BY <1>2, <2>2, <2>3, <2>4
<1>14. \A f : f # e => (Told(f)' <=> Told(f))
  <2>1. \A f : Told(f) <=> Made(f) = Len(accepted[f])
    BY MadeIsCounted
  <2>2. \A f : Told(f)' <=> Made(f)' = Len(accepted'[f])
    BY DEF Told, Broadcast!Told, Made
  <2>3. QED
    BY <1>3, <1>13, <2>1, <2>2
<1>15. QueueInOrder'
  <2>1. \A f \in Nat : f >= First => f # e
    BY <1>8, <1>12
  <2>2. \A f \in Nat : f >= First' => Made(f)' = 0
    BY <1>11, <1>13, <2>1 DEF OrderInvariant, QueueInOrder
  <2>3. QED
    BY <1>3, <1>9, <1>11, <2>2 DEF OrderInvariant, QueueInOrder
<1>16. Remains(t)'
  <2>1. ToldBefore(e)'
    <3>1. \A f \in 1 .. e - 1 : f # e
      BY <1>8
    <3>2. QED
      BY <1>8, <1>14, <3>1 DEF ToldBefore
  <2> DEFINE rest == Tail(d.audience)
  <2>2. \A k \in 1 .. l - 1 : rest[k] = accepted[e][(m + 1) + k]
    <3>1. SUFFICES ASSUME NEW k \in 1 .. l - 1 PROVE rest[k] = accepted[e][(m + 1) + k]
      OBVIOUS
    <3>2. k + 1 \in 1 .. l /\ (m + 1) + k = m + (k + 1)
      BY <1>6, <1>7
    <3>3. QED
      BY <1>7, <1>8, <3>2
  <2>3. (m + 1) + (l - 1) = Len(accepted[e])
    <3>1. (m + 1) + (l - 1) = m + l
      BY <1>6, <1>7
    <3>2. QED
      BY <1>8, <3>1
  <2> HIDE DEF rest
  <2>4. rest \in Seq(Everyone) /\ Len(rest) = l - 1
    BY <1>7 DEF rest
  <2>5. Remainder(e, rest)'
    BY <1>3, <1>8, <1>11, <1>13, <2>1, <2>2, <2>3, <2>4 DEF Remainder
  <2>6. QED
    BY <1>10, <2>5 DEF Remains, rest
<1>17. DispatcherInOrder'
  BY <1>3, <1>4, <1>5, <1>10, <1>16 DEF DispatcherInOrder, Inside, WithSubscriber, WithDelta
<1>18. Broadcast!Call
  <2>1. \A f \in 1 .. e - 1 : Broadcast!Told(f)
    BY <1>8 DEF ToldBefore, Told
  <2>2. 1 \in 1 .. l /\ m < Len(accepted[e])
    <3>1. 1 \in 1 .. l /\ m < m + l
      BY <1>6, <1>7
    <3>2. QED
      BY <1>8, <3>1
  <2>3. calls' = Append(calls, <<e, accepted[e][m + 1]>>)
    BY <1>3, <1>7, <1>8, <2>2
  <2>4. QED
    BY <1>3, <1>12, <1>2, <2>1, <2>2, <2>3 DEF Broadcast!Call, Made
<1>19. QED
  BY <1>3, <1>15, <1>17, <1>18 DEF OrderInvariant, registry

(* The claims find their event, and only the boundaries change.               *)
LEMMA ClaimsKeepOrder ==
    ASSUME OrderInvariant, DeliveryInvariant, DeliveryInvariant', NEW t \in Thread,
           DrainClaim(t) \/ DrainClaimDelta(t)
    PROVE  OrderInvariant' /\ UNCHANGED <<accepted, calls>>
<1>1. PICK from \in {"claim", "claim_delta"}, to \in {"drifted", "claim_delta", "callbacks"} :
         Goto(t, from, to) /\ UNCHANGED <<registry, log, pending, dispatching, delivery, calls>>
  BY DEF DrainClaim, DrainClaimDelta
<1>2. pc'[t] = to /\ to # "drifted"
  BY <1>1, DispatcherAlone DEF DeliveryInvariant, NoDrift, WithSubscriber, WithDelta
<1>3. from \in Inside /\ to \in {"claim_delta", "callbacks"}
  BY <1>1, <1>2 DEF Inside, WithSubscriber
<1>4. QED
  BY <1>1, <1>3, SameDeliveryKeepsOrder

(* Between the calls the delivery is what it was; a BaseException ends it.     *)
LEMMA CallbacksKeepOrder ==
    ASSUME OrderInvariant, DeliveryInvariant, NEW t \in Thread,
           CallsDone(t) \/ Return(t) \/ RaiseBaseException(t)
    PROVE  OrderInvariant' /\ UNCHANGED <<accepted, calls>>
<1>1. CASE CallsDone(t)
  BY <1>1, SameDeliveryKeepsOrder DEF CallsDone, Inside, WithDelta
<1>2. CASE Return(t)
  BY <1>2, SameDeliveryKeepsOrder DEF Return, Inside, WithDelta
<1>3. CASE RaiseBaseException(t)
  <2>1. /\ Goto(t, "in_callback", "complete")
        /\ delivery' = [delivery EXCEPT ![t].raised = TRUE]
        /\ UNCHANGED <<registry, accepted, nextSequence, pending, dispatching, calls>>
    BY <1>3 DEF RaiseBaseException, log
  <2>2. /\ pc'[t] = "complete" /\ dispatching
        /\ \A u \in Thread : u # t => pc[u] = "outside" /\ pc'[u] = "outside"
    BY <2>1, DispatcherAlone
  <2>3. delivery'[t].raised
    BY <2>1 DEF DeliveryInvariant, DeliveryIsBacked, Fields
  <2>4. DispatcherInOrder'
    BY <2>1, <2>2, <2>3 DEF DispatcherInOrder, Inside, WithSubscriber, WithDelta
  <2>5. QED
    BY <2>1, <2>4, QueueStays DEF OrderInvariant, registry
<1>4. QED
  BY <1>1, <1>2, <1>3

(* The finally clause: the event is told, or nobody drains any more.           *)
LEMMA CompletionsKeepOrder ==
    ASSUME OrderInvariant, DeliveryInvariant, NEW t \in Thread,
           Complete(t) \/ CompleteDelta(t)
    PROVE  OrderInvariant' /\ UNCHANGED <<accepted, calls>>
<1>1. CASE Complete(t) /\ delivery[t].delta
  BY <1>1, SameDeliveryKeepsOrder DEF Complete, Inside, WithDelta
<1>2. CASE CompleteDelta(t) \/ (Complete(t) /\ ~delivery[t].delta)
  <2>1. PICK from \in {"complete", "complete_delta"} :
           /\ Goto(t, from, AfterCompletion(t))
           /\ delivery' = [delivery EXCEPT ![t] = NoDelivery]
           /\ UNCHANGED <<registry, accepted, nextSequence, pending, dispatching, calls>>
    BY <1>2 DEF Complete, CompleteDelta, log
  <2>2. /\ pc[t] = from /\ pc'[t] = AfterCompletion(t) /\ dispatching
        /\ \A u \in Thread : u # t => pc[u] = "outside" /\ pc'[u] = "outside"
    BY <2>1, DispatcherAlone
  <2>3. ~delivery[t].raised => ToldBefore(First)
    <3>1. SUFFICES ASSUME ~delivery[t].raised PROVE ToldBefore(First)
      OBVIOUS
    <3>2. PICK e : e = delivery[t].event
      OBVIOUS
    <3>3. Remainder(e, <<>>)
      BY <2>2, <3>1, <3>2 DEF OrderInvariant, DispatcherInOrder, Remains, Inside, WithDelta
    <3>4. Len(<<>>) = 0 /\ Made(e) \in Nat
      BY EmptySeq, MadeIsNat DEF OrderInvariant
    <3>5. Told(e)
      BY <3>3, <3>4, MadeIsCounted DEF Remainder
    <3>6. First \in Nat
      BY FirstIsNat DEF OrderInvariant
    <3>7. \A f \in 1 .. First - 1 : f \in 1 .. e - 1 \/ f = e
      BY <3>3, <3>6 DEF Remainder
    <3>8. QED
      BY <3>3, <3>5, <3>7 DEF Remainder, ToldBefore
  <2>4. ToldBefore(First) => ToldBefore(First)'
    BY <2>1, SameTold DEF ToldBefore, First
  <2>5. DispatcherInOrder'
    BY <2>1, <2>2, <2>3, <2>4
       DEF DispatcherInOrder, AfterCompletion, Inside, WithSubscriber, WithDelta
  <2>6. QED
    BY <2>1, <2>5, QueueStays DEF OrderInvariant, registry
<1>3. QED
  BY <1>1, <1>2

LEMMA DrainEndKeepsOrder ==
    ASSUME OrderInvariant, DeliveryInvariant, NEW t \in Thread, DrainEnd(t)
    PROVE  OrderInvariant' /\ UNCHANGED <<accepted, calls>>
<1>1. /\ pending = <<>> /\ Goto(t, "drain", "outside") /\ ~dispatching'
      /\ UNCHANGED <<registry, accepted, nextSequence, pending, delivery, calls>>
  BY DEF DrainEnd, log
<1>2. /\ pc[t] = "drain" /\ pc'[t] = "outside"
      /\ \A u \in Thread : u # t => pc[u] = "outside" /\ pc'[u] = "outside"
  BY <1>1, DispatcherAlone
<1>3. ToldBefore(First)'
  BY <1>1, <1>2, SameTold DEF OrderInvariant, DispatcherInOrder, ToldBefore, First
<1>4. DispatcherInOrder'
  BY <1>1, <1>2, <1>3 DEF DispatcherInOrder, Inside, WithSubscriber, WithDelta
<1>5. QED
  BY <1>1, <1>4, QueueStays DEF OrderInvariant, registry

LEMMA OrderStep ==
    OrderInvariant /\ DeliveryInvariant /\ DeliveryInvariant' /\ [Next]_vars
      => OrderInvariant' /\ [Broadcast!Accept \/ Broadcast!Call]_(Broadcast!vars)
<1> SUFFICES ASSUME OrderInvariant, DeliveryInvariant, DeliveryInvariant', [Next]_vars
             PROVE  /\ OrderInvariant'
                    /\ Broadcast!Accept \/ Broadcast!Call \/ UNCHANGED <<accepted, calls>>
  BY DEF Broadcast!vars
<1>1. ASSUME NEW t \in Thread, Host(t)
      PROVE  OrderInvariant' /\ (Broadcast!Accept \/ UNCHANGED <<accepted, calls>>)
  BY <1>1, EmitKeepsOrder, RegistrationKeepsOrder DEF Host
<1>2. ASSUME NEW t \in Thread, Drain(t) \/ Return(t) \/ RaiseBaseException(t)
      PROVE  OrderInvariant' /\ (Broadcast!Call \/ UNCHANGED <<accepted, calls>>)
  BY <1>2, DrainEndKeepsOrder, TakeKeepsOrder, ClaimsKeepOrder, CallKeepsOrder,
     CallbacksKeepOrder, CompletionsKeepOrder DEF Drain
<1>3. CASE UNCHANGED vars
  BY <1>3, NothingMoves DEF vars, log, registry, OrderInvariant
<1>4. QED
  BY <1>1, <1>2, <1>3 DEF Next

LEMMA OrderInit == Init => OrderInvariant /\ Broadcast!Init
<1> SUFFICES ASSUME Init PROVE OrderInvariant /\ Broadcast!Init
  OBVIOUS
<1>1. /\ callbacks = <<>> /\ legacyCallbacks = <<>> /\ nextSequence = 1 /\ pending = <<>>
      /\ ~dispatching /\ pc = [t \in Thread |-> "outside"] /\ accepted = <<>> /\ calls = <<>>
  BY DEF Init
<1>2. Len(<<>>) = 0 /\ DOMAIN (<<>>) = {}
  BY EmptySeq
<1>3. \A S : <<>> \in Seq(S)
  BY EmptySeq
<1>4. First = 1
  BY <1>1, <1>2 DEF First
<1>5. \A e : Made(e) = 0
  <2>1. \A e : {n \in DOMAIN calls : calls[n][1] = e} = {}
    BY <1>1, <1>2
  <2>2. QED
    BY <2>1, MadeIsCounted, FS_EmptySet
<1>6. QueueInOrder
  BY <1>1, <1>2, <1>3, <1>4, <1>5 DEF QueueInOrder
<1>7. DispatcherInOrder
  BY <1>1, <1>4 DEF DispatcherInOrder, ToldBefore, Inside, WithSubscriber, WithDelta
<1>8. QED
  BY <1>1, <1>3, <1>6, <1>7 DEF OrderInvariant, Broadcast!Init

(* "serialized callback delivery": the hub implements OrderedBroadcast. Each    *)
(* accepted event is called once for each member of the audience that emit   *)
(* fixed, and the calls follow one another in the order of acceptance, for    *)
(* any number of emitting threads and whatever callbacks do meanwhile.        *)
THEOREM HubDeliversInOrder == Spec => DeliversInOrder
<1>1. Init => Broadcast!Init /\ OrderInvariant /\ DeliveryInvariant
  BY OrderInit, DeliveryInit
<1>2. OrderInvariant /\ DeliveryInvariant /\ [Next]_vars
        => /\ OrderInvariant' /\ DeliveryInvariant'
           /\ [Broadcast!Accept \/ Broadcast!Call]_(Broadcast!vars)
  BY DeliveryStep, OrderStep
<1>3. QED
  BY <1>1, <1>2, PTL DEF Spec, DeliversInOrder, Broadcast!Spec

=============================================================================
