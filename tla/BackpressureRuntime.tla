-------------------------- MODULE BackpressureRuntime --------------------------
(***************************************************************************)
(* framework/backpressure_runtime.py: the admission owner of one boundary. *)
(* It keeps the identities of the items it accepted, pending or in flight, *)
(* within fixed limits; every method runs under one lock.  The runtime is  *)
(* one record so that owners (the event hub) can apply several methods in  *)
(* one step of their own.                                                  *)
(***************************************************************************)
EXTENDS Naturals, Sequences, FiniteSets, BackpressureLimits
SeqExt == INSTANCE SequencesExt

CONSTANTS
    Item,
    MaxOverflows      \* bound: overflows that are counted

VARIABLE runtime      \* _state, _pending, _in_flight, _overflow_count, _last_rejection

Empty ==
    [state |-> "accepting", pending |-> <<>>, inFlight |-> {}, overflows |-> 0,
     rejection |-> "none"]

IsPending(rt, item) == \E i \in DOMAIN rt.pending : rt.pending[i] = item
Owned(rt) == {item \in Item : IsPending(rt, item)} \cup rt.inFlight

(* The pending queue without an item it holds.                              *)
Without(pending, item) == SeqExt!RemoveAt(pending, CHOOSE i \in DOMAIN pending : pending[i] = item)

RuntimeInit == runtime = Empty

-----------------------------------------------------------------------------
(* admit.                                                                   *)

AtCapacity(rt, immediately) ==
    IF immediately THEN Cardinality(rt.inFlight) >= MaxInFlight
    ELSE Len(rt.pending) >= MaxPending

(* Why an item the runtime does not own is not accepted.                    *)
Rejection(rt, immediately) ==
    IF rt.state = "paused" THEN "paused"
    ELSE IF rt.state = "closed" THEN "closed"
    ELSE IF AtCapacity(rt, immediately) THEN "capacity_reached"
    ELSE "none"

Admitted(rt, item, immediately) ==
    LET why == Rejection(rt, immediately)
    IN  IF why # "none"
          THEN [rt EXCEPT !.rejection = why,
                          !.overflows = IF why = "capacity_reached" THEN @ + 1 ELSE @]
        ELSE IF immediately
          THEN [rt EXCEPT !.inFlight = @ \cup {item}, !.rejection = "none"]
        ELSE [rt EXCEPT !.pending = Append(@, item), !.rejection = "none"]

Admit(item, immediately) ==
    /\ item \notin Owned(runtime)
    /\ Rejection(runtime, immediately) = "capacity_reached" => runtime.overflows < MaxOverflows
    /\ runtime' = Admitted(runtime, item, immediately)

-----------------------------------------------------------------------------
(* claim, complete, withdraw_pending.                                       *)

Claimed(rt, item) ==
    IF Cardinality(rt.inFlight) >= MaxInFlight \/ ~IsPending(rt, item) THEN rt
    ELSE [rt EXCEPT !.pending = Without(@, item), !.inFlight = @ \cup {item}]

Claim(item) == runtime' = Claimed(runtime, item)

(* claim() without an identity takes the oldest pending item.                *)
ClaimNext ==
    /\ runtime.pending # <<>>
    /\ runtime' = Claimed(runtime, Head(runtime.pending))

Completed(rt, item) == [rt EXCEPT !.inFlight = @ \ {item}]

Complete(item) == runtime' = Completed(runtime, item)

Withdrawn(rt, item) ==
    IF IsPending(rt, item) THEN [rt EXCEPT !.pending = Without(@, item)] ELSE rt

Withdraw(item) == runtime' = Withdrawn(runtime, item)

-----------------------------------------------------------------------------
(* pause, resume, close.                                                    *)

PausedFlushesMutant(rt) ==
    IF rt.state = "accepting" THEN [rt EXCEPT !.state = "paused", !.pending = <<>>] ELSE rt

Paused(rt) == IF rt.state = "accepting" THEN [rt EXCEPT !.state = "paused"] ELSE rt

Pause == runtime' = Paused(runtime)

Resumed(rt) == IF rt.state = "paused" THEN [rt EXCEPT !.state = "accepting"] ELSE rt

Resume == runtime' = Resumed(runtime)

Closed(rt) == [rt EXCEPT !.state = "closed"]

Close == runtime' = Closed(runtime)

RuntimeNext ==
    \/ \E item \in Item :
          \/ \E immediately \in BOOLEAN : Admit(item, immediately)
          \/ Claim(item) \/ Complete(item) \/ Withdraw(item)
    \/ ClaimNext \/ Pause \/ Resume \/ Close

RuntimeSpec == RuntimeInit /\ [][RuntimeNext]_runtime

-----------------------------------------------------------------------------
Runtime ==
    [state     : {"accepting", "paused", "closed"},
     pending   : Seq(Item),
     inFlight  : SUBSET Item,
     overflows : Nat,
     rejection : {"none", "paused", "closed", "capacity_reached"}]

(* The types of the runtime's fields.                                        *)
RuntimeTypes == runtime \in Runtime

(* BackpressureSnapshot: "Counts above their advertised limits are invalid   *)
(* public state", however immediate admissions and claims interleave.        *)
WithinLimits ==
    /\ Len(runtime.pending) <= MaxPending
    /\ Cardinality(runtime.inFlight) <= MaxInFlight

(* An item is owned once: pending once or in flight.                         *)
OwnedOnce ==
    /\ \A i, j \in DOMAIN runtime.pending : runtime.pending[i] = runtime.pending[j] => i = j
    /\ \A i \in DOMAIN runtime.pending : runtime.pending[i] \notin runtime.inFlight

(* No silent drop: accepted work is given up one item at a time, by complete  *)
(* or withdraw, and never by an admission, a rejection, pause, resume or      *)
(* close, which all leave the work the runtime owns as it is.                *)
NoSilentDrop ==
    [][/\ Cardinality(Owned(runtime) \ Owned(runtime)') <= 1
       /\ runtime'.state # runtime.state \/ runtime'.rejection # runtime.rejection
            \/ Owned(runtime)' \ Owned(runtime) # {}
             => Owned(runtime) \subseteq Owned(runtime)']_runtime

(* "closed is terminal": after close nothing is accepted any more.           *)
ClosedIsTerminal ==
    [][runtime.state = "closed" =>
          runtime'.state = "closed" /\ Owned(runtime)' \subseteq Owned(runtime)]_runtime
=============================================================================
