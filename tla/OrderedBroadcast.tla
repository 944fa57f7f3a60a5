--------------------------- MODULE OrderedBroadcast ----------------------------
(***************************************************************************)
(* What an event hub promises its subscribers: every accepted event is     *)
(* called once for each subscriber of its audience, which is fixed when the *)
(* event is accepted, and all the calls happen one after another in the    *)
(* order in which the events were accepted.                                *)
(***************************************************************************)
EXTENDS Naturals, Sequences, FiniteSets

CONSTANT Subscriber

VARIABLES
    accepted,      \* the audience of every accepted event, in order
    calls          \* the calls made so far: <<event number, subscriber>>

vars == <<accepted, calls>>

(* How many calls an event has given rise to, and whether that is all.        *)
Made(event) == Cardinality({n \in DOMAIN calls : calls[n][1] = event})
Told(event) == Made(event) = Len(accepted[event])

Init == accepted = <<>> /\ calls = <<>>

Accept ==
    /\ accepted' \in Seq(Seq(Subscriber))
    /\ Len(accepted') > Len(accepted)
    /\ \A event \in DOMAIN accepted : accepted'[event] = accepted[event]
    /\ UNCHANGED calls

(* The next member of the first audience that is not told yet.               *)
Call ==
    /\ \E event \in DOMAIN accepted :
          /\ \A earlier \in 1 .. event - 1 : Told(earlier)
          /\ Made(event) < Len(accepted[event])
          /\ calls' = Append(calls, <<event, accepted[event][Made(event) + 1]>>)
    /\ UNCHANGED accepted

Spec == Init /\ [][Accept \/ Call]_vars
=============================================================================
