--------------------------- MODULE FreshDelivery ---------------------------
(***************************************************************************)
(* What the generation gate promises, without its bookkeeping: at most one *)
(* generation is current, generations become current in the order of their *)
(* identities, and a completion is delivered only for the generation that  *)
(* is current at that moment.  A retired generation never comes back.      *)
(***************************************************************************)
EXTENDS Naturals

CONSTANT Generation      \* generation identities, numbered in issue order

VARIABLES
    current,    \* the generation completions are accepted for, 0 for none
    used,       \* the generations that are or were current
    delivered   \* the generation of the last delivered completion, 0 for none

vars == <<current, used, delivered>>

Init ==
    /\ current = 0
    /\ used = {}
    /\ delivered = 0

Admit ==
    \E g \in Generation :
        /\ \A u \in used : g > u
        /\ current' = g
        /\ used' = used \cup {g}
        /\ UNCHANGED delivered

Retire ==
    /\ current # 0
    /\ current' = 0
    /\ UNCHANGED <<used, delivered>>

Deliver ==
    /\ current # 0
    /\ delivered' = current
    /\ UNCHANGED <<current, used>>

Next == Admit \/ Retire \/ Deliver

Spec == Init /\ [][Next]_vars
=============================================================================
