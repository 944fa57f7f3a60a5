-------------------------- MODULE MCRealtimeEventHub --------------------------
(* Two host applications: one delivers to two kinds of subscribers from two   *)
(* threads; one has a single thread, whose callbacks pause and resume the     *)
(* boundaries and may raise a BaseException.                                 *)
EXTENDS RealtimeEventHub

CONSTANTS t1, t2, app, old

Delivering ==
    [threads |-> {t1, t2}, interruptible |-> {}, subscribers |-> {app, old},
     controllable |-> {}, refusals |-> 0]

Controlling ==
    [threads |-> {t1}, interruptible |-> {t1}, subscribers |-> {app},
     controllable |-> {"subscriber", "delta"}, refusals |-> 2]

HostKinds == {Delivering, Controlling}
=============================================================================
