----------------------------- MODULE TurnLedger -----------------------------
(***************************************************************************)
(* What a realtime session promises about its turns, whatever threads,     *)
(* locks and callbacks it is built from: one turn is live at a time, a     *)
(* turn gets one outcome and keeps it, and a turn whose start was          *)
(* announced to the subscribers never disappears without an outcome.       *)
(***************************************************************************)
CONSTANTS Turn, Ending, Rejection

VARIABLES
    standing,      \* "new", "live", or the turn's outcome
    announced      \* the turns whose start the subscribers were told of

vars == <<standing, announced>>

Init ==
    /\ standing = [t \in Turn |-> "new"]
    /\ announced = {}

Admit(t) ==
    /\ standing[t] = "new" /\ \A u \in Turn : standing[u] # "live"
    /\ standing' = [standing EXCEPT ![t] = "live"]
    /\ UNCHANGED announced

Announce(t) ==
    /\ standing[t] = "live"
    /\ announced' = announced \cup {t}
    /\ UNCHANGED standing

(* An admission that fails before it is announced leaves no trace.          *)
Withdraw(t) ==
    /\ standing[t] = "live" /\ t \notin announced
    /\ standing' = [standing EXCEPT ![t] = "new"]
    /\ UNCHANGED announced

Reject(t) ==
    /\ standing[t] = "new" /\ t \notin announced
    /\ standing' = [standing EXCEPT ![t] = Rejection]
    /\ UNCHANGED announced

End(t) ==
    /\ standing[t] = "live"
    /\ \E outcome \in Ending : standing' = [standing EXCEPT ![t] = outcome]
    /\ UNCHANGED announced

Next == \E t \in Turn : Admit(t) \/ Announce(t) \/ Withdraw(t) \/ Reject(t) \/ End(t)

Spec == Init /\ [][Next]_vars
=============================================================================
