------------------------- MODULE MCVoiceInputSession -------------------------
(* The calls of the host threads.  A callback that calls the session back is  *)
(* a thread of its own: the operation lock is released while it runs.        *)
EXTENDS VoiceInputSession

CONSTANTS h1, h2, h3, s1, s2

On(op, id) == [op |-> op, id |-> id, seq |-> 0, adapter |-> "abortable"]
Do(op) == On(op, s1)
Send(id, seq) == [On("send", id) EXCEPT !.seq = seq]
EndOf(id, seq) == [On("end", id) EXCEPT !.seq = seq]
Plain == [Do("configure") EXCEPT !.adapter = "plain"]

Calls(first, second, third) ==
    [h \in {h1, h2, h3} |-> IF h = h1 THEN first ELSE IF h = h2 THEN second ELSE third]

(* Two threads feed and end one stream, a third one closes the session.       *)
TwoSenders ==
    Calls(<<On("begin", s1), Send(s1, 0), Send(s1, 1), EndOf(s1, 2)>>,
          <<Send(s1, 0), Send(s1, 1), EndOf(s1, 1)>>, <<Do("close")>>)

(* A stream is aborted while it is fed, and the next one begun.               *)
NextStream ==
    Calls(<<On("begin", s1), Send(s1, 0), Send(s1, 1)>>,
          <<Do("abort_input"), On("begin", s2), Send(s2, 0), EndOf(s2, 1)>>,
          <<On("abort", s1), Send(s2, 0)>>)

(* Inputs of all kinds overlap and are aborted; one replaces another.         *)
OverlappingInputs ==
    Calls(<<Do("transcribe"), On("begin", s1)>>, <<Do("fallback"), Do("transcribe")>>,
          <<Do("listen"), Do("abort_input")>>)

(* An input replaces the turn of a stream that cannot be aborted and goes on. *)
InputOverStream ==
    Calls(<<Plain, On("begin", s1), Send(s1, 0), EndOf(s1, 1)>>,
          <<Do("fallback"), Do("abort_input")>>, <<On("begin", s2), Do("close")>>)

(* The session is paused and closed while it works.                          *)
CloseWhileBusy ==
    Calls(<<Do("transcribe"), On("begin", s1), Send(s1, 0), EndOf(s1, 1)>>,
          <<Do("pause"), Do("resume"), Do("close")>>, <<Do("listen"), Do("close")>>)

(* The next stream has the identity of the one it follows.                    *)
SameIdentity ==
    Calls(<<On("begin", s1), Send(s1, 0)>>,
          <<Do("abort_input"), On("begin", s1), Send(s1, 0)>>, <<EndOf(s1, 1)>>)

HostScripts ==
    {TwoSenders, NextStream, OverlappingInputs, InputOverStream, CloseWhileBusy, SameIdentity}

(* The callback of an abort begins the next stream, which is then ended.      *)
RestartOnAbort ==
    {Calls(<<On("begin", s1), Do("abort_input"), EndOf(s2, 0)>>, <<On("begin", s2)>>, <<>>)}
=============================================================================
