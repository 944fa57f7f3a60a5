--------------------------- MODULE VoiceInputSession ---------------------------
(***************************************************************************)
(* framework/voice_input_session.py over its stream runtime.  A turn is one *)
(* input: a stream, or one listen, text-fallback or transcription call.    *)
(* The turn's context is current while the generation gate is bound to it. *)
(*                                                                         *)
(* _input_operation_lock is released while callbacks run, so a method is   *)
(* one step up to its event and one step after it; in between, another     *)
(* thread, or the callback itself, may call the session.  A chunk is sent  *)
(* outside that lock and its result handled inside.                        *)
(***************************************************************************)
EXTENDS VoiceInputStream, Sequences

CONSTANTS
    Scripts,       \* the calls each host thread may make, as functions to sequences
    MaxTurns       \* bound: turns opened

(* A call: the operation and the arguments it takes.                         *)
Request == [op : STRING, id : StreamId, seq : Chunk, adapter : {"plain", "abortable"}]

ASSUME ScriptAssumption ==
    /\ \A script \in Scripts : script \in [Host -> Seq(Request)]
    /\ MaxTurns \in Nat

VARIABLES
    session,       \* _closed, _active_input_context, _stream_input_context, ...
    gate,          \* _generation_gate: the turn it is bound to, the turns started
    call,          \* the call each host thread is in, other than a send
    todo,          \* the calls each host thread has still to make
    story,         \* history: what happened to each turn, in order
    partials,      \* history: partial transcripts, as <<turn, stream>>
    turnOf,        \* history: the turn each stream was begun for
    faults         \* history: the AssertionErrors raised

sessionVars == <<session, gate, call, todo, story, partials, turnOf, faults>>
vars == <<streamVars, sessionVars>>

Turn == 1 .. MaxTurns

NoCall == [op |-> "none", at |-> "idle", turn |-> 0]

Init ==
    /\ StreamInit
    \* result: _last_stream_result; audience: who is still told.
    /\ session = [closed |-> FALSE, active |-> 0, stream |-> 0,
                  result |-> "none", audience |-> "live"]
    /\ gate = [current |-> 0, started |-> 0]
    /\ call = [h \in Host |-> NoCall]
    /\ todo \in Scripts
    /\ story = [c \in Turn |-> <<>>]
    /\ partials = {} /\ turnOf = [s \in Stream |-> 0] /\ faults = {}

(* The thread is free to make its next call, or is in a callback-free step.   *)
NextCall(h, op) ==
    /\ call[h] = NoCall /\ sends[h] = NoSend
    /\ todo[h] # <<>> /\ Head(todo[h]).op = op
    /\ todo' = [todo EXCEPT ![h] = Tail(@)]

Args(h) == Head(todo[h])
Enter(h, op, at, turn) == call' = [call EXCEPT ![h] = [op |-> op, at |-> at, turn |-> turn]]
Goto(h, at) == call' = [call EXCEPT ![h].at = at]
Return(h) == call' = [call EXCEPT ![h] = NoCall]
At(h, at) == call[h].at = at

(* _input_context_is_current                                                 *)
IsCurrent(turn) == turn # 0 /\ session.active = turn /\ gate.current = turn

(* A stale diagnostic of a closed session reaches the retired callbacks only. *)
Heard(what) ==
    session.audience = (IF session.closed /\ what = "stale" THEN "retired" ELSE "live")

Told(turn, what) ==
    IF turn # 0 /\ Heard(what) THEN [story EXCEPT ![turn] = Append(@, what)] ELSE story

(* What the generation gate's advance does to the turn it was bound to.      *)
Retired(what) ==
    /\ gate' = [gate EXCEPT !.current = 0]
    /\ story' = IF gate.current = 0 THEN story
                ELSE [story EXCEPT ![gate.current] = Append(@, what)]

(* _new_realtime_turn_context                                                *)
NewTurn ==
    /\ gate.started < MaxTurns
    /\ gate' = [current |-> gate.started + 1, started |-> gate.started + 1]
    /\ story' = IF gate.current = 0 THEN story
                ELSE [story EXCEPT ![gate.current] = Append(@, "replaced")]

FinishAnyTurnMutant(turn) ==
    /\ session' = [session EXCEPT !.active = 0]
    /\ gate' = [gate EXCEPT !.current = 0]

(* _finish_input_context                                                     *)
Finish(turn) ==
    IF IsCurrent(turn)
      THEN /\ session' = [session EXCEPT !.active = 0]
           /\ gate' = [gate EXCEPT !.current = 0]
      ELSE UNCHANGED <<session, gate>>

-----------------------------------------------------------------------------
(* configure_audio_streaming, pause_audio_input, resume_audio_input.         *)

ConfigureAudioStreaming(h) ==
    /\ NextCall(h, "configure")
    /\ \/ /\ ~session.closed /\ session.active = 0 /\ CanConfigure(stream)
          /\ stream' = [stream EXCEPT !.adapter = Args(h).adapter]
       \/ /\ session.closed \/ session.active # 0 \/ ~CanConfigure(stream)
          /\ UNCHANGED stream
    /\ UNCHANGED <<audio, sends, taken, session, gate, call, story, partials, turnOf, faults>>

ControlAudioInput(h) ==
    /\ \/ /\ NextCall(h, "pause")
          /\ audio' = IF session.closed THEN audio ELSE Audio!Paused(audio)
       \/ /\ NextCall(h, "resume")
          /\ audio' = IF session.closed THEN audio ELSE Audio!Resumed(audio)
    /\ UNCHANGED <<stream, sends, taken, session, gate, call, story, partials, turnOf, faults>>

-----------------------------------------------------------------------------
(* begin_audio_stream.  Its event is its last step.                          *)

BeginAudioStream(h) ==
    /\ NextCall(h, "begin")
    /\ \/ /\ ~session.closed /\ session.active = 0 /\ CanBegin(stream)
          /\ stream.begun < MaxStreams
          /\ NewTurn
          /\ stream' = Begun(stream, Args(h).id)
          /\ session' = [session EXCEPT !.active = gate'.current,
                                        !.stream = gate'.current, !.result = "none"]
          /\ turnOf' = [turnOf EXCEPT ![stream'.active] = gate'.current]
       \/ UNCHANGED <<stream, session, gate, story, turnOf>>   \* busy, or begin_stream fails
    /\ UNCHANGED <<audio, sends, taken, call, partials, faults>>

-----------------------------------------------------------------------------
(* send_audio_chunk and the partial transcripts the adapter emits in it.      *)

SendAudioChunk(h) ==
    /\ NextCall(h, "send")
    /\ SendAdmit(h, Args(h).id, Args(h).seq)
    /\ UNCHANGED <<session, gate, call, story, partials, turnOf, faults>>

SendProceeds(h) == Sending(h) /\ UNCHANGED sessionVars

PartialUncheckedMutant(h) ==
    /\ PartialReturns(h)
    /\ partials' = IF session.stream # 0 /\ IsCurrent(session.stream)
                   THEN partials \cup {<<session.stream, sends[h].on>>} ELSE partials
    /\ UNCHANGED <<session, gate, call, todo, story, turnOf, faults>>

(* _emit_stream_partial_transcript                                           *)
EmitPartial(h) ==
    /\ PartialReturns(h)
    /\ partials' = IF /\ IsCurrent(session.stream)
                      /\ stream.active # 0 /\ stream.id[stream.active] = sends[h].id
                   THEN partials \cup {<<session.stream, sends[h].on>>} ELSE partials
    /\ UNCHANGED <<session, gate, call, todo, story, turnOf, faults>>

(* _terminate_stream_failure, up to its event; failing is the turn.           *)
Terminate(h, failing) ==
    /\ session' = [session EXCEPT !.result = "failed"]
    /\ story' = Told(failing, "failed")
    /\ Enter(h, "terminate", "told", failing)

(* The result of a send: a terminal rejection fails the stream's turn.        *)
SendSettles(h) ==
    /\ SendReturns(h)
    /\ \/ /\ sends[h].verdict \in TerminalVerdict /\ IsCurrent(session.stream)
          /\ Terminate(h, session.stream)
       \/ /\ ~(sends[h].verdict \in TerminalVerdict /\ IsCurrent(session.stream))
          /\ UNCHANGED <<session, story, call>>
    /\ faults' = faults \cup ({sends[h].verdict} \cap {"unexplained", "lost"})
    /\ UNCHANGED <<gate, todo, partials, turnOf>>

(* After the event of a stream that failed, ended or was aborted.             *)
StreamTold(h) ==
    /\ call[h].op \in {"terminate", "end"} /\ At(h, "told")
    /\ Return(h)
    /\ gate' = IF IsCurrent(call[h].turn) THEN [gate EXCEPT !.current = 0] ELSE gate
    /\ session' = [session EXCEPT !.active = IF IsCurrent(call[h].turn) THEN 0 ELSE @,
                                  !.stream = 0]
    /\ UNCHANGED <<streamVars, todo, story, partials, turnOf, faults>>

-----------------------------------------------------------------------------
(* end_audio_input.  The adapter's finish_stream runs under both locks.       *)

EndAdmitted(h, id) ==
    \/ /\ stream' = Over(stream, id, "aborted")          \* it fails, or has no transcript
       /\ IF IsCurrent(session.stream) THEN Terminate(h, session.stream)
          ELSE UNCHANGED <<session, story, call>>
       /\ UNCHANGED faults
    \/ /\ stream' = Over(stream, id, "ended")
       /\ \/ /\ session.stream = 0                        \* AssertionError
             /\ faults' = faults \cup {"no_turn"}
             /\ UNCHANGED <<session, story, call>>
          \/ /\ session.stream # 0 /\ gate.current = session.stream
             /\ session' = [session EXCEPT !.result = "completed"]
             /\ story' = Told(session.stream, "final")
             /\ Enter(h, "end", "told", session.stream)
             /\ UNCHANGED faults
          \/ /\ session.stream # 0 /\ gate.current # session.stream
             /\ story' = Told(session.stream, "stale")
             /\ Enter(h, "end", "stale", session.stream)
             /\ UNCHANGED <<session, faults>>

EndAudioInput(h) ==
    /\ NextCall(h, "end")
    /\ LET why == Refusal(stream, Args(h).id)
       IN  \/ /\ why = "none" /\ Args(h).seq = stream.expected
              /\ EndAdmitted(h, Args(h).id)
           \/ /\ why \in TerminalVerdict /\ IsCurrent(session.stream)
              /\ Terminate(h, session.stream)
              /\ UNCHANGED <<stream, faults>>
           \/ /\ \/ why = "rejected"
                 \/ why = "none" /\ Args(h).seq # stream.expected
                 \/ why \in TerminalVerdict /\ ~IsCurrent(session.stream)
              /\ UNCHANGED <<stream, session, story, call, faults>>
    /\ UNCHANGED <<audio, sends, taken, gate, partials, turnOf>>

-----------------------------------------------------------------------------
(* abort_audio_stream and abort_input.                                       *)

(* abort_input reads the stream's id before it aborts it: what it may find    *)
(* otherwise in between is a rejection, which changes nothing.               *)
Aborting(h, id) ==
    \/ /\ Refusal(stream, id) = "none" /\ stream.adapter = "abortable"
       /\ stream' = Over(stream, id, "aborted")
       /\ IF IsCurrent(session.stream)
            THEN /\ Retired("interrupted")
                 /\ session' = [session EXCEPT !.active = 0, !.result = "interrupted"]
                 /\ Enter(h, "abort", "told", session.stream)
            ELSE /\ session' = [session EXCEPT !.stream = 0]
                 /\ UNCHANGED <<gate, story, call>>
    \/ UNCHANGED <<stream, gate, session, story, call>>       \* rejected

AbortAudioStream(h) ==
    /\ NextCall(h, "abort")
    /\ Aborting(h, Args(h).id)
    /\ UNCHANGED <<audio, sends, taken, partials, turnOf, faults>>

AbortInput(h) ==
    /\ NextCall(h, "abort_input")
    /\ \/ stream.active # 0 /\ Aborting(h, stream.id[stream.active])
       \/ /\ stream.active = 0 /\ IsCurrent(session.active)
          /\ Retired("interrupted")
          /\ session' = [session EXCEPT !.active = 0]
          /\ UNCHANGED <<stream, call>>
       \/ /\ stream.active = 0 /\ ~IsCurrent(session.active)
          /\ UNCHANGED <<stream, gate, session, story, call>>
    /\ UNCHANGED <<audio, sends, taken, partials, turnOf, faults>>

(* The abort's last statement clears the stream's context, whosever it is.    *)
AbortTold(h) ==
    /\ call[h].op = "abort" /\ At(h, "told")
    /\ Return(h)
    /\ session' = [session EXCEPT !.stream = 0]
    /\ UNCHANGED <<streamVars, gate, todo, story, partials, turnOf, faults>>

-----------------------------------------------------------------------------
(* listen_result, text_fallback_result, transcribe_audio_result.  They look   *)
(* at _closed without a lock and open their turn in a later step.            *)

Input == {"listen", "fallback", "transcribe"}

StartInput(h) ==
    /\ \E op \in Input :
          /\ NextCall(h, op)
          /\ IF session.closed THEN UNCHANGED call ELSE Enter(h, op, "open", 0)
    /\ UNCHANGED <<streamVars, session, gate, story, partials, turnOf, faults>>

(* The new context and the preflight event.                                  *)
OpenTurn(h) ==
    /\ At(h, "open")
    /\ NewTurn
    /\ session' = [session EXCEPT !.active = gate'.current]
    /\ Enter(h, call[h].op, "preflight", gate'.current)
    /\ UNCHANGED <<streamVars, todo, partials, turnOf, faults>>

(* apply_completion and the event that follows it; what is final or failed.   *)
DeliverAlwaysMutant(h, what) ==
    /\ story' = Told(call[h].turn, what)
    /\ Goto(h, "told")

Deliver(h, what) ==
    IF gate.current = call[h].turn
      THEN /\ story' = Told(call[h].turn, what)
           /\ Goto(h, "told")
      ELSE /\ story' = Told(call[h].turn, "stale")
           /\ Goto(h, "stale")

(* After an event, a turn that is not current any more is interrupted.        *)
InputSuperseded(h) ==
    /\ call[h].at \in {"preflight", "listening"}
    /\ ~IsCurrent(call[h].turn)
    /\ Return(h)
    /\ UNCHANGED <<streamVars, session, gate, todo, story, partials, turnOf, faults>>

AfterPreflight(h) ==
    /\ At(h, "preflight") /\ IsCurrent(call[h].turn)
    /\ \/ /\ call[h].op = "listen"
          /\ story' = Told(call[h].turn, "failed") /\ Goto(h, "told")
       \/ call[h].op = "fallback" /\ Deliver(h, "final")
       \/ call[h].op = "transcribe" /\ Goto(h, "listening") /\ UNCHANGED story
    /\ UNCHANGED <<streamVars, session, gate, todo, partials, turnOf, faults>>

AfterListening(h) ==
    /\ At(h, "listening") /\ IsCurrent(call[h].turn)
    /\ Goto(h, "provider")
    /\ UNCHANGED <<streamVars, session, gate, todo, story, partials, turnOf, faults>>

(* The adapter runs without the lock.  A completed result of an open session  *)
(* is announced before it is applied; any other outcome is applied at once.   *)
ProviderReturns(h) ==
    /\ At(h, "provider")
    /\ \/ ~session.closed /\ Goto(h, "completed") /\ UNCHANGED story
       \/ session.closed /\ Deliver(h, "final")
       \/ Deliver(h, "failed")                           \* not completed, or raised
    /\ UNCHANGED <<streamVars, session, gate, todo, partials, turnOf, faults>>

TranscriptionCompleted(h) ==
    /\ At(h, "completed")
    /\ Deliver(h, "final")
    /\ UNCHANGED <<streamVars, session, gate, todo, partials, turnOf, faults>>

InputTold(h) ==
    /\ call[h].op \in Input /\ At(h, "told")
    /\ Finish(call[h].turn)
    /\ Return(h)
    /\ UNCHANGED <<streamVars, todo, story, partials, turnOf, faults>>

(* After the diagnostic; a closed session forgets the retired callbacks.      *)
StaleTold(h) ==
    /\ At(h, "stale")
    /\ session' =
          [session EXCEPT !.audience = IF session.closed /\ @ = "retired" THEN "none" ELSE @,
                          !.result = IF call[h].op = "end" THEN "interrupted" ELSE @,
                          !.stream = IF call[h].op = "end" THEN 0 ELSE @]
    /\ Return(h)
    /\ UNCHANGED <<streamVars, gate, todo, story, partials, turnOf, faults>>

-----------------------------------------------------------------------------
(* close.                                                                   *)

CloseKeepsTurnMutant(h) ==
    /\ NextCall(h, "close")
    /\ ~session.closed
    /\ audio' = Audio!Closed(audio)
    /\ stream' = StreamClosed(stream)
    /\ session' = [session EXCEPT !.closed = TRUE, !.stream = 0]
    /\ Enter(h, "close", "told", 0)
    /\ UNCHANGED <<sends, taken, gate, story, partials, turnOf, faults>>

Close(h) ==
    /\ NextCall(h, "close")
    /\ \/ /\ session.closed
          /\ UNCHANGED <<stream, audio, session, gate, story, call>>
       \/ /\ ~session.closed
          /\ audio' = Audio!Closed(audio)
          /\ stream' = StreamClosed(stream)
          /\ session' = [session EXCEPT !.closed = TRUE, !.active = 0, !.stream = 0,
                                        !.result = IF session.stream = 0 THEN @ ELSE "closed"]
          /\ Retired("closed")
          /\ Enter(h, "close", "told", 0)
    /\ UNCHANGED <<sends, taken, partials, turnOf, faults>>

(* After SESSION_CLOSED the callbacks are retired.                           *)
CloseTold(h) ==
    /\ call[h].op = "close" /\ At(h, "told")
    /\ session' = [session EXCEPT !.audience = "retired"]
    /\ Return(h)
    /\ UNCHANGED <<streamVars, gate, todo, story, partials, turnOf, faults>>

-----------------------------------------------------------------------------
StreamCall(h) ==
    \/ BeginAudioStream(h) \/ SendAudioChunk(h) \/ EndAudioInput(h)
    \/ AbortAudioStream(h) \/ ConfigureAudioStreaming(h) \/ ControlAudioInput(h)

Next ==
    \E h \in Host :
        \/ StreamCall(h)
        \/ SendProceeds(h) \/ EmitPartial(h) \/ SendSettles(h)
        \/ StreamTold(h) \/ AbortTold(h)
        \/ AbortInput(h)
        \/ StartInput(h) \/ OpenTurn(h) \/ InputSuperseded(h) \/ AfterPreflight(h)
        \/ AfterListening(h) \/ ProviderReturns(h) \/ TranscriptionCompleted(h)
        \/ InputTold(h) \/ StaleTold(h)
        \/ Close(h) \/ CloseTold(h)

Spec == Init /\ [][Next]_vars

-----------------------------------------------------------------------------
(* "An abort or a newer input retires the earlier generation; its late result  *)
(* or exception cannot publish a final transcript": a turn has at most one    *)
(* final transcript and at most one stale diagnostic, never both, and none    *)
(* after it was interrupted, replaced or closed, however late the adapter     *)
(* answers.                                                                  *)
NoLateTranscript ==
    \A c \in Turn : \A i, j \in DOMAIN story[c] :
        /\ i < j /\ story[c][j] = "final" => story[c][i] = "failed"
        /\ i < j /\ story[c][j] = "stale" => story[c][i] \notin {"final", "stale"}

(* Partials "carry the same session/turn/generation as the stream": a partial  *)
(* transcript is told under the turn of a stream that has the identity of the *)
(* stream whose chunk produced it, however late the adapter emits it.         *)
PartialsOfTheirStream ==
    \A p \in partials :
        \E s \in Stream : turnOf[s] = p[1] /\ stream.id[s] = stream.id[p[2]]

(* "Late partial callbacks after end/abort are ignored": so it is of the same *)
(* stream.                                                                   *)
LatePartialsAreIgnored ==
    \A p \in partials : turnOf[p[2]] = p[1]

(* A turn is current only as long as somebody will end it.  A turn of listen,  *)
(* text fallback or transcription has its call running: no outcome of it, and *)
(* no other call, leaves the session busy, which would refuse every stream    *)
(* from then on.  A turn of a stream is never current in a closed session.    *)
TurnsAreReleased ==
    \A c \in Turn : session.active = c =>
        IF \E s \in Stream : turnOf[s] = c
          THEN ~session.closed
          ELSE \E h \in Host : call[h].turn = c

(* Call h told the outcome of turn c, as the kind of turn c is has it told: a  *)
(* stream's by the end or the failure of a stream, an input's by the input.   *)
(* In a closed session nobody may have heard it.                             *)
OutcomeTold(h, c) ==
    /\ call[h].turn = c
    /\ call[h].op \in (IF \E s \in Stream : turnOf[s] = c THEN {"terminate", "end"} ELSE Input)
    /\ session.closed \/ \E i \in DOMAIN story[c] : story[c][i] \in {"final", "failed"}

(* "A newer input retires the earlier generation", never the other way round:  *)
(* the gate lets go of a turn to interrupt, replace or close it, or when a    *)
(* call that told that turn's outcome returns.  So an input that returns late *)
(* lets go of no newer turn, and no input of a stream's turn except by        *)
(* replacing it.  It does not say whose chunk made a stream's turn fail.      *)
TurnsEndForAReason ==
    [][LET c == gate.current
       IN  c # 0 /\ gate'.current # c =>
             \/ \E why \in {"interrupted", "replaced", "closed"} :
                    story'[c] = Append(story[c], why)
             \/ \E h \in Host : OutcomeTold(h, c) /\ call'[h] = NoCall]_vars

(* That is this one: the turn a terminally rejected chunk fails is the turn of *)
(* a stream with the chunk's identity.  The result of a send is handled after *)
(* the runtime's lock was given up and compared with no stream, so a chunk of *)
(* an aborted stream may fail the turn of the stream begun since.            *)
ChunksFailTheirOwnTurn ==
    [][\A h \in Host :
         sends[h].at = "sent" /\ sends'[h] = NoSend /\ call'[h].op = "terminate" =>
           \E s \in Stream : turnOf[s] = call'[h].turn /\ stream.id[s] = sends[h].id]_vars

(* The code asserts "accepted stream end requires a final result".            *)
EndFindsItsTurn == "no_turn" \notin faults

(* The code asserts that a chunk whose stream is gone finds a terminal state.  *)
LateChunkIsExplained == "unexplained" \notin faults
=============================================================================
