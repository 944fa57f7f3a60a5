--------------------------- MODULE VoiceInputStream ---------------------------
(***************************************************************************)
(* framework/voice_input_stream_runtime.py: the one audio stream of a      *)
(* voice-input session.  A chunk is admitted to the audio_input boundary,  *)
(* checked against the active stream under the runtime lock, handed to the *)
(* adapter outside it, and settled under the lock again: the stream may    *)
(* have been ended, aborted or closed, and another one begun, meanwhile.   *)
(* sends[h] is the send_audio_chunk call host thread h is in.              *)
(***************************************************************************)
EXTENDS Naturals, FiniteSets

CONSTANTS
    Host,          \* the threads of the host application
    StreamId,      \* the stream_id values the host chooses
    NoStream,      \* None where a stream_id is expected
    Chunk,         \* sequence numbers
    MaxStreams     \* bound: streams begun

ASSUME StreamAssumption ==
    /\ NoStream \notin StreamId
    /\ Chunk \subseteq Nat
    /\ MaxStreams \in Nat

VARIABLES
    stream,        \* _adapter, _active, _last_terminal, _closed
    audio,         \* _audio_backpressure
    sends,         \* the send calls
    taken          \* history: the chunks handed to the adapter, by stream

streamVars == <<stream, audio, sends, taken>>

(* The _ActiveStream objects, in the order of their creation.                *)
Stream == 1 .. MaxStreams

\* maximum_pending_count and the default of maximum_in_flight_audio_chunks.
Audio == INSTANCE BackpressureRuntime
           WITH Item <- Host, MaxPending <- 1, MaxInFlight <- 1,
                MaxOverflows <- 0, runtime <- audio

NoTerminal == [id |-> NoStream, state |-> "none"]

NoSend == [at |-> "idle", id |-> NoStream, seq |-> 0, on |-> 0,
           partial |-> FALSE, verdict |-> "none"]

StreamInit ==
    /\ stream = [closed |-> FALSE, adapter |-> "abortable", active |-> 0, begun |-> 0,
                 id |-> [s \in Stream |-> NoStream], expected |-> 0,
                 terminal |-> NoTerminal]
    /\ audio = Audio!Empty
    /\ sends = [h \in Host |-> NoSend]
    /\ taken = [s \in Stream |-> 0]

-----------------------------------------------------------------------------
(* configure, begin, end, abort and close of a runtime s.                    *)

CanConfigure(s) == ~s.closed /\ s.active = 0

CanBegin(s) == ~s.closed /\ s.adapter # "none" /\ s.active = 0

BegunRemembersMutant(s, id) ==
    [s EXCEPT !.begun = @ + 1, !.active = s.begun + 1, !.id[s.begun + 1] = id,
              !.terminal = NoTerminal]

Begun(s, id) ==
    [s EXCEPT !.begun = @ + 1, !.active = s.begun + 1, !.id[s.begun + 1] = id,
              !.expected = 0, !.terminal = NoTerminal]

(* _terminal_rejection: only the last stream's end is remembered.            *)
Terminal(s, id) == IF s.terminal.id = id THEN s.terminal.state ELSE "none"

IsActive(s, id) == s.active # 0 /\ s.adapter # "none" /\ s.id[s.active] = id

(* Why a call for a stream is not admitted.                                  *)
Refusal(s, id) ==
    IF s.closed THEN "closed"
    ELSE IF Terminal(s, id) # "none" THEN Terminal(s, id)
    ELSE IF ~IsActive(s, id) THEN "rejected"
    ELSE "none"

Over(s, id, state) == [s EXCEPT !.active = 0, !.terminal = [id |-> id, state |-> state]]

StreamClosed(s) ==
    IF s.closed THEN s
    ELSE [(IF s.active # 0 THEN Over(s, s.id[s.active], "aborted") ELSE s)
             EXCEPT !.closed = TRUE]

(* The rejections whose result is terminal.                                  *)
TerminalVerdict == {"closed", "ended", "aborted", "failed"}

-----------------------------------------------------------------------------
(* send.                                                                    *)

Advance(h, at) == sends' = [sends EXCEPT ![h].at = at]
Verdict(h, at, verdict) == sends' = [sends EXCEPT ![h].at = at, ![h].verdict = verdict]

SendAdmitQueuesMutant(h, id, seq) ==
    /\ sends[h].at = "idle"
    /\ sends' = [sends EXCEPT ![h] =
           [NoSend EXCEPT !.at = IF audio.state = "accepting" THEN "check" ELSE "sent",
                          !.id = id, !.seq = seq,
                          !.verdict = IF audio.state = "closed" THEN "closed"
                                      ELSE IF audio.state = "paused" THEN "rejected"
                                      ELSE "none"]]
    /\ audio' = [audio EXCEPT !.inFlight = IF audio.state = "accepting" THEN @ \cup {h} ELSE @]
    /\ UNCHANGED <<stream, taken>>

(* Without a free slot the call returns at once; it never waits.             *)
SendAdmit(h, id, seq) ==
    LET why == Audio!Rejection(audio, TRUE)
    IN  /\ sends[h].at = "idle"
        /\ sends' = [sends EXCEPT ![h] =
               [NoSend EXCEPT !.at = IF why = "none" THEN "check" ELSE "sent",
                              !.id = id, !.seq = seq,
                              !.verdict = IF why = "none" THEN "none"
                                          ELSE IF why = "closed" THEN "closed"
                                          ELSE "rejected"]]
        /\ audio' = Audio!Admitted(audio, h, TRUE)
        /\ UNCHANGED <<stream, taken>>

InOrder(h) == sends[h].seq = stream.expected

(* The checks under the lock.  A chunk in order may still be too large or    *)
(* too long, which is a rejection like one out of order.                     *)
SendCheck(h) ==
    LET why == Refusal(stream, sends[h].id)
    IN  /\ sends[h].at = "check"
        /\ \/ /\ why = "none" /\ InOrder(h)
              /\ sends' = [sends EXCEPT ![h].at = "accept", ![h].on = stream.active]
              /\ taken' = [taken EXCEPT ![stream.active] = @ + 1]
           \/ /\ Verdict(h, "complete", IF why = "none" THEN "rejected" ELSE why)
              /\ UNCHANGED taken
        /\ UNCHANGED <<stream, audio>>

(* emit_partial, called by the adapter in accept_chunk: what the runtime      *)
(* checks, and the return of the session's delivery.                         *)
PartialCheck(h) ==
    /\ sends[h].at = "accept" /\ ~sends[h].partial
    /\ stream.active # 0 /\ stream.id[stream.active] = sends[h].id
    /\ sends' = [sends EXCEPT ![h].at = "partial", ![h].partial = TRUE]
    /\ UNCHANGED <<stream, audio, taken>>

PartialReturns(h) ==
    /\ sends[h].at = "partial"
    /\ Advance(h, "accept")
    /\ UNCHANGED <<stream, audio, taken>>

(* What a chunk finds whose stream is over: the code asserts that it finds a *)
(* terminal state.                                                           *)
LateVerdict(h) ==
    IF Terminal(stream, sends[h].id) = "none" THEN "unexplained"
    ELSE Terminal(stream, sends[h].id)

ChunkReturns(h) ==
    /\ sends[h].at = "accept"
    /\ \/ /\ stream.active = sends[h].on
          /\ stream' = [stream EXCEPT !.expected = @ + 1]
          /\ Verdict(h, "complete", "accepted")
       \/ /\ stream.active # sends[h].on
          /\ Verdict(h, "complete", LateVerdict(h))
          /\ UNCHANGED stream
    /\ UNCHANGED <<audio, taken>>

(* accept_chunk raised: the adapter's stream is aborted, best effort, before  *)
(* the lock is taken.                                                        *)
ChunkRaises(h) ==
    /\ sends[h].at = "accept"
    /\ \/ /\ stream.active = sends[h].on
          /\ stream' = Over(stream, sends[h].id, "aborted")
          /\ Verdict(h, "complete", "failed")
       \/ /\ stream.active # sends[h].on
          /\ Verdict(h, "complete", LateVerdict(h))
          /\ UNCHANGED stream
    /\ UNCHANGED <<audio, taken>>

(* The finally clause gives the slot back.                                   *)
SendComplete(h) ==
    /\ sends[h].at = "complete"
    /\ audio' = Audio!Completed(audio, h)
    /\ sends' = [sends EXCEPT ![h].at = "sent",
                              ![h].verdict = IF h \in audio.inFlight THEN @ ELSE "lost"]
    /\ UNCHANGED <<stream, taken>>

Sending(h) ==
    \/ SendCheck(h) \/ PartialCheck(h)
    \/ ChunkReturns(h) \/ ChunkRaises(h) \/ SendComplete(h)

-----------------------------------------------------------------------------
(* The runtime with callers of its own: each method under the lock is a step. *)

SendReturns(h) ==
    /\ sends[h].at = "sent"
    /\ sends' = [sends EXCEPT ![h] = NoSend]
    /\ UNCHANGED <<stream, audio, taken>>

Configure ==
    /\ CanConfigure(stream)
    /\ \E adapter \in {"plain", "abortable"} : stream' = [stream EXCEPT !.adapter = adapter]
    /\ UNCHANGED <<audio, sends, taken>>

Begin(id) ==
    /\ CanBegin(stream) /\ stream.begun < MaxStreams
    /\ stream' = Begun(stream, id)
    /\ UNCHANGED <<audio, sends, taken>>

End(id, seq) ==
    /\ Refusal(stream, id) = "none" /\ seq = stream.expected
    /\ \E state \in {"ended", "aborted"} : stream' = Over(stream, id, state)
    /\ UNCHANGED <<audio, sends, taken>>

Abort(id) ==
    /\ Refusal(stream, id) = "none" /\ stream.adapter = "abortable"
    /\ stream' = Over(stream, id, "aborted")
    /\ UNCHANGED <<audio, sends, taken>>

CloseStream ==
    /\ audio' = Audio!Closed(audio)
    /\ stream' = StreamClosed(stream)
    /\ UNCHANGED <<sends, taken>>

Control ==
    /\ audio' \in {Audio!Paused(audio), Audio!Resumed(audio)}
    /\ UNCHANGED <<stream, sends, taken>>

StreamNext ==
    \/ \E h \in Host : Sending(h) \/ PartialReturns(h) \/ SendReturns(h)
    \/ \E h \in Host, id \in StreamId, seq \in Chunk : SendAdmit(h, id, seq)
    \/ \E id \in StreamId : Begin(id) \/ Abort(id)
    \/ \E id \in StreamId, seq \in Chunk : End(id, seq)
    \/ Configure \/ CloseStream \/ Control

StreamSpec == StreamInit /\ [][StreamNext]_streamVars

-----------------------------------------------------------------------------
InAdapter(h) == sends[h].at \in {"accept", "partial"}
Admitted(h) == sends[h].at \in {"check", "accept", "partial", "complete"}

(* The types of the runtime's fields.                                        *)
StreamTypes ==
    /\ stream \in [closed : BOOLEAN, adapter : {"none", "plain", "abortable"},
                   active : {0} \cup Stream, begun : 0 .. MaxStreams,
                   id : [Stream -> StreamId \cup {NoStream}], expected : Nat,
                   terminal : [id : StreamId \cup {NoStream},
                               state : {"none", "ended", "aborted"}]]
    /\ sends \in [Host ->
          [at : {"idle", "check", "accept", "partial", "complete", "sent"},
           id : StreamId \cup {NoStream}, seq : Nat, on : {0} \cup Stream, partial : BOOLEAN,
           verdict : {"none", "accepted", "rejected", "unexplained", "lost"}
                        \cup TerminalVerdict]]
    /\ taken \in [Stream -> Nat]

(* "accepted audio admission lost in-flight ownership" is unreachable: the     *)
(* boundary's slot belongs to exactly the call between its admission and its *)
(* completion, so the adapter is never given two chunks at once, whatever is *)
(* aborted, begun, paused or closed in the meantime.                         *)
OneChunkAtATime ==
    /\ audio.inFlight = {h \in Host : Admitted(h)}
    /\ \A h, g \in Host : Admitted(h) /\ Admitted(g) => h = g
    /\ \A h \in Host : sends[h].verdict # "lost"

(* "accept only the next expected number": the adapter is given the chunks of  *)
(* a stream as 0, 1, 2, ... once each, although the expected number moves     *)
(* only after the adapter returned; a stream's count is what it was given.   *)
ChunksInOrder ==
    /\ \A h \in Host : InAdapter(h) => taken[sends[h].on] = sends[h].seq + 1
    /\ stream.active # 0 =>
          taken[stream.active] = stream.expected +
             (IF \E h \in Host : InAdapter(h) /\ sends[h].on = stream.active THEN 1 ELSE 0)
=============================================================================
