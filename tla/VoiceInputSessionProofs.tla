------------------------ MODULE VoiceInputSessionProofs ------------------------
(***************************************************************************)
(* Proofs about voice input, for any number of threads, turns, streams and *)
(* chunks and any scripts.  First the stream runtime: the audio boundary's *)
(* slot belongs to one send at a time, and the adapter is given the chunks *)
(* of a stream in order.  ChunksInOrder needs the slot (between a chunk's  *)
(* check and the step that advances the expected number no other chunk is  *)
(* checked) and that a stream nobody has begun has been given nothing.     *)
(* Then the session.  It drives the runtime by the runtime's own operations *)
(* only, so what the runtime promises holds in the session; on top of that, *)
(* an inductive invariant ties each turn to its call or its stream and to  *)
(* what it may have told so far.                                           *)
(***************************************************************************)
EXTENDS VoiceInputSession, FiniteSetTheorems, SequenceTheorems, TLAPS

-----------------------------------------------------------------------------
(* The stream runtime.                                                      *)

(* The boundary's runtime record: nothing is ever pending in it.              *)
Boundary ==
    [state : {"accepting", "paused", "closed"}, pending : {<<>>}, inFlight : SUBSET Host,
     overflows : Nat, rejection : {"none", "paused", "closed", "capacity_reached"}]

(* Streams are numbered as they are begun, under the identity they were given *)
(* then; nothing happens to a stream before, and a chunk is in the adapter    *)
(* for a stream of its identity.                                             *)
StreamsBegun ==
    /\ stream.active <= stream.begun
    /\ \A s \in Stream : s <= stream.begun => stream.id[s] \in StreamId
    /\ \A s \in Stream : s > stream.begun => taken[s] = 0
    /\ \A h \in Host : InAdapter(h) => /\ sends[h].on \in 1 .. stream.begun
                                       /\ stream.id[sends[h].on] = sends[h].id

(* The inductive invariant.                                                  *)
StreamInvariant ==
    /\ StreamTypes
    /\ audio \in Boundary
    /\ OneChunkAtATime
    /\ StreamsBegun
    /\ ChunksInOrder

(* Without a chunk in flight there is room for one, and with one there is     *)
(* none.                                                                     *)
LEMMA OneSlot ==
    ASSUME NEW S, \A x, y \in S : x = y
    PROVE  IsFiniteSet(S) /\ (Cardinality(S) >= 1 <=> S # {})
<1>1. CASE S = {}
    BY <1>1, FS_EmptySet
<1>2. CASE S # {}
    <2>1. PICK x : S = {x}
        BY <1>2
    <2> QED BY <2>1, FS_Singleton
<1> QED BY <1>1, <1>2

(* The boundary counts with the Cardinality of its own module.               *)
LEMMA SameCardinality ==
    ASSUME NEW S
    PROVE  Audio!Cardinality(S) = Cardinality(S)
BY Zenon DEF Audio!Cardinality, Cardinality

(* The boundary's answer to a chunk.                                         *)
LEMMA Admission ==
    ASSUME audio \in Boundary, OneChunkAtATime, NEW h \in Host
    PROVE  LET why == Audio!Rejection(audio, TRUE)
               next == Audio!Admitted(audio, h, TRUE)
           IN  /\ why \in {"none", "paused", "closed", "capacity_reached"}
               /\ next \in Boundary
               /\ why = "none" => audio.inFlight = {} /\ next.inFlight = {h}
               /\ why # "none" => next.inFlight = audio.inFlight
<1>1. \A x, y \in audio.inFlight : x = y
    BY DEF OneChunkAtATime
<1>2. Cardinality(audio.inFlight) >= 1 <=> audio.inFlight # {}
    BY <1>1, OneSlot
<1> DEFINE why == Audio!Rejection(audio, TRUE)
<1>3. why \in {"none", "paused", "closed", "capacity_reached"}
    BY DEF Audio!Rejection, Boundary
<1>4. why = "none" => audio.inFlight = {}
    <2>1. Audio!Cardinality(audio.inFlight) = Cardinality(audio.inFlight)
        BY SameCardinality
    <2>2. Audio!AtCapacity(audio, TRUE) <=> audio.inFlight # {}
        BY <1>2, <2>1 DEF Audio!AtCapacity
    <2> QED BY <2>2 DEF Audio!Rejection
<1> HIDE DEF why
<1>5. CASE why = "none"
    <2>1. Audio!Admitted(audio, h, TRUE)
             = [audio EXCEPT !.inFlight = @ \cup {h}, !.rejection = "none"]
        BY <1>5 DEF Audio!Admitted, why
    <2>2. /\ [audio EXCEPT !.inFlight = @ \cup {h}, !.rejection = "none"] \in Boundary
          /\ [audio EXCEPT !.inFlight = @ \cup {h}, !.rejection = "none"].inFlight
                = audio.inFlight \cup {h}
        BY DEF Boundary
    <2> QED BY <1>4, <1>5, <2>1, <2>2 DEF why
<1>6. CASE why # "none"
    <2> DEFINE count == IF why = "capacity_reached" THEN audio.overflows + 1 ELSE audio.overflows
    <2>1. Audio!Admitted(audio, h, TRUE)
             = [audio EXCEPT !.rejection = why, !.overflows = count]
        BY <1>6 DEF Audio!Admitted, why
    <2>2. count \in Nat
        BY DEF Boundary
    <2> HIDE DEF count
    <2>3. /\ [audio EXCEPT !.rejection = why, !.overflows = count] \in Boundary
          /\ [audio EXCEPT !.rejection = why, !.overflows = count].inFlight = audio.inFlight
        BY <1>3, <2>2 DEF Boundary
    <2> QED BY <1>6, <1>3, <2>1, <2>3 DEF why
<1> QED BY <1>5, <1>6 DEF why

(* The boundary after the other calls.                                       *)
LEMMA Controlled ==
    ASSUME audio \in Boundary
    PROVE  /\ \A h \in Host : /\ Audio!Completed(audio, h) \in Boundary
                              /\ Audio!Completed(audio, h).inFlight = audio.inFlight \ {h}
           /\ Audio!Paused(audio) \in Boundary
           /\ Audio!Paused(audio).inFlight = audio.inFlight
           /\ Audio!Resumed(audio) \in Boundary
           /\ Audio!Resumed(audio).inFlight = audio.inFlight
           /\ Audio!Closed(audio) \in Boundary
           /\ Audio!Closed(audio).inFlight = audio.inFlight
<1>1. \A h \in Host : /\ Audio!Completed(audio, h) \in Boundary
                      /\ Audio!Completed(audio, h).inFlight = audio.inFlight \ {h}
    BY DEF Audio!Completed, Boundary
<1>2. /\ Audio!Paused(audio) \in Boundary
      /\ Audio!Paused(audio).inFlight = audio.inFlight
    BY DEF Audio!Paused, Boundary
<1>3. /\ Audio!Resumed(audio) \in Boundary
      /\ Audio!Resumed(audio).inFlight = audio.inFlight
    BY DEF Audio!Resumed, Boundary
<1>4. /\ Audio!Closed(audio) \in Boundary
      /\ Audio!Closed(audio).inFlight = audio.inFlight
    BY DEF Audio!Closed, Boundary
<1> QED BY <1>1, <1>2, <1>3, <1>4

(* The runtime starts without a stream, a send or a chunk in flight.          *)
LEMMA Initially == StreamInit => StreamInvariant
<1> SUFFICES ASSUME StreamInit PROVE StreamInvariant
    OBVIOUS
<1> USE DEF StreamInit
<1>1. StreamTypes
    BY StreamAssumption DEF StreamTypes, Stream, NoTerminal, NoSend
<1>2. audio \in Boundary
    BY DEF Audio!Empty, Boundary
<1>3. OneChunkAtATime
    BY DEF OneChunkAtATime, Admitted, NoSend, Audio!Empty
<1>4. StreamsBegun
    BY DEF StreamsBegun, InAdapter, NoSend, Stream
<1>5. ChunksInOrder
    BY DEF ChunksInOrder, InAdapter, NoSend
<1> QED BY <1>1, <1>2, <1>3, <1>4, <1>5 DEF StreamInvariant

-----------------------------------------------------------------------------
(* The record of a send whose completion was not lost.                        *)
SendCall ==
    [at : {"idle", "check", "accept", "partial", "complete", "sent"},
     id : StreamId \cup {NoStream}, seq : Nat, on : {0} \cup Stream, partial : BOOLEAN,
     verdict : {"none", "accepted", "rejected", "unexplained"} \cup TerminalVerdict]

(* A step of one send leaves the other sends and their claims to the stream   *)
(* alone; this is what it has to show for its own record.                    *)
Sends(h, send) ==
    /\ sends' = [sends EXCEPT ![h] = send]
    /\ send \in SendCall

(* A send that stays where it is with respect to the slot.                    *)
LEMMA KeepsSlot ==
    ASSUME StreamInvariant, NEW h \in Host, NEW send, Sends(h, send),
           Admitted(h) <=> send.at \in {"check", "accept", "partial", "complete"},
           audio'.inFlight = audio.inFlight
    PROVE  OneChunkAtATime'
<1>1. /\ \A g \in Host : Admitted(g)' <=> Admitted(g)
      /\ \A g \in Host : sends'[g].verdict # "lost"
    BY DEF StreamInvariant, StreamTypes, OneChunkAtATime, Sends, SendCall, Admitted, TerminalVerdict
<1>2. {g \in Host : Admitted(g)'} = {g \in Host : Admitted(g)}
    BY <1>1
<1> QED BY <1>1, <1>2 DEF StreamInvariant, OneChunkAtATime

(* What the sends' records are before a step.                                 *)
LEMMA Before ==
    ASSUME StreamInvariant
    PROVE  /\ stream.active \in {0} \cup Stream /\ stream.begun \in 0 .. MaxStreams
           /\ MaxStreams \in Nat /\ stream.expected \in Nat
           /\ stream.terminal.state \in {"none", "ended", "aborted"}
           /\ \A s \in Stream : taken[s] \in Nat
           /\ \A h \in Host : sends[h] \in SendCall
           /\ \A h \in Host : /\ sends[h].id \in StreamId \cup {NoStream}
                              /\ sends[h].seq \in Nat /\ sends[h].on \in {0} \cup Stream
                              /\ sends[h].verdict # "lost"
           /\ \A h, g \in Host : Admitted(h) /\ Admitted(g) => h = g
           /\ \A h \in Host : InAdapter(h) => Admitted(h)
BY StreamAssumption
DEF StreamInvariant, StreamTypes, OneChunkAtATime, InAdapter, Admitted, SendCall

(* The records of all sends after such a step.                                *)
LEMMA AfterSends ==
    ASSUME StreamInvariant, NEW h \in Host, NEW send, Sends(h, send)
    PROVE  /\ \A g \in Host : sends'[g] = IF g = h THEN send ELSE sends[g]
           /\ sends' \in [Host ->
                 [at : {"idle", "check", "accept", "partial", "complete", "sent"},
                  id : StreamId \cup {NoStream}, seq : Nat, on : {0} \cup Stream,
                  partial : BOOLEAN,
                  verdict : {"none", "accepted", "rejected", "unexplained", "lost"}
                               \cup TerminalVerdict]]
           /\ send.verdict # "lost"
BY DEF StreamInvariant, StreamTypes, Sends, SendCall, TerminalVerdict

(* What is recorded when a send has its verdict, or goes on.                  *)
LEMMA VerdictIsRecorded ==
    ASSUME NEW h \in Host, sends[h] \in SendCall,
           NEW verdict \in {"accepted", "rejected", "unexplained"} \cup TerminalVerdict,
           Verdict(h, "complete", verdict)
    PROVE  \E send \in SendCall : Sends(h, send) /\ send.at = "complete"
<1> DEFINE send == [sends[h] EXCEPT !.at = "complete", !.verdict = verdict]
<1>1. send \in SendCall /\ send.at = "complete"
    BY DEF SendCall
<1>2. sends' = [sends EXCEPT ![h] = send]
    BY DEF Verdict
<1> HIDE DEF send
<1> QED BY <1>1, <1>2 DEF Sends

LEMMA SendGoesTo ==
    ASSUME NEW h \in Host, sends[h] \in SendCall,
           NEW at \in {"accept", "partial", "complete", "sent"},
           sends' = [sends EXCEPT ![h] = [sends[h] EXCEPT !.at = at]]
    PROVE  \E send \in SendCall : Sends(h, send) /\ send.at = at
<1> DEFINE send == [sends[h] EXCEPT !.at = at]
<1>1. send \in SendCall /\ send.at = at
    BY DEF SendCall
<1> HIDE DEF send
<1> QED BY <1>1 DEF send, Sends

(* A chunk finds the boundary open and free, or is refused.                   *)
LEMMA SendAdmitKeeps ==
    ASSUME StreamInvariant, NEW h \in Host, NEW id \in StreamId, NEW seq \in Nat,
           SendAdmit(h, id, seq)
    PROVE  StreamInvariant'
<1> DEFINE why == Audio!Rejection(audio, TRUE)
           send == [NoSend EXCEPT !.at = IF why = "none" THEN "check" ELSE "sent",
                                  !.id = id, !.seq = seq,
                                  !.verdict = IF why = "none" THEN "none"
                                              ELSE IF why = "closed" THEN "closed"
                                              ELSE "rejected"]
<1>1. /\ why \in {"none", "paused", "closed", "capacity_reached"}
      /\ audio' \in Boundary
      /\ why = "none" => audio.inFlight = {} /\ audio'.inFlight = {h}
      /\ why # "none" => audio'.inFlight = audio.inFlight
    BY Admission DEF StreamInvariant, SendAdmit
<1> HIDE DEF why
<1>2. /\ Sends(h, send)
      /\ send.at = IF why = "none" THEN "check" ELSE "sent"
    BY <1>1 DEF SendAdmit, Sends, SendCall, NoSend, TerminalVerdict, why
<1>3. sends[h].at = "idle" /\ UNCHANGED <<stream, taken>>
    BY DEF SendAdmit
<1> HIDE DEF send
<1>5. \A g \in Host : sends'[g] = IF g = h THEN send ELSE sends[g]
    BY <1>2, AfterSends
<1>6. StreamTypes'
    BY <1>2, <1>3, AfterSends DEF StreamInvariant, StreamTypes
<1>7. OneChunkAtATime'
    <2>1. CASE why = "none"
        <3>1. \A g \in Host : ~Admitted(g)
            BY <1>1, <2>1 DEF StreamInvariant, OneChunkAtATime
        <3>2. \A g \in Host : Admitted(g)' <=> g = h
            BY <1>2, <1>5, <2>1, <3>1 DEF Admitted
        <3>3. \A g \in Host : sends'[g].verdict # "lost"
            BY <1>2, <1>5 DEF Sends, SendCall, TerminalVerdict, StreamInvariant, OneChunkAtATime
        <3> QED BY <1>1, <2>1, <3>2, <3>3 DEF OneChunkAtATime
    <2>2. CASE why # "none"
        BY <1>1, <1>2, <1>3, <2>2, KeepsSlot DEF Admitted
    <2> QED BY <2>1, <2>2
<1>8. \A g \in Host : InAdapter(g)' => InAdapter(g) /\ sends'[g] = sends[g]
    BY <1>2, <1>5 DEF InAdapter
<1>9. \A g \in Host : InAdapter(g) => InAdapter(g)' /\ sends'[g] = sends[g]
    BY <1>3, <1>5 DEF InAdapter
<1>10. StreamsBegun' /\ ChunksInOrder'
    BY <1>3, <1>8, <1>9 DEF StreamInvariant, StreamsBegun, ChunksInOrder
<1> QED BY <1>1, <1>6, <1>7, <1>10 DEF StreamInvariant

(* The send that has the slot is the only one the adapter can be in.          *)
LEMMA SlotHolder ==
    ASSUME StreamInvariant, NEW h \in Host, Admitted(h)
    PROVE  \A g \in Host : InAdapter(g) => g = h
BY Before

(* A chunk is handed to the adapter, or refused by the stream.                *)
LEMMA SendCheckKeeps ==
    ASSUME StreamInvariant, NEW h \in Host, SendCheck(h)
    PROVE  StreamInvariant'
<1>1. /\ sends[h].at = "check" /\ UNCHANGED <<stream, audio>>
      /\ Admitted(h) /\ ~InAdapter(h)
    BY DEF SendCheck, Admitted, InAdapter
<1>2. \A g \in Host : ~InAdapter(g)
    BY <1>1, SlotHolder
<1>3. sends[h] \in SendCall
    BY Before
<1>4. CASE /\ Refusal(stream, sends[h].id) = "none" /\ InOrder(h)
           /\ sends' = [sends EXCEPT ![h].at = "accept", ![h].on = stream.active]
           /\ taken' = [taken EXCEPT ![stream.active] = @ + 1]
    <2> DEFINE send == [sends[h] EXCEPT !.at = "accept", !.on = stream.active]
    <2>1. /\ stream.active \in Stream /\ sends[h].seq = stream.expected
          /\ stream.id[stream.active] = sends[h].id
        BY <1>4, Before DEF Refusal, IsActive, InOrder
    <2>2. /\ Sends(h, send) /\ send.at = "accept" /\ send.on = stream.active
          /\ send.seq = stream.expected /\ send.id = sends[h].id
        BY <1>3, <1>4, <2>1 DEF Sends, SendCall
    <2> HIDE DEF send
    <2>3. \A g \in Host : sends'[g] = IF g = h THEN send ELSE sends[g]
        BY <2>2, AfterSends
    <2>4. /\ \A s \in Stream : taken'[s] = IF s = stream.active THEN taken[s] + 1 ELSE taken[s]
          /\ taken' \in [Stream -> Nat]
        BY <1>4, <2>1 DEF StreamInvariant, StreamTypes
    <2>5. StreamTypes'
        BY <1>1, <2>2, <2>4, AfterSends DEF StreamInvariant, StreamTypes
    <2>6. OneChunkAtATime'
        BY <1>1, <2>2, KeepsSlot
    <2>7. \A g \in Host : InAdapter(g)' <=> g = h
        BY <1>2, <2>2, <2>3 DEF InAdapter
    <2>8. stream.active \in 1 .. stream.begun /\ stream.begun \in Nat
        BY <2>1, Before DEF StreamInvariant, StreamsBegun, Stream
    <2>9. StreamsBegun'
        BY <1>1, <2>1, <2>2, <2>3, <2>4, <2>7, <2>8 DEF StreamInvariant, StreamsBegun
    <2>10. taken[stream.active] = stream.expected /\ stream.active # 0
        BY <1>2, <2>1, Before DEF StreamInvariant, ChunksInOrder, Stream
    <2>11. ChunksInOrder'
        BY <1>1, <2>1, <2>2, <2>3, <2>4, <2>7, <2>10 DEF ChunksInOrder
    <2> QED BY <1>1, <2>5, <2>6, <2>9, <2>11 DEF StreamInvariant
<1>5. CASE /\ \E verdict \in {"rejected", "closed", "ended", "aborted"} :
                 Verdict(h, "complete", verdict)
           /\ UNCHANGED taken
    <2>1. PICK verdict \in {"rejected", "closed", "ended", "aborted"} :
              Verdict(h, "complete", verdict)
        BY <1>5
    <2>2. PICK send \in SendCall : Sends(h, send) /\ send.at = "complete"
        BY <1>3, <2>1, VerdictIsRecorded DEF TerminalVerdict
    <2>3. \A g \in Host : sends'[g] = IF g = h THEN send ELSE sends[g]
        BY <2>2, AfterSends
    <2>4. StreamTypes'
        BY <1>1, <1>5, <2>2, AfterSends DEF StreamInvariant, StreamTypes
    <2>5. OneChunkAtATime'
        BY <1>1, <2>2, KeepsSlot
    <2>6. \A g \in Host : ~InAdapter(g)'
        BY <1>2, <2>2, <2>3 DEF InAdapter
    <2>7. StreamsBegun' /\ ChunksInOrder'
        BY <1>1, <1>2, <1>5, <2>6 DEF StreamInvariant, StreamsBegun, ChunksInOrder
    <2> QED BY <1>1, <2>4, <2>5, <2>7 DEF StreamInvariant
<1>6. Refusal(stream, sends[h].id) \in {"none", "rejected", "closed", "ended", "aborted"}
    BY Before DEF Refusal, Terminal
<1> QED BY <1>4, <1>5, <1>6 DEF SendCheck

(* A send that goes in or out of the session's partial delivery.              *)
LEMMA PartialKeeps ==
    ASSUME StreamInvariant, NEW h \in Host, PartialCheck(h) \/ PartialReturns(h)
    PROVE  StreamInvariant'
<1>1. sends[h] \in SendCall
    BY Before
<1>2. PICK send : /\ Sends(h, send) /\ send.at \in {"accept", "partial"}
                  /\ send.on = sends[h].on /\ send.seq = sends[h].seq
                  /\ send.id = sends[h].id
    <2>1. CASE PartialCheck(h)
        <3> DEFINE send == [sends[h] EXCEPT !.at = "partial", !.partial = TRUE]
        <3>1. /\ Sends(h, send) /\ send.at \in {"accept", "partial"}
              /\ send.on = sends[h].on /\ send.seq = sends[h].seq
              /\ send.id = sends[h].id
            BY <1>1, <2>1 DEF PartialCheck, Sends, SendCall
        <3> QED BY <3>1
    <2>2. CASE PartialReturns(h)
        <3> DEFINE send == [sends[h] EXCEPT !.at = "accept"]
        <3>1. /\ Sends(h, send) /\ send.at \in {"accept", "partial"}
              /\ send.on = sends[h].on /\ send.seq = sends[h].seq
              /\ send.id = sends[h].id
            BY <1>1, <2>2 DEF PartialReturns, Advance, Sends, SendCall
        <3> QED BY <3>1
    <2> QED BY <2>1, <2>2
<1>3. UNCHANGED <<stream, audio, taken>> /\ Admitted(h) /\ InAdapter(h)
    BY DEF PartialCheck, PartialReturns, Admitted, InAdapter
<1>4. \A g \in Host : sends'[g] = IF g = h THEN send ELSE sends[g]
    BY <1>2, AfterSends
<1>5. StreamTypes'
    BY <1>2, <1>3, AfterSends DEF StreamInvariant, StreamTypes
<1>6. OneChunkAtATime'
    BY <1>2, <1>3, KeepsSlot
<1>7. \A g \in Host : /\ InAdapter(g)' <=> InAdapter(g)
                       /\ sends'[g].on = sends[g].on /\ sends'[g].seq = sends[g].seq
                       /\ sends'[g].id = sends[g].id
    BY <1>2, <1>3, <1>4 DEF InAdapter
<1>8. StreamsBegun'
    BY <1>3, <1>7 DEF StreamInvariant, StreamsBegun
<1>9. ChunksInOrder'
    <2>1. \A g \in Host : InAdapter(g)' /\ sends'[g].on = stream'.active
                             <=> InAdapter(g) /\ sends[g].on = stream.active
        BY <1>2, <1>3, <1>4 DEF InAdapter
    <2> QED BY <1>3, <1>7, <2>1 DEF StreamInvariant, ChunksInOrder
<1> QED BY <1>3, <1>5, <1>6, <1>8, <1>9 DEF StreamInvariant

(* A send that leaves the adapter: then nothing is in it.                     *)
LEMMA LeavesAdapter ==
    ASSUME StreamInvariant, NEW h \in Host, sends[h].at = "accept",
           NEW send, Sends(h, send), send.at = "complete",
           UNCHANGED <<audio, taken>>, StreamTypes', StreamsBegun',
           stream'.active # 0 => taken[stream'.active] = stream'.expected
    PROVE  StreamInvariant'
<1>1. Admitted(h)
    BY DEF Admitted
<1>2. \A g \in Host : InAdapter(g) => g = h
    BY <1>1, SlotHolder
<1>3. \A g \in Host : sends'[g] = IF g = h THEN send ELSE sends[g]
    BY AfterSends
<1>4. \A g \in Host : ~InAdapter(g)'
    BY <1>2, <1>3 DEF InAdapter
<1>5. OneChunkAtATime'
    BY <1>1, KeepsSlot
<1>6. ChunksInOrder'
    <2>1. stream'.expected \in Nat
        BY DEF StreamTypes
    <2> QED BY <1>4, <2>1 DEF ChunksInOrder
<1> QED BY <1>5, <1>6 DEF StreamInvariant

(* What the chunk in the adapter says of its stream.                          *)
LEMMA InTheAdapter ==
    ASSUME StreamInvariant, NEW h \in Host, sends[h].at = "accept"
    PROVE  /\ sends[h].on \in 1 .. stream.begun /\ sends[h].on # 0
           /\ stream.active = sends[h].on
              => taken[stream.active] = stream.expected + 1
           /\ stream.active # sends[h].on /\ stream.active # 0
              => taken[stream.active] = stream.expected
           /\ \A g \in Host : InAdapter(g) => g = h
<1>1. Admitted(h) /\ InAdapter(h)
    BY DEF Admitted, InAdapter
<1>2. \A g \in Host : InAdapter(g) => g = h
    BY <1>1, SlotHolder
<1>3. sends[h].on \in 1 .. stream.begun /\ sends[h].on # 0
    BY <1>1, Before DEF StreamInvariant, StreamsBegun
<1>4. CASE stream.active = sends[h].on
    BY <1>1, <1>2, <1>3, <1>4 DEF StreamInvariant, ChunksInOrder
<1>5. CASE stream.active # sends[h].on
    <2>1. stream.active # 0 => taken[stream.active] = stream.expected + 0
        BY <1>2, <1>5 DEF StreamInvariant, ChunksInOrder
    <2> QED BY <1>2, <1>3, <1>5, <2>1, Before
<1> QED BY <1>4, <1>5, <1>2, <1>3

(* The verdict on a chunk whose stream is over.                               *)
LEMMA LateVerdicts ==
    ASSUME StreamInvariant, NEW h \in Host
    PROVE  LateVerdict(h) \in {"ended", "aborted", "unexplained"}
BY Before DEF LateVerdict, Terminal

(* The stream's own record: its fields' types, and that of its replacement.   *)
StreamRecord ==
    [closed : BOOLEAN, adapter : {"none", "plain", "abortable"},
     active : {0} \cup Stream, begun : 0 .. MaxStreams,
     id : [Stream -> StreamId \cup {NoStream}], expected : Nat,
     terminal : [id : StreamId \cup {NoStream}, state : {"none", "ended", "aborted"}]]

(* The adapter took the chunk, or raised.                                     *)
LEMMA ChunkSettles ==
    ASSUME StreamInvariant, NEW h \in Host, ChunkReturns(h) \/ ChunkRaises(h)
    PROVE  StreamInvariant'
<1>1. sends[h].at = "accept" /\ UNCHANGED <<audio, taken>>
    BY DEF ChunkReturns, ChunkRaises
<1>2. PICK verdict \in {"accepted", "failed", "ended", "aborted", "unexplained"} :
          Verdict(h, "complete", verdict)
    BY LateVerdicts DEF ChunkReturns, ChunkRaises
<1>3. PICK send \in SendCall : Sends(h, send) /\ send.at = "complete"
    BY <1>2, Before, VerdictIsRecorded DEF TerminalVerdict
<1>4. \A g \in Host : sends'[g] = IF g = h THEN send ELSE sends[g]
    BY <1>3, AfterSends
<1>5. \A g \in Host : ~InAdapter(g)'
    BY <1>1, <1>3, <1>4, InTheAdapter DEF InAdapter
<1>6. CASE stream.active = sends[h].on /\ stream' = [stream EXCEPT !.expected = @ + 1]
    <2>1. /\ stream' \in StreamRecord
          /\ stream'.active = stream.active /\ stream'.begun = stream.begun
          /\ stream'.id = stream.id /\ stream'.expected = stream.expected + 1
        BY <1>6 DEF StreamInvariant, StreamTypes, StreamRecord
    <2>2. StreamTypes'
        BY <1>1, <1>3, <2>1, AfterSends DEF StreamInvariant, StreamTypes, StreamRecord
    <2>3. StreamsBegun'
        BY <1>1, <1>5, <2>1 DEF StreamInvariant, StreamsBegun
    <2>4. stream'.active # 0 => taken[stream'.active] = stream'.expected
        BY <1>1, <1>6, <2>1, InTheAdapter
    <2> QED BY <1>1, <1>3, <2>2, <2>3, <2>4, LeavesAdapter
<1>7. CASE stream' = Over(stream, sends[h].id, "aborted")
    <2>1. /\ stream' \in StreamRecord
          /\ stream'.active = 0 /\ stream'.begun = stream.begun /\ stream'.id = stream.id
        BY <1>7, Before DEF StreamInvariant, StreamTypes, StreamRecord, Over
    <2>2. StreamTypes'
        BY <1>1, <1>3, <2>1, AfterSends DEF StreamInvariant, StreamTypes, StreamRecord
    <2>3. StreamsBegun'
        BY <1>1, <1>5, <2>1, Before DEF StreamInvariant, StreamsBegun
    <2> QED BY <1>1, <1>3, <2>1, <2>2, <2>3, LeavesAdapter
<1>8. CASE stream.active # sends[h].on /\ UNCHANGED stream
    <2>1. StreamTypes'
        BY <1>1, <1>3, <1>8, AfterSends DEF StreamInvariant, StreamTypes, StreamRecord
    <2>2. StreamsBegun'
        BY <1>1, <1>5, <1>8 DEF StreamInvariant, StreamsBegun
    <2>3. stream'.active # 0 => taken[stream'.active] = stream'.expected
        BY <1>1, <1>8, InTheAdapter
    <2> QED BY <1>1, <1>3, <2>1, <2>2, <2>3, LeavesAdapter
<1> QED BY <1>6, <1>7, <1>8 DEF ChunkReturns, ChunkRaises

(* The slot is given back by the call that has it.                            *)
LEMMA SendCompleteKeeps ==
    ASSUME StreamInvariant, NEW h \in Host, SendComplete(h)
    PROVE  StreamInvariant'
<1>1. /\ sends[h].at = "complete" /\ Admitted(h) /\ ~InAdapter(h)
      /\ h \in audio.inFlight /\ UNCHANGED <<stream, taken>>
    BY DEF SendComplete, Admitted, InAdapter, StreamInvariant, OneChunkAtATime
<1>2. PICK send \in SendCall : Sends(h, send) /\ send.at = "sent"
    <2>1. sends' = [sends EXCEPT ![h] = [sends[h] EXCEPT !.at = "sent"]]
        BY <1>1, Before DEF SendComplete
    <2> QED BY <2>1, Before, SendGoesTo
<1>3. \A g \in Host : sends'[g] = IF g = h THEN send ELSE sends[g]
    BY <1>2, AfterSends
<1>4. audio' \in Boundary /\ audio'.inFlight = audio.inFlight \ {h}
    BY Controlled DEF SendComplete, StreamInvariant
<1>5. StreamTypes'
    BY <1>1, <1>2, AfterSends DEF StreamInvariant, StreamTypes
<1>6. OneChunkAtATime'
    <2>1. \A g \in Host : Admitted(g)' <=> Admitted(g) /\ g # h
        BY <1>2, <1>3 DEF Admitted
    <2>2. \A g \in Host : sends'[g].verdict # "lost"
        BY <1>2, <1>3, Before, AfterSends
    <2>3. {g \in Host : Admitted(g)'} = {g \in Host : Admitted(g)} \ {h}
        BY <2>1
    <2> QED BY <1>4, <2>1, <2>2, <2>3 DEF StreamInvariant, OneChunkAtATime
<1>7. \A g \in Host : ~InAdapter(g) /\ ~InAdapter(g)'
    <2>1. \A g \in Host : ~InAdapter(g)
        BY <1>1, SlotHolder
    <2> QED BY <1>2, <1>3, <2>1 DEF InAdapter
<1>8. StreamsBegun' /\ ChunksInOrder'
    BY <1>1, <1>7 DEF StreamInvariant, StreamsBegun, ChunksInOrder
<1> QED BY <1>4, <1>5, <1>6, <1>8 DEF StreamInvariant

(* The call returns to its host.                                              *)
LEMMA SendReturnsKeeps ==
    ASSUME StreamInvariant, NEW h \in Host, SendReturns(h)
    PROVE  StreamInvariant'
<1>1. /\ ~Admitted(h) /\ ~InAdapter(h) /\ UNCHANGED <<stream, audio, taken>>
    BY DEF SendReturns, Admitted, InAdapter
<1>2. Sends(h, NoSend) /\ NoSend.at = "idle"
    BY DEF SendReturns, Sends, SendCall, NoSend
<1>3. \A g \in Host : sends'[g] = IF g = h THEN NoSend ELSE sends[g]
    BY <1>2, AfterSends
<1>4. StreamTypes'
    BY <1>1, <1>2, AfterSends DEF StreamInvariant, StreamTypes
<1>5. OneChunkAtATime'
    BY <1>1, <1>2, KeepsSlot
<1>6. /\ \A g \in Host : InAdapter(g)' => InAdapter(g) /\ sends'[g] = sends[g]
      /\ \A g \in Host : InAdapter(g) => InAdapter(g)' /\ sends'[g] = sends[g]
    BY <1>1, <1>2, <1>3 DEF InAdapter
<1>7. StreamsBegun' /\ ChunksInOrder'
    BY <1>1, <1>6 DEF StreamInvariant, StreamsBegun, ChunksInOrder
<1> QED BY <1>1, <1>4, <1>5, <1>7 DEF StreamInvariant

-----------------------------------------------------------------------------
(* A stream that is ended, or left alone, is still given its chunks in order. *)
LEMMA StreamKeeps ==
    ASSUME StreamInvariant, UNCHANGED <<sends, taken>>,
           audio' \in Boundary, audio'.inFlight = audio.inFlight,
           stream' \in StreamRecord,
           stream'.begun = stream.begun, stream'.id = stream.id,
           \/ stream'.active = 0
           \/ stream'.active = stream.active /\ stream'.expected = stream.expected
    PROVE  StreamInvariant'
<1>1. StreamTypes'
    BY DEF StreamInvariant, StreamTypes, StreamRecord
<1>2. OneChunkAtATime'
    BY DEF StreamInvariant, OneChunkAtATime, Admitted
<1>3. StreamsBegun'
    BY Before DEF StreamInvariant, StreamsBegun, InAdapter
<1>4. ChunksInOrder'
    BY DEF StreamInvariant, ChunksInOrder, InAdapter
<1> QED BY <1>1, <1>2, <1>3, <1>4 DEF StreamInvariant

(* configure, end, abort, close, pause and resume.                            *)
LEMMA ControlKeeps ==
    ASSUME StreamInvariant,
           \/ Configure \/ CloseStream \/ Control
           \/ \E id \in StreamId : Abort(id)
           \/ \E id \in StreamId, seq \in Chunk : End(id, seq)
    PROVE  StreamInvariant'
<1>1. stream \in StreamRecord /\ audio \in Boundary
    BY DEF StreamInvariant, StreamTypes, StreamRecord
<1>2. \A id \in StreamId \cup {NoStream}, state \in {"ended", "aborted"} :
          /\ Over(stream, id, state) \in StreamRecord
          /\ Over(stream, id, state).begun = stream.begun
          /\ Over(stream, id, state).id = stream.id
          /\ Over(stream, id, state).active = 0
    BY <1>1 DEF Over, StreamRecord
<1>3. CASE Configure
    BY <1>1, <1>3, StreamKeeps DEF Configure, StreamRecord
<1>4. CASE CloseStream
    <2>1. /\ StreamClosed(stream) \in StreamRecord
          /\ StreamClosed(stream).begun = stream.begun
          /\ StreamClosed(stream).id = stream.id
          /\ \/ StreamClosed(stream).active = 0
             \/ /\ StreamClosed(stream).active = stream.active
                /\ StreamClosed(stream).expected = stream.expected
        <3>1. CASE stream.active # 0
            <4>1. stream.id[stream.active] \in StreamId \cup {NoStream}
                BY <1>1, <3>1 DEF StreamRecord
            <4> DEFINE over == Over(stream, stream.id[stream.active], "aborted")
            <4>2. /\ over \in StreamRecord /\ over.begun = stream.begun
                  /\ over.id = stream.id /\ over.active = 0
                BY <1>2, <4>1
            <4>3. StreamClosed(stream)
                     = IF stream.closed THEN stream ELSE [over EXCEPT !.closed = TRUE]
                BY <3>1 DEF StreamClosed
            <4> HIDE DEF over
            <4>4. /\ [over EXCEPT !.closed = TRUE] \in StreamRecord
                  /\ [over EXCEPT !.closed = TRUE].begun = over.begun
                  /\ [over EXCEPT !.closed = TRUE].id = over.id
                  /\ [over EXCEPT !.closed = TRUE].active = over.active
                BY <4>2 DEF StreamRecord
            <4>5. CASE stream.closed
                BY <1>1, <4>3, <4>5
            <4>6. CASE ~stream.closed
                BY <4>2, <4>3, <4>4, <4>6
            <4> QED BY <4>5, <4>6
        <3>2. CASE stream.active = 0
            BY <1>1, <3>2 DEF StreamClosed, StreamRecord
        <3> QED BY <3>1, <3>2
    <2> QED BY <1>1, <1>4, <2>1, StreamKeeps, Controlled DEF CloseStream
<1>5. CASE Control
    BY <1>1, <1>5, StreamKeeps, Controlled DEF Control
<1>6. CASE \E id \in StreamId : Abort(id)
    BY <1>1, <1>2, <1>6, StreamKeeps DEF Abort
<1>7. CASE \E id \in StreamId, seq \in Chunk : End(id, seq)
    BY <1>1, <1>2, <1>7, StreamKeeps DEF End
<1> QED BY <1>3, <1>4, <1>5, <1>6, <1>7

(* A new stream has been given nothing, and a chunk still in the adapter is   *)
(* another stream's.                                                         *)
LEMMA BeginKeeps ==
    ASSUME StreamInvariant, NEW id \in StreamId, Begin(id)
    PROVE  StreamInvariant'
<1>1. /\ stream.active = 0 /\ stream.begun < MaxStreams
      /\ stream' = Begun(stream, id) /\ UNCHANGED <<audio, sends, taken>>
    BY DEF Begin, CanBegin
<1>2. /\ stream.begun + 1 \in Stream /\ stream.begun \in Nat
      /\ MaxStreams \in Nat
    BY <1>1, Before DEF Stream
<1>3. /\ stream' \in StreamRecord
      /\ stream'.active = stream.begun + 1 /\ stream'.begun = stream.begun + 1
      /\ stream'.expected = 0
      /\ \A s \in Stream : stream'.id[s] = IF s = stream.begun + 1 THEN id ELSE stream.id[s]
    <2>1. stream \in StreamRecord
        BY DEF StreamInvariant, StreamTypes, StreamRecord
    <2> DEFINE number == stream.begun + 1
               ids == [stream.id EXCEPT ![number] = id]
    <2>2. number \in Stream /\ number \in 0 .. MaxStreams
        BY <1>2 DEF Stream
    <2>3. /\ ids \in [Stream -> StreamId \cup {NoStream}]
          /\ \A s \in Stream : ids[s] = IF s = number THEN id ELSE stream.id[s]
        BY <2>1, <2>2 DEF StreamRecord
    <2>4. stream' = [stream EXCEPT !.begun = number, !.active = number, !.id = ids,
                                   !.expected = 0, !.terminal = NoTerminal]
        BY <1>1, <2>1 DEF Begun, StreamRecord
    <2> HIDE DEF ids, number
    <2>5. /\ stream' \in StreamRecord /\ stream'.active = number /\ stream'.begun = number
          /\ stream'.expected = 0 /\ stream'.id = ids
        BY <2>1, <2>2, <2>3, <2>4 DEF StreamRecord, NoTerminal
    <2> QED BY <2>3, <2>5 DEF number
<1>4. StreamTypes'
    BY <1>1, <1>3 DEF StreamInvariant, StreamTypes, StreamRecord
<1>5. OneChunkAtATime'
    BY <1>1 DEF StreamInvariant, OneChunkAtATime, Admitted
<1>6. /\ \A h \in Host : InAdapter(h)' <=> InAdapter(h)
      /\ \A h \in Host : InAdapter(h) => /\ sends[h].on \in 1 .. stream.begun
                                         /\ stream.id[sends[h].on] = sends[h].id
    BY <1>1 DEF StreamInvariant, StreamsBegun, InAdapter
<1>7. StreamsBegun'
    <2>1. \A s \in Stream : s <= stream'.begun => stream'.id[s] \in StreamId
        BY <1>2, <1>3 DEF StreamInvariant, StreamsBegun, Stream
    <2>2. \A s \in Stream : s > stream'.begun => taken'[s] = 0
        BY <1>1, <1>2, <1>3 DEF StreamInvariant, StreamsBegun, Stream
    <2>3. \A h \in Host : InAdapter(h)' => /\ sends'[h].on \in 1 .. stream'.begun
                                            /\ stream'.id[sends'[h].on] = sends'[h].id
        BY <1>1, <1>2, <1>3, <1>6 DEF Stream
    <2>4. stream'.active <= stream'.begun
        BY <1>2, <1>3
    <2> QED BY <2>1, <2>2, <2>3, <2>4 DEF StreamsBegun
<1>8. ChunksInOrder'
    <2>1. taken'[stream'.active] = 0
        BY <1>1, <1>2, <1>3 DEF StreamInvariant, StreamsBegun
    <2>2. \A h \in Host : InAdapter(h)' => sends'[h].on # stream'.active
        BY <1>1, <1>2, <1>3, <1>6
    <2>3. \A h \in Host : InAdapter(h)' => taken'[sends'[h].on] = sends'[h].seq + 1
        BY <1>1, <1>6 DEF StreamInvariant, ChunksInOrder
    <2> QED BY <1>3, <2>1, <2>2, <2>3 DEF ChunksInOrder
<1> QED BY <1>1, <1>4, <1>5, <1>7, <1>8 DEF StreamInvariant

-----------------------------------------------------------------------------
(* Every method of the runtime keeps the invariant.                           *)
LEMMA InvariantKept == StreamInvariant /\ [StreamNext]_streamVars => StreamInvariant'
<1> SUFFICES ASSUME StreamInvariant, [StreamNext]_streamVars
             PROVE  StreamInvariant'
    OBVIOUS
<1>1. CASE \E h \in Host : SendCheck(h)
    BY <1>1, SendCheckKeeps, SlotHolder
<1>2. CASE \E h \in Host : PartialCheck(h) \/ PartialReturns(h)
    BY <1>2, PartialKeeps
<1>3. CASE \E h \in Host : ChunkReturns(h) \/ ChunkRaises(h)
    BY <1>3, ChunkSettles
<1>4. CASE \E h \in Host : SendComplete(h)
    BY <1>4, SendCompleteKeeps
<1>5. CASE \E h \in Host : SendReturns(h)
    BY <1>5, SendReturnsKeeps
<1>6. CASE \E h \in Host, id \in StreamId, seq \in Chunk : SendAdmit(h, id, seq)
    BY <1>6, SendAdmitKeeps, StreamAssumption
<1>7. CASE \E id \in StreamId : Begin(id)
    BY <1>7, BeginKeeps
<1>8. CASE \/ Configure \/ CloseStream \/ Control
           \/ \E id \in StreamId : Abort(id)
           \/ \E id \in StreamId, seq \in Chunk : End(id, seq)
    BY <1>8, ControlKeeps
<1>9. CASE UNCHANGED streamVars
    BY <1>9 DEF streamVars, StreamInvariant, StreamTypes, OneChunkAtATime, StreamsBegun,
                ChunksInOrder, Admitted, InAdapter
<1> QED BY <1>1, <1>2, <1>3, <1>4, <1>5, <1>6, <1>7, <1>8, <1>9 DEF StreamNext, Sending

(* Whatever its callers do, the runtime keeps all of it.                      *)
THEOREM StreamInvariantHolds == StreamSpec => []StreamInvariant
BY Initially, InvariantKept, PTL DEF StreamSpec

(* The fields keep their types.                                               *)
THEOREM StreamIsTyped == StreamSpec => []StreamTypes
<1>1. StreamInvariant => StreamTypes
    BY DEF StreamInvariant
<1> QED BY <1>1, StreamInvariantHolds, PTL

(* The audio boundary's slot belongs to one send at a time: the adapter's      *)
(* accept_chunk never runs twice at once, and no completion is lost.          *)
THEOREM SlotHasOneOwner == StreamSpec => []OneChunkAtATime
<1>1. StreamInvariant => OneChunkAtATime
    BY DEF StreamInvariant
<1> QED BY <1>1, StreamInvariantHolds, PTL

(* The adapter is given the chunks of each stream as 0, 1, 2, ... although the *)
(* lock is not held while it works on one.                                   *)
THEOREM ChunksArriveInOrder == StreamSpec => []ChunksInOrder
<1>1. StreamInvariant => ChunksInOrder
    BY DEF StreamInvariant
<1> QED BY <1>1, StreamInvariantHolds, PTL

-----------------------------------------------------------------------------
(* The session.                                                             *)

(* The threads' calls have arguments of their types.                          *)
CallsAreTyped == todo \in [Host -> Seq(Request)]

(* The next call of a thread.                                                 *)
LEMMA NextRequest ==
    ASSUME CallsAreTyped, NEW h \in Host, NEW op, NextCall(h, op)
    PROVE  /\ Args(h).id \in StreamId /\ Args(h).seq \in Chunk
           /\ Args(h).adapter \in {"plain", "abortable"}
           /\ CallsAreTyped'
<1>1. todo[h] \in Seq(Request) /\ todo[h] # <<>>
    BY DEF CallsAreTyped, NextCall
<1>2. Head(todo[h]) \in Request /\ Tail(todo[h]) \in Seq(Request)
    BY <1>1
<1> QED BY <1>2 DEF CallsAreTyped, NextCall, Request, Args

(* The session starts its runtime.                                            *)
LEMMA SessionInitially == Init => StreamInit /\ CallsAreTyped
BY ScriptAssumption DEF Init, CallsAreTyped

(* Every action of the session is an operation of the runtime, or leaves the   *)
(* runtime alone.                                                            *)
LEMMA SessionStep ==
    ASSUME StreamInvariant, CallsAreTyped, [Next]_vars
    PROVE  [StreamNext]_streamVars /\ CallsAreTyped'
<1>1. CASE UNCHANGED vars
    BY <1>1 DEF vars, sessionVars, CallsAreTyped
<1>2. ASSUME NEW h \in Host, BeginAudioStream(h)
      PROVE  [StreamNext]_streamVars /\ CallsAreTyped'
    <2>1. Args(h).id \in StreamId /\ CallsAreTyped'
        BY <1>2, NextRequest DEF BeginAudioStream
    <2>2. Begin(Args(h).id) \/ UNCHANGED streamVars
        BY <1>2 DEF BeginAudioStream, Begin, streamVars
    <2> QED BY <2>1, <2>2 DEF StreamNext
<1>3. ASSUME NEW h \in Host, SendAudioChunk(h)
      PROVE  [StreamNext]_streamVars /\ CallsAreTyped'
    <2>1. Args(h).id \in StreamId /\ Args(h).seq \in Chunk /\ CallsAreTyped'
        BY <1>3, NextRequest DEF SendAudioChunk
    <2> QED BY <1>3, <2>1 DEF SendAudioChunk, StreamNext
<1>4. ASSUME NEW h \in Host, EndAudioInput(h)
      PROVE  [StreamNext]_streamVars /\ CallsAreTyped'
    <2>1. Args(h).id \in StreamId /\ Args(h).seq \in Chunk /\ CallsAreTyped'
        BY <1>4, NextRequest DEF EndAudioInput
    <2>2. End(Args(h).id, Args(h).seq) \/ UNCHANGED streamVars
        BY <1>4 DEF EndAudioInput, EndAdmitted, End, streamVars
    <2> QED BY <2>1, <2>2 DEF StreamNext
<1>5. ASSUME NEW h \in Host, AbortAudioStream(h)
      PROVE  [StreamNext]_streamVars /\ CallsAreTyped'
    <2>1. Args(h).id \in StreamId /\ CallsAreTyped'
        BY <1>5, NextRequest DEF AbortAudioStream
    <2>2. Abort(Args(h).id) \/ UNCHANGED streamVars
        BY <1>5 DEF AbortAudioStream, Aborting, Abort, streamVars
    <2> QED BY <2>1, <2>2 DEF StreamNext
<1>6. ASSUME NEW h \in Host, AbortInput(h)
      PROVE  [StreamNext]_streamVars /\ CallsAreTyped'
    <2>1. CallsAreTyped'
        BY <1>6, NextRequest DEF AbortInput
    <2>2. stream.active # 0 => stream.id[stream.active] \in StreamId
        BY Before DEF StreamInvariant, StreamsBegun
    <2>3. (stream.active # 0 /\ Abort(stream.id[stream.active])) \/ UNCHANGED streamVars
        BY <1>6 DEF AbortInput, Aborting, Abort, streamVars
    <2> QED BY <2>1, <2>2, <2>3 DEF StreamNext
<1>7. ASSUME NEW h \in Host, ConfigureAudioStreaming(h)
      PROVE  [StreamNext]_streamVars /\ CallsAreTyped'
    <2>1. Args(h).adapter \in {"plain", "abortable"} /\ CallsAreTyped'
        BY <1>7, NextRequest DEF ConfigureAudioStreaming
    <2>2. Configure \/ UNCHANGED streamVars
        BY <1>7, <2>1 DEF ConfigureAudioStreaming, Configure, streamVars
    <2> QED BY <2>1, <2>2 DEF StreamNext
<1>8. ASSUME NEW h \in Host, ControlAudioInput(h)
      PROVE  [StreamNext]_streamVars /\ CallsAreTyped'
    <2>1. CallsAreTyped'
        BY <1>8, NextRequest DEF ControlAudioInput
    <2>2. Control \/ UNCHANGED streamVars
        BY <1>8 DEF ControlAudioInput, Control, streamVars
    <2> QED BY <2>1, <2>2 DEF StreamNext
<1>9. ASSUME NEW h \in Host, Close(h)
      PROVE  [StreamNext]_streamVars /\ CallsAreTyped'
    <2>1. CallsAreTyped'
        BY <1>9, NextRequest DEF Close
    <2>2. CloseStream \/ UNCHANGED streamVars
        BY <1>9 DEF Close, CloseStream, streamVars
    <2> QED BY <2>1, <2>2 DEF StreamNext
<1>10. ASSUME NEW h \in Host, SendProceeds(h) \/ EmitPartial(h) \/ SendSettles(h)
       PROVE  [StreamNext]_streamVars /\ CallsAreTyped'
    <2>1. Sending(h) \/ PartialReturns(h) \/ SendReturns(h)
        BY <1>10 DEF SendProceeds, EmitPartial, SendSettles
    <2>2. UNCHANGED todo
        BY <1>10 DEF SendProceeds, EmitPartial, SendSettles, sessionVars
    <2> QED BY <2>1, <2>2 DEF StreamNext, CallsAreTyped
<1>11. ASSUME NEW h \in Host, StartInput(h)
       PROVE  [StreamNext]_streamVars /\ CallsAreTyped'
    BY <1>11, NextRequest DEF StartInput
<1>12. ASSUME NEW h \in Host,
              \/ StreamTold(h) \/ AbortTold(h) \/ OpenTurn(h) \/ InputSuperseded(h)
              \/ AfterPreflight(h) \/ AfterListening(h) \/ ProviderReturns(h)
              \/ TranscriptionCompleted(h) \/ InputTold(h) \/ StaleTold(h) \/ CloseTold(h)
       PROVE  [StreamNext]_streamVars /\ CallsAreTyped'
    BY <1>12 DEF CallsAreTyped, StreamTold, AbortTold, OpenTurn, InputSuperseded,
                 AfterPreflight, AfterListening, ProviderReturns, TranscriptionCompleted,
                 InputTold, StaleTold, CloseTold
<1> QED BY <1>1, <1>2, <1>3, <1>4, <1>5, <1>6, <1>7, <1>8, <1>9, <1>10, <1>11, <1>12
        DEF Next, StreamCall

(* The session is an implementation of its stream runtime with any callers:    *)
(* begin, send, end, abort and close reach it only as the runtime's methods.  *)
THEOREM SessionUsesTheRuntime == Spec => StreamSpec /\ []StreamInvariant
<1>1. Init => StreamInit /\ StreamInvariant /\ CallsAreTyped
    BY SessionInitially, Initially
<1>2. StreamInvariant /\ CallsAreTyped /\ [Next]_vars
      => [StreamNext]_streamVars /\ StreamInvariant' /\ CallsAreTyped'
    BY SessionStep, InvariantKept
<1> QED BY <1>1, <1>2, PTL DEF Spec, StreamSpec

-----------------------------------------------------------------------------
(* The records of the session; a turn is 0 where there is none.               *)
SessionRecord ==
    [closed : BOOLEAN, active : Nat, stream : Nat,
     result : {"none", "completed", "failed", "interrupted", "closed"},
     audience : {"live", "retired", "none"}]

CallRecord ==
    [op : Input \cup {"none", "terminate", "end", "abort", "close"},
     at : {"idle", "open", "preflight", "listening", "provider", "completed", "told", "stale"},
     turn : Nat]

Happening == {"final", "failed", "stale", "interrupted", "replaced", "closed"}

(* The types of the session's fields.                                         *)
SessionTypes ==
    /\ session \in SessionRecord
    /\ gate \in [current : Nat, started : Nat]
    /\ call \in [Host -> CallRecord]
    /\ story \in [Turn -> Seq(Happening)]
    /\ turnOf \in [Stream -> Nat]

(* The gate and the session agree on the current turn; turns are opened in    *)
(* order.                                                                    *)
TurnsAreOpened ==
    /\ gate.current = session.active /\ gate.current <= gate.started
    /\ gate.started <= MaxTurns
    /\ session.stream <= gate.started
    /\ \A h \in Host : call[h].turn <= gate.started
    /\ \A s \in Stream : turnOf[s] <= gate.started

(* The call of an input that has not told its outcome.                        *)
Untold(h) == call[h].at \in {"preflight", "listening", "provider", "completed"}

(* A thread is in a send or in another call.                                  *)
OneCallAtATime ==
    \A h \in Host : sends[h].at # "idle" => call[h] = NoCall

(* Where a call stands, and its turn; a turn told stale is not current again.  *)
CallsHaveTheirTurn ==
    \A h \in Host :
        /\ call[h].at = "open" => call[h].op \in Input /\ call[h].turn = 0
        /\ Untold(h) => call[h].op \in Input /\ call[h].turn # 0
        /\ call[h].at = "stale" => call[h].turn \notin {0, gate.current}

(* A turn belongs to one input call ...                                       *)
TurnsHaveOneCall ==
    \A h, g \in Host :
        /\ call[h].op \in Input /\ call[g].op \in Input
        /\ call[h].turn = call[g].turn /\ call[h].turn # 0
        => h = g

(* ... or to a stream.                                                        *)
InputsHaveNoStream ==
    \A h \in Host, s \in Stream :
        call[h].op \in Input /\ call[h].turn # 0 => turnOf[s] # call[h].turn

(* The session's stream turn is that of the active stream.                    *)
StreamsHaveTheirTurn ==
    session.stream # 0 /\ stream.active # 0 => turnOf[stream.active] = session.stream

(* A partial was told for two streams of one identity, the one whose turn it   *)
(* was told under and the one that produced it.                              *)
PartialsAreOfStreams ==
    \A p \in partials : \E s, r \in Stream :
        /\ p = <<turnOf[s], r>> /\ stream.id[s] = stream.id[r]
        /\ s <= stream.begun /\ r <= stream.begun

(* The current turn of an input has its call; a closed session has no current *)
(* turn of a stream.                                                         *)
CurrentTurnsAreServed ==
    session.active # 0 =>
        \/ \E h \in Host : call[h].op \in Input /\ call[h].turn = session.active
        \/ ~session.closed /\ \E s \in Stream : turnOf[s] = session.active

(* What may have happened to a turn: nothing before it is opened, no end of    *)
(* it while it is current, no transcript of it before its one input told it.  *)
Happened == [c \in Turn |-> {story[c][i] : i \in DOMAIN story[c]}]

StoriesSoFar ==
    /\ \A c \in Turn : c > gate.started => story[c] = <<>>
    /\ gate.current # 0 => Happened[gate.current] \subseteq {"failed", "final"}
    /\ \A h \in Host : Untold(h) => Happened[call[h].turn] \cap {"final", "stale"} = {}
    /\ stream.active # 0 /\ turnOf[stream.active] # 0 =>
          Happened[turnOf[stream.active]] \cap {"final", "stale"} = {}

(* The session's stream turn is a stream's, and so is the turn of a call that  *)
(* tells the end or the failure of a stream.                                 *)
IsStreamTurn(c) == \E s \in Stream : turnOf[s] = c

StreamCallsHaveStreams ==
    /\ \A s \in Stream : s > stream.begun => turnOf[s] = 0
    /\ session.stream # 0 => IsStreamTurn(session.stream)
    /\ \A h \in Host : call[h].op \in {"terminate", "end"} =>
          call[h].turn # 0 /\ IsStreamTurn(call[h].turn)

(* A call that has told its outcome; the audience is live as long as the        *)
(* session is open, so the outcome is in the story of its turn.               *)
Telling(rec) == rec.at = "told" /\ rec.op \in Input \cup {"terminate", "end"}

Outcome == {"final", "failed"}

OutcomesAreTold ==
    /\ session.audience # "live" => session.closed
    /\ \A h \in Host : call[h].op = "close" => session.closed
    /\ \A h \in Host : Telling(call[h]) =>
          /\ call[h].turn # 0
          /\ session.closed \/ Happened[call[h].turn] \cap Outcome # {}

(* The inductive invariant of the session.                                    *)
SessionInvariant ==
    /\ StreamInvariant /\ CallsAreTyped
    /\ SessionTypes /\ TurnsAreOpened
    /\ OneCallAtATime /\ CallsHaveTheirTurn /\ TurnsHaveOneCall /\ InputsHaveNoStream
    /\ StreamsHaveTheirTurn /\ StreamCallsHaveStreams /\ OutcomesAreTold
    /\ PartialsAreOfStreams /\ CurrentTurnsAreServed /\ StoriesSoFar /\ NoLateTranscript

(* One more happening in the story of turn c, or none.                        *)
Appends(c, what) ==
    story' = IF c = 0 THEN story ELSE [story EXCEPT ![c] = Append(@, what)]

(* A story with one more happening.                                           *)
LEMMA Longer ==
    \A old \in Seq(Happening), what \in Happening : \A new :
        new = Append(old, what)
        => /\ new # old
           /\ Len(old) \in Nat /\ DOMAIN old = 1 .. Len(old)
           /\ DOMAIN new = 1 .. Len(old) + 1
           /\ \A i \in DOMAIN old : new[i] = old[i]
           /\ new[Len(old) + 1] = what
<1> SUFFICES ASSUME NEW old \in Seq(Happening), NEW what \in Happening, NEW new,
                    new = Append(old, what)
             PROVE  /\ new # old
                    /\ Len(old) \in Nat /\ DOMAIN old = 1 .. Len(old)
                    /\ DOMAIN new = 1 .. Len(old) + 1
                    /\ \A i \in DOMAIN old : new[i] = old[i]
                    /\ new[Len(old) + 1] = what
    BY Zenon
<1>1. /\ new \in Seq(Happening) /\ Len(new) = Len(old) + 1
      /\ \A i \in 1 .. Len(old) : new[i] = old[i]
      /\ new[Len(old) + 1] = what
    BY AppendProperties
<1>2. /\ Len(old) \in Nat /\ DOMAIN old = 1 .. Len(old)
      /\ DOMAIN new = 1 .. Len(new)
    BY <1>1, LenProperties, Zenon
<1>3. \A n \in Nat : n + 1 # n
    OBVIOUS
<1>4. new # old
    BY <1>1, <1>2, <1>3, Zenon
<1> QED BY <1>1, <1>2, <1>4, Zenon

(* Every story after one happening.                                           *)
LEMMA StoryAfter ==
    ASSUME story \in [Turn -> Seq(Happening)], NEW c \in {0} \cup Turn, NEW what \in Happening,
           Appends(c, what)
    PROVE  /\ story' \in [Turn -> Seq(Happening)]
           /\ \A d \in Turn : Happened'[d] = IF d = c THEN Happened[d] \cup {what} ELSE Happened[d]
           /\ \A d \in Turn : d # c => story'[d] = story[d]
           /\ c # 0 => story'[c] = Append(story[c], what)
           /\ /\ NoLateTranscript
              /\ c # 0 /\ what = "final" => Happened[c] \subseteq {"failed"}
              /\ c # 0 /\ what = "stale" => Happened[c] \cap {"final", "stale"} = {}
              => NoLateTranscript'
<1>1. CASE c = 0
    BY <1>1 DEF Appends, Happened, NoLateTranscript, Turn
<1>2. CASE c \in Turn
    <2>0. c # 0
        BY <1>2 DEF Turn
    <2>01. story[c] \in Seq(Happening) /\ Append(story[c], what) \in Seq(Happening)
        BY <1>2, AppendProperties
    <2>1. /\ story[c] \in Seq(Happening) /\ story'[c] = Append(story[c], what)
          /\ \A d \in Turn : d # c => story'[d] = story[d]
          /\ story' \in [Turn -> Seq(Happening)]
        BY <1>2, <2>0, <2>01 DEF Appends
    <2>2. /\ Len(story[c]) \in Nat /\ DOMAIN story[c] = 1 .. Len(story[c])
          /\ DOMAIN story'[c] = 1 .. Len(story[c]) + 1
          /\ \A i \in DOMAIN story[c] : story'[c][i] = story[c][i]
          /\ story'[c][Len(story[c]) + 1] = what
          /\ story'[c] # story[c]
        <3>1. \A new : new = Append(story[c], what)
                  => /\ new # story[c]
                     /\ Len(story[c]) \in Nat /\ DOMAIN story[c] = 1 .. Len(story[c])
                     /\ DOMAIN new = 1 .. Len(story[c]) + 1
                     /\ \A i \in DOMAIN story[c] : new[i] = story[c][i]
                     /\ new[Len(story[c]) + 1] = what
            BY <2>1, Longer, Zenon
        <3> QED BY <2>1, <3>1, Zenon
    <2>4. Happened'[c] = Happened[c] \cup {what}
        <3>1. \A x : x \in Happened'[c] <=> \E i \in 1 .. Len(story[c]) + 1 : x = story'[c][i]
            BY <1>2, <2>2 DEF Happened
        <3>2. \A x : x \in Happened[c] <=> \E i \in 1 .. Len(story[c]) : x = story[c][i]
            BY <1>2, <2>2 DEF Happened
        <3>3. \A i \in 1 .. Len(story[c]) + 1 : i \in 1 .. Len(story[c]) \/ i = Len(story[c]) + 1
            BY <2>2
        <3>4. \A i \in 1 .. Len(story[c]) : i \in 1 .. Len(story[c]) + 1
            BY <2>2
        <3>5. Len(story[c]) + 1 \in 1 .. Len(story[c]) + 1
            BY <2>2
        <3>6. \A i \in 1 .. Len(story[c]) : story'[c][i] = story[c][i]
            BY <2>2
        <3>7. \A x : x \in Happened'[c] <=> x \in Happened[c] \/ x = what
            <4>1. ASSUME NEW x, x \in Happened'[c] PROVE x \in Happened[c] \/ x = what
                <5>1. PICK i \in 1 .. Len(story[c]) + 1 : x = story'[c][i]
                    BY <3>1, <4>1, Zenon
                <5>2. CASE i \in 1 .. Len(story[c])
                    BY <3>2, <3>6, <5>1, <5>2, Zenon
                <5>3. CASE i = Len(story[c]) + 1
                    BY <2>2, <5>1, <5>3, Zenon
                <5> QED BY <3>3, <5>2, <5>3, Zenon
            <4>2. ASSUME NEW x, x \in Happened[c] PROVE x \in Happened'[c]
                BY <3>1, <3>2, <3>4, <3>6, <4>2
            <4>3. what \in Happened'[c]
                BY <2>2, <3>1, <3>5
            <4> QED BY <4>1, <4>2, <4>3
        <3> QED BY <3>7
    <2>5. \A d \in Turn : d # c => Happened'[d] = Happened[d]
        BY <2>1 DEF Happened
    <2>6. ASSUME NoLateTranscript,
                 what = "final" => Happened[c] \subseteq {"failed"},
                 what = "stale" => Happened[c] \cap {"final", "stale"} = {},
                 NEW d \in Turn, NEW i \in DOMAIN story'[d], NEW j \in DOMAIN story'[d], i < j
          PROVE  /\ story'[d][j] = "final" => story'[d][i] = "failed"
                 /\ story'[d][j] = "stale" => story'[d][i] \notin {"final", "stale"}
        <3>0. \A e \in Turn : \A k, l \in DOMAIN story[e] :
                  /\ k < l /\ story[e][l] = "final" => story[e][k] = "failed"
                  /\ k < l /\ story[e][l] = "stale" => story[e][k] \notin {"final", "stale"}
            BY <2>6, Zenon DEF NoLateTranscript
        <3>1. CASE d # c
            <4>1. story'[d] = story[d]
                BY <2>1, <3>1
            <4>2. i \in DOMAIN story[d] /\ j \in DOMAIN story[d]
                BY <2>6, <4>1
            <4> QED BY <2>6, <3>0, <4>1, <4>2
        <3>2. CASE d = c /\ j \in DOMAIN story[c]
            <4>1. i \in DOMAIN story[c]
                BY <2>2, <2>6, <3>2
            <4>2. story'[d][i] = story[d][i] /\ story'[d][j] = story[d][j]
                BY <2>2, <3>2, <4>1
            <4> QED BY <1>2, <2>6, <3>0, <3>2, <4>1, <4>2
        <3>3. CASE d = c /\ j = Len(story[c]) + 1
            <4>1. i \in DOMAIN story[c] /\ story'[c][i] \in Happened[c]
                BY <2>2, <2>6, <3>3 DEF Happened
            <4> QED BY <2>2, <2>6, <3>3, <4>1
        <3> QED BY <2>2, <3>1, <3>2, <3>3
    <2>7. /\ NoLateTranscript
          /\ c # 0 /\ what = "final" => Happened[c] \subseteq {"failed"}
          /\ c # 0 /\ what = "stale" => Happened[c] \cap {"final", "stale"} = {}
          => NoLateTranscript'
        BY <2>0, <2>6, Zenon DEF NoLateTranscript
    <2> QED BY <1>2, <2>0, <2>1, <2>2, <2>4, <2>5, <2>7
<1> QED BY <1>1, <1>2

-----------------------------------------------------------------------------
(* A call that has not told its outcome.                                      *)
Pending(rec) == rec.at \in {"preflight", "listening", "provider", "completed"}

(* Why a turn that was current no longer is.                                  *)
ReleasedForAReason ==
    LET c == gate.current
    IN  c # 0 /\ gate'.current # c =>
          \/ \E why \in {"interrupted", "replaced", "closed"} :
                 story'[c] = Append(story[c], why)
          \/ \E h \in Host : OutcomeTold(h, c) /\ call'[h] = NoCall

(* The streams a step leaves as they are; the active one may be over.         *)
StreamsStay ==
    /\ stream'.active \in {0, stream.active}
    /\ stream'.begun = stream.begun /\ stream'.id = stream.id
    /\ turnOf' = turnOf

(* What a step of thread h does to the session when it opens no turn: its      *)
(* call becomes rec, and what happens to turn c.                             *)
Effect(h, rec, c, what) ==
    /\ session' \in SessionRecord
    /\ session'.stream \in {0, session.stream}
    /\ session'.closed = session.closed \/ session'.active = 0
    /\ session.closed \/ session'.audience # "live" => session'.closed
    /\ gate' \in [current : Nat, started : Nat]
    /\ gate'.current = session'.active /\ gate'.started = gate.started
    /\ gate'.current \in {0, gate.current}
    /\ call' = [call EXCEPT ![h] = rec]
    /\ Appends(c, what)

(* What the step has to show for the call's new record.                       *)
CallFollows(h, rec) ==
    /\ rec \in CallRecord /\ rec.turn <= gate.started
    /\ \A g \in Host : sends'[g].at # "idle" =>
          IF g = h THEN rec = NoCall ELSE sends[g].at # "idle"
    /\ rec.at = "open" => rec.op \in Input /\ rec.turn = 0
    /\ Pending(rec) => /\ Pending(call[h])
                       /\ rec.op = call[h].op /\ rec.turn = call[h].turn
    /\ rec.at = "stale" => rec.turn \notin {0, gate'.current}
    /\ rec.op \in Input /\ rec.turn # 0
          => call[h].op \in Input /\ call[h].turn = rec.turn
    /\ call[h].op \in Input /\ call[h].turn # 0 /\ call[h].turn = gate'.current
          => rec.op \in Input /\ rec.turn = call[h].turn
    /\ rec.op = "close" => session'.closed
    /\ rec.op \in {"terminate", "end"} => rec.turn # 0 /\ IsStreamTurn(rec.turn)

(* What it has to show for what it told.                                      *)
StoryFollows(h, rec, c, what) ==
    /\ c \in {0} \cup Turn /\ c <= gate.started /\ what \in Happening
    /\ c # 0 /\ c = gate'.current => what \in {"failed", "final"}
    /\ c # 0 /\ what = "final" => Happened[c] \subseteq {"failed"}
    /\ c # 0 /\ what = "stale" => Happened[c] \cap {"final", "stale"} = {}
    /\ c # 0 /\ what \in {"final", "stale"} =>
          /\ \A g \in Host \ {h} : Untold(g) => call[g].turn # c
          /\ Pending(rec) => rec.turn # c
          /\ stream'.active # 0 => turnOf[stream'.active] # c
    /\ Telling(rec) =>
          /\ rec.turn # 0
          /\ \/ session'.closed
             \/ Happened[rec.turn] \cap Outcome # {}
             \/ rec.turn = c /\ what \in Outcome
    /\ gate.current # 0 /\ gate'.current = 0 =>
          \/ c = gate.current /\ what \in {"interrupted", "closed"}
          \/ call[h].turn = gate.current /\ Telling(call[h]) /\ rec = NoCall

(* Partials stay those of their streams where the streams stay.               *)
LEMMA PartialsStay ==
    ASSUME PartialsAreOfStreams, StreamsStay, partials' = partials
    PROVE  PartialsAreOfStreams'
BY DEF PartialsAreOfStreams, StreamsStay

(* A call that told its outcome told it as its turn's kind has it told.         *)
LEMMA ToldByItsKind ==
    ASSUME SessionInvariant, NEW h \in Host, Telling(call[h])
    PROVE  OutcomeTold(h, call[h].turn)
<1>1. call[h].turn # 0 /\ (session.closed \/ Happened[call[h].turn] \cap Outcome # {})
    BY DEF SessionInvariant, OutcomesAreTold
<1>2. call[h].turn \in Turn
    BY <1>1, ScriptAssumption
    DEF SessionInvariant, SessionTypes, TurnsAreOpened, CallRecord, Turn
<1>3. call[h].op \in (IF \E s \in Stream : turnOf[s] = call[h].turn
                      THEN {"terminate", "end"} ELSE Input)
    <2>1. CASE call[h].op \in Input
        BY <1>1, <2>1 DEF SessionInvariant, InputsHaveNoStream
    <2>2. CASE call[h].op \in {"terminate", "end"}
        BY <2>2 DEF SessionInvariant, StreamCallsHaveStreams, IsStreamTurn
    <2> QED BY <2>1, <2>2 DEF Telling
<1>4. ASSUME Happened[call[h].turn] \cap Outcome # {}
      PROVE  \E i \in DOMAIN story[call[h].turn] :
                 story[call[h].turn][i] \in {"final", "failed"}
    BY <1>2, <1>4 DEF Happened, Outcome
<1> QED BY <1>1, <1>3, <1>4 DEF OutcomeTold

(* A step with such an effect keeps the invariant.                            *)
LEMMA EffectKeeps ==
    ASSUME SessionInvariant, StreamInvariant', CallsAreTyped', PartialsAreOfStreams',
           StreamsStay, NEW h \in Host, NEW rec, NEW c, NEW what,
           Effect(h, rec, c, what), CallFollows(h, rec), StoryFollows(h, rec, c, what)
    PROVE  SessionInvariant' /\ ReleasedForAReason
<1>1. \A g \in Host : call'[g] = IF g = h THEN rec ELSE call[g]
    BY DEF SessionInvariant, SessionTypes, Effect
<1>2. /\ story' \in [Turn -> Seq(Happening)]
      /\ \A d \in Turn : Happened'[d] = IF d = c THEN Happened[d] \cup {what} ELSE Happened[d]
      /\ \A d \in Turn : d # c => story'[d] = story[d]
      /\ c # 0 => story'[c] = Append(story[c], what)
      /\ NoLateTranscript'
    <2>1. /\ story \in [Turn -> Seq(Happening)] /\ c \in {0} \cup Turn /\ what \in Happening
          /\ Appends(c, what) /\ NoLateTranscript
          /\ c # 0 /\ what = "final" => Happened[c] \subseteq {"failed"}
          /\ c # 0 /\ what = "stale" => Happened[c] \cap {"final", "stale"} = {}
        BY DEF SessionInvariant, SessionTypes, Effect, StoryFollows
    <2> QED BY <2>1, StoryAfter, Zenon
<1>3. SessionTypes'
    BY <1>1, <1>2 DEF SessionInvariant, SessionTypes, Effect, CallFollows, CallRecord, StreamsStay
<1>4. TurnsAreOpened'
    BY <1>1 DEF SessionInvariant, SessionTypes, TurnsAreOpened, Effect, CallFollows, StreamsStay
<1>5. OneCallAtATime' /\ TurnsHaveOneCall' /\ InputsHaveNoStream'
    <2>1. OneCallAtATime'
        BY <1>1 DEF SessionInvariant, OneCallAtATime, CallFollows
    <2>2. TurnsHaveOneCall'
        BY <1>1 DEF SessionInvariant, TurnsHaveOneCall, CallFollows, Input
    <2>3. InputsHaveNoStream'
        BY <1>1 DEF SessionInvariant, InputsHaveNoStream, CallFollows, StreamsStay, Input
    <2> QED BY <2>1, <2>2, <2>3
<1>10. CallsHaveTheirTurn'
    BY <1>1 DEF SessionInvariant, CallsHaveTheirTurn, CallFollows, Untold, Pending, Effect, Input
<1>6. StreamsHaveTheirTurn'
    BY DEF SessionInvariant, StreamsHaveTheirTurn, Effect, StreamsStay
<1>7. CurrentTurnsAreServed'
    BY <1>1 DEF SessionInvariant, TurnsAreOpened, CurrentTurnsAreServed, Effect, CallFollows,
        StreamsStay
<1>8. StoriesSoFar'
    <2>1. \A d \in Turn : d > gate'.started => story'[d] = <<>>
        BY <1>2 DEF SessionInvariant, SessionTypes, StoriesSoFar, StoryFollows, Effect, Turn
    <2>2. gate'.current # 0 => Happened'[gate'.current] \subseteq {"failed", "final"}
        <3>1. gate'.current # 0 => gate'.current \in Turn /\ gate'.current = gate.current
            BY ScriptAssumption
            DEF SessionInvariant, SessionTypes, TurnsAreOpened, Effect, Turn
        <3>2. gate.current # 0 => Happened[gate.current] \subseteq {"failed", "final"}
            BY DEF SessionInvariant, StoriesSoFar
        <3>3. gate'.current # 0 /\ c = gate'.current => what \in {"failed", "final"}
            BY <3>1 DEF StoryFollows
        <3> QED BY <1>2, <3>1, <3>2, <3>3
    <2>3. \A g \in Host : Untold(g)' => Happened'[call'[g].turn] \cap {"final", "stale"} = {}
        <3>1. ASSUME NEW g \in Host, Untold(g)'
              PROVE  /\ Untold(g) /\ call'[g].turn = call[g].turn /\ call[g].turn \in Turn
                     /\ call[g].turn = c => what \notin {"final", "stale"}
            <4>1. Untold(g) /\ call'[g].turn = call[g].turn
                BY <1>1, <3>1 DEF CallFollows, Untold, Pending
            <4>2. call[g].turn \in Turn
                BY <4>1, ScriptAssumption
                DEF SessionInvariant, SessionTypes, TurnsAreOpened, CallsHaveTheirTurn, Turn,
                    CallRecord
            <4>3. c = 0 => call[g].turn # c
                BY <4>2 DEF Turn
            <4>4. CASE g = h
                BY <1>1, <3>1, <4>1, <4>2, <4>3, <4>4 DEF StoryFollows, Untold, Pending
            <4>5. CASE g # h
                BY <4>1, <4>2, <4>3, <4>5 DEF StoryFollows
            <4> QED BY <4>4, <4>5
        <3>2. ASSUME NEW g \in Host, Untold(g)'
              PROVE  Happened'[call'[g].turn] \cap {"final", "stale"} = {}
            <4>1. Happened[call[g].turn] \cap {"final", "stale"} = {}
                BY <3>1, <3>2 DEF SessionInvariant, StoriesSoFar
            <4> QED BY <1>2, <3>1, <3>2, <4>1
        <3> QED BY <3>2
    <2>4. stream'.active # 0 /\ turnOf'[stream'.active] # 0 =>
              Happened'[turnOf'[stream'.active]] \cap {"final", "stale"} = {}
        <3>1. SUFFICES ASSUME stream'.active # 0, turnOf'[stream'.active] # 0
                       PROVE  Happened'[turnOf'[stream'.active]] \cap {"final", "stale"} = {}
            OBVIOUS
        <3>2. /\ stream'.active = stream.active /\ turnOf' = turnOf
              /\ stream.active \in Stream
            BY <3>1, Before DEF StreamsStay, SessionInvariant
        <3>3. turnOf[stream.active] \in Turn
            BY <3>1, <3>2, ScriptAssumption
            DEF SessionInvariant, SessionTypes, TurnsAreOpened, Turn
        <3>4. Happened[turnOf[stream.active]] \cap {"final", "stale"} = {}
            BY <3>1, <3>2 DEF SessionInvariant, StoriesSoFar
        <3>5. turnOf[stream.active] = c => what \notin {"final", "stale"}
            BY <3>1, <3>2 DEF StoryFollows
        <3> QED BY <1>2, <3>2, <3>3, <3>4, <3>5
    <2> QED BY <2>1, <2>2, <2>3, <2>4, Zenon DEF StoriesSoFar
<1>9. ReleasedForAReason
    <2>1. SUFFICES ASSUME gate.current # 0, gate'.current # gate.current
                   PROVE  \/ \E why \in {"interrupted", "replaced", "closed"} :
                                 story'[gate.current] = Append(story[gate.current], why)
                          \/ \E g \in Host : OutcomeTold(g, gate.current) /\ call'[g] = NoCall
        BY Zenon DEF ReleasedForAReason
    <2>2. gate'.current = 0
        BY <2>1 DEF Effect
    <2>3. CASE c = gate.current /\ what \in {"interrupted", "closed"}
        BY <1>2, <2>1, <2>3
    <2>4. CASE call[h].turn = gate.current /\ Telling(call[h]) /\ rec = NoCall
        <3>1. OutcomeTold(h, gate.current)
            BY <2>1, <2>4, ToldByItsKind
        <3> QED BY <1>1, <2>4, <3>1
    <2> QED BY <2>1, <2>2, <2>3, <2>4 DEF StoryFollows
<1>11. StreamCallsHaveStreams'
    BY <1>1
    DEF SessionInvariant, StreamCallsHaveStreams, IsStreamTurn, Effect, CallFollows, StreamsStay
<1>12. OutcomesAreTold'
    <2>1. session'.audience # "live" => session'.closed
        BY DEF Effect
    <2>2. \A g \in Host : call'[g].op = "close" => session'.closed
        BY <1>1 DEF SessionInvariant, OutcomesAreTold, Effect, CallFollows
    <2>3. ASSUME NEW g \in Host, Telling(call'[g])
          PROVE  /\ call'[g].turn # 0
                 /\ session'.closed \/ Happened'[call'[g].turn] \cap Outcome # {}
        <3>1. /\ call'[g].turn \in Nat /\ gate'.started \in Nat
              /\ call'[g].turn <= gate'.started /\ gate'.started <= MaxTurns
            BY <1>3, <1>4 DEF SessionTypes, TurnsAreOpened, CallRecord
        <3>2. /\ call'[g].turn # 0
              /\ \/ session'.closed
                 \/ Happened[call'[g].turn] \cap Outcome # {}
                 \/ call'[g].turn = c /\ what \in Outcome
            BY <1>1, <2>3 DEF SessionInvariant, OutcomesAreTold, Effect, StoryFollows
        <3>3. call'[g].turn \in Turn
            BY <3>1, <3>2, ScriptAssumption DEF Turn
        <3> QED BY <1>2, <3>2, <3>3
    <2> QED BY <2>1, <2>2, <2>3 DEF OutcomesAreTold
<1> QED BY <1>2, <1>3, <1>4, <1>5, <1>6, <1>7, <1>8, <1>9, <1>10, <1>11, <1>12
        DEF SessionInvariant

-----------------------------------------------------------------------------
(* The invariant before a step of the session, and that of the runtime after   *)
(* it.                                                                       *)
Stepping == SessionInvariant /\ StreamInvariant' /\ CallsAreTyped'

Kept == SessionInvariant' /\ ReleasedForAReason

(* The records before a step.                                                 *)
LEMMA Records ==
    ASSUME SessionInvariant
    PROVE  /\ session \in SessionRecord
           /\ gate \in [current : Nat, started : Nat]
           /\ \A h \in Host : call[h] \in CallRecord /\ call[h].turn <= gate.started
           /\ gate.current = session.active /\ gate.current <= gate.started
           /\ session.stream <= gate.started /\ gate.started <= MaxTurns /\ MaxTurns \in Nat
           /\ \A c \in Nat : c # 0 /\ c <= gate.started => c \in Turn
           /\ NoCall \in CallRecord /\ NoCall.at = "idle" /\ NoCall.turn = 0
           /\ NoCall.op \notin Input \cup {"terminate", "end", "close"}
<1>1. /\ session \in SessionRecord
      /\ gate \in [current : Nat, started : Nat]
      /\ \A h \in Host : call[h] \in CallRecord
    BY DEF SessionInvariant, SessionTypes, CallRecord
<1>2. /\ \A h \in Host : call[h].turn <= gate.started
      /\ gate.current = session.active /\ gate.current <= gate.started
      /\ session.stream <= gate.started /\ gate.started <= MaxTurns /\ MaxTurns \in Nat
    BY ScriptAssumption DEF SessionInvariant, TurnsAreOpened
<1>3. \A c \in Nat : c # 0 /\ c <= gate.started => c \in Turn
    BY <1>1, <1>2 DEF Turn
<1>4. /\ NoCall \in CallRecord /\ NoCall.at = "idle" /\ NoCall.turn = 0
      /\ NoCall.op \notin Input \cup {"terminate", "end", "close"}
    BY DEF NoCall, CallRecord, Input
<1> QED BY <1>1, <1>2, <1>3, <1>4

(* What kind of turn a call has does not change while it goes on.              *)
LEMMA SameCall ==
    ASSUME SessionInvariant, NEW h \in Host, session'.closed = session.closed
    PROVE  /\ call[h].op = "close" => session'.closed
           /\ call[h].op \in {"terminate", "end"}
                 => call[h].turn # 0 /\ IsStreamTurn(call[h].turn)
           /\ session.audience # "live" => session.closed
BY DEF SessionInvariant, OutcomesAreTold, StreamCallsHaveStreams

(* The runtime's variables do not change.                                     *)
LEMMA StreamsUnchanged ==
    ASSUME UNCHANGED <<streamVars, turnOf>>
    PROVE  StreamsStay /\ sends' = sends
BY DEF streamVars, StreamsStay

(* A call moves on, and nothing is told.                                      *)
LEMMA MoveKeeps ==
    ASSUME Stepping, StreamsStay, NEW h \in Host, NEW rec,
           session' \in SessionRecord,
           session'.stream \in {0, session.stream},
           session'.closed = session.closed, session'.active = session.active,
           session'.audience # "live" => session.closed,
           call' = [call EXCEPT ![h] = rec], CallFollows(h, rec),
           rec = call[h] \/ ~Telling(rec),
           UNCHANGED <<gate, story, partials>>
    PROVE  Kept
<1>1. PartialsAreOfStreams'
    BY PartialsStay DEF Stepping, SessionInvariant
<1>2. Effect(h, rec, 0, "failed")
    BY Records DEF Stepping, Effect, Appends
<1>3. StoryFollows(h, rec, 0, "failed")
    <2>1. 0 <= gate.started /\ gate' = gate
        BY Records DEF Stepping
    <2>2. 0 \in {0} \cup Turn /\ "failed" \in Happening
        BY DEF Happening
    <2>3. ~(gate.current # 0 /\ gate'.current = 0)
        BY <2>1
    <2>4. Telling(rec) => /\ rec.turn # 0
                          /\ session'.closed \/ Happened[rec.turn] \cap Outcome # {}
        BY DEF Stepping, SessionInvariant, OutcomesAreTold
    <2> QED BY <2>1, <2>2, <2>3, <2>4, Zenon DEF StoryFollows
<1> QED BY <1>1, <1>2, <1>3, EffectKeeps DEF Stepping, Kept

(* Nothing of the session changes.                                            *)
LEMMA QuietKeeps ==
    ASSUME Stepping, StreamsStay, NEW h \in Host,
           UNCHANGED <<session, gate, call, story, partials>>,
           \A g \in Host \ {h} : sends'[g] = sends[g],
           sends[h].at # "idle" \/ sends' = sends \/ call[h] = NoCall
    PROVE  Kept
<1>1. call' = [call EXCEPT ![h] = call[h]]
    BY DEF Stepping, SessionInvariant, SessionTypes
<1>2. CallFollows(h, call[h])
    BY Records, SameCall
    DEF Stepping, SessionInvariant, CallFollows, OneCallAtATime, CallsHaveTheirTurn, Untold,
        Pending
<1> QED BY <1>1, <1>2, MoveKeeps, Records, SameCall DEF Stepping

(* A call that is made: the thread was free.                                  *)
LEMMA Calling ==
    ASSUME NEW h \in Host, NEW op, NextCall(h, op)
    PROVE  call[h] = NoCall /\ sends[h] = NoSend /\ sends[h].at = "idle"
BY DEF NextCall, NoSend

(* The streams after the runtime's own steps.                                 *)
LEMMA SendsStay ==
    ASSUME StreamInvariant, NEW h \in Host, UNCHANGED turnOf,
           \/ Sending(h) \/ PartialReturns(h) \/ SendReturns(h)
           \/ \E id, seq : SendAdmit(h, id, seq)
    PROVE  StreamsStay /\ \A g \in Host \ {h} : sends'[g] = sends[g]
<1>1. CASE SendCheck(h) \/ PartialCheck(h) \/ SendComplete(h) \/ PartialReturns(h)
           \/ SendReturns(h) \/ \E id, seq : SendAdmit(h, id, seq)
    BY <1>1 DEF SendCheck, PartialCheck, SendComplete, PartialReturns, SendReturns, SendAdmit,
                Advance, Verdict, StreamsStay, StreamInvariant, StreamTypes
<1>2. CASE ChunkReturns(h) \/ ChunkRaises(h)
    BY <1>2 DEF ChunkReturns, ChunkRaises, Over, Verdict, StreamsStay, StreamInvariant,
                StreamTypes
<1> QED BY <1>1, <1>2 DEF Sending

(* configure_audio_streaming, pause_audio_input, resume_audio_input and the     *)
(* steps of a send up to its return.                                         *)
LEMMA QuietActions ==
    ASSUME Stepping, NEW h \in Host,
           \/ ConfigureAudioStreaming(h) \/ ControlAudioInput(h)
           \/ SendAudioChunk(h) \/ SendProceeds(h)
    PROVE  Kept
<1>1. CASE ConfigureAudioStreaming(h) \/ ControlAudioInput(h)
    <2>1. StreamsStay /\ sends' = sends /\ UNCHANGED <<session, gate, call, story, partials>>
        BY <1>1 DEF ConfigureAudioStreaming, ControlAudioInput, StreamsStay, Stepping,
                    SessionInvariant, StreamInvariant, StreamTypes
    <2> QED BY <2>1, QuietKeeps
<1>2. CASE SendAudioChunk(h)
    <2>1. /\ call[h] = NoCall /\ UNCHANGED <<session, gate, call, story, partials, turnOf>>
          /\ SendAdmit(h, Args(h).id, Args(h).seq)
        BY <1>2, Calling DEF SendAudioChunk
    <2> QED BY <2>1, SendsStay, QuietKeeps DEF Stepping, SessionInvariant
<1>3. CASE SendProceeds(h)
    <2>1. /\ sends[h].at # "idle" /\ UNCHANGED <<session, gate, call, story, partials, turnOf>>
          /\ Sending(h)
        BY <1>3 DEF SendProceeds, sessionVars, Sending, SendCheck, PartialCheck, ChunkReturns,
                    ChunkRaises, SendComplete
    <2> QED BY <2>1, SendsStay, QuietKeeps DEF Stepping, SessionInvariant
<1> QED BY <1>1, <1>2, <1>3

(* listen_result, text_fallback_result and transcribe_audio_result up to their *)
(* outcome, and the ends of calls that told theirs.                          *)
LEMMA MoveActions ==
    ASSUME Stepping, NEW h \in Host,
           \/ StartInput(h) \/ InputSuperseded(h) \/ AfterListening(h)
           \/ AbortTold(h) \/ StaleTold(h) \/ CloseTold(h)
    PROVE  Kept
<1>1. CASE StartInput(h)
    <2>1. PICK op \in Input : /\ NextCall(h, op)
                              /\ call' = call \/ Enter(h, op, "open", 0)
        BY <1>1 DEF StartInput
    <2>2. /\ call[h] = NoCall /\ StreamsStay /\ sends' = sends /\ sends[h].at = "idle"
          /\ UNCHANGED <<session, gate, story, partials>>
        BY <1>1, <2>1, Calling, StreamsUnchanged DEF StartInput
    <2>3. CASE call' = call
        BY <2>2, <2>3, QuietKeeps
    <2>4. CASE Enter(h, op, "open", 0)
        <3> DEFINE rec == [op |-> op, at |-> "open", turn |-> 0]
        <3>1. /\ rec \in CallRecord /\ rec.op = op /\ rec.at = "open" /\ rec.turn = 0
              /\ call' = [call EXCEPT ![h] = rec] /\ ~Pending(rec) /\ ~Telling(rec)
            BY <2>1, <2>4 DEF Enter, CallRecord, Pending, Telling
        <3> HIDE DEF rec
        <3>2. CallFollows(h, rec)
            BY <2>1, <2>2, <3>1, Records
            DEF Stepping, SessionInvariant, OneCallAtATime, CallFollows, Input
        <3> QED BY <2>2, <3>1, <3>2, MoveKeeps, Records, SameCall DEF Stepping
    <2> QED BY <2>1, <2>3, <2>4
<1>2. CASE InputSuperseded(h) \/ AbortTold(h) \/ StaleTold(h) \/ CloseTold(h)
    <2>1. /\ call' = [call EXCEPT ![h] = NoCall] /\ StreamsStay /\ sends' = sends
          /\ UNCHANGED <<gate, story, partials>>
        BY <1>2, StreamsUnchanged DEF InputSuperseded, AbortTold, StaleTold, CloseTold, Return
    <2>2. /\ session' \in SessionRecord /\ session'.stream \in {0, session.stream}
          /\ session'.closed = session.closed /\ session'.active = session.active
          /\ session'.audience # "live" => session.closed
        <3>1. /\ session \in SessionRecord
              /\ session.audience # "live" => session.closed
              /\ call[h].op = "close" => session.closed
            BY Records DEF Stepping, SessionInvariant, OutcomesAreTold
        <3>2. CASE InputSuperseded(h)
            BY <3>1, <3>2 DEF InputSuperseded
        <3>3. CASE AbortTold(h)
            BY <3>1, <3>3 DEF AbortTold, SessionRecord
        <3>4. CASE StaleTold(h)
            BY <3>1, <3>4 DEF StaleTold, SessionRecord
        <3>5. CASE CloseTold(h)
            BY <3>1, <3>5 DEF CloseTold, SessionRecord
        <3> QED BY <1>2, <3>2, <3>3, <3>4, <3>5
    <2>3. ~(call[h].op \in Input /\ call[h].turn # 0 /\ call[h].turn = gate'.current)
        BY <1>2, <2>1, Records
        DEF Stepping, SessionInvariant, CallsHaveTheirTurn, InputSuperseded, AbortTold,
            StaleTold, CloseTold, IsCurrent, At, Input
    <2>4. CallFollows(h, NoCall)
        BY <2>1, <2>3, Records DEF Stepping, SessionInvariant, OneCallAtATime, CallFollows, Pending
    <2>5. ~Telling(NoCall)
        BY Records DEF Stepping, Telling
    <2> QED BY <2>1, <2>2, <2>4, <2>5, MoveKeeps
<1>3. CASE AfterListening(h)
    <2> DEFINE rec == [call[h] EXCEPT !.at = "provider"]
    <2>1. /\ StreamsStay /\ sends' = sends /\ Untold(h)
          /\ UNCHANGED <<session, gate, story, partials>>
          /\ call' = [call EXCEPT ![h] = rec]
        BY <1>3, StreamsUnchanged DEF AfterListening, At, Untold, Goto
    <2>2. /\ rec \in CallRecord /\ rec.op = call[h].op /\ rec.at = "provider"
          /\ rec.turn = call[h].turn /\ ~Telling(rec)
        BY Records DEF Stepping, CallRecord, Telling
    <2> HIDE DEF rec
    <2>3. CallFollows(h, rec)
        BY <2>1, <2>2, Records, SameCall
        DEF Stepping, SessionInvariant, OneCallAtATime, CallsHaveTheirTurn, CallFollows, Pending,
            Untold, NoCall
    <2> QED BY <2>1, <2>2, <2>3, MoveKeeps, Records, SameCall DEF Stepping
<1> QED BY <1>1, <1>2, <1>3

(* A call tells its outcome: what the adapter answered, or that it was late.   *)
LEMMA TellKeeps ==
    ASSUME Stepping, NEW h \in Host, Untold(h), UNCHANGED <<streamVars, turnOf>>,
           UNCHANGED <<session, gate, partials>>,
           NEW what \in {"final", "failed", "stale"}, NEW at \in {"told", "stale"},
           at = "told" <=> what # "stale",
           at = "stale" => gate.current # call[h].turn,
           what = "final" => gate.current = call[h].turn,
           what = "stale" => gate.current # call[h].turn,
           story' = Told(call[h].turn, what), Goto(h, at)
    PROVE  Kept
<1> DEFINE rec == [call[h] EXCEPT !.at = at]
           c == IF Heard(what) THEN call[h].turn ELSE 0
<1>1. /\ StreamsStay /\ sends' = sends /\ call' = [call EXCEPT ![h] = rec]
    BY StreamsUnchanged DEF Goto
<1>2. /\ rec \in CallRecord /\ rec.op = call[h].op /\ rec.at = at
      /\ rec.turn = call[h].turn /\ ~Pending(rec)
    BY Records DEF Stepping, CallRecord, Pending
<1>3. /\ call[h].op \in Input /\ call[h].turn \in Turn /\ call[h].turn <= gate.started
      /\ call[h].turn # 0
    BY Records DEF Stepping, SessionInvariant, CallsHaveTheirTurn, CallRecord
<1>4. c \in {0, call[h].turn} /\ Appends(c, what)
    BY <1>3 DEF Told, Appends
<1>5. \A g \in Host \ {h} : Untold(g) => call[g].turn # call[h].turn
    BY <1>3 DEF Stepping, SessionInvariant, CallsHaveTheirTurn, TurnsHaveOneCall
<1>6. stream'.active # 0 => turnOf[stream'.active] # call[h].turn
    BY <1>3, Before DEF Stepping, SessionInvariant, InputsHaveNoStream, streamVars
<1>7. Happened[call[h].turn] \cap {"final", "stale"} = {}
    BY DEF Stepping, SessionInvariant, StoriesSoFar
<1>8. gate.current = call[h].turn => Happened[call[h].turn] \subseteq {"failed", "final"}
    BY <1>3 DEF Stepping, SessionInvariant, StoriesSoFar
<1> HIDE DEF rec, c
<1>9. CallFollows(h, rec)
    BY <1>1, <1>2, <1>3, SameCall
    DEF Stepping, SessionInvariant, OneCallAtATime, CallFollows, NoCall, Untold
<1>10. Effect(h, rec, c, what)
    BY <1>1, <1>4, Records, SameCall DEF Stepping, Effect
<1>11. StoryFollows(h, rec, c, what)
    <2>1. c \in {0} \cup Turn /\ c <= gate.started /\ what \in Happening
        BY <1>3, <1>4, Records DEF Happening, Stepping
    <2>2. c # 0 => c = call[h].turn
        BY <1>4
    <2>3. what = "final" => Happened[call[h].turn] \subseteq {"failed"}
        BY <1>7, <1>8
    <2>4. gate' = gate
        OBVIOUS
    <2>5. at = "told" => what \in Outcome /\ (session.closed \/ c = call[h].turn)
        BY DEF c, Heard, Outcome, Stepping, SessionInvariant, OutcomesAreTold
    <2>6. Telling(rec) => /\ rec.turn # 0
                          /\ session'.closed \/ (rec.turn = c /\ what \in Outcome)
        BY <1>2, <1>3, <2>5 DEF Telling
    <2> QED BY <1>2, <1>5, <1>6, <1>7, <2>1, <2>2, <2>3, <2>4, <2>6 DEF StoryFollows
<1>12. PartialsAreOfStreams'
    BY <1>1, PartialsStay DEF Stepping, SessionInvariant
<1> QED BY <1>1, <1>9, <1>10, <1>11, <1>12, EffectKeeps DEF Stepping, Kept

(* The outcomes of the inputs.                                                *)
LEMMA OutcomeActions ==
    ASSUME Stepping, NEW h \in Host,
           AfterPreflight(h) \/ ProviderReturns(h) \/ TranscriptionCompleted(h)
    PROVE  Kept
<1>1. Untold(h) /\ UNCHANGED <<streamVars, turnOf>> /\ UNCHANGED <<session, gate, partials>>
    BY DEF AfterPreflight, ProviderReturns, TranscriptionCompleted, At, Untold
<1>2. ASSUME NEW what \in {"final", "failed"}, Deliver(h, what)
      PROVE  Kept
    <2>1. CASE gate.current = call[h].turn
        <3>1. story' = Told(call[h].turn, what) /\ Goto(h, "told")
            BY <1>2, <2>1 DEF Deliver
        <3> QED BY <1>1, <2>1, <3>1, TellKeeps
    <2>2. CASE gate.current # call[h].turn
        <3>1. story' = Told(call[h].turn, "stale") /\ Goto(h, "stale")
            BY <1>2, <2>2 DEF Deliver
        <3> QED BY <1>1, <2>2, <3>1, TellKeeps
    <2> QED BY <2>1, <2>2
<1>3. ASSUME story' = Told(call[h].turn, "failed"), Goto(h, "told")
      PROVE  Kept
    BY <1>1, <1>3, TellKeeps
<1>4. ASSUME NEW at \in {"listening", "completed"}, Goto(h, at), UNCHANGED story
      PROVE  Kept
    <2> DEFINE rec == [call[h] EXCEPT !.at = at]
    <2>1. StreamsStay /\ sends' = sends /\ call' = [call EXCEPT ![h] = rec]
        BY <1>1, <1>4, StreamsUnchanged DEF Goto
    <2>2. /\ rec \in CallRecord /\ rec.op = call[h].op /\ rec.at = at
          /\ rec.turn = call[h].turn /\ ~Telling(rec)
        BY Records DEF Stepping, CallRecord, Telling
    <2> HIDE DEF rec
    <2>3. CallFollows(h, rec)
        BY <1>1, <2>1, <2>2, Records, SameCall
        DEF Stepping, SessionInvariant, OneCallAtATime, CallsHaveTheirTurn, CallFollows, Pending,
            Untold, NoCall
    <2> QED BY <1>1, <1>4, <2>1, <2>2, <2>3, MoveKeeps, Records, SameCall DEF Stepping
<1> QED BY <1>2, <1>3, <1>4 DEF AfterPreflight, ProviderReturns, TranscriptionCompleted

(* The call that told its outcome ends its turn, if it is still current.       *)
LEMMA EndOfCall ==
    ASSUME Stepping, NEW h \in Host, InputTold(h) \/ StreamTold(h)
    PROVE  Kept
<1>1. /\ StreamsStay /\ sends' = sends /\ call' = [call EXCEPT ![h] = NoCall]
      /\ UNCHANGED <<story, partials>>
    BY StreamsUnchanged DEF InputTold, StreamTold, Return
<1>2. /\ session' \in SessionRecord /\ session'.stream \in {0, session.stream}
      /\ session'.closed = session.closed /\ session'.audience = session.audience
      /\ session'.active = IF IsCurrent(call[h].turn) THEN 0 ELSE session.active
      /\ gate' \in [current : Nat, started : Nat] /\ gate'.started = gate.started
      /\ gate'.current = IF IsCurrent(call[h].turn) THEN 0 ELSE gate.current
    <2>1. /\ session \in SessionRecord /\ gate \in [current : Nat, started : Nat]
        BY Records DEF Stepping
    <2>2. CASE InputTold(h)
        BY <2>1, <2>2 DEF InputTold, Finish, SessionRecord
    <2>3. CASE StreamTold(h)
        BY <2>1, <2>3 DEF StreamTold, SessionRecord
    <2> QED BY <2>2, <2>3
<1>3. IsCurrent(call[h].turn) <=> call[h].turn # 0 /\ call[h].turn = gate.current
    BY Records DEF Stepping, IsCurrent
<1>4. CallFollows(h, NoCall)
    BY <1>1, <1>2, <1>3, Records
    DEF Stepping, SessionInvariant, OneCallAtATime, CallFollows, Pending
<1>5. Effect(h, NoCall, 0, "failed")
    BY <1>1, <1>2, Records DEF Stepping, Effect, Appends, SessionInvariant, OutcomesAreTold
<1>6. StoryFollows(h, NoCall, 0, "failed")
    <2>1. 0 <= gate.started /\ 0 \in {0} \cup Turn /\ "failed" \in Happening
        BY Records DEF Stepping, Happening
    <2>2. gate.current # 0 /\ gate'.current = 0 => call[h].turn = gate.current
        BY <1>2, <1>3
    <2>3. Telling(call[h]) /\ ~Telling(NoCall)
        BY DEF InputTold, StreamTold, At, Telling, NoCall, Input
    <2> QED BY <2>1, <2>2, <2>3, Zenon DEF StoryFollows
<1>7. PartialsAreOfStreams'
    BY <1>1, PartialsStay DEF Stepping, SessionInvariant
<1> QED BY <1>1, <1>4, <1>5, <1>6, <1>7, EffectKeeps DEF Stepping, Kept

(* A turn is interrupted or closed by another call, which goes on with rec.    *)
LEMMA RetireKeeps ==
    ASSUME Stepping, StreamsStay, NEW h \in Host, call[h] = NoCall, sends[h].at = "idle",
           sends' = sends, UNCHANGED partials,
           session' \in SessionRecord, session'.stream \in {0, session.stream},
           session'.active = 0, session'.audience = session.audience,
           session.closed => session'.closed,
           NEW what \in {"interrupted", "closed"}, Retired(what),
           NEW rec \in CallRecord, call' = [call EXCEPT ![h] = rec],
           rec.turn <= gate.started, rec.op \notin Input, rec.at \in {"idle", "told"},
           rec.op \notin {"terminate", "end"}, rec.op = "close" => session'.closed
    PROVE  Kept
<1>1. /\ gate' \in [current : Nat, started : Nat] /\ gate'.started = gate.started
      /\ gate'.current = 0
    BY Records DEF Stepping, Retired
<1>2. Effect(h, rec, gate.current, what)
    BY <1>1 DEF Effect, Retired, Appends, Stepping, SessionInvariant, OutcomesAreTold
<1>3. CallFollows(h, rec)
    BY Records DEF Stepping, SessionInvariant, OneCallAtATime, CallFollows, Pending
<1>4. StoryFollows(h, rec, gate.current, what)
    <2>1. /\ gate.current \in {0} \cup Turn /\ gate.current <= gate.started
          /\ what \in Happening /\ what \notin {"final", "stale"}
        BY Records DEF Stepping, Happening
    <2>2. ~Telling(rec)
        BY DEF Telling
    <2> QED BY <1>1, <2>1, <2>2, Zenon DEF StoryFollows
<1>5. PartialsAreOfStreams'
    BY PartialsStay DEF Stepping, SessionInvariant
<1> QED BY <1>2, <1>3, <1>4, <1>5, EffectKeeps DEF Stepping, Kept

(* close.                                                                     *)
LEMMA CloseKeeps ==
    ASSUME Stepping, NEW h \in Host, Close(h)
    PROVE  Kept
<1>1. call[h] = NoCall /\ sends[h].at = "idle" /\ UNCHANGED <<sends, partials, turnOf>>
    BY Calling DEF Close
<1>2. StreamsStay
    <2>1. stream' \in {stream, StreamClosed(stream)}
        BY DEF Close
    <2>2. /\ StreamClosed(stream).active \in {0, stream.active}
          /\ StreamClosed(stream).begun = stream.begun /\ StreamClosed(stream).id = stream.id
        BY Before DEF Stepping, SessionInvariant, StreamInvariant, StreamTypes, StreamClosed,
                      Over
    <2> QED BY <1>1, <2>1, <2>2 DEF StreamsStay
<1>3. CASE UNCHANGED <<session, gate, story, call>>
    BY <1>1, <1>2, <1>3, QuietKeeps
<1>4. CASE /\ session' = [session EXCEPT !.closed = TRUE, !.active = 0, !.stream = 0,
                              !.result = IF session.stream = 0 THEN @ ELSE "closed"]
           /\ Retired("closed") /\ Enter(h, "close", "told", 0)
    <2> DEFINE rec == [op |-> "close", at |-> "told", turn |-> 0]
    <2>1. /\ rec \in CallRecord /\ rec.turn = 0 /\ rec.op \notin Input /\ rec.at = "told"
          /\ rec.op \notin {"terminate", "end"}
          /\ call' = [call EXCEPT ![h] = rec]
        BY <1>4 DEF CallRecord, Input, Enter
    <2> HIDE DEF rec
    <2>2. /\ session' \in SessionRecord /\ session'.stream = 0 /\ session'.active = 0
          /\ session'.audience = session.audience /\ session'.closed
        BY <1>4, Records DEF Stepping, SessionRecord
    <2>3. 0 <= gate.started
        BY Records DEF Stepping
    <2> QED BY <1>1, <1>2, <1>4, <2>1, <2>2, <2>3, RetireKeeps
<1> QED BY <1>3, <1>4 DEF Close

(* abort_audio_stream and abort_input.                                        *)
LEMMA AbortKeeps ==
    ASSUME Stepping, NEW h \in Host, AbortAudioStream(h) \/ AbortInput(h)
    PROVE  Kept
<1>1. call[h] = NoCall /\ sends[h].at = "idle" /\ UNCHANGED <<sends, partials, turnOf>>
    BY Calling DEF AbortAudioStream, AbortInput
<1>2. ASSUME NEW id, Aborting(h, id)
      PROVE  Kept
    <2>1. StreamsStay
        BY <1>1, <1>2 DEF Aborting, Over, StreamsStay, Stepping, SessionInvariant,
                          StreamInvariant, StreamTypes
    <2>2. CASE /\ Retired("interrupted") /\ Enter(h, "abort", "told", session.stream)
               /\ session' = [session EXCEPT !.active = 0, !.result = "interrupted"]
        <3> DEFINE rec == [op |-> "abort", at |-> "told", turn |-> session.stream]
        <3>1. /\ rec \in CallRecord /\ rec.turn = session.stream /\ rec.op \notin Input
              /\ rec.op \notin {"terminate", "end", "close"} /\ rec.at = "told" /\ call' = [call EXCEPT ![h] = rec]
            BY <2>2, Records DEF Stepping, SessionRecord, CallRecord, Input, Enter
        <3> HIDE DEF rec
        <3>2. /\ session' \in SessionRecord /\ session'.stream = session.stream
              /\ session'.active = 0 /\ session.stream <= gate.started
              /\ session'.audience = session.audience /\ session'.closed = session.closed
            BY <2>2, Records DEF Stepping, SessionRecord
        <3> QED BY <1>1, <2>1, <2>2, <3>1, <3>2, RetireKeeps
    <2>3. CASE session' = [session EXCEPT !.stream = 0] /\ UNCHANGED <<gate, story, call>>
        <3>1. /\ session' \in SessionRecord /\ session'.stream = 0
              /\ session'.closed = session.closed /\ session'.active = session.active
              /\ session'.audience = session.audience
            BY <2>3, Records DEF Stepping, SessionRecord
        <3>2. call' = [call EXCEPT ![h] = NoCall]
            BY <1>1, <2>3 DEF Stepping, SessionInvariant, SessionTypes
        <3>3. CallFollows(h, NoCall)
            BY <1>1, Records DEF Stepping, SessionInvariant, OneCallAtATime, CallFollows, Pending
        <3>4. (session'.audience # "live" => session.closed) /\ ~Telling(NoCall)
            BY <3>1 DEF Stepping, SessionInvariant, OutcomesAreTold, Telling, NoCall
        <3> QED BY <1>1, <2>1, <2>3, <3>1, <3>2, <3>3, <3>4, MoveKeeps
    <2>4. CASE UNCHANGED <<gate, session, story, call>>
        BY <1>1, <2>1, <2>4, QuietKeeps
    <2> QED BY <1>2, <2>2, <2>3, <2>4 DEF Aborting
<1>3. CASE /\ Retired("interrupted") /\ session' = [session EXCEPT !.active = 0]
           /\ UNCHANGED <<stream, call>>
    <2>1. /\ session' \in SessionRecord /\ session'.stream = session.stream
          /\ session'.active = 0 /\ StreamsStay
          /\ session'.audience = session.audience /\ session'.closed = session.closed
        BY <1>1, <1>3, Records DEF Stepping, SessionRecord, StreamsStay
    <2>2. call' = [call EXCEPT ![h] = NoCall]
        BY <1>1, <1>3 DEF Stepping, SessionInvariant, SessionTypes
    <2>3. 0 <= gate.started
        BY Records DEF Stepping
    <2>4. /\ NoCall.op \notin {"terminate", "end", "close"} /\ NoCall \in CallRecord
          /\ NoCall.turn = 0 /\ NoCall.at = "idle" /\ NoCall.op \notin Input
        BY Records DEF Stepping
    <2> QED BY <1>1, <1>3, <2>1, <2>2, <2>3, <2>4, RetireKeeps
<1>4. CASE UNCHANGED <<stream, gate, session, story, call>>
    BY <1>1, <1>4, QuietKeeps DEF StreamsStay
<1> QED BY <1>2, <1>3, <1>4 DEF AbortAudioStream, AbortInput

(* The stream of the current turn failed.                                     *)
LEMMA TerminateKeeps ==
    ASSUME Stepping, StreamsStay, NEW h \in Host, call[h] = NoCall,
           \A g \in Host \ {h} : sends'[g] = sends[g], sends'[h].at = "idle",
           IsCurrent(session.stream), Terminate(h, session.stream),
           UNCHANGED <<gate, partials>>
    PROVE  Kept
<1> DEFINE rec == [op |-> "terminate", at |-> "told", turn |-> session.stream]
           c == IF Heard("failed") THEN session.stream ELSE 0
<1>1. /\ session.stream # 0 /\ session.stream = gate.current /\ session.stream \in Turn
      /\ session.stream <= gate.started
    BY Records DEF Stepping, IsCurrent, SessionRecord
<1>2. /\ rec \in CallRecord /\ rec.turn = session.stream /\ rec.op \notin Input
      /\ rec.at = "told" /\ call' = [call EXCEPT ![h] = rec]
    BY Records DEF Stepping, SessionRecord, CallRecord, Input, Enter, Terminate
<1>3. /\ session' \in SessionRecord /\ session'.stream = session.stream
      /\ session'.active = session.active /\ session'.closed = session.closed
      /\ session'.audience = session.audience
    BY Records DEF Stepping, SessionRecord, Terminate
<1>4. c \in {0, session.stream} /\ Appends(c, "failed")
    BY <1>1 DEF Terminate, Told, Appends
<1>41. c = session.stream \/ session.closed
    BY DEF Heard, Stepping, SessionInvariant, OutcomesAreTold
<1>42. IsStreamTurn(session.stream) /\ rec.op # "close"
    BY <1>1 DEF Stepping, SessionInvariant, StreamCallsHaveStreams
<1> HIDE DEF rec, c
<1>5. CallFollows(h, rec)
    BY <1>1, <1>2, <1>42, Records
    DEF Stepping, SessionInvariant, OneCallAtATime, CallFollows, Pending, NoCall
<1>6. Effect(h, rec, c, "failed")
    BY <1>2, <1>3, <1>4, Records DEF Stepping, Effect, SessionInvariant, OutcomesAreTold
<1>7. StoryFollows(h, rec, c, "failed")
    <2>1. c \in {0} \cup Turn /\ c <= gate.started /\ "failed" \in Happening
        BY <1>1, <1>4, Records DEF Stepping, Happening
    <2>2. ~(gate.current # 0 /\ gate'.current = 0)
        OBVIOUS
    <2>3. /\ rec.turn # 0
          /\ session'.closed \/ (rec.turn = c /\ "failed" \in Outcome)
        BY <1>1, <1>2, <1>3, <1>41 DEF Outcome
    <2>4. ~Pending(rec)
        BY <1>2 DEF Pending
    <2> QED BY <2>1, <2>2, <2>3, <2>4, Zenon DEF StoryFollows
<1>8. PartialsAreOfStreams'
    BY PartialsStay DEF Stepping, SessionInvariant
<1> QED BY <1>5, <1>6, <1>7, <1>8, EffectKeeps DEF Stepping, Kept

(* The result of a send.                                                      *)
LEMMA SettlesKeeps ==
    ASSUME Stepping, NEW h \in Host, SendSettles(h)
    PROVE  Kept
<1>1. /\ SendReturns(h) /\ UNCHANGED <<gate, partials, turnOf>>
      /\ sends[h].at = "sent" /\ sends'[h].at = "idle"
    BY DEF SendSettles, SendReturns, NoSend, Stepping, SessionInvariant, StreamInvariant,
           StreamTypes
<1>2. StreamsStay /\ \A g \in Host \ {h} : sends'[g] = sends[g]
    BY <1>1, SendsStay DEF Stepping, SessionInvariant
<1>3. call[h] = NoCall
    BY <1>1 DEF Stepping, SessionInvariant, OneCallAtATime
<1>4. CASE IsCurrent(session.stream) /\ Terminate(h, session.stream)
    BY <1>1, <1>2, <1>3, <1>4, TerminateKeeps
<1>5. CASE UNCHANGED <<session, story, call>>
    BY <1>1, <1>2, <1>3, <1>5, QuietKeeps
<1> QED BY <1>4, <1>5 DEF SendSettles

(* A partial transcript.                                                      *)
LEMMA TranscriptKeeps ==
    ASSUME Stepping, NEW h \in Host, EmitPartial(h)
    PROVE  Kept
<1>1. /\ PartialReturns(h) /\ UNCHANGED <<session, gate, call, story, turnOf>>
      /\ sends[h].at = "partial"
    BY DEF EmitPartial, PartialReturns
<1>2. StreamsStay /\ \A g \in Host \ {h} : sends'[g] = sends[g]
    BY <1>1, SendsStay DEF Stepping, SessionInvariant
<1>3. CallFollows(h, call[h]) /\ call' = [call EXCEPT ![h] = call[h]]
    <2>1. call' = [call EXCEPT ![h] = call[h]]
        BY <1>1 DEF Stepping, SessionInvariant, SessionTypes
    <2>2. CallFollows(h, call[h])
        BY <1>1, <1>2, Records, SameCall
        DEF Stepping, SessionInvariant, CallFollows, OneCallAtATime, CallsHaveTheirTurn, Untold,
            Pending
    <2> QED BY <2>1, <2>2
<1>4. PartialsAreOfStreams'
    <2>1. CASE partials' = partials
        BY <1>2, <2>1, PartialsStay DEF Stepping, SessionInvariant
    <2>2. CASE /\ IsCurrent(session.stream)
               /\ stream.active # 0 /\ stream.id[stream.active] = sends[h].id
               /\ partials' = partials \cup {<<session.stream, sends[h].on>>}
        <3>1. /\ stream.active \in Stream /\ stream.active <= stream.begun
              /\ turnOf[stream.active] = session.stream
            BY <2>2 DEF Stepping, SessionInvariant, StreamInvariant, StreamTypes, StreamsBegun,
                        StreamsHaveTheirTurn, IsCurrent
        <3>2. /\ sends[h].on \in Stream /\ sends[h].on <= stream.begun
              /\ stream.id[sends[h].on] = sends[h].id
            BY <1>1, StreamAssumption
            DEF Stepping, SessionInvariant, StreamInvariant, StreamTypes, StreamsBegun, InAdapter,
                Stream
        <3>3. /\ turnOf' = turnOf /\ stream'.id = stream.id /\ stream'.begun = stream.begun
            BY <1>2 DEF StreamsStay
        <3>4. \A p \in partials : \E s, r \in Stream :
                  /\ p = <<turnOf[s], r>> /\ stream.id[s] = stream.id[r]
                  /\ s <= stream.begun /\ r <= stream.begun
            BY DEF Stepping, SessionInvariant, PartialsAreOfStreams
        <3>5. stream.id[stream.active] = stream.id[sends[h].on]
            BY <2>2, <3>2
        <3>6. <<session.stream, sends[h].on>> = <<turnOf[stream.active], sends[h].on>>
            BY <3>1
        <3>7. ASSUME NEW p \in partials'
              PROVE  \E s, r \in Stream :
                  /\ p = <<turnOf[s], r>> /\ stream.id[s] = stream.id[r]
                  /\ s <= stream.begun /\ r <= stream.begun
            <4>1. CASE p \in partials
                BY <3>4, <4>1, Zenon
            <4>2. CASE p = <<session.stream, sends[h].on>>
                BY <3>1, <3>2, <3>5, <3>6, <4>2, Zenon
            <4> QED BY <2>2, <3>7, <4>1, <4>2
        <3> QED BY <3>3, <3>7, Zenon DEF PartialsAreOfStreams
    <2> QED BY <2>1, <2>2 DEF EmitPartial
<1>5. Effect(h, call[h], 0, "failed")
    BY <1>1, <1>3, Records DEF Stepping, Effect, Appends, SessionInvariant, OutcomesAreTold
<1>6. StoryFollows(h, call[h], 0, "failed")
    <2>1. 0 <= gate.started /\ 0 \in {0} \cup Turn /\ "failed" \in Happening /\ gate' = gate
        BY <1>1, Records DEF Stepping, Happening
    <2>2. Telling(call[h]) => /\ call[h].turn # 0
                              /\ session'.closed \/ Happened[call[h].turn] \cap Outcome # {}
        BY <1>1 DEF Stepping, SessionInvariant, OutcomesAreTold
    <2> QED BY <2>1, <2>2, Zenon DEF StoryFollows
<1>7. SessionInvariant' /\ ReleasedForAReason
    BY <1>2, <1>3, <1>4, <1>5, <1>6, EffectKeeps DEF Stepping
<1> QED BY <1>7 DEF Kept

(* The active stream is over, and its end is told: its final transcript where *)
(* its turn is current, a stale diagnostic where it is not.                  *)
LEMMA EndTells ==
    ASSUME Stepping, StreamsStay, NEW h \in Host, call[h] = NoCall, sends[h].at = "idle",
           UNCHANGED <<sends, gate, partials>>,
           stream.active # 0, stream'.active = 0, session.stream # 0,
           session' \in SessionRecord, session'.stream = session.stream,
           session'.active = session.active, session'.closed = session.closed,
           session'.audience = session.audience,
           NEW what \in {"final", "stale"}, NEW at \in {"told", "stale"},
           what = "final" <=> gate.current = session.stream,
           at = "stale" <=> what = "stale",
           story' = Told(session.stream, what), Enter(h, "end", at, session.stream)
    PROVE  Kept
<1> DEFINE rec == [op |-> "end", at |-> at, turn |-> session.stream]
           c == IF Heard(what) THEN session.stream ELSE 0
<1>1. /\ session.stream \in Turn /\ session.stream <= gate.started
    BY Records DEF Stepping, SessionRecord
<1>2. /\ rec \in CallRecord /\ rec.turn = session.stream /\ rec.op \notin Input
      /\ rec.at = at /\ call' = [call EXCEPT ![h] = rec]
    BY Records DEF Stepping, SessionRecord, CallRecord, Input, Enter
<1>3. c \in {0, session.stream} /\ Appends(c, what)
    BY <1>1 DEF Told, Appends
<1>31. what = "final" => c = session.stream \/ session.closed
    BY DEF Heard, Stepping, SessionInvariant, OutcomesAreTold
<1>32. IsStreamTurn(session.stream) /\ rec.op # "close"
    BY <1>1 DEF Stepping, SessionInvariant, StreamCallsHaveStreams
<1> HIDE DEF rec, c
<1>4. CallFollows(h, rec)
    BY <1>1, <1>2, <1>32, Records
    DEF Stepping, SessionInvariant, OneCallAtATime, CallFollows, Pending, NoCall
<1>5. Effect(h, rec, c, what)
    BY <1>2, <1>3, Records DEF Stepping, Effect, SessionInvariant, OutcomesAreTold
<1>6. stream.active \in Stream /\ turnOf[stream.active] = session.stream
    BY Before DEF Stepping, SessionInvariant, StreamsHaveTheirTurn
<1>7. Happened[session.stream] \cap {"final", "stale"} = {}
    BY <1>6 DEF Stepping, SessionInvariant, StoriesSoFar
<1>8. what = "final" => Happened[session.stream] \subseteq {"failed"}
    BY <1>7 DEF Stepping, SessionInvariant, StoriesSoFar
<1>9. \A g \in Host : Untold(g) => call[g].turn # session.stream
    BY <1>6 DEF Stepping, SessionInvariant, CallsHaveTheirTurn, InputsHaveNoStream
<1>10. StoryFollows(h, rec, c, what)
    <2>1. c \in {0} \cup Turn /\ c <= gate.started /\ what \in Happening
        BY <1>1, <1>3, Records DEF Stepping, Happening
    <2>2. ~(gate.current # 0 /\ gate'.current = 0) /\ ~Pending(rec)
        BY <1>2 DEF Pending
    <2>3. c # 0 => c = session.stream
        BY <1>3
    <2>4. c # 0 /\ c = gate'.current => what \in {"failed", "final"}
        BY <2>3
    <2>5. c # 0 /\ what = "final" => Happened[c] \subseteq {"failed"}
        BY <1>8, <2>3
    <2>6. c # 0 /\ what = "stale" => Happened[c] \cap {"final", "stale"} = {}
        BY <1>7, <2>3
    <2>7. c # 0 => \A g \in Host \ {h} : Untold(g) => call[g].turn # c
        BY <1>9, <2>3
    <2>8. Telling(rec) => /\ rec.turn # 0
                          /\ session'.closed \/ (rec.turn = c /\ what \in Outcome)
        BY <1>2, <1>31 DEF Telling, Outcome
    <2> QED BY <2>1, <2>2, <2>4, <2>5, <2>6, <2>7, <2>8, Zenon DEF StoryFollows
<1>11. PartialsAreOfStreams'
    BY PartialsStay DEF Stepping, SessionInvariant
<1> QED BY <1>4, <1>5, <1>10, <1>11, EffectKeeps DEF Stepping, Kept

(* end_audio_input.                                                           *)
LEMMA EndKeeps ==
    ASSUME Stepping, NEW h \in Host, EndAudioInput(h)
    PROVE  Kept
<1>1. call[h] = NoCall /\ sends[h].at = "idle" /\ UNCHANGED <<sends, gate, partials, turnOf>>
    BY Calling DEF EndAudioInput
<1>2. StreamsStay
    BY <1>1 DEF EndAudioInput, EndAdmitted, Over, StreamsStay, Stepping, SessionInvariant,
                StreamInvariant, StreamTypes
<1>3. CASE IsCurrent(session.stream) /\ Terminate(h, session.stream)
    BY <1>1, <1>2, <1>3, TerminateKeeps
<1>4. CASE UNCHANGED <<session, story, call>>
    BY <1>1, <1>2, <1>4, QuietKeeps
<1>5. CASE /\ Refusal(stream, Args(h).id) = "none"
           /\ stream' = Over(stream, Args(h).id, "ended") /\ session.stream # 0
           /\ \/ /\ gate.current = session.stream
                 /\ session' = [session EXCEPT !.result = "completed"]
                 /\ story' = Told(session.stream, "final")
                 /\ Enter(h, "end", "told", session.stream)
              \/ /\ gate.current # session.stream
                 /\ story' = Told(session.stream, "stale")
                 /\ Enter(h, "end", "stale", session.stream)
                 /\ UNCHANGED session
    <2>1. stream.active # 0
        BY <1>5 DEF Refusal, IsActive
    <2>2. stream'.active = 0
        BY <1>5 DEF Over, Stepping, SessionInvariant, StreamInvariant, StreamTypes
    <2>3. /\ session' \in SessionRecord /\ session'.stream = session.stream
          /\ session'.active = session.active /\ session'.closed = session.closed
          /\ session'.audience = session.audience
        BY <1>5, Records DEF Stepping, SessionRecord
    <2>4. CASE /\ gate.current = session.stream
               /\ story' = Told(session.stream, "final")
               /\ Enter(h, "end", "told", session.stream)
        BY <1>1, <1>2, <1>5, <2>1, <2>2, <2>3, <2>4, EndTells
    <2>5. CASE /\ gate.current # session.stream
               /\ story' = Told(session.stream, "stale")
               /\ Enter(h, "end", "stale", session.stream)
        BY <1>1, <1>2, <1>5, <2>1, <2>2, <2>3, <2>5, EndTells
    <2> QED BY <1>5, <2>4, <2>5
<1> QED BY <1>3, <1>4, <1>5 DEF EndAudioInput, EndAdmitted

-----------------------------------------------------------------------------
(* A new turn has a fresh number and an empty story; the turn it replaces, if  *)
(* any, is told so.                                                          *)
LEMMA TurnOpens ==
    ASSUME SessionInvariant, NewTurn
    PROVE  /\ gate'.current \in Turn /\ gate' \in [current : Nat, started : Nat]
           /\ gate'.current = gate.started + 1 /\ gate'.started = gate.started + 1
           /\ gate'.started <= MaxTurns
           /\ story' \in [Turn -> Seq(Happening)] /\ NoLateTranscript'
           /\ \A d \in Turn : d > gate'.started => story'[d] = <<>>
           /\ Happened'[gate'.current] = {}
           /\ \A d \in Turn : Happened[d] \subseteq Happened'[d]
           /\ \A d \in Turn : Happened'[d] \cap {"final", "stale"}
                              = Happened[d] \cap {"final", "stale"}
           /\ ReleasedForAReason
<1>1. /\ gate'.current \in Turn /\ gate' \in [current : Nat, started : Nat]
      /\ gate'.current = gate.started + 1 /\ gate'.started = gate.started + 1
      /\ gate'.started <= MaxTurns
    BY Records DEF NewTurn, Turn
<1>2. gate.current \in {0} \cup Turn /\ "replaced" \in Happening
    BY Records DEF Happening
<1>3. Appends(gate.current, "replaced")
    BY DEF NewTurn, Appends
<1>4. /\ story' \in [Turn -> Seq(Happening)]
      /\ \A d \in Turn : Happened'[d] = IF d = gate.current THEN Happened[d] \cup {"replaced"}
                                        ELSE Happened[d]
      /\ \A d \in Turn : d # gate.current => story'[d] = story[d]
      /\ gate.current # 0 => story'[gate.current] = Append(story[gate.current], "replaced")
      /\ NoLateTranscript'
    <2>1. story \in [Turn -> Seq(Happening)] /\ NoLateTranscript
        BY DEF SessionInvariant, SessionTypes
    <2>2. "replaced" # "final" /\ "replaced" # "stale"
        OBVIOUS
    <2> QED BY <1>2, <1>3, <2>1, <2>2, StoryAfter, Zenon
<1>5. \A d \in Turn : d > gate.started => story[d] = <<>> /\ d # gate.current
    <2>1. /\ gate.current \in Nat /\ gate.started \in Nat
          /\ gate.current <= gate.started /\ MaxTurns \in Nat
        BY Records
    <2>2. \A d \in Turn : d > gate.started => d # gate.current
        BY <2>1 DEF Turn
    <2>3. \A d \in Turn : d > gate.started => story[d] = <<>>
        BY Zenon DEF SessionInvariant, StoriesSoFar
    <2> QED BY <2>2, <2>3
<1>6. \A d \in Turn : d > gate'.started => story'[d] = <<>>
    <2>1. gate.started \in Nat /\ MaxTurns \in Nat
        BY Records
    <2>2. \A d \in Turn : d > gate'.started => d > gate.started
        BY <1>1, <2>1 DEF Turn
    <2> QED BY <1>4, <1>5, <2>2, Zenon
<1>7. Happened'[gate'.current] = {}
    <2>1. gate'.current > gate.started
        BY <1>1, Records
    <2>2. story[gate'.current] = <<>> /\ gate'.current # gate.current
        BY <1>1, <1>5, <2>1
    <2>3. Happened[gate'.current] = {}
        BY <1>1, <2>2 DEF Happened
    <2> QED BY <1>1, <1>4, <2>2, <2>3
<1>8. \A d \in Turn : Happened'[d] \cap {"final", "stale"} = Happened[d] \cap {"final", "stale"}
    BY <1>4
<1>9. ReleasedForAReason
    BY <1>4 DEF ReleasedForAReason
<1>10. \A d \in Turn : Happened[d] \subseteq Happened'[d]
    BY <1>4
<1> QED BY <1>1, <1>4, <1>6, <1>7, <1>8, <1>9, <1>10

(* The new turn of an input.                                                  *)
LEMMA OpenKeeps ==
    ASSUME Stepping, NEW h \in Host, OpenTurn(h)
    PROVE  Kept
<1> DEFINE n == gate.started + 1
           rec == [op |-> call[h].op, at |-> "preflight", turn |-> n]
<1>1. /\ gate'.current \in Turn /\ gate' \in [current : Nat, started : Nat]
      /\ gate'.current = n /\ gate'.started = n /\ n <= MaxTurns
      /\ n \in Nat /\ n # 0 /\ n > gate.started /\ gate.started \in Nat
      /\ story' \in [Turn -> Seq(Happening)] /\ NoLateTranscript'
      /\ \A d \in Turn : d > gate'.started => story'[d] = <<>>
      /\ Happened'[n] = {}
      /\ \A d \in Turn : Happened[d] \subseteq Happened'[d]
      /\ \A d \in Turn : Happened'[d] \cap {"final", "stale"}
                         = Happened[d] \cap {"final", "stale"}
      /\ ReleasedForAReason
    BY TurnOpens, Records DEF Stepping, OpenTurn
<1>2. /\ call[h].op \in Input /\ rec \in CallRecord /\ rec.op = call[h].op
      /\ rec.turn = n /\ rec.at = "preflight" /\ call[h].at = "open"
    BY <1>1 DEF Stepping, SessionInvariant, CallsHaveTheirTurn, OpenTurn, At, CallRecord
<1>3. \A g \in Host : call'[g] = IF g = h THEN rec ELSE call[g]
    BY <1>1 DEF Stepping, SessionInvariant, SessionTypes, OpenTurn, Enter
<1>4. /\ session' \in SessionRecord /\ session'.active = n /\ session'.stream = session.stream
      /\ session'.closed = session.closed /\ session'.audience = session.audience
    BY <1>1, Records DEF Stepping, OpenTurn, SessionRecord
<1>5. StreamsStay /\ sends' = sends /\ turnOf' = turnOf /\ stream' = stream
      /\ partials' = partials
    BY StreamsUnchanged DEF OpenTurn, streamVars
<1>6. call' \in [Host -> CallRecord]
    BY <1>1, <1>2 DEF Stepping, SessionInvariant, SessionTypes, OpenTurn, Enter
<1> HIDE DEF n, rec
<1>7. SessionTypes'
    BY <1>1, <1>4, <1>5, <1>6 DEF Stepping, SessionInvariant, SessionTypes
<1>8. TurnsAreOpened'
    <2>1. /\ session.stream <= n /\ \A g \in Host : call[g].turn <= n
          /\ \A s \in Stream : turnOf[s] <= n
        BY <1>1, Records
        DEF Stepping, SessionInvariant, SessionTypes, TurnsAreOpened, SessionRecord, CallRecord
    <2> QED BY <1>1, <1>2, <1>3, <1>4, <1>5, <2>1 DEF TurnsAreOpened
<1>9. OneCallAtATime'
    <2>1. sends[h].at = "idle"
        BY <1>2 DEF Stepping, SessionInvariant, OneCallAtATime, NoCall
    <2> QED BY <1>3, <1>5, <2>1 DEF Stepping, SessionInvariant, OneCallAtATime
<1>10. \A g \in Host : call[g].turn # n /\ call[g].turn \in Nat
    BY <1>1, Records DEF Stepping, CallRecord
<1>11. CallsHaveTheirTurn'
    BY <1>1, <1>2, <1>3, <1>10
    DEF Stepping, SessionInvariant, CallsHaveTheirTurn, Untold, Input
<1>12. TurnsHaveOneCall'
    BY <1>2, <1>3, <1>10 DEF Stepping, SessionInvariant, TurnsHaveOneCall, Input
<1>13. InputsHaveNoStream'
    <2>1. \A s \in Stream : turnOf[s] # n
        BY <1>1 DEF Stepping, SessionInvariant, SessionTypes, TurnsAreOpened
    <2> QED BY <1>2, <1>3, <1>5, <2>1 DEF Stepping, SessionInvariant, InputsHaveNoStream, Input
<1>14. StreamsHaveTheirTurn' /\ PartialsAreOfStreams'
    <2>1. StreamsHaveTheirTurn'
        BY <1>4, <1>5 DEF Stepping, SessionInvariant, StreamsHaveTheirTurn
    <2>2. PartialsAreOfStreams'
        BY <1>5, PartialsStay DEF Stepping, SessionInvariant
    <2> QED BY <2>1, <2>2
<1>15. CurrentTurnsAreServed'
    BY <1>2, <1>3, <1>4 DEF CurrentTurnsAreServed
<1>16. StoriesSoFar'
    <2>1. \A g \in Host : Untold(g)' => Happened'[call'[g].turn] \cap {"final", "stale"} = {}
        <3>1. SUFFICES ASSUME NEW g \in Host, Untold(g)'
                       PROVE  Happened'[call'[g].turn] \cap {"final", "stale"} = {}
            OBVIOUS
        <3>2. CASE g = h
            BY <1>1, <1>2, <1>3, <3>2
        <3>3. CASE g # h
            <4>1. Untold(g) /\ call'[g] = call[g]
                BY <1>3, <3>1, <3>3 DEF Untold
            <4>2. call[g].turn \in Turn
                BY <4>1, Records DEF Stepping, SessionInvariant, CallsHaveTheirTurn, CallRecord
            <4> QED BY <1>1, <4>1, <4>2 DEF Stepping, SessionInvariant, StoriesSoFar
        <3> QED BY <3>2, <3>3
    <2>2. stream'.active # 0 /\ turnOf'[stream'.active] # 0 =>
              Happened'[turnOf'[stream'.active]] \cap {"final", "stale"} = {}
        <3>1. SUFFICES ASSUME stream.active # 0, turnOf[stream.active] # 0
                       PROVE  Happened'[turnOf[stream.active]] \cap {"final", "stale"} = {}
            BY <1>5
        <3>2. turnOf[stream.active] \in Turn
            BY <3>1, Before, Records
            DEF Stepping, SessionInvariant, SessionTypes, TurnsAreOpened
        <3> QED BY <1>1, <3>1, <3>2 DEF Stepping, SessionInvariant, StoriesSoFar
    <2> QED BY <1>1, <2>1, <2>2 DEF StoriesSoFar
<1>17. StreamCallsHaveStreams'
    BY <1>2, <1>3, <1>4, <1>5
    DEF Stepping, SessionInvariant, StreamCallsHaveStreams, IsStreamTurn, Input
<1>18. OutcomesAreTold'
    <2>1. ASSUME NEW g \in Host, Telling(call'[g])
          PROVE  /\ call'[g].turn # 0
                 /\ session'.closed \/ Happened'[call'[g].turn] \cap Outcome # {}
        <3>1. call'[g] = call[g]
            BY <1>2, <1>3, <2>1 DEF Telling
        <3>2. /\ call[g].turn # 0
              /\ session.closed \/ Happened[call[g].turn] \cap Outcome # {}
            BY <2>1, <3>1 DEF Stepping, SessionInvariant, OutcomesAreTold
        <3>3. call[g].turn \in Turn
            BY <3>2, Records DEF Stepping, CallRecord
        <3> QED BY <1>1, <1>4, <3>1, <3>2, <3>3
    <2>2. \A g \in Host : call'[g].op = "close" => session'.closed
        BY <1>2, <1>3, <1>4 DEF Stepping, SessionInvariant, OutcomesAreTold, Input
    <2>3. session'.audience # "live" => session'.closed
        BY <1>4 DEF Stepping, SessionInvariant, OutcomesAreTold
    <2> QED BY <2>1, <2>2, <2>3 DEF OutcomesAreTold
<1> QED BY <1>1, <1>7, <1>8, <1>9, <1>11, <1>12, <1>13, <1>14, <1>15, <1>16, <1>17, <1>18
        DEF Stepping, Kept, SessionInvariant

(* begin_audio_stream.                                                        *)
LEMMA BeginStreamKeeps ==
    ASSUME Stepping, NEW h \in Host, BeginAudioStream(h)
    PROVE  Kept
<1>1. /\ call[h] = NoCall /\ sends[h].at = "idle"
      /\ sends' = sends /\ call' = call /\ partials' = partials
    BY Calling DEF BeginAudioStream
<1>2. CASE UNCHANGED <<stream, session, gate, story, turnOf>>
    BY <1>1, <1>2, QuietKeeps DEF StreamsStay
<1>3. CASE /\ ~session.closed /\ session.active = 0 /\ CanBegin(stream)
           /\ stream.begun < MaxStreams
           /\ NewTurn
           /\ stream' = Begun(stream, Args(h).id)
           /\ session' = [session EXCEPT !.active = gate'.current,
                                         !.stream = gate'.current, !.result = "none"]
           /\ turnOf' = [turnOf EXCEPT ![stream'.active] = gate'.current]
    <2> DEFINE n == gate.started + 1
               new == stream.begun + 1
    <2>1. /\ gate'.current \in Turn /\ gate' \in [current : Nat, started : Nat]
          /\ gate'.current = n /\ gate'.started = n /\ n <= MaxTurns
          /\ n \in Nat /\ n # 0 /\ n > gate.started /\ gate.started \in Nat
          /\ story' \in [Turn -> Seq(Happening)] /\ NoLateTranscript'
          /\ \A d \in Turn : d > gate'.started => story'[d] = <<>>
          /\ Happened'[n] = {}
          /\ \A d \in Turn : Happened[d] \subseteq Happened'[d]
          /\ \A d \in Turn : Happened'[d] \cap {"final", "stale"}
                             = Happened[d] \cap {"final", "stale"}
          /\ ReleasedForAReason
        BY <1>3, TurnOpens, Records DEF Stepping
    <2>2. /\ session' \in SessionRecord /\ session'.active = n /\ session'.stream = n
          /\ ~session'.closed /\ session'.audience = session.audience /\ ~session.closed
        BY <1>3, <2>1, Records DEF Stepping, SessionRecord
    <2>3. /\ new \in Stream /\ new > stream.begun /\ stream'.active = new
          /\ stream'.begun = new /\ stream.begun \in Nat
          /\ \A s \in Stream : s # new => stream'.id[s] = stream.id[s]
        <3>1. /\ stream.begun \in 0 .. MaxStreams /\ MaxStreams \in Nat
              /\ StreamTypes
            BY Before DEF Stepping, SessionInvariant, StreamInvariant
        <3>2. new \in Stream /\ new > stream.begun /\ stream.begun \in Nat
            BY <1>3, <3>1 DEF Stream
        <3>3. stream' = Begun(stream, Args(h).id)
            BY <1>3
        <3> HIDE DEF new
        <3>4. stream' = [stream EXCEPT !.begun = new, !.active = new,
                                       !.id[new] = Args(h).id, !.expected = 0,
                                       !.terminal = NoTerminal]
            BY <3>1, <3>3 DEF Begun, StreamTypes, new
        <3> QED BY <3>1, <3>2, <3>4 DEF StreamTypes
    <2>4. /\ turnOf' \in [Stream -> Nat]
          /\ \A s \in Stream : turnOf'[s] = IF s = new THEN n ELSE turnOf[s]
        BY <1>3, <2>1, <2>3 DEF Stepping, SessionInvariant, SessionTypes
    <2> HIDE DEF n, new
    <2>5. SessionTypes'
        BY <1>1, <2>1, <2>2, <2>4 DEF Stepping, SessionInvariant, SessionTypes
    <2>6. TurnsAreOpened'
        <3>1. \A g \in Host : call[g].turn <= n
            <4>1. \A g \in Host : call[g].turn \in Nat /\ call[g].turn <= gate.started
                BY Records DEF Stepping, CallRecord
            <4> QED BY <2>1, <4>1
        <3>2. \A s \in Stream : turnOf'[s] <= n
            <4>1. \A s \in Stream : turnOf[s] \in Nat /\ turnOf[s] <= gate.started
                BY DEF Stepping, SessionInvariant, SessionTypes, TurnsAreOpened
            <4> QED BY <2>1, <2>4, <4>1
        <3> QED BY <1>1, <2>1, <2>2, <3>1, <3>2 DEF TurnsAreOpened
    <2>7. OneCallAtATime' /\ TurnsHaveOneCall'
        BY <1>1 DEF Stepping, SessionInvariant, OneCallAtATime, TurnsHaveOneCall
    <2>8. \A g \in Host : call[g].turn # n
        BY <2>1, Records DEF Stepping, CallRecord
    <2>9. CallsHaveTheirTurn'
        BY <1>1, <2>1, <2>8 DEF Stepping, SessionInvariant, CallsHaveTheirTurn, Untold
    <2>10. InputsHaveNoStream'
        BY <1>1, <2>4, <2>8 DEF Stepping, SessionInvariant, InputsHaveNoStream
    <2>11. StreamsHaveTheirTurn'
        BY <2>2, <2>3, <2>4 DEF StreamsHaveTheirTurn
    <2>12. PartialsAreOfStreams'
        <3>1. ASSUME NEW p \in partials
              PROVE  \E s, r \in Stream :
                         /\ p = <<turnOf'[s], r>> /\ stream'.id[s] = stream'.id[r]
                         /\ s <= stream'.begun /\ r <= stream'.begun
            <4>1. PICK s \in Stream, r \in Stream :
                      /\ p = <<turnOf[s], r>> /\ stream.id[s] = stream.id[r]
                      /\ s <= stream.begun /\ r <= stream.begun
                BY <3>1 DEF Stepping, SessionInvariant, PartialsAreOfStreams
            <4>2. s # new /\ r # new /\ s <= new /\ r <= new
                BY <2>3, <4>1, StreamAssumption DEF Stream
            <4>3. /\ p = <<turnOf'[s], r>> /\ stream'.id[s] = stream'.id[r]
                  /\ s <= stream'.begun /\ r <= stream'.begun
                BY <2>3, <2>4, <4>1, <4>2
            <4> QED BY <4>3, Zenon
        <3> QED BY <1>1, <3>1, Zenon DEF PartialsAreOfStreams
    <2>13. CurrentTurnsAreServed'
        BY <2>2, <2>3, <2>4 DEF CurrentTurnsAreServed
    <2>14. StoriesSoFar'
        <3>1. ASSUME NEW g \in Host, Untold(g)'
              PROVE  Happened'[call'[g].turn] \cap {"final", "stale"} = {}
            <4>1. Untold(g) /\ call'[g] = call[g]
                BY <1>1, <3>1 DEF Untold
            <4>2. call[g].turn \in Turn
                BY <4>1, Records DEF Stepping, SessionInvariant, CallsHaveTheirTurn, CallRecord
            <4> QED BY <2>1, <4>1, <4>2 DEF Stepping, SessionInvariant, StoriesSoFar
        <3>2. turnOf'[stream'.active] = n
            BY <2>3, <2>4
        <3> QED BY <2>1, <3>1, <3>2 DEF StoriesSoFar
    <2>15. StreamCallsHaveStreams'
        <3>1. \A s \in Stream : s > stream'.begun => turnOf'[s] = 0
            <4>1. \A s \in Stream : s > new => s > stream.begun /\ s # new
                BY <2>3 DEF Stream
            <4> QED BY <2>3, <2>4, <4>1 DEF Stepping, SessionInvariant, StreamCallsHaveStreams
        <3>2. \E s \in Stream : turnOf'[s] = n
            BY <2>3, <2>4
        <3>3. ASSUME NEW g \in Host, call[g].op \in {"terminate", "end"}
              PROVE  call'[g].turn # 0 /\ IsStreamTurn(call[g].turn)'
            <4>1. /\ call[g].turn # 0
                  /\ \E s \in Stream : turnOf[s] = call[g].turn
                BY <3>3 DEF Stepping, SessionInvariant, StreamCallsHaveStreams, IsStreamTurn
            <4>2. turnOf[new] = 0
                BY <2>3 DEF Stepping, SessionInvariant, StreamCallsHaveStreams
            <4> QED BY <1>1, <2>4, <4>1, <4>2 DEF IsStreamTurn
        <3> QED BY <1>1, <2>2, <3>1, <3>2, <3>3 DEF StreamCallsHaveStreams, IsStreamTurn
    <2>16. OutcomesAreTold'
        <3>1. ASSUME NEW g \in Host, Telling(call[g])
              PROVE  call[g].turn # 0 /\ Happened'[call[g].turn] \cap Outcome # {}
            <4>1. /\ call[g].turn # 0
                  /\ Happened[call[g].turn] \cap Outcome # {}
                BY <2>2, <3>1 DEF Stepping, SessionInvariant, OutcomesAreTold
            <4>2. call[g].turn \in Turn
                BY <4>1, Records DEF Stepping, CallRecord
            <4> QED BY <2>1, <4>1, <4>2
        <3>2. \A g \in Host : call[g].op # "close"
            BY <2>2 DEF Stepping, SessionInvariant, OutcomesAreTold
        <3>3. session'.audience = "live"
            BY <2>2 DEF Stepping, SessionInvariant, OutcomesAreTold
        <3> QED BY <1>1, <3>1, <3>2, <3>3 DEF OutcomesAreTold
    <2> QED BY <2>1, <2>5, <2>6, <2>7, <2>9, <2>10, <2>11, <2>12, <2>13, <2>14, <2>15, <2>16
            DEF Stepping, Kept, SessionInvariant
<1> QED BY <1>2, <1>3 DEF BeginAudioStream

-----------------------------------------------------------------------------
(* The session starts with no turn.                                           *)
LEMMA InitiallyNoTurn == Init => SessionInvariant
<1> SUFFICES ASSUME Init PROVE SessionInvariant
    OBVIOUS
<1>1. StreamInvariant /\ CallsAreTyped
    BY SessionInitially, Initially
<1>2. /\ \A h \in Host : call[h] = NoCall
      /\ \A s \in Stream : turnOf[s] = 0
      /\ \A c \in Turn : story[c] = <<>>
      /\ gate.current = 0 /\ gate.started = 0 /\ session.active = 0 /\ session.stream = 0
      /\ stream.active = 0 /\ partials = {}
    BY DEF Init, StreamInit
<1>3. SessionTypes
    <2>1. session \in SessionRecord /\ gate \in [current : Nat, started : Nat]
        BY DEF Init, SessionRecord
    <2>2. call \in [Host -> CallRecord] /\ turnOf \in [Stream -> Nat]
        BY DEF Init, CallRecord, NoCall
    <2>3. story \in [Turn -> Seq(Happening)]
        BY DEF Init
    <2> QED BY <2>1, <2>2, <2>3 DEF SessionTypes
<1>4. TurnsAreOpened
    BY <1>2, ScriptAssumption DEF TurnsAreOpened, NoCall
<1>5. /\ OneCallAtATime /\ CallsHaveTheirTurn /\ TurnsHaveOneCall /\ InputsHaveNoStream
      /\ StreamsHaveTheirTurn /\ PartialsAreOfStreams /\ CurrentTurnsAreServed
    BY <1>2
    DEF OneCallAtATime, CallsHaveTheirTurn, TurnsHaveOneCall, InputsHaveNoStream, NoCall, Untold,
        StreamsHaveTheirTurn, PartialsAreOfStreams, CurrentTurnsAreServed, Input
<1>6. NoLateTranscript /\ StoriesSoFar
    BY <1>2 DEF NoLateTranscript, StoriesSoFar, NoCall, Untold
<1>7. StreamCallsHaveStreams /\ OutcomesAreTold
    <2>1. session.audience = "live"
        BY DEF Init
    <2> QED BY <1>2, <2>1 DEF StreamCallsHaveStreams, OutcomesAreTold, NoCall, Telling, Input
<1> QED BY <1>1, <1>3, <1>4, <1>5, <1>6, <1>7 DEF SessionInvariant

(* Every step keeps the invariant and releases a turn for a reason only.       *)
LEMMA EveryStep ==
    ASSUME SessionInvariant, [Next]_vars
    PROVE  Kept
<1>1. Stepping
    BY SessionStep, InvariantKept DEF SessionInvariant, Stepping
<1>2. CASE UNCHANGED vars
    <2>1. ReleasedForAReason
        BY <1>2 DEF vars, sessionVars, ReleasedForAReason
    <2>2. SessionTypes' /\ TurnsAreOpened' /\ OneCallAtATime' /\ CallsHaveTheirTurn'
        BY <1>1, <1>2
        DEF Stepping, SessionInvariant, vars, streamVars, sessionVars, SessionTypes,
            TurnsAreOpened, OneCallAtATime, CallsHaveTheirTurn, Untold
    <2>3. TurnsHaveOneCall' /\ InputsHaveNoStream' /\ StreamsHaveTheirTurn'
        BY <1>1, <1>2
        DEF Stepping, SessionInvariant, vars, streamVars, sessionVars, TurnsHaveOneCall,
            InputsHaveNoStream, StreamsHaveTheirTurn
    <2>4. PartialsAreOfStreams' /\ CurrentTurnsAreServed' /\ NoLateTranscript'
        BY <1>1, <1>2
        DEF Stepping, SessionInvariant, vars, streamVars, sessionVars, PartialsAreOfStreams,
            CurrentTurnsAreServed, NoLateTranscript
    <2>5. StoriesSoFar'
        <3>1. Happened' = Happened
            BY <1>2 DEF vars, sessionVars, Happened
        <3>2. /\ gate' = gate /\ story' = story /\ call' = call /\ stream' = stream
              /\ turnOf' = turnOf
            BY <1>2 DEF vars, streamVars, sessionVars
        <3>3. StoriesSoFar
            BY DEF SessionInvariant
        <3> QED BY <3>1, <3>2, <3>3 DEF StoriesSoFar, Untold
    <2>6. StreamCallsHaveStreams' /\ OutcomesAreTold'
        <3>1. Happened' = Happened
            BY <1>2 DEF vars, sessionVars, Happened
        <3> QED BY <1>2, <3>1
            DEF SessionInvariant, vars, streamVars, sessionVars, StreamCallsHaveStreams,
                IsStreamTurn, OutcomesAreTold
    <2> QED BY <1>1, <2>1, <2>2, <2>3, <2>4, <2>5, <2>6 DEF Stepping, SessionInvariant, Kept
<1>3. ASSUME NEW h \in Host,
             \/ StreamCall(h)
             \/ SendProceeds(h) \/ EmitPartial(h) \/ SendSettles(h)
             \/ StreamTold(h) \/ AbortTold(h)
             \/ AbortInput(h)
             \/ StartInput(h) \/ OpenTurn(h) \/ InputSuperseded(h) \/ AfterPreflight(h)
             \/ AfterListening(h) \/ ProviderReturns(h) \/ TranscriptionCompleted(h)
             \/ InputTold(h) \/ StaleTold(h)
             \/ Close(h) \/ CloseTold(h)
      PROVE  Kept
    <2>1. CASE StreamCall(h)
        BY <1>1, <2>1, BeginStreamKeeps, EndKeeps, AbortKeeps, QuietActions DEF StreamCall
    <2>2. CASE SendProceeds(h) \/ EmitPartial(h) \/ SendSettles(h)
        BY <1>1, <2>2, QuietActions, TranscriptKeeps, SettlesKeeps
    <2>3. CASE StreamTold(h) \/ InputTold(h)
        BY <1>1, <2>3, EndOfCall
    <2>4. CASE AbortInput(h) \/ Close(h)
        BY <1>1, <2>4, AbortKeeps, CloseKeeps
    <2>5. CASE \/ StartInput(h) \/ InputSuperseded(h) \/ AfterListening(h)
               \/ AbortTold(h) \/ StaleTold(h) \/ CloseTold(h)
        BY <1>1, <2>5, MoveActions
    <2>6. CASE AfterPreflight(h) \/ ProviderReturns(h) \/ TranscriptionCompleted(h)
        BY <1>1, <2>6, OutcomeActions
    <2>7. CASE OpenTurn(h)
        BY <1>1, <2>7, OpenKeeps
    <2> QED BY <1>3, <2>1, <2>2, <2>3, <2>4, <2>5, <2>6, <2>7
<1> QED BY <1>2, <1>3 DEF Next

-----------------------------------------------------------------------------
(* The invariant holds in every reachable state, for any number of threads,   *)
(* turns and streams and any scripts.                                        *)
THEOREM SessionInvariantHolds == Spec => []SessionInvariant
<1>1. Init => SessionInvariant
    BY InitiallyNoTurn
<1>2. SessionInvariant /\ [Next]_vars => SessionInvariant'
    BY EveryStep DEF Kept
<1> QED BY <1>1, <1>2, PTL DEF Spec

(* The audio_input slot belongs to one send, also in the session.              *)
THEOREM SessionSlotHasOneOwner == Spec => []OneChunkAtATime
<1>1. SessionInvariant => OneChunkAtATime
    BY DEF SessionInvariant, StreamInvariant
<1> QED BY <1>1, SessionInvariantHolds, PTL

(* The adapter gets each stream's chunks in order, also in the session.        *)
THEOREM SessionChunksArriveInOrder == Spec => []ChunksInOrder
<1>1. SessionInvariant => ChunksInOrder
    BY DEF SessionInvariant, StreamInvariant
<1> QED BY <1>1, SessionInvariantHolds, PTL

(* No turn has a second final transcript, a transcript after it was            *)
(* interrupted, replaced or closed, or a stale diagnostic beside its          *)
(* transcript.                                                               *)
THEOREM TranscriptsAreNeverLate == Spec => []NoLateTranscript
<1>1. SessionInvariant => NoLateTranscript
    BY DEF SessionInvariant
<1> QED BY <1>1, SessionInvariantHolds, PTL

(* A partial is told under the turn of a stream with its stream's identity.    *)
THEOREM PartialsHaveTheirTurn == Spec => []PartialsOfTheirStream
<1>1. ASSUME SessionInvariant PROVE PartialsOfTheirStream
    <2>1. ASSUME NEW p \in partials
          PROVE  \E s \in Stream : turnOf[s] = p[1] /\ stream.id[s] = stream.id[p[2]]
        <3>0. PartialsAreOfStreams
            BY <1>1, Zenon DEF SessionInvariant
        <3>1. PICK s \in Stream, r \in Stream :
                  /\ p = <<turnOf[s], r>> /\ stream.id[s] = stream.id[r]
                  /\ s <= stream.begun /\ r <= stream.begun
            BY <2>1, <3>0, Zenon DEF PartialsAreOfStreams
        <3>2. p[1] = turnOf[s] /\ p[2] = r
            BY <3>1
        <3> QED BY <3>1, <3>2, Zenon
    <2> QED BY <2>1, Zenon DEF PartialsOfTheirStream
<1>2. SessionInvariant => PartialsOfTheirStream
    BY <1>1
<1> QED BY <1>2, SessionInvariantHolds, PTL

(* The session is never left busy with a turn nobody will end.                 *)
THEOREM CurrentTurnHasItsCall == Spec => []TurnsAreReleased
<1>1. ASSUME SessionInvariant PROVE TurnsAreReleased
    <2>1. ASSUME NEW c \in Turn, session.active = c
          PROVE  IF \E s \in Stream : turnOf[s] = c
                   THEN ~session.closed
                   ELSE \E h \in Host : call[h].turn = c
        <3>1. c # 0
            BY <2>1 DEF Turn
        <3>2. \/ \E h \in Host : call[h].op \in Input /\ call[h].turn = c
              \/ ~session.closed /\ \E s \in Stream : turnOf[s] = c
            BY <1>1, <2>1, <3>1 DEF SessionInvariant, CurrentTurnsAreServed
        <3>3. \A h \in Host, s \in Stream :
                  call[h].op \in Input /\ call[h].turn = c => turnOf[s] # c
            BY <1>1, <3>1 DEF SessionInvariant, InputsHaveNoStream
        <3> QED BY <3>2, <3>3, Zenon
    <2> QED BY <2>1, Zenon DEF TurnsAreReleased
<1>2. SessionInvariant => TurnsAreReleased
    BY <1>1
<1> QED BY <1>2, SessionInvariantHolds, PTL

(* The gate lets go of a turn only to interrupt, replace or close it, or with  *)
(* the return of a call that told the turn's outcome and is of its kind: an    *)
(* end or a failure of a stream for a stream's turn, the input's own call for *)
(* an input's.                                                               *)
THEOREM TurnsAreLetGoForAReason == Spec => TurnsEndForAReason
<1>1. SessionInvariant /\ [Next]_vars => [ReleasedForAReason]_vars
    BY EveryStep DEF Kept
<1>2. [ReleasedForAReason]_vars =>
      [LET c == gate.current
       IN  c # 0 /\ gate'.current # c =>
             \/ \E why \in {"interrupted", "replaced", "closed"} :
                    story'[c] = Append(story[c], why)
             \/ \E h \in Host : OutcomeTold(h, c) /\ call'[h] = NoCall]_vars
    BY DEF ReleasedForAReason
<1> QED BY <1>1, <1>2, SessionInvariantHolds, PTL DEF Spec, TurnsEndForAReason
====
