------------------------ MODULE RealtimeSessionProofs ------------------------
(***************************************************************************)
(* Proofs about the realtime session, for any number of host threads and   *)
(* turns and any calls the hosts and their callbacks make.                 *)
(***************************************************************************)
EXTENDS RealtimeSessionProperties, FiniteSetTheorems, SequenceTheorems, TLAPS

USE ThreadAssumption, TurnAssumption, BoundAssumption

-----------------------------------------------------------------------------
(* Program points.                                                          *)

OperationLabels ==
    {"run_step", "run_clear", "run_idle", "run_exit",
     "int_flush", "int_flush_done", "int_request", "int_outcome", "int_accepted",
     "int_commit", "int_clear", "int_idle", "int_resolve", "int_resolve_clear", "int_exit",
     "flush_request", "flush_done", "flush_exit"}
CloseLabels == {"close_read", "close_mark", "close_emit", "close_hub"}
RunnerLabels ==
    {"run_enter", "run_step", "run_clear", "run_idle", "run_exit", "run_finish", "run_park"}
StartLabels ==
    {"prepare", "start", "start_check", "start_phase", "start_emit", "start_return", "submit"}
OtherLabels ==
    {"claim", "claim_wait", "coordinate", "int_enter", "int_recover", "int_complete",
     "flush", "flush_wait", "flush_enter", "subscribe", "close", "close_wait", "close_lock",
     "close_final", "absent", "abandoned"}
Label ==
    OperationLabels \cup CloseLabels \cup RunnerLabels \cup StartLabels \cup OtherLabels
        \cup {"idle", "await_run", "deliver", "rejoin"}

(* The runtime thread's own frame runs turns and nothing else; only a close   *)
(* that was deferred to it takes it elsewhere.                               *)
RunnerProgram ==
    RunnerLabels \cup CloseLabels \cup {"close_final", "idle", "deliver", "rejoin"}
Belongs(f, label) == IF f = Runner THEN label \in RunnerProgram ELSE label \notin RunnerLabels

(* Where a frame may go on after a delivery, and after a deferred close.       *)
Resumption == Label \ {"deliver", "rejoin", "idle", "absent", "abandoned", "await_run",
                       "close_read", "close_mark", "close_emit"}
Continuation == {"idle", "absent", "int_recover", "int_complete", "run_park", "run_finish"}

TurnOrNone == Turn \cup {NoTurn}
Answers ==
    {"none", "accepted", "failed", "unsupported", "already_closed", "no_active_turn",
     "error", "reserved"}
Local ==
    [call : SessionCall \cup {NoCall}, turn : TurnOrNone, current : TurnOrNone,
     generation : 0 .. MaxGenerations, claimed : TurnOrNone, work : TurnOrNone,
     outcome : Answers, step : 0 .. 7, caller : Frame \cup {NoFrame}, closing : TurnOrNone,
     closes : BOOLEAN, after : Continuation \cup {"none"}, error : BOOLEAN]
Coroutine == [turn : Turn, caller : Frame, generation : 0 .. MaxGenerations]
Parked == [turn : Turn, caller : Frame]

-----------------------------------------------------------------------------
(* The invariant, part by part.                                             *)

FrameTypes ==
    /\ pc \in [Frame -> Label] /\ ret \in [Frame -> Label] /\ local \in [Frame -> Local]
    /\ calls \in [Host -> SUBSET SessionCall] /\ callbackCalls \in SUBSET SessionCall
    /\ runQueue \in Seq(Coroutine) /\ awaiting \in SUBSET Parked
    /\ dispatcher \in Frame \cup {NoFrame}

DataTypes ==
    /\ active \in Context /\ context \in Context
    /\ records \in Seq(Registry!Record)
    /\ phase \in Phase \cup {"none"}
    /\ closed \in BOOLEAN /\ closeRequested \in BOOLEAN /\ closeAdmission \in BOOLEAN
    /\ admission \in Frame \cup {NoFrame}
    /\ interrupts \in [Turn -> InterruptWork] /\ activeInterrupt \in TurnOrNone
    /\ normalReserved \in SUBSET Turn
    /\ lastEvent \in [Turn -> {"none", "started", "live", "ended"}]
    /\ announced \in SUBSET Turn

(* What frame f may carry to a program point: a frame runs its own program, on *)
(* a turn where it needs one, and knows where a close goes on.               *)
Suits(f, label, carried) ==
    /\ Belongs(f, label)
    /\ carried.after = "none" \/ Belongs(f, carried.after)
    /\ label \in CloseLabels \cup {"close", "close_wait", "close_lock", "close_final"}
         => carried.after # "none"
    /\ label \in StartLabels \cup {"await_run", "claim_wait", "flush_wait", "close_wait"}
         => carried.turn # NoTurn
    /\ f = Runner /\ label # "idle" => carried.turn # NoTurn
    /\ label \in {"int_flush", "int_flush_done", "int_complete", "int_recover",
                  "int_resolve_clear"}
         => carried.work # NoTurn
    /\ carried.after \in {"int_complete", "int_recover"} => carried.work # NoTurn
    /\ carried.closes => carried.closing # NoTurn

(* A delivering frame knows where it goes on.                                 *)
Own(f) ==
    /\ Belongs(f, pc[f]) /\ Belongs(f, ret[f])
    /\ Delivering(f) => ret[f] \in Resumption
    /\ Suits(f, Position(f), local[f])

(* A callback's frame exists only while its parent delivers, and who drains   *)
(* the hub delivers.                                                         *)
Fits(f) ==
    /\ Own(f)
    /\ ~IsCallback(f) /\ pc[ChildOf(f)] # "absent" => pc[f] = "deliver"
    /\ dispatcher = f => pc[f] = "deliver"

FramesFit == \A f \in Frame : Fits(f)

(* The operation lock.                                                       *)
Busy(f) == InOperation(f) \/ Closing(f)
Operations == {f \in Frame : InOperation(f)}

LockInvariant ==
    /\ operation \in Frame \cup {NoFrame} /\ windowed \in SUBSET Frame
    /\ \A f \in Frame : operation = f <=> Busy(f) /\ ~Delivering(f)
    /\ \A f \in Frame : f \in windowed <=> Busy(f) /\ Delivering(f)
    /\ \A f, g \in Frame : Busy(f) /\ Busy(g) => ThreadOf(f) = ThreadOf(g)
    /\ IsFiniteSet(Operations) /\ depth = Cardinality(Operations)
    /\ \A f \in Frame : Position(f) \in {"close_emit", "close_hub"} => closed

(* Every coroutine belongs to one caller, which waits for its answer.         *)
CallersOf(queue) == {queue[i].caller : i \in 1 .. Len(queue)}
Distinct(queue) == \A i, j \in 1 .. Len(queue) : queue[i].caller = queue[j].caller => i = j
Submitted == CallersOf(runQueue)
Awaited == {parked.caller : parked \in awaiting}
Executed == IF pc[Runner] = "idle" THEN {} ELSE {local[Runner].caller}
CallersWait ==
    /\ \A f \in Submitted \cup Awaited \cup Executed : f \in Frame /\ pc[f] = "await_run"
    /\ Distinct(runQueue)
    /\ \A a, b \in awaiting : a.caller = b.caller => a = b
    /\ Submitted \cap Awaited = {} /\ Executed \cap (Submitted \cup Awaited) = {}

SessionInvariant == FrameTypes /\ DataTypes /\ FramesFit /\ LockInvariant /\ CallersWait

-----------------------------------------------------------------------------
(* Frames.                                                                  *)

LEMMA FrameFacts ==
    /\ NoFrame \notin Frame /\ Runner \in Frame /\ ~IsCallback(Runner)
    /\ \A f \in Frame : /\ ChildOf(f) \in Frame /\ ThreadOf(f) \in Thread
                        /\ ~IsCallback(f) => ChildOf(f) # f /\ IsCallback(ChildOf(f))
                        /\ ThreadOf(ChildOf(f)) = ThreadOf(f)
                        /\ ThreadOf(f) # ThreadOf(NoFrame)
                        /\ f = Runner <=> ThreadOf(f) = Runtime /\ ~IsCallback(f)
    /\ \A f, g \in Frame : ThreadOf(f) = ThreadOf(g)
          => \/ f = g
             \/ ~IsCallback(f) /\ g = ChildOf(f)
             \/ ~IsCallback(g) /\ f = ChildOf(g)
BY DEF NoFrame, Frame, Thread, Runner, ChildOf, ThreadOf, IsCallback

(* Sections are told apart by their labels.                                   *)
LEMMA Sections ==
    \A f : /\ InOperation(f) <=> Position(f) \in OperationLabels
           /\ Closing(f) <=> Position(f) \in CloseLabels
BY DEF InOperation, Closing, OperationLabels, CloseLabels

(* A frame that is not delivering and finds the lock free for its thread finds *)
(* it free, or holds it itself.                                              *)
LEMMA LockIsOwn ==
    ASSUME FramesFit, LockInvariant, NEW f \in Frame, pc[f] \notin {"deliver", "absent"},
           FreeFor(operation, f)
    PROVE  operation \in {NoFrame, f}
<1> SUFFICES ASSUME operation # NoFrame
             PROVE  operation = f
    OBVIOUS
<1> DEFINE g == operation
<1>1. g \in Frame /\ ThreadOf(g) = ThreadOf(f)
    BY DEF FreeFor, LockInvariant
<1>2. Busy(g) /\ ~Delivering(g)
    BY <1>1 DEF LockInvariant
<1>3. pc[g] \notin {"deliver", "absent"}
    BY <1>2, Sections DEF Busy, Delivering, Position, OperationLabels, CloseLabels
<1>4. CASE ~IsCallback(f) /\ g = ChildOf(f)
    BY <1>3, <1>4 DEF FramesFit, Fits
<1>5. CASE ~IsCallback(g) /\ f = ChildOf(g)
    BY <1>1, <1>3, <1>5 DEF FramesFit, Fits
<1> QED BY <1>1, <1>4, <1>5, FrameFacts

-----------------------------------------------------------------------------
(* What a step may do to the lock.  OnlyMoves: no other frame moves.          *)

OnlyMoves(f) == \A g \in Frame \ {f} : pc'[g] = pc[g] /\ ret'[g] = ret[g]

LEMMA OthersStand ==
    ASSUME NEW f \in Frame, OnlyMoves(f), NEW g \in Frame, g # f
    PROVE  /\ Position(g)' = Position(g)
           /\ Delivering(g)' <=> Delivering(g)
           /\ InOperation(g)' <=> InOperation(g)
           /\ Closing(g)' <=> Closing(g)
           /\ Busy(g)' <=> Busy(g)
BY DEF OnlyMoves, Position, Delivering, InOperation, Closing, Busy

(* No frame enters or leaves a section.                                       *)
Stands(g) ==
    /\ InOperation(g)' <=> InOperation(g)
    /\ Closing(g)' <=> Closing(g)
    /\ Position(g)' \in {"close_emit", "close_hub"} => closed'

LEMMA OperationsStand ==
    ASSUME \A g \in Frame : InOperation(g)' <=> InOperation(g)
    PROVE  Operations' = Operations
BY DEF Operations

LEMMA StandingKeepsLock ==
    ASSUME LockInvariant, \A g \in Frame : Stands(g) /\ (Delivering(g)' <=> Delivering(g)),
           UNCHANGED <<operation, depth, windowed>>
    PROVE  LockInvariant'
<1>1. Operations' = Operations
    BY OperationsStand DEF Stands
<1>2. \A g \in Frame : Busy(g)' <=> Busy(g)
    BY DEF Busy, Stands
<1> QED BY <1>1, <1>2 DEF LockInvariant, Stands

(* An emitter gives the lock up ...                                           *)
LEMMA EmittingKeepsLock ==
    ASSUME LockInvariant, NEW f \in Frame, \A g \in Frame : Stands(g), ~Delivering(f),
           \A g \in Frame \ {f} : Delivering(g)' <=> Delivering(g), Delivering(f)',
           windowed' = IF operation = f THEN windowed \cup {f} ELSE windowed,
           operation' = Released(operation, f), depth' = depth
    PROVE  LockInvariant'
<1>1. Operations' = Operations
    BY OperationsStand DEF Stands
<1>2. \A g \in Frame : Busy(g)' <=> Busy(g)
    BY DEF Busy, Stands
<1>3. operation' \in Frame \cup {NoFrame} /\ windowed' \in SUBSET Frame
    BY DEF LockInvariant, Released
<1>4. ASSUME NEW g \in Frame
      PROVE  operation' = g <=> Busy(g)' /\ ~Delivering(g)'
    BY <1>2, FrameFacts DEF LockInvariant, Released
<1>5. ASSUME NEW g \in Frame
      PROVE  g \in windowed' <=> Busy(g)' /\ Delivering(g)'
    BY <1>2 DEF LockInvariant
<1> QED BY <1>1, <1>2, <1>3, <1>4, <1>5 DEF LockInvariant, Stands

(* ... and takes it again.                                                    *)
LEMMA RejoiningKeepsLock ==
    ASSUME LockInvariant, NEW f \in Frame, \A g \in Frame : Stands(g), Delivering(f),
           \A g \in Frame \ {f} : Delivering(g)' <=> Delivering(g), ~Delivering(f)',
           f \in windowed => operation = NoFrame,
           windowed' = windowed \ {f},
           operation' = IF f \in windowed THEN f ELSE operation, depth' = depth
    PROVE  LockInvariant'
<1>1. Operations' = Operations
    BY OperationsStand DEF Stands
<1>2. \A g \in Frame : Busy(g)' <=> Busy(g)
    BY DEF Busy, Stands
<1>3. operation' \in Frame \cup {NoFrame} /\ windowed' \in SUBSET Frame
    BY DEF LockInvariant
<1>4. ASSUME NEW g \in Frame
      PROVE  operation' = g <=> Busy(g)' /\ ~Delivering(g)'
    BY <1>2, FrameFacts DEF LockInvariant
<1>5. ASSUME NEW g \in Frame
      PROVE  g \in windowed' <=> Busy(g)' /\ Delivering(g)'
    BY <1>2 DEF LockInvariant
<1> QED BY <1>1, <1>2, <1>3, <1>4, <1>5 DEF LockInvariant, Stands

(* A frame enters an operation: nobody else is in one.                        *)
LEMMA EnteringKeepsLock ==
    ASSUME FramesFit, LockInvariant, NEW f \in Frame, OnlyMoves(f), EnterOperation(f),
           pc[f] \notin {"absent", "deliver", "rejoin"} \cup OperationLabels \cup CloseLabels,
           pc'[f] \in OperationLabels, closed' = closed
    PROVE  LockInvariant'
<1>1. /\ ~Busy(f) /\ ~InOperation(f) /\ ~Delivering(f)
      /\ InOperation(f)' /\ Busy(f)' /\ ~Delivering(f)'
      /\ Position(f)' \notin CloseLabels
    BY Sections DEF Busy, Delivering, Position, OperationLabels, CloseLabels, InOperation
<1>2. operation = NoFrame
    BY <1>1, LockIsOwn DEF EnterOperation, LockInvariant
<1>3. operation' = f /\ depth' = depth + 1 /\ windowed' = windowed
    BY <1>2 DEF EnterOperation, Taken
<1>4. \A g \in Frame : Busy(g) => ThreadOf(g) = ThreadOf(f)
    BY <1>2, FrameFacts DEF LockInvariant, EnterOperation, WindowClosedTo
<1>5. Operations' = Operations \cup {f} /\ f \notin Operations
    BY <1>1, OthersStand DEF Operations
<1>6. IsFiniteSet(Operations') /\ depth' = Cardinality(Operations')
    BY <1>3, <1>5, FS_AddElement DEF LockInvariant
<1>7. \A g \in Frame : Busy(g)' => ThreadOf(g) = ThreadOf(f)
    BY <1>4, OthersStand
<1>8. ASSUME NEW g \in Frame
      PROVE  operation' = g <=> Busy(g)' /\ ~Delivering(g)'
    BY <1>1, <1>2, <1>3, OthersStand, FrameFacts DEF LockInvariant
<1>9. ASSUME NEW g \in Frame
      PROVE  g \in windowed' <=> Busy(g)' /\ Delivering(g)'
    BY <1>1, <1>3, OthersStand DEF LockInvariant
<1>10. ASSUME NEW g \in Frame, Position(g)' \in {"close_emit", "close_hub"}
       PROVE  closed'
    BY <1>1, <1>10, OthersStand DEF LockInvariant, CloseLabels
<1> QED BY <1>3, <1>6, <1>7, <1>8, <1>9, <1>10 DEF LockInvariant

(* A frame leaves its operation, and may go on to close.                      *)
LEMMA LeavingKeepsLock ==
    ASSUME LockInvariant, NEW f \in Frame, NEW next, OnlyMoves(f), f \in DOMAIN pc,
           ExitOperation(f, next), pc[f] \in OperationLabels,
           next \notin {"deliver", "rejoin"} \cup OperationLabels \cup CloseLabels,
           closed' = closed
    PROVE  LockInvariant'
<1> DEFINE closeNow == depth = 1 /\ closeRequested /\ ~closed
<1>1. Busy(f) /\ InOperation(f) /\ ~Delivering(f) /\ operation = f
    BY Sections DEF Busy, Delivering, Position, OperationLabels, LockInvariant
<1>2. /\ pc'[f] = IF closeNow THEN "close_read" ELSE next
      /\ operation' = IF closeNow THEN operation ELSE NoFrame
      /\ depth' = depth - 1 /\ windowed' = windowed
    BY <1>1 DEF ExitOperation, Goto, Released
<1>3. /\ ~InOperation(f)' /\ ~Delivering(f)'
      /\ Busy(f)' <=> closeNow
      /\ Position(f)' \notin {"close_emit", "close_hub"}
    BY <1>2, Sections DEF Busy, Delivering, Position, OperationLabels, CloseLabels, InOperation,
            Closing
<1>4. Operations' = Operations \ {f} /\ f \in Operations
    BY <1>1, <1>3, OthersStand DEF Operations
<1>5. IsFiniteSet(Operations') /\ depth' = Cardinality(Operations')
    BY <1>2, <1>4, FS_RemoveElement DEF LockInvariant
<1>6. \A g \in Frame : Busy(g)' => Busy(g)
    BY <1>1, OthersStand
<1>7. operation' \in Frame \cup {NoFrame} /\ windowed' \in SUBSET Frame
    BY <1>2 DEF LockInvariant
<1>8. ASSUME NEW g \in Frame
      PROVE  operation' = g <=> Busy(g)' /\ ~Delivering(g)'
    BY <1>1, <1>2, <1>3, OthersStand, FrameFacts DEF LockInvariant
<1>9. ASSUME NEW g \in Frame
      PROVE  g \in windowed' <=> Busy(g)' /\ Delivering(g)'
    BY <1>1, <1>2, <1>3, OthersStand DEF LockInvariant
<1>10. ASSUME NEW g \in Frame, Position(g)' \in {"close_emit", "close_hub"}
       PROVE  closed'
    BY <1>3, <1>10, OthersStand DEF LockInvariant
<1> QED BY <1>5, <1>6, <1>7, <1>8, <1>9, <1>10 DEF LockInvariant

(* A close takes the lock when no operation is open ...                       *)
LEMMA TakingKeepsLock ==
    ASSUME FramesFit, LockInvariant, NEW f \in Frame, OnlyMoves(f), FreeFor(operation, f),
           pc[f] = "close_lock", pc'[f] = "close_read", ~closed, ~closed', depth = 0,
           operation' = Taken(operation, f), UNCHANGED <<depth, windowed>>
    PROVE  LockInvariant'
<1>1. Operations = {}
    BY FS_EmptySet DEF LockInvariant
<1>2. \A g \in Frame : ~InOperation(g)
    BY <1>1 DEF Operations
<1>3. /\ ~Busy(f) /\ ~Delivering(f)
      /\ ~InOperation(f)' /\ Busy(f)' /\ ~Delivering(f)'
      /\ Position(f)' \notin {"close_emit", "close_hub"}
    BY Sections DEF Busy, Delivering, Position, OperationLabels, CloseLabels, InOperation,
            Closing
<1>4. operation = NoFrame
    BY <1>3, LockIsOwn DEF LockInvariant
<1>5. \A g \in Frame : ~Busy(g)
  <2> SUFFICES ASSUME NEW g \in Frame, Closing(g)
               PROVE  FALSE
      BY <1>2 DEF Busy
  <2>1. Delivering(g)
      BY <1>4, FrameFacts DEF LockInvariant, Busy
  <2>2. ret[g] \in Resumption /\ Position(g) = ret[g]
      BY <2>1 DEF FramesFit, Fits, Own, Position
  <2>3. Position(g) = "close_hub"
      BY <2>2, Sections DEF Resumption, CloseLabels
  <2> QED BY <2>3 DEF LockInvariant
<1>6. operation' = f
    BY <1>4 DEF Taken
<1>7. Operations' = Operations
    BY <1>2, <1>3, OthersStand DEF Operations
<1>8. \A g \in Frame : Busy(g)' <=> g = f
    BY <1>3, <1>5, OthersStand
<1>9. windowed = {}
    BY <1>5 DEF LockInvariant
<1>10. ASSUME NEW g \in Frame, Position(g)' \in {"close_emit", "close_hub"}
       PROVE  closed'
    BY <1>3, <1>10, OthersStand DEF LockInvariant
<1> QED BY <1>3, <1>6, <1>7, <1>8, <1>9, <1>10 DEF LockInvariant

(* ... and gives it back.                                                     *)
LEMMA GivingBackKeepsLock ==
    ASSUME LockInvariant, NEW f \in Frame, OnlyMoves(f), pc[f] = "close_hub",
           pc'[f] = "close_final", closed' = closed,
           operation' = Released(operation, f), UNCHANGED <<depth, windowed>>
    PROVE  LockInvariant'
<1>1. Busy(f) /\ ~InOperation(f) /\ ~Delivering(f) /\ operation = f
    BY Sections DEF Busy, Delivering, Position, OperationLabels, CloseLabels, LockInvariant
<1>2. ~Busy(f)' /\ ~InOperation(f)' /\ ~Delivering(f)'
      /\ Position(f)' \notin {"close_emit", "close_hub"}
    BY Sections DEF Busy, Delivering, Position, OperationLabels, CloseLabels, InOperation,
            Closing
<1>3. operation' = NoFrame
    BY <1>1 DEF Released
<1>4. Operations' = Operations
    BY <1>1, <1>2, OthersStand DEF Operations
<1>5. \A g \in Frame : Busy(g)' => Busy(g)
    BY <1>1, OthersStand
<1>6. ASSUME NEW g \in Frame
      PROVE  operation' = g <=> Busy(g)' /\ ~Delivering(g)'
    BY <1>1, <1>2, <1>3, OthersStand, FrameFacts DEF LockInvariant
<1>7. ASSUME NEW g \in Frame
      PROVE  g \in windowed' <=> Busy(g)' /\ Delivering(g)'
    BY <1>1, <1>2, OthersStand DEF LockInvariant
<1>8. ASSUME NEW g \in Frame, Position(g)' \in {"close_emit", "close_hub"}
      PROVE  closed'
    BY <1>2, <1>8, OthersStand DEF LockInvariant
<1> QED BY <1>3, <1>4, <1>5, <1>6, <1>7, <1>8 DEF LockInvariant

-----------------------------------------------------------------------------
(* What a step does to the frames.                                          *)

Moves(f) ==
    /\ pc' \in [Frame -> Label] /\ ret' \in [Frame -> Label] /\ local' \in [Frame -> Local]
    /\ \A g \in Frame \ {f} : pc'[g] = pc[g] /\ ret'[g] = ret[g] /\ local'[g] = local[g]
    /\ Own(f)'

(* A frame goes on with its call, and may begin to deliver.                   *)
Goes(f) ==
    /\ Moves(f)
    /\ pc[f] \notin {"deliver", "rejoin", "absent", "await_run", "idle"}
    /\ pc'[f] \notin {"rejoin", "await_run"}
    /\ local'[f].caller = local[f].caller
    /\ dispatcher' = IF pc'[f] = "deliver" /\ dispatcher = NoFrame THEN f ELSE dispatcher
    /\ UNCHANGED <<runQueue, awaiting, calls, callbackCalls>>

LEMMA MovesMoves == \A f : Moves(f) => OnlyMoves(f)
BY DEF Moves, OnlyMoves

LEMMA OthersFit ==
    ASSUME FramesFit, NEW f \in Frame, Moves(f), pc[f] = "absent" => pc'[f] = "absent",
           dispatcher' \in {dispatcher, f, NoFrame}, NEW g \in Frame, g # f
    PROVE  Fits(g)'
<1>1. /\ Position(g)' = Position(g)
      /\ Delivering(g)' <=> Delivering(g)
      /\ pc'[g] = pc[g] /\ ret'[g] = ret[g] /\ local'[g] = local[g]
    BY OthersStand, MovesMoves DEF Moves
<1>2. Own(g)'
    BY <1>1 DEF FramesFit, Fits, Own
<1>3. dispatcher' = g => pc'[g] = "deliver"
    BY <1>1, FrameFacts DEF FramesFit, Fits
<1>4. pc'[ChildOf(g)] # "absent" => pc[ChildOf(g)] # "absent"
    BY FrameFacts DEF Moves
<1> QED BY <1>1, <1>2, <1>3, <1>4 DEF FramesFit, Fits

LEMMA GoingKeepsFrames ==
    ASSUME FrameTypes, FramesFit, CallersWait, NEW f \in Frame, Goes(f)
    PROVE  FrameTypes' /\ FramesFit' /\ CallersWait'
<1>1. FrameTypes'
    BY DEF Goes, Moves, FrameTypes
<1>2. FramesFit'
  <2>1. pc[ChildOf(f)] = "absent" \/ IsCallback(f)
      BY DEF FramesFit, Fits, Goes
  <2>2. dispatcher # f
      BY DEF FramesFit, Fits, Goes
  <2>3. Fits(f)'
      BY <2>1, <2>2, FrameFacts DEF Fits, Goes, Moves
  <2>4. \A g \in Frame \ {f} : Fits(g)'
      BY OthersFit DEF Goes
  <2> QED BY <2>3, <2>4 DEF FramesFit
<1>3. CallersWait'
  <2>1. Submitted' = Submitted /\ Awaited' = Awaited
      BY DEF Submitted, Awaited, Goes
  <2>2. Executed' \subseteq Executed
      BY FrameFacts DEF Executed, Goes, Moves
  <2>3. \A g \in Frame : pc[g] = "await_run" => pc'[g] = "await_run"
      BY DEF Goes, Moves
  <2> QED BY <2>1, <2>2, <2>3 DEF CallersWait, Goes
<1> QED BY <1>1, <1>2, <1>3

(* How a going frame leaves the lock: where it stays in its section ...       *)
SameSection(a, b) ==
    /\ a \in OperationLabels <=> b \in OperationLabels
    /\ a \in CloseLabels <=> b \in CloseLabels

LEMMA StaysInSection ==
    ASSUME LockInvariant, NEW f \in Frame, Goes(f), closed => closed',
           SameSection(pc[f], Position(f)'),
           Position(f)' \in {"close_emit", "close_hub"} => closed'
    PROVE  \A g \in Frame : Stands(g)
<1>1. Stands(f)
    BY Sections DEF Stands, SameSection, Goes, Position, Delivering, InOperation, Closing,
            OperationLabels, CloseLabels
<1>2. \A g \in Frame \ {f} : Stands(g)
    BY OthersStand, MovesMoves DEF Stands, Goes, LockInvariant
<1> QED BY <1>1, <1>2

LEMMA WalkingKeepsLock ==
    ASSUME LockInvariant, NEW f \in Frame, Goes(f), closed => closed', pc'[f] # "deliver",
           SameSection(pc[f], pc'[f]), pc'[f] \in {"close_emit", "close_hub"} => closed',
           UNCHANGED <<operation, depth, windowed>>
    PROVE  LockInvariant'
<1>1. Position(f)' = pc'[f] /\ ~Delivering(f) /\ ~Delivering(f)'
    BY DEF Goes, Position, Delivering
<1>2. \A g \in Frame : Stands(g)
    BY <1>1, StaysInSection
<1>3. \A g \in Frame : Delivering(g)' <=> Delivering(g)
    BY <1>1, OthersStand, MovesMoves DEF Goes
<1> QED BY <1>2, <1>3, StandingKeepsLock

(* ... or emits an event on the way.                                          *)
LEMMA EmissionKeepsLock ==
    ASSUME LockInvariant, NEW f \in Frame, Goes(f), NEW t, NEW kind, NEW next,
           Emit(f, t, kind, next), f \in DOMAIN ret, f \in DOMAIN pc,
           SameSection(pc[f], next), next = "close_hub" => closed, next # "close_emit",
           closed' = closed
    PROVE  LockInvariant'
<1>1. /\ Position(f)' = next /\ ~Delivering(f) /\ Delivering(f)'
    BY DEF Goes, Position, Delivering, Emit, Goto
<1>2. \A g \in Frame : Stands(g)
    BY <1>1, StaysInSection
<1>3. \A g \in Frame \ {f} : Delivering(g)' <=> Delivering(g)
    BY OthersStand, MovesMoves DEF Goes
<1> QED BY <1>1, <1>2, <1>3, EmittingKeepsLock DEF Emit

-----------------------------------------------------------------------------
(* Going from one label to another, with locals as before or replaced.        *)
Steady == <<runQueue, awaiting, calls, callbackCalls>>
Still == {"deliver", "rejoin", "absent", "await_run", "idle"}

LEMMA WalkGoes ==
    ASSUME SessionInvariant, NEW f \in Frame, NEW label \in Label, NEW carried \in Local,
           pc[f] \notin Still, label \notin {"deliver", "rejoin", "await_run"},
           Goto(f, label), SetLocal(f, carried), carried.caller = local[f].caller,
           Suits(f, label, carried), UNCHANGED <<ret, dispatcher, Steady>>
    PROVE  Goes(f)
<1> USE DEF SessionInvariant, FrameTypes
<1>1. pc' \in [Frame -> Label] /\ pc'[f] = label /\ \A g \in Frame \ {f} : pc'[g] = pc[g]
    BY DEF Goto
<1>2. /\ local' \in [Frame -> Local] /\ local'[f] = carried
      /\ \A g \in Frame \ {f} : local'[g] = local[g]
    BY DEF SetLocal
<1>3. Position(f)' = label /\ ~Delivering(f)'
    BY <1>1 DEF Position, Delivering
<1>4. Own(f)'
    BY <1>1, <1>2, <1>3 DEF Own, FramesFit, Fits, Suits
<1> QED BY <1>1, <1>2, <1>4 DEF Goes, Moves, Still, Steady

LEMMA LocalStays ==
    ASSUME FrameTypes, local' = local, NEW f \in Frame
    PROVE  SetLocal(f, local[f])
BY DEF FrameTypes, SetLocal

LEMMA EmitGoes ==
    ASSUME SessionInvariant, NEW f \in Frame, NEW next \in Resumption, NEW carried \in Local,
           NEW t, NEW kind, pc[f] \notin Still,
           Emit(f, t, kind, next), SetLocal(f, carried), carried.caller = local[f].caller,
           Suits(f, next, carried), UNCHANGED Steady
    PROVE  Goes(f)
<1> USE DEF SessionInvariant, FrameTypes
<1>1. pc' \in [Frame -> Label] /\ pc'[f] = "deliver" /\ \A g \in Frame \ {f} : pc'[g] = pc[g]
    BY DEF Goto, Emit, Label
<1>2. /\ local' \in [Frame -> Local] /\ local'[f] = carried
      /\ \A g \in Frame \ {f} : local'[g] = local[g]
    BY DEF SetLocal
<1>3. ret' \in [Frame -> Label] /\ ret'[f] = next /\ \A g \in Frame \ {f} : ret'[g] = ret[g]
    BY DEF Emit, Resumption
<1>4. Position(f)' = next /\ Delivering(f)'
    BY <1>1, <1>3 DEF Position, Delivering
<1>5. Own(f)'
    BY <1>1, <1>2, <1>3, <1>4 DEF Own, Suits, Belongs, RunnerProgram, RunnerLabels
<1> QED BY <1>1, <1>2, <1>3, <1>5 DEF Goes, Moves, Still, Steady, Emit

-----------------------------------------------------------------------------
USE DEF gateVars, turnVars, closeVars, lockVars, interruptVars, hubVars, runVars, frameVars,
        SessionInvariant

(* A frame that is not still can go on: what it carries suits where it is.     *)
LEMMA Here ==
    ASSUME SessionInvariant, NEW f \in Frame, pc[f] \notin Still
    PROVE  /\ Suits(f, pc[f], local[f]) /\ local[f] \in Local
           /\ local' = local => SetLocal(f, local[f])
BY LocalStays DEF FramesFit, Fits, Own, Position, Delivering, FrameTypes, Still

LEMMA SkipGoes ==
    ASSUME SessionInvariant, NEW f \in Frame, NEW next \in Resumption,
           NEW skip \in Resumption, NEW carried \in Local,
           NEW t, pc[f] \notin Still,
           EmitOrSkip(f, t, next, skip), SetLocal(f, carried), carried.caller = local[f].caller,
           Suits(f, next, carried), Suits(f, skip, carried), UNCHANGED Steady
    PROVE  Goes(f)
BY WalkGoes, EmitGoes DEF EmitOrSkip, Resumption, Still, Label

(* Two fields of a frame's locals at once.                                    *)
LEMMA LocalUpdates ==
    ASSUME NEW r \in Local
    PROVE  /\ [r EXCEPT !.error = TRUE, !.generation = 0] \in Local
           /\ \A x \in Answers, y \in BOOLEAN : [r EXCEPT !.outcome = x, !.error = y] \in Local
<1>1. ASSUME NEW x \in Answers, NEW y \in BOOLEAN
      PROVE  [r EXCEPT !.outcome = x, !.error = y] \in Local
    BY DEF Local
<1>2. \A y \in BOOLEAN, z \in 0 .. MaxGenerations :
         [r EXCEPT !.error = y, !.generation = z] \in Local
    BY DEF Local
<1>3. 0 \in 0 .. MaxGenerations
    OBVIOUS
<1> QED BY <1>1, <1>2, <1>3

USE DEF Suits, Belongs, RunnerProgram, Label, RunnerLabels, StartLabels, OtherLabels,
        CloseLabels, OperationLabels,
        Resumption, Rest, Finish, Still, Steady

-----------------------------------------------------------------------------
(* Every action of a call goes: it moves its own frame to a point of the same  *)
(* program, with locals that suit it, and leaves the coroutines alone.        *)

LEMMA PrepareGoes ==
    ASSUME SessionInvariant, NEW f \in Frame, Prepare(f)
    PROVE  Goes(f)
<1>1. pc[f] \notin Still
    BY DEF Prepare
<1> QED BY <1>1, Here, WalkGoes, EmitGoes DEF Prepare

LEMMA StartAdmissionGoes ==
    ASSUME SessionInvariant, NEW f \in Frame, StartAdmission(f)
    PROVE  Goes(f)
<1>1. pc[f] \notin Still
    BY DEF StartAdmission
<1> QED BY <1>1, Here, WalkGoes, EmitGoes DEF StartAdmission

LEMMA StartRejectGoes ==
    ASSUME SessionInvariant, NEW f \in Frame, StartReject(f)
    PROVE  Goes(f)
<1>1. pc[f] \notin Still
    BY DEF StartReject
<1> QED BY <1>1, Here, WalkGoes, EmitGoes DEF StartReject

LEMMA StartRepeatGoes ==
    ASSUME SessionInvariant, NEW f \in Frame, StartRepeat(f)
    PROVE  Goes(f)
<1>1. pc[f] = "start_check" /\ Suits(f, pc[f], local[f]) /\ local[f] \in Local
    BY Here DEF StartRepeat
<1>2. ASSUME NEW x \in BOOLEAN, NEW carried, carried = [local[f] EXCEPT !.error = x],
             Goto(f, "start_return"), SetLocal(f, carried),
             UNCHANGED <<ret, dispatcher, Steady>>
      PROVE  Goes(f)
  <2>1. carried \in Local /\ carried.caller = local[f].caller
      BY <1>1, <1>2 DEF Local, TurnOrNone, Continuation
  <2>2. Suits(f, "start_return", carried)
      BY <1>1, <1>2 DEF Local
  <2> QED BY <1>1, <1>2, <2>1, <2>2, WalkGoes
<1>3. ASSUME NEW g \in 0 .. MaxGenerations, NEW carried,
             carried = [local[f] EXCEPT !.generation = g], Goto(f, "start_return"),
             SetLocal(f, carried), UNCHANGED <<ret, dispatcher, Steady>>
      PROVE  Goes(f)
  <2>1. carried \in Local /\ carried.caller = local[f].caller
      BY <1>1, <1>3 DEF Local, TurnOrNone, Continuation
  <2>2. Suits(f, "start_return", carried)
      BY <1>1, <1>3 DEF Local
  <2> QED BY <1>1, <1>3, <2>1, <2>2, WalkGoes
<1> QED BY <1>1, <1>2, <1>3, Here DEF StartRepeat, DataTypes, Context

LEMMA StartAdmitGoes ==
    ASSUME SessionInvariant, NEW f \in Frame, StartAdmit(f)
    PROVE  Goes(f)
<1>1. pc[f] = "start_check" /\ Suits(f, pc[f], local[f]) /\ local[f] \in Local
    BY Here DEF StartAdmit
<1>2. ASSUME NEW g \in 0 .. MaxGenerations, NEW carried,
             carried = [local[f] EXCEPT !.generation = g], Goto(f, "start_phase"),
             SetLocal(f, carried), UNCHANGED <<ret, dispatcher, Steady>>
      PROVE  Goes(f)
  <2>1. carried \in Local /\ carried.caller = local[f].caller
      BY <1>1, <1>2 DEF Local, TurnOrNone, Continuation
  <2>2. Suits(f, "start_phase", carried)
      BY <1>1, <1>2 DEF Local
  <2> QED BY <1>1, <1>2, <2>1, <2>2, WalkGoes
<1> QED BY <1>1, <1>2, Here DEF StartAdmit, Gate!StartGeneration, Gate!Generation

LEMMA StartPhaseGoes ==
    ASSUME SessionInvariant, NEW f \in Frame, StartPhase(f)
    PROVE  Goes(f)
<1>1. pc[f] = "start_phase" /\ Suits(f, pc[f], local[f]) /\ local[f] \in Local
    BY Here DEF StartPhase
<1>2. ASSUME Goto(f, "start_emit"), SetLocal(f, local[f]),
             UNCHANGED <<ret, dispatcher, Steady>>
      PROVE  Goes(f)
  <2>1. Suits(f, "start_emit", local[f])
      BY <1>1, <1>2 DEF Local
  <2> QED BY <1>1, <1>2, <2>1, WalkGoes
<1>3. ASSUME NEW carried, carried = [local[f] EXCEPT !.error = TRUE, !.generation = 0],
             Goto(f, "start_return"), SetLocal(f, carried),
             UNCHANGED <<ret, dispatcher, Steady>>
      PROVE  Goes(f)
  <2>1. carried \in Local
      BY <1>1, <1>3, LocalUpdates DEF Answers
  <2>2. carried.caller = local[f].caller /\ Suits(f, "start_return", carried)
      BY <1>1, <1>3 DEF Local
  <2> QED BY <1>1, <1>3, <2>1, <2>2, WalkGoes
<1> QED BY <1>1, <1>2, <1>3, Here DEF StartPhase, UndoStart

LEMMA StartEmitGoes ==
    ASSUME SessionInvariant, NEW f \in Frame, StartEmit(f)
    PROVE  Goes(f)
<1>1. pc[f] = "start_emit" /\ Suits(f, pc[f], local[f]) /\ local[f] \in Local
    BY Here DEF StartEmit
<1>2. ASSUME NEW carried, carried = [local[f] EXCEPT !.error = TRUE, !.generation = 0],
             Goto(f, "start_return"), SetLocal(f, carried),
             UNCHANGED <<ret, dispatcher, Steady>>
      PROVE  Goes(f)
  <2>1. carried \in Local
      BY <1>1, <1>2, LocalUpdates DEF Answers
  <2>2. carried.caller = local[f].caller /\ Suits(f, "start_return", carried)
      BY <1>1, <1>2 DEF Local
  <2> QED BY <1>1, <1>2, <2>1, <2>2, WalkGoes
<1>3. ASSUME NEW t, NEW kind, Emit(f, t, kind, "start_return"), SetLocal(f, local[f]),
             UNCHANGED Steady
      PROVE  Goes(f)
  <2>1. Suits(f, "start_return", local[f])
      BY <1>1, <1>3 DEF Local
  <2> QED BY <1>1, <1>3, <2>1, EmitGoes
<1> QED BY <1>1, <1>2, <1>3, Here DEF StartEmit, UndoStart

LEMMA StartReturnGoes ==
    ASSUME SessionInvariant, NEW f \in Frame, StartReturn(f)
    PROVE  Goes(f)
<1>1. pc[f] \notin Still
    BY DEF StartReturn
<1> QED BY <1>1, Here, WalkGoes, EmitGoes DEF StartReturn

LEMMA ClaimGoes ==
    ASSUME SessionInvariant, NEW f \in Frame, Claim(f)
    PROVE  Goes(f)
<1>1. pc[f] = "claim" /\ Suits(f, pc[f], local[f]) /\ local[f] \in Local
    BY Here DEF Claim
<1>2. ASSUME Goto(f, Rest(f)), SetLocal(f, local[f]), UNCHANGED <<ret, dispatcher, Steady>>
      PROVE  Goes(f)
  <2>1. Suits(f, Rest(f), local[f])
      BY <1>1, <1>2 DEF Local
  <2> QED BY <1>1, <1>2, <2>1, WalkGoes
<1>3. ASSUME NEW label \in {Rest(f), "claim_wait"}, NEW t \in Turn, NEW carried,
             carried = [local[f] EXCEPT !.turn = t], Goto(f, label), SetLocal(f, carried),
             UNCHANGED <<ret, dispatcher, Steady>>
      PROVE  Goes(f)
  <2>1. carried \in Local /\ carried.caller = local[f].caller
      BY <1>1, <1>3 DEF Local, TurnOrNone, Continuation
  <2>2. Suits(f, label, carried)
      BY <1>1, <1>3 DEF Local
  <2>3. /\ label \in Label /\ label \notin {"deliver", "rejoin", "await_run"}
        /\ pc[f] \notin Still
      BY <1>1, <1>3
  <2> HIDE DEF Suits, Belongs, Label, Still
  <2> QED BY <1>3, <2>1, <2>2, <2>3, WalkGoes
<1>4. ASSUME NEW t \in TurnOrNone, NEW carried, carried = [local[f] EXCEPT !.claimed = t],
             Goto(f, "coordinate"), SetLocal(f, carried),
             UNCHANGED <<ret, dispatcher, Steady>>
      PROVE  Goes(f)
  <2>1. carried \in Local /\ carried.caller = local[f].caller
      BY <1>1, <1>4 DEF Local, TurnOrNone, Continuation
  <2>2. Suits(f, "coordinate", carried)
      BY <1>1, <1>4 DEF Local
  <2> QED BY <1>1, <1>4, <2>1, <2>2, WalkGoes
<1>5. ASSUME NEW t \in Turn, NEW carried,
             carried = [local[f] EXCEPT !.claimed = t, !.work = t], Goto(f, "coordinate"),
             SetLocal(f, carried), UNCHANGED <<ret, dispatcher, Steady>>
      PROVE  Goes(f)
  <2>1. carried \in Local /\ carried.caller = local[f].caller
      BY <1>1, <1>5 DEF Local, TurnOrNone, Continuation
  <2>2. Suits(f, "coordinate", carried)
      BY <1>1, <1>5 DEF Local
  <2> QED BY <1>1, <1>5, <2>1, <2>2, WalkGoes
<1> DEFINE target == IF RequestedTurn(f) # NoTurn THEN RequestedTurn(f) ELSE CurrentTurn
<1>6. target \in TurnOrNone /\ GateTurn \in TurnOrNone
    BY <1>1
       DEF CurrentTurn, RequestedTurn, DataTypes, Context, TurnOrNone, Local, SessionCall,
           NoCall, GateTurn
<1> QED BY <1>1, <1>2, <1>3, <1>4, <1>5, <1>6, Here DEF Claim, TurnOrNone

LEMMA ClaimWaitGoes ==
    ASSUME SessionInvariant, NEW f \in Frame, ClaimWait(f)
    PROVE  Goes(f)
<1>1. pc[f] \notin Still
    BY DEF ClaimWait
<1> QED BY <1>1, Here, WalkGoes, EmitGoes DEF ClaimWait

LEMMA CoordinateGoes ==
    ASSUME SessionInvariant, NEW f \in Frame, Coordinate(f)
    PROVE  Goes(f)
<1>1. pc[f] = "coordinate" /\ Suits(f, pc[f], local[f]) /\ local[f] \in Local
    BY Here DEF Coordinate
<1>2. ASSUME NEW x \in Answers, NEW carried, carried = [local[f] EXCEPT !.outcome = x],
             Goto(f, "int_enter"), SetLocal(f, carried),
             UNCHANGED <<ret, dispatcher, Steady>>
      PROVE  Goes(f)
  <2>1. carried \in Local /\ carried.caller = local[f].caller
      BY <1>1, <1>2 DEF Local, TurnOrNone, Continuation
  <2>2. Suits(f, "int_enter", carried)
      BY <1>1, <1>2 DEF Local
  <2> QED BY <1>1, <1>2, <2>1, <2>2, WalkGoes
<1> QED BY <1>1, <1>2, Here DEF Coordinate, Answers

LEMMA IntEnterGoes ==
    ASSUME SessionInvariant, NEW f \in Frame, IntEnter(f)
    PROVE  Goes(f)
<1>1. pc[f] = "int_enter" /\ Suits(f, pc[f], local[f]) /\ local[f] \in Local
    BY Here DEF IntEnter
<1>2. ASSUME NEW label \in {"int_flush", "int_request"}, NEW x \in Answers, NEW carried,
             carried = [local[f] EXCEPT !.outcome = x],
             label = "int_flush" => local[f].work # NoTurn, Goto(f, label),
             SetLocal(f, carried), UNCHANGED <<ret, dispatcher, Steady>>
      PROVE  Goes(f)
  <2>1. carried \in Local /\ carried.caller = local[f].caller
      BY <1>1, <1>2 DEF Local, TurnOrNone, Continuation
  <2>2. Suits(f, label, carried)
      BY <1>1, <1>2 DEF Local
  <2> QED BY <1>1, <1>2, <2>1, <2>2, WalkGoes
<1> QED BY <1>1, <1>2, Here DEF IntEnter, Answers, EnterOperation, Local

LEMMA IntFlushGoes ==
    ASSUME SessionInvariant, NEW f \in Frame, IntFlush(f)
    PROVE  Goes(f)
<1>1. pc[f] = "int_flush" /\ Suits(f, pc[f], local[f]) /\ local[f] \in Local
    BY Here DEF IntFlush
<1>2. ASSUME Goto(f, "int_request"), SetLocal(f, local[f]),
             UNCHANGED <<ret, dispatcher, Steady>>
      PROVE  Goes(f)
  <2>1. Suits(f, "int_request", local[f])
      BY <1>1, <1>2 DEF Local
  <2> QED BY <1>1, <1>2, <2>1, WalkGoes
<1>3. ASSUME NEW turn, EmitOrSkip(f, turn, "int_flush_done", "int_request"),
             SetLocal(f, local[f]), UNCHANGED Steady
      PROVE  Goes(f)
  <2>1. Suits(f, "int_flush_done", local[f]) /\ Suits(f, "int_request", local[f])
      BY <1>1, <1>3 DEF Local
  <2> QED BY <1>1, <1>3, <2>1, SkipGoes
<1> QED BY <1>1, <1>2, <1>3, Here DEF IntFlush

LEMMA IntFlushDoneGoes ==
    ASSUME SessionInvariant, NEW f \in Frame, IntFlushDone(f)
    PROVE  Goes(f)
<1>1. pc[f] = "int_flush_done" /\ Suits(f, pc[f], local[f]) /\ local[f] \in Local
    BY Here DEF IntFlushDone
<1>2. ASSUME NEW turn, EmitOrSkip(f, turn, "int_request", "int_request"),
             SetLocal(f, local[f]), UNCHANGED Steady
      PROVE  Goes(f)
  <2>1. Suits(f, "int_request", local[f])
      BY <1>1, <1>2 DEF Local
  <2> QED BY <1>1, <1>2, <2>1, SkipGoes
<1> QED BY <1>1, <1>2, Here DEF IntFlushDone

LEMMA IntRequestGoes ==
    ASSUME SessionInvariant, NEW f \in Frame, IntRequest(f)
    PROVE  Goes(f)
<1>1. pc[f] = "int_request" /\ Suits(f, pc[f], local[f]) /\ local[f] \in Local
    BY Here DEF IntRequest
<1>2. ASSUME Goto(f, "int_resolve"), SetLocal(f, local[f]),
             UNCHANGED <<ret, dispatcher, Steady>>
      PROVE  Goes(f)
  <2>1. Suits(f, "int_resolve", local[f])
      BY <1>1, <1>2 DEF Local
  <2> QED BY <1>1, <1>2, <2>1, WalkGoes
<1>3. ASSUME NEW t \in TurnOrNone, NEW u \in TurnOrNone, NEW carried,
             carried = [local[f] EXCEPT !.turn = t, !.current = u], NEW turn,
             EmitOrSkip(f, turn, "int_outcome", "int_resolve"), SetLocal(f, carried),
             UNCHANGED Steady
      PROVE  Goes(f)
  <2>1. carried \in Local /\ carried.caller = local[f].caller
      BY <1>1, <1>3 DEF Local, TurnOrNone, Continuation
  <2>2. Suits(f, "int_outcome", carried) /\ Suits(f, "int_resolve", carried)
      BY <1>1, <1>3 DEF Local
  <2>3. {"int_outcome", "int_resolve"} \subseteq Resumption /\ pc[f] \notin Still
      BY <1>1
  <2> HIDE DEF Suits, Belongs, Resumption, Still
  <2> QED BY <1>3, <2>1, <2>2, <2>3, SkipGoes
<1> DEFINE target == IF RequestedTurn(f) # NoTurn THEN RequestedTurn(f) ELSE GateTurn
<1>4. target \in TurnOrNone /\ GateTurn \in TurnOrNone
    BY <1>1
       DEF GateTurn, RequestedTurn, DataTypes, Context, TurnOrNone, Local, SessionCall,
           NoCall
<1> QED BY <1>1, <1>2, <1>3, <1>4, Here DEF IntRequest

LEMMA IntOutcomeGoes ==
    ASSUME SessionInvariant, NEW f \in Frame, IntOutcome(f)
    PROVE  Goes(f)
<1>1. pc[f] = "int_outcome" /\ Suits(f, pc[f], local[f]) /\ local[f] \in Local
    BY Here DEF IntOutcome
<1>2. ASSUME Goto(f, "int_resolve"), SetLocal(f, local[f]),
             UNCHANGED <<ret, dispatcher, Steady>>
      PROVE  Goes(f)
  <2>1. Suits(f, "int_resolve", local[f])
      BY <1>1, <1>2 DEF Local
  <2> QED BY <1>1, <1>2, <2>1, WalkGoes
<1>3. ASSUME NEW t, NEW kind, Emit(f, t, kind, "int_resolve"), SetLocal(f, local[f]),
             UNCHANGED Steady
      PROVE  Goes(f)
  <2>1. Suits(f, "int_resolve", local[f])
      BY <1>1, <1>3 DEF Local
  <2> QED BY <1>1, <1>3, <2>1, EmitGoes
<1>4. ASSUME NEW t, NEW kind, Emit(f, t, kind, "int_accepted"), SetLocal(f, local[f]),
             UNCHANGED Steady
      PROVE  Goes(f)
  <2>1. Suits(f, "int_accepted", local[f])
      BY <1>1, <1>4 DEF Local
  <2> QED BY <1>1, <1>4, <2>1, EmitGoes
<1>5. ASSUME NEW t, NEW kind, Emit(f, t, kind, "int_idle"), SetLocal(f, local[f]),
             UNCHANGED Steady
      PROVE  Goes(f)
  <2>1. Suits(f, "int_idle", local[f])
      BY <1>1, <1>5 DEF Local
  <2> QED BY <1>1, <1>5, <2>1, EmitGoes
<1>6. ASSUME NEW carried, carried = [local[f] EXCEPT !.outcome = "error", !.error = TRUE],
             Goto(f, "int_exit"), SetLocal(f, carried),
             UNCHANGED <<ret, dispatcher, Steady>>
      PROVE  Goes(f)
  <2>1. carried \in Local
      BY <1>1, <1>6, LocalUpdates DEF Answers
  <2>2. carried.caller = local[f].caller /\ Suits(f, "int_exit", carried)
      BY <1>1, <1>6 DEF Local
  <2> QED BY <1>1, <1>6, <2>1, <2>2, WalkGoes
<1> QED BY <1>1, <1>2, <1>3, <1>4, <1>5, <1>6, Here DEF IntOutcome, Transition, IntRaise

LEMMA IntAcceptedGoes ==
    ASSUME SessionInvariant, NEW f \in Frame, IntAccepted(f)
    PROVE  Goes(f)
<1>1. pc[f] \notin Still
    BY DEF IntAccepted
<1> QED BY <1>1, Here, WalkGoes, EmitGoes DEF IntAccepted, EmitOrSkip

LEMMA IntCommitGoes ==
    ASSUME SessionInvariant, NEW f \in Frame, IntCommit(f)
    PROVE  Goes(f)
<1>1. pc[f] = "int_commit" /\ Suits(f, pc[f], local[f]) /\ local[f] \in Local
    BY Here DEF IntCommit
<1>2. ASSUME Goto(f, "int_idle"), SetLocal(f, local[f]),
             UNCHANGED <<ret, dispatcher, Steady>>
      PROVE  Goes(f)
  <2>1. Suits(f, "int_idle", local[f])
      BY <1>1, <1>2 DEF Local
  <2> QED BY <1>1, <1>2, <2>1, WalkGoes
<1>3. ASSUME NEW t, NEW kind, Emit(f, t, kind, "int_clear"), SetLocal(f, local[f]),
             UNCHANGED Steady
      PROVE  Goes(f)
  <2>1. Suits(f, "int_clear", local[f])
      BY <1>1, <1>3 DEF Local
  <2> QED BY <1>1, <1>3, <2>1, EmitGoes
<1>4. ASSUME NEW carried, carried = [local[f] EXCEPT !.outcome = "error", !.error = TRUE],
             Goto(f, "int_exit"), SetLocal(f, carried),
             UNCHANGED <<ret, dispatcher, Steady>>
      PROVE  Goes(f)
  <2>1. carried \in Local
      BY <1>1, <1>4, LocalUpdates DEF Answers
  <2>2. carried.caller = local[f].caller /\ Suits(f, "int_exit", carried)
      BY <1>1, <1>4 DEF Local
  <2> QED BY <1>1, <1>4, <2>1, <2>2, WalkGoes
<1> QED BY <1>1, <1>2, <1>3, <1>4, Here DEF IntCommit, Transition, CommitTerminal, IntRaise

LEMMA IntClearGoes ==
    ASSUME SessionInvariant, NEW f \in Frame, IntClear(f)
    PROVE  Goes(f)
<1>1. pc[f] \notin Still
    BY DEF IntClear
<1> QED BY <1>1, Here, WalkGoes, EmitGoes DEF IntClear

LEMMA IntIdleGoes ==
    ASSUME SessionInvariant, NEW f \in Frame, IntIdle(f)
    PROVE  Goes(f)
<1>1. pc[f] \notin Still
    BY DEF IntIdle
<1> QED BY <1>1, Here, WalkGoes, EmitGoes DEF IntIdle

LEMMA IntResolveGoes ==
    ASSUME SessionInvariant, NEW f \in Frame, IntResolve(f)
    PROVE  Goes(f)
<1>1. pc[f] \notin Still
    BY DEF IntResolve
<1> QED BY <1>1, Here, WalkGoes, EmitGoes DEF IntResolve, CommitTerminal, Transition

LEMMA IntResolveClearGoes ==
    ASSUME SessionInvariant, NEW f \in Frame, IntResolveClear(f)
    PROVE  Goes(f)
<1>1. pc[f] = "int_resolve_clear" /\ Suits(f, pc[f], local[f]) /\ local[f] \in Local
    BY Here DEF IntResolveClear
<1>2. ASSUME Goto(f, "int_exit"), SetLocal(f, local[f]),
             UNCHANGED <<ret, dispatcher, Steady>>
      PROVE  Goes(f)
  <2>1. Suits(f, "int_exit", local[f])
      BY <1>1, <1>2 DEF Local
  <2> QED BY <1>1, <1>2, <2>1, WalkGoes
<1> QED BY <1>1, <1>2, Here DEF IntResolveClear

LEMMA IntExitGoes ==
    ASSUME SessionInvariant, NEW f \in Frame, IntExit(f)
    PROVE  Goes(f)
<1>1. pc[f] = "int_exit" /\ Suits(f, pc[f], local[f]) /\ local[f] \in Local
    BY Here DEF IntExit
<1>2. ASSUME NEW label \in {"close_read", "idle", "absent", "int_recover", "int_complete"},
             NEW l \in {Rest(f), "int_recover", "int_complete"}, NEW carried,
             carried = [local[f] EXCEPT !.after = l],
             label \in {"close_read", l}, l # Rest(f) => local[f].work # NoTurn,
             Goto(f, label), SetLocal(f, carried), UNCHANGED <<ret, dispatcher, Steady>>
      PROVE  Goes(f)
  <2>1. carried \in Local /\ carried.caller = local[f].caller
      BY <1>1, <1>2 DEF Local, TurnOrNone, Continuation
  <2>2. Suits(f, label, carried)
      BY <1>1, <1>2 DEF Local
  <2>3. /\ label \in Label /\ label \notin {"deliver", "rejoin", "await_run"}
        /\ pc[f] \notin Still
      BY <1>1, <1>2
  <2> HIDE DEF Suits, Belongs, Label, Still
  <2> QED BY <1>2, <2>1, <2>2, <2>3, WalkGoes
<1> QED BY <1>1, <1>2, Here DEF IntExit, ExitOperation

LEMMA IntRecoverGoes ==
    ASSUME SessionInvariant, NEW f \in Frame, IntRecover(f)
    PROVE  Goes(f)
<1>1. pc[f] = "int_recover" /\ Suits(f, pc[f], local[f]) /\ local[f] \in Local
    BY Here DEF IntRecover
<1>2. ASSUME NEW carried,
             carried = [local[f] EXCEPT !.outcome = "failed", !.error = FALSE],
             Goto(f, "int_resolve"), SetLocal(f, carried),
             UNCHANGED <<ret, dispatcher, Steady>>
      PROVE  Goes(f)
  <2>1. carried \in Local
      BY <1>1, <1>2, LocalUpdates DEF Answers
  <2>2. carried.caller = local[f].caller /\ Suits(f, "int_resolve", carried)
      BY <1>1, <1>2 DEF Local
  <2> QED BY <1>1, <1>2, <2>1, <2>2, WalkGoes
<1> QED BY <1>1, <1>2, Here DEF IntRecover, EnterOperation

LEMMA IntCompleteGoes ==
    ASSUME SessionInvariant, NEW f \in Frame, IntComplete(f)
    PROVE  Goes(f)
<1>1. pc[f] = "int_complete" /\ Suits(f, pc[f], local[f]) /\ local[f] \in Local
    BY Here DEF IntComplete
<1>2. ASSUME NEW label \in {"close", Rest(f)}, NEW carried,
             carried = [local[f] EXCEPT !.after = Rest(f)], Goto(f, label),
             SetLocal(f, carried), UNCHANGED <<ret, dispatcher, Steady>>
      PROVE  Goes(f)
  <2>1. carried \in Local /\ carried.caller = local[f].caller
      BY <1>1, <1>2 DEF Local, TurnOrNone, Continuation
  <2>2. Suits(f, label, carried)
      BY <1>1, <1>2 DEF Local
  <2>3. /\ label \in Label /\ label \notin {"deliver", "rejoin", "await_run"}
        /\ pc[f] \notin Still
      BY <1>1, <1>2
  <2> HIDE DEF Suits, Belongs, Label, Still
  <2> QED BY <1>2, <2>1, <2>2, <2>3, WalkGoes
<1> QED BY <1>1, <1>2, Here DEF IntComplete

LEMMA FlushAdmissionGoes ==
    ASSUME SessionInvariant, NEW f \in Frame, FlushAdmission(f)
    PROVE  Goes(f)
<1>1. pc[f] = "flush" /\ Suits(f, pc[f], local[f]) /\ local[f] \in Local
    BY Here DEF FlushAdmission
<1>2. ASSUME NEW label \in {Rest(f), "flush_wait", "flush_enter"},
             NEW t \in TurnOrNone, NEW u \in TurnOrNone, NEW carried,
             carried = [local[f] EXCEPT !.turn = t, !.claimed = u],
             label = "flush_wait" => t # NoTurn, Goto(f, label), SetLocal(f, carried),
             UNCHANGED <<ret, dispatcher, Steady>>
      PROVE  Goes(f)
  <2>1. carried \in Local /\ carried.caller = local[f].caller
      BY <1>1, <1>2 DEF Local, TurnOrNone, Continuation
  <2>2. Suits(f, label, carried)
      BY <1>1, <1>2 DEF Local
  <2>3. /\ label \in Label /\ label \notin {"deliver", "rejoin", "await_run"}
        /\ pc[f] \notin Still
      BY <1>1, <1>2
  <2> HIDE DEF Suits, Belongs, Label, Still
  <2> QED BY <1>2, <2>1, <2>2, <2>3, WalkGoes
<1> DEFINE target == activeInterrupt
<1>3. target \in TurnOrNone /\ GateTurn \in TurnOrNone
    BY <1>1 DEF DataTypes, GateTurn, DataTypes, Context, TurnOrNone
<1> QED BY <1>1, <1>2, <1>3, Here DEF FlushAdmission, Live, TurnOrNone

LEMMA FlushWaitGoes ==
    ASSUME SessionInvariant, NEW f \in Frame, FlushWait(f)
    PROVE  Goes(f)
<1>1. pc[f] \notin Still
    BY DEF FlushWait
<1> QED BY <1>1, Here, WalkGoes, EmitGoes DEF FlushWait

LEMMA FlushEnterGoes ==
    ASSUME SessionInvariant, NEW f \in Frame, FlushEnter(f)
    PROVE  Goes(f)
<1>1. pc[f] \notin Still
    BY DEF FlushEnter
<1> QED BY <1>1, Here, WalkGoes, EmitGoes DEF FlushEnter, EnterOperation

LEMMA FlushRequestGoes ==
    ASSUME SessionInvariant, NEW f \in Frame, FlushRequest(f)
    PROVE  Goes(f)
<1>1. pc[f] = "flush_request" /\ Suits(f, pc[f], local[f]) /\ local[f] \in Local
    BY Here DEF FlushRequest
<1>2. ASSUME Goto(f, "flush_exit"), SetLocal(f, local[f]),
             UNCHANGED <<ret, dispatcher, Steady>>
      PROVE  Goes(f)
  <2>1. Suits(f, "flush_exit", local[f])
      BY <1>1, <1>2 DEF Local
  <2> QED BY <1>1, <1>2, <2>1, WalkGoes
<1>3. ASSUME NEW t \in TurnOrNone, NEW carried, carried = [local[f] EXCEPT !.turn = t],
             NEW turn, EmitOrSkip(f, turn, "flush_done", "flush_exit"),
             SetLocal(f, carried), UNCHANGED Steady
      PROVE  Goes(f)
  <2>1. carried \in Local /\ carried.caller = local[f].caller
      BY <1>1, <1>3 DEF Local, TurnOrNone, Continuation
  <2>2. Suits(f, "flush_done", carried) /\ Suits(f, "flush_exit", carried)
      BY <1>1, <1>3 DEF Local
  <2>3. {"flush_done", "flush_exit"} \subseteq Resumption /\ pc[f] \notin Still
      BY <1>1
  <2> HIDE DEF Suits, Belongs, Resumption, Still
  <2> QED BY <1>3, <2>1, <2>2, <2>3, SkipGoes
<1>4. FlushTarget(f) \in TurnOrNone
    BY <1>1 DEF FlushTarget, RequestedTurn, SessionInvariant, DataTypes, Context, TurnOrNone,
                Local, SessionCall, NoCall
<1>5. CASE closed \/ closeRequested
    BY <1>1, <1>2, <1>5, Here DEF FlushRequest
<1>6. CASE ~(closed \/ closeRequested)
    <2>1. /\ SetLocal(f, [local[f] EXCEPT !.turn = FlushTarget(f)])
          /\ EmitOrSkip(f, FlushTarget(f), "flush_done", "flush_exit")
          /\ UNCHANGED Steady
        BY <1>6 DEF FlushRequest
    <2> QED BY <1>3, <1>4, <2>1
<1> QED BY <1>5, <1>6

LEMMA FlushDoneGoes ==
    ASSUME SessionInvariant, NEW f \in Frame, FlushDone(f)
    PROVE  Goes(f)
<1>1. pc[f] \notin Still
    BY DEF FlushDone
<1> QED BY <1>1, Here, WalkGoes, EmitGoes DEF FlushDone, EmitOrSkip

LEMMA FlushExitGoes ==
    ASSUME SessionInvariant, NEW f \in Frame, FlushExit(f)
    PROVE  Goes(f)
<1>1. pc[f] = "flush_exit" /\ Suits(f, pc[f], local[f]) /\ local[f] \in Local
    BY Here DEF FlushExit
<1>2. ASSUME NEW label \in {"close_read", Rest(f)}, NEW carried,
             carried = [local[f] EXCEPT !.after = Rest(f)], Goto(f, label),
             SetLocal(f, carried), UNCHANGED <<ret, dispatcher, Steady>>
      PROVE  Goes(f)
  <2>1. carried \in Local /\ carried.caller = local[f].caller
      BY <1>1, <1>2 DEF Local, TurnOrNone, Continuation
  <2>2. Suits(f, label, carried)
      BY <1>1, <1>2 DEF Local
  <2> QED BY <1>1, <1>2, <2>1, <2>2, WalkGoes
<1> QED BY <1>1, <1>2, Here DEF FlushExit, ExitOperation

LEMMA SubscribeGoes ==
    ASSUME SessionInvariant, NEW f \in Frame, Subscribe(f)
    PROVE  Goes(f)
<1>1. pc[f] \notin Still
    BY DEF Subscribe
<1> QED BY <1>1, Here, WalkGoes, EmitGoes DEF Subscribe

LEMMA CloseAdmissionGoes ==
    ASSUME SessionInvariant, NEW f \in Frame, CloseAdmission(f)
    PROVE  Goes(f)
<1>1. pc[f] = "close" /\ Suits(f, pc[f], local[f]) /\ local[f] \in Local
    BY Here DEF CloseAdmission
<1>2. ASSUME NEW label \in {Rest(f), "close_lock"}, Goto(f, label), SetLocal(f, local[f]),
             UNCHANGED <<ret, dispatcher, Steady>>
      PROVE  Goes(f)
  <2>1. Suits(f, label, local[f])
      BY <1>1, <1>2 DEF Local
  <2> QED BY <1>1, <1>2, <2>1, WalkGoes
<1>3. ASSUME NEW t \in Turn, NEW carried, carried = [local[f] EXCEPT !.turn = t],
             Goto(f, "close_wait"), SetLocal(f, carried),
             UNCHANGED <<ret, dispatcher, Steady>>
      PROVE  Goes(f)
  <2>1. carried \in Local /\ carried.caller = local[f].caller
      BY <1>1, <1>3 DEF Local, TurnOrNone, Continuation
  <2>2. Suits(f, "close_wait", carried)
      BY <1>1, <1>3 DEF Local
  <2> QED BY <1>1, <1>3, <2>1, <2>2, WalkGoes
<1> QED BY <1>1, <1>2, <1>3, Here DEF CloseAdmission, Live, DataTypes, TurnOrNone

LEMMA CloseWaitGoes ==
    ASSUME SessionInvariant, NEW f \in Frame, CloseWait(f)
    PROVE  Goes(f)
<1>1. pc[f] \notin Still
    BY DEF CloseWait
<1> QED BY <1>1, Here, WalkGoes, EmitGoes DEF CloseWait

LEMMA CloseLockGoes ==
    ASSUME SessionInvariant, NEW f \in Frame, CloseLock(f)
    PROVE  Goes(f)
<1>1. pc[f] \notin Still
    BY DEF CloseLock
<1> QED BY <1>1, Here, WalkGoes, EmitGoes DEF CloseLock

LEMMA CloseReadGoes ==
    ASSUME SessionInvariant, NEW f \in Frame, CloseRead(f)
    PROVE  Goes(f)
<1>1. pc[f] = "close_read" /\ Suits(f, pc[f], local[f]) /\ local[f] \in Local
    BY Here DEF CloseRead
<1>2. ASSUME NEW t \in TurnOrNone, NEW x \in BOOLEAN, NEW carried,
             carried = [local[f] EXCEPT !.closing = t, !.closes = x], x => t # NoTurn,
             Goto(f, "close_mark"), SetLocal(f, carried),
             UNCHANGED <<ret, dispatcher, Steady>>
      PROVE  Goes(f)
  <2>1. carried \in Local /\ carried.caller = local[f].caller
      BY <1>1, <1>2 DEF Local, TurnOrNone, Continuation
  <2>2. Suits(f, "close_mark", carried)
      BY <1>1, <1>2 DEF Local
  <2> QED BY <1>1, <1>2, <2>1, <2>2, WalkGoes
<1> QED BY <1>1, <1>2, Here DEF CloseRead, DataTypes, Context, TurnOrNone

LEMMA CloseMarkGoes ==
    ASSUME SessionInvariant, NEW f \in Frame, CloseMark(f)
    PROVE  Goes(f)
<1>1. pc[f] \notin Still
    BY DEF CloseMark
<1> QED BY <1>1, Here, WalkGoes, EmitGoes DEF CloseMark

LEMMA CloseEmitGoes ==
    ASSUME SessionInvariant, NEW f \in Frame, CloseEmit(f)
    PROVE  Goes(f)
<1>1. pc[f] \notin Still
    BY DEF CloseEmit
<1> QED BY <1>1, Here, WalkGoes, EmitGoes DEF CloseEmit, Transition

LEMMA CloseHubGoes ==
    ASSUME SessionInvariant, NEW f \in Frame, CloseHub(f)
    PROVE  Goes(f)
<1>1. pc[f] \notin Still
    BY DEF CloseHub
<1> QED BY <1>1, Here, WalkGoes, EmitGoes DEF CloseHub

LEMMA CloseFinalGoes ==
    ASSUME SessionInvariant, NEW f \in Frame, CloseFinal(f)
    PROVE  Goes(f)
<1>1. pc[f] \notin Still
    BY DEF CloseFinal
<1> QED BY <1>1, Here, WalkGoes, EmitGoes DEF CloseFinal, Local, Continuation

(* So do the runtime's sections of a turn.                                    *)
LEMMA RunEnterGoes ==
    ASSUME SessionInvariant, RunEnter
    PROVE  Goes(Runner)
<1>1. /\ pc[Runner] = "run_enter" /\ Suits(Runner, pc[Runner], local[Runner])
      /\ local[Runner] \in Local
    BY Here, FrameFacts DEF RunEnter
<1>2. ASSUME NEW label \in {"run_exit", "run_step"}, NEW carried,
             carried \in {local[Runner], [local[Runner] EXCEPT !.error = TRUE]},
             Goto(Runner, label), SetLocal(Runner, carried),
             UNCHANGED <<ret, dispatcher, Steady>>
      PROVE  Goes(Runner)
  <2>1. carried \in Local /\ carried.caller = local[Runner].caller
      BY <1>1, <1>2 DEF Local
  <2>2. Suits(Runner, label, carried)
      BY <1>1, <1>2, FrameFacts DEF Local
  <2> QED BY <1>1, <1>2, <2>1, <2>2, WalkGoes, FrameFacts
<1> QED BY <1>1, <1>2, Here, FrameFacts DEF RunEnter

LEMMA RunStageGoes ==
    ASSUME SessionInvariant, RunStage
    PROVE  Goes(Runner)
<1>1. /\ pc[Runner] = "run_step" /\ Suits(Runner, pc[Runner], local[Runner])
      /\ local[Runner] \in Local
    BY Here, FrameFacts DEF RunStage
<1>2. ASSUME NEW t, NEW next \in 1 .. 7, NEW carried,
             carried = [local[Runner] EXCEPT !.step = next],
             Emit(Runner, t, "live", "run_step"), SetLocal(Runner, carried), UNCHANGED Steady
      PROVE  Goes(Runner)
  <2>1. carried \in Local /\ carried.caller = local[Runner].caller
      BY <1>1, <1>2 DEF Local
  <2>2. Suits(Runner, "run_step", carried)
      BY <1>1, <1>2, FrameFacts DEF Local
  <2> QED BY <1>1, <1>2, <2>1, <2>2, EmitGoes, FrameFacts
<1>3. ASSUME NEW label \in {"run_clear", "run_exit"}, NEW x \in BOOLEAN, NEW carried,
             carried = [local[Runner] EXCEPT !.error = x],
             Goto(Runner, label), SetLocal(Runner, carried),
             UNCHANGED <<ret, dispatcher, Steady>>
      PROVE  Goes(Runner)
  <2>1. carried \in Local /\ carried.caller = local[Runner].caller
      BY <1>1, <1>3 DEF Local
  <2>2. Suits(Runner, label, carried)
      BY <1>1, <1>3, FrameFacts DEF Local
  <2> QED BY <1>1, <1>3, <2>1, <2>2, WalkGoes, FrameFacts
<1>4. local[Runner].step \in 0 .. 7 /\ Len(Script) = 7
    BY <1>1 DEF Local, Script
<1>5. local[Runner].step + 1 \in 1 .. 7
    BY <1>4 DEF RunStage
<1> DEFINE refusal == Refusal(RunnerTurn, Script[local[Runner].step + 1].phase)
<1>6. CASE refusal = "none"
    BY <1>2, <1>5, <1>6 DEF RunStage, Transition
<1>7. CASE refusal # "none"
  <2> HIDE DEF refusal
  <2>1. (refusal # "late") \in BOOLEAN
      OBVIOUS
  <2> QED BY <1>3, <1>7, <2>1 DEF RunStage, refusal
<1> QED BY <1>6, <1>7

LEMMA RunCommitGoes ==
    ASSUME SessionInvariant, RunCommit
    PROVE  Goes(Runner)
<1>1. /\ pc[Runner] = "run_step" /\ Suits(Runner, pc[Runner], local[Runner])
      /\ local[Runner] \in Local
    BY Here, FrameFacts DEF RunCommit
<1>2. ASSUME NEW carried, carried = [local[Runner] EXCEPT !.outcome = "reserved"],
             Goto(Runner, "run_exit"), SetLocal(Runner, carried),
             UNCHANGED <<ret, dispatcher, Steady>>
      PROVE  Goes(Runner)
  <2>1. carried \in Local /\ carried.caller = local[Runner].caller
      BY <1>1, <1>2 DEF Local, Answers
  <2>2. Suits(Runner, "run_exit", carried)
      BY <1>1, <1>2, FrameFacts DEF Local
  <2>3. pc[Runner] \notin Still /\ "run_exit" \in Label
      BY <1>1
  <2> HIDE DEF Suits, Label, Still, Steady, Local, SessionInvariant
  <2> QED BY <1>2, <2>1, <2>2, <2>3, WalkGoes, FrameFacts
<1>3. ASSUME Goto(Runner, "run_clear"), SetLocal(Runner, local[Runner]),
             UNCHANGED <<ret, dispatcher, Steady>>
      PROVE  Goes(Runner)
    BY <1>1, <1>3, WalkGoes, FrameFacts
<1>4. ASSUME NEW t, NEW kind, Emit(Runner, t, kind, "run_clear"),
             SetLocal(Runner, local[Runner]),             UNCHANGED Steady
      PROVE  Goes(Runner)
    BY <1>1, <1>4, EmitGoes, FrameFacts
<1>5. local' = local => SetLocal(Runner, local[Runner])
    BY <1>1, Here, FrameFacts
<1> QED BY <1>2, <1>3, <1>4, <1>5 DEF RunCommit, CommitTerminal, Transition

LEMMA RunClearGoes ==
    ASSUME SessionInvariant, RunClear
    PROVE  Goes(Runner)
<1>1. /\ pc[Runner] = "run_clear" /\ Suits(Runner, pc[Runner], local[Runner])
      /\ local[Runner] \in Local
    BY Here, FrameFacts DEF RunClear
<1> QED BY <1>1, Here, WalkGoes, FrameFacts DEF RunClear

LEMMA RunIdleGoes ==
    ASSUME SessionInvariant, RunIdle
    PROVE  Goes(Runner)
<1>1. /\ pc[Runner] = "run_idle" /\ Suits(Runner, pc[Runner], local[Runner])
      /\ local[Runner] \in Local
    BY Here, FrameFacts DEF RunIdle
<1> QED BY <1>1, Here, WalkGoes, FrameFacts DEF RunIdle

LEMMA RunExitGoes ==
    ASSUME SessionInvariant, RunExit
    PROVE  Goes(Runner)
<1>1. /\ pc[Runner] = "run_exit" /\ Suits(Runner, pc[Runner], local[Runner])
      /\ local[Runner] \in Local
    BY Here, FrameFacts DEF RunExit
<1>2. ASSUME NEW next \in {"run_park", "run_finish"}, NEW label \in {"close_read", next},
             NEW carried, carried = [local[Runner] EXCEPT !.after = next],
             Goto(Runner, label), SetLocal(Runner, carried),
             UNCHANGED <<ret, dispatcher, Steady>>
      PROVE  Goes(Runner)
  <2>1. carried \in Local /\ carried.caller = local[Runner].caller
      BY <1>1, <1>2 DEF Local, Continuation
  <2>2. Suits(Runner, label, carried)
      BY <1>1, <1>2, FrameFacts DEF Local
  <2>3. /\ label \in Label /\ label \notin {"deliver", "rejoin", "await_run"}
        /\ pc[Runner] \notin Still
      BY <1>1, <1>2
  <2> HIDE DEF Suits, Belongs, Label, Still
  <2> QED BY <1>2, <2>1, <2>2, <2>3, WalkGoes, FrameFacts
<1> QED BY <1>2 DEF RunExit, ExitOperation

HIDE DEF SessionInvariant, Suits, Belongs, RunnerProgram, Label, RunnerLabels, StartLabels,
         OtherLabels, CloseLabels, OperationLabels, Resumption, Still

-----------------------------------------------------------------------------
(* The lock, action by action.                                              *)

LEMMA StartTurnKeepsLock ==
    ASSUME SessionInvariant, NEW f \in Frame, StartTurn(f)
    PROVE  LockInvariant'
<1> FrameTypes /\ FramesFit /\ LockInvariant
    BY DEF SessionInvariant
<1> USE DEF FrameTypes, Goto, SameSection, OperationLabels, CloseLabels
<1>1. CASE StartAdmission(f)
  <2>1. Goes(f)
      BY <1>1, StartAdmissionGoes
  <2> QED BY <1>1, <2>1, WalkingKeepsLock DEF StartAdmission
<1>2. CASE StartReject(f)
  <2>1. Goes(f)
      BY <1>2, StartRejectGoes
  <2> QED BY <1>2, <2>1, WalkingKeepsLock, EmissionKeepsLock
             DEF StartReject, EmitOrSkip, Transition, CommitTerminal, IntRaise
<1>3. CASE StartRepeat(f)
  <2>1. Goes(f)
      BY <1>3, StartRepeatGoes
  <2> QED BY <1>3, <2>1, WalkingKeepsLock DEF StartRepeat
<1>4. CASE StartAdmit(f)
  <2>1. Goes(f)
      BY <1>4, StartAdmitGoes
  <2> QED BY <1>4, <2>1, WalkingKeepsLock DEF StartAdmit
<1>5. CASE StartPhase(f)
  <2>1. Goes(f)
      BY <1>5, StartPhaseGoes
  <2> QED BY <1>5, <2>1, WalkingKeepsLock DEF StartPhase, UndoStart
<1>6. CASE StartEmit(f)
  <2>1. Goes(f)
      BY <1>6, StartEmitGoes
  <2> QED BY <1>6, <2>1, WalkingKeepsLock, EmissionKeepsLock
             DEF StartEmit, EmitOrSkip, Transition, CommitTerminal, IntRaise, UndoStart
<1>7. CASE StartReturn(f)
  <2>1. Goes(f)
      BY <1>7, StartReturnGoes
  <2> QED BY <1>7, <2>1, WalkingKeepsLock DEF StartReturn
<1> QED BY <1>1, <1>2, <1>3, <1>4, <1>5, <1>6, <1>7 DEF StartTurn

LEMMA InterruptKeepsLock ==
    ASSUME SessionInvariant, NEW f \in Frame, Interrupt(f)
    PROVE  LockInvariant'
<1> FrameTypes /\ FramesFit /\ LockInvariant
    BY DEF SessionInvariant
<1> USE DEF FrameTypes, Goto, SameSection, OperationLabels, CloseLabels
<1>1. CASE Claim(f)
  <2>1. Goes(f)
      BY <1>1, ClaimGoes
  <2> QED BY <1>1, <2>1, WalkingKeepsLock DEF Claim
<1>2. CASE ClaimWait(f)
  <2>1. Goes(f)
      BY <1>2, ClaimWaitGoes
  <2> QED BY <1>2, <2>1, WalkingKeepsLock DEF ClaimWait
<1>3. CASE Coordinate(f)
  <2>1. Goes(f)
      BY <1>3, CoordinateGoes
  <2> QED BY <1>3, <2>1, WalkingKeepsLock DEF Coordinate
<1>4. CASE IntEnter(f)
  <2>1. Goes(f)
      BY <1>4, IntEnterGoes
  <2> QED BY <1>4, <2>1, EnteringKeepsLock, MovesMoves DEF IntEnter, Goes
<1>5. CASE IntFlush(f)
  <2>1. Goes(f)
      BY <1>5, IntFlushGoes
  <2> QED BY <1>5, <2>1, WalkingKeepsLock, EmissionKeepsLock
             DEF IntFlush, EmitOrSkip, Transition, CommitTerminal, IntRaise
<1>6. CASE IntFlushDone(f)
  <2>1. Goes(f)
      BY <1>6, IntFlushDoneGoes
  <2> QED BY <1>6, <2>1, WalkingKeepsLock, EmissionKeepsLock
             DEF IntFlushDone, EmitOrSkip, Transition, CommitTerminal, IntRaise
<1>7. CASE IntRequest(f)
  <2>1. Goes(f)
      BY <1>7, IntRequestGoes
  <2> QED BY <1>7, <2>1, WalkingKeepsLock, EmissionKeepsLock
             DEF IntRequest, EmitOrSkip, Transition, CommitTerminal, IntRaise
<1>8. CASE IntOutcome(f)
  <2>1. Goes(f)
      BY <1>8, IntOutcomeGoes
  <2> QED BY <1>8, <2>1, WalkingKeepsLock, EmissionKeepsLock
             DEF IntOutcome, EmitOrSkip, Transition, CommitTerminal, IntRaise
<1>9. CASE IntAccepted(f)
  <2>1. Goes(f)
      BY <1>9, IntAcceptedGoes
  <2> QED BY <1>9, <2>1, WalkingKeepsLock, EmissionKeepsLock
             DEF IntAccepted, EmitOrSkip, Transition, CommitTerminal, IntRaise
<1>10. CASE IntCommit(f)
  <2>1. Goes(f)
      BY <1>10, IntCommitGoes
  <2> QED BY <1>10, <2>1, WalkingKeepsLock, EmissionKeepsLock
             DEF IntCommit, EmitOrSkip, Transition, CommitTerminal, IntRaise
<1>11. CASE IntClear(f)
  <2>1. Goes(f)
      BY <1>11, IntClearGoes
  <2> QED BY <1>11, <2>1, WalkingKeepsLock DEF IntClear
<1>12. CASE IntIdle(f)
  <2>1. Goes(f)
      BY <1>12, IntIdleGoes
  <2> QED BY <1>12, <2>1, WalkingKeepsLock DEF IntIdle
<1>13. CASE IntResolve(f)
  <2>1. Goes(f)
      BY <1>13, IntResolveGoes
  <2>2. \/ /\ Goto(f, "int_exit") /\ UNCHANGED lockVars
        \/ /\ Goto(f, "int_resolve_clear") /\ UNCHANGED lockVars
        \/ \E t, kind : Emit(f, t, kind, "int_resolve_clear")
      BY <1>13 DEF IntResolve, Transition, CommitTerminal
  <2>3. pc[f] = "int_resolve" /\ UNCHANGED closed
      BY <1>13 DEF IntResolve
  <2>4. CASE (Goto(f, "int_exit") \/ Goto(f, "int_resolve_clear")) /\ UNCHANGED lockVars
      BY <2>1, <2>3, <2>4, WalkingKeepsLock
  <2>5. CASE \E t, kind : Emit(f, t, kind, "int_resolve_clear")
      BY <2>1, <2>3, <2>5, EmissionKeepsLock
  <2> QED BY <2>2, <2>4, <2>5
<1>14. CASE IntResolveClear(f)
  <2>1. Goes(f)
      BY <1>14, IntResolveClearGoes
  <2> QED BY <1>14, <2>1, WalkingKeepsLock DEF IntResolveClear
<1>15. CASE IntExit(f)
  <2>1. Goes(f)
      BY <1>15, IntExitGoes
  <2> QED BY <1>15, <2>1, LeavingKeepsLock, MovesMoves DEF IntExit, Goes
<1>16. CASE IntRecover(f)
  <2>1. Goes(f)
      BY <1>16, IntRecoverGoes
  <2> QED BY <1>16, <2>1, EnteringKeepsLock, MovesMoves DEF IntRecover, Goes
<1>17. CASE IntComplete(f)
  <2>1. Goes(f)
      BY <1>17, IntCompleteGoes
  <2> QED BY <1>17, <2>1, WalkingKeepsLock DEF IntComplete
<1> QED BY <1>1, <1>2, <1>3, <1>4, <1>5, <1>6, <1>7, <1>8, <1>9, <1>10, <1>11, <1>12, <1>13,
           <1>14, <1>15, <1>16, <1>17 DEF Interrupt

LEMMA FlushKeepsLock ==
    ASSUME SessionInvariant, NEW f \in Frame, Flush(f)
    PROVE  LockInvariant'
<1> FrameTypes /\ FramesFit /\ LockInvariant
    BY DEF SessionInvariant
<1> USE DEF FrameTypes, Goto, SameSection, OperationLabels, CloseLabels
<1>1. CASE FlushAdmission(f)
  <2>1. Goes(f)
      BY <1>1, FlushAdmissionGoes
  <2> QED BY <1>1, <2>1, WalkingKeepsLock DEF FlushAdmission
<1>2. CASE FlushWait(f)
  <2>1. Goes(f)
      BY <1>2, FlushWaitGoes
  <2> QED BY <1>2, <2>1, WalkingKeepsLock DEF FlushWait
<1>3. CASE FlushEnter(f)
  <2>1. Goes(f)
      BY <1>3, FlushEnterGoes
  <2> QED BY <1>3, <2>1, EnteringKeepsLock, MovesMoves DEF FlushEnter, Goes
<1>4. CASE FlushRequest(f)
  <2>1. Goes(f)
      BY <1>4, FlushRequestGoes
  <2>2. \/ Goto(f, "flush_exit") /\ UNCHANGED lockVars
        \/ \E t, kind : Emit(f, t, kind, "flush_done")
      BY <1>4 DEF FlushRequest, EmitOrSkip
  <2>3. pc[f] = "flush_request" /\ UNCHANGED closed
      BY <1>4 DEF FlushRequest
  <2>4. CASE Goto(f, "flush_exit") /\ UNCHANGED lockVars
      BY <2>1, <2>3, <2>4, WalkingKeepsLock
  <2>5. CASE \E t, kind : Emit(f, t, kind, "flush_done")
      BY <2>1, <2>3, <2>5, EmissionKeepsLock
  <2> QED BY <2>2, <2>4, <2>5
<1>5. CASE FlushDone(f)
  <2>1. Goes(f)
      BY <1>5, FlushDoneGoes
  <2> QED BY <1>5, <2>1, WalkingKeepsLock, EmissionKeepsLock
             DEF FlushDone, EmitOrSkip, Transition, CommitTerminal, IntRaise
<1>6. CASE FlushExit(f)
  <2>1. Goes(f)
      BY <1>6, FlushExitGoes
  <2> QED BY <1>6, <2>1, LeavingKeepsLock, MovesMoves DEF FlushExit, Goes
<1> QED BY <1>1, <1>2, <1>3, <1>4, <1>5, <1>6 DEF Flush

LEMMA CloseKeepsLock ==
    ASSUME SessionInvariant, NEW f \in Frame, Close(f)
    PROVE  LockInvariant'
<1> FrameTypes /\ FramesFit /\ LockInvariant
    BY DEF SessionInvariant
<1> USE DEF FrameTypes, Goto, SameSection, OperationLabels, CloseLabels
<1>1. CASE CloseAdmission(f)
  <2>1. Goes(f)
      BY <1>1, CloseAdmissionGoes
  <2> QED BY <1>1, <2>1, WalkingKeepsLock DEF CloseAdmission
<1>2. CASE CloseWait(f)
  <2>1. Goes(f)
      BY <1>2, CloseWaitGoes
  <2> QED BY <1>2, <2>1, WalkingKeepsLock DEF CloseWait
<1>3. CASE CloseLock(f)
  <2>1. Goes(f)
      BY <1>3, CloseLockGoes
  <2> QED BY <1>3, <2>1, WalkingKeepsLock, TakingKeepsLock, MovesMoves DEF CloseLock, Goes
<1>4. CASE CloseRead(f)
  <2>1. Goes(f)
      BY <1>4, CloseReadGoes
  <2> QED BY <1>4, <2>1, WalkingKeepsLock DEF CloseRead
<1>5. CASE CloseMark(f)
  <2>1. Goes(f)
      BY <1>5, CloseMarkGoes
  <2> QED BY <1>5, <2>1, WalkingKeepsLock DEF CloseMark
<1>6. CASE CloseEmit(f)
  <2>1. Goes(f)
      BY <1>6, CloseEmitGoes
  <2> QED BY <1>6, <2>1, WalkingKeepsLock, EmissionKeepsLock
             DEF CloseEmit, Transition, LockInvariant, Position, Delivering
<1>7. CASE CloseHub(f)
  <2>1. Goes(f)
      BY <1>7, CloseHubGoes
  <2> QED BY <1>7, <2>1, GivingBackKeepsLock, MovesMoves DEF CloseHub, Goes
<1>8. CASE CloseFinal(f)
  <2>1. Goes(f)
      BY <1>8, CloseFinalGoes
  <2> QED BY <1>8, <2>1, WalkingKeepsLock DEF CloseFinal, Local, Continuation
<1> QED BY <1>1, <1>2, <1>3, <1>4, <1>5, <1>6, <1>7, <1>8 DEF Close

-----------------------------------------------------------------------------
(* The session's data, action by action.                                    *)

LEMMA LocalTypes ==
    ASSUME SessionInvariant, NEW f \in Frame
    PROVE  /\ local[f].turn \in TurnOrNone /\ local[f].current \in TurnOrNone
           /\ local[f].claimed \in TurnOrNone /\ local[f].work \in TurnOrNone
           /\ local[f].closing \in TurnOrNone /\ RequestedTurn(f) \in TurnOrNone
           /\ local[f].call \in SessionCall \cup {NoCall}
<1>1. local[f] \in Local
    BY DEF SessionInvariant, FrameTypes
<1>2. local[f].call \in SessionCall \cup {NoCall}
    BY <1>1 DEF Local
<1> QED BY <1>1, <1>2 DEF Local, RequestedTurn, SessionCall, NoCall, TurnOrNone

LEMMA DataTurns ==
    ASSUME DataTypes
    PROVE  CurrentTurn \in TurnOrNone /\ GateTurn \in TurnOrNone /\ context.turn \in TurnOrNone
           /\ active.turn \in TurnOrNone /\ context.generation \in 0 .. MaxGenerations
BY DEF DataTypes, Context, CurrentTurn, GateTurn, TurnOrNone

LEMMA NoContextTyped == NoContext \in Context /\ Gate!Inactive \in Context
BY DEF NoContext, Gate!Inactive, Context

LEMMA RetainTypes ==
    ASSUME DataTypes, NEW t \in Turn, NEW outcome \in TurnOutcome, Registry!Retain(t, outcome)
    PROVE  records' \in Seq(Registry!Record)
<1>1. [turn |-> t, outcome |-> outcome] \in Registry!Record
    BY DEF Registry!Record, Registry!TurnOutcome, TurnOutcome
<1> QED BY <1>1, AppendProperties DEF DataTypes, Registry!Retain

LEMMA AdvanceTypes ==
    ASSUME DataTypes, NEW t, NEW reason, AdvanceTurn(t, reason)
    PROVE  active' \in Context
BY NoContextTyped DEF DataTypes, AdvanceTurn, Gate!Advance, gateVars

LEMMA EmitTypes ==
    ASSUME DataTypes, NEW f, NEW t \in TurnOrNone, NEW kind \in {"started", "live", "ended"},
           kind = "started" => t # NoTurn, NEW next, Emit(f, t, kind, next)
    PROVE  /\ lastEvent' \in [Turn -> {"none", "started", "live", "ended"}]
           /\ announced' \in SUBSET Turn /\ admission' = admission
BY DEF DataTypes, Emit, TurnOrNone

LEMMA InterruptTypes ==
    ASSUME DataTypes, NEW t \in Turn
    PROVE  /\ \A x \in Standing :
                /\ [interrupts EXCEPT ![t].deferred = x] \in [Turn -> InterruptWork]
                /\ [interrupts EXCEPT ![t].deferred = IF @ = "none" THEN x ELSE @]
                     \in [Turn -> InterruptWork]
                /\ \A y \in BOOLEAN : [interrupts EXCEPT ![t].reserved = y, ![t].deferred = x]
                                         \in [Turn -> InterruptWork]
           /\ [interrupts EXCEPT ![t].flushed = TRUE] \in [Turn -> InterruptWork]
           /\ [interrupts EXCEPT ![t].closeAfter = TRUE] \in [Turn -> InterruptWork]
           /\ [interrupts EXCEPT ![t].status = "done", ![t].reserved = FALSE]
                \in [Turn -> InterruptWork]
           /\ \A f \in Frame :
                [interrupts EXCEPT ![t] = OwnedWork(f)] \in [Turn -> InterruptWork]
<1> interrupts \in [Turn -> InterruptWork]
    BY DEF DataTypes
<1>1. \A x \in Standing : [interrupts EXCEPT ![t].deferred = x] \in [Turn -> InterruptWork]
    BY DEF InterruptWork
<1>2. \A x \in Standing : [interrupts EXCEPT ![t].deferred = IF @ = "none" THEN x ELSE @]
                     \in [Turn -> InterruptWork]
    BY DEF InterruptWork
<1>3. ASSUME NEW x \in Standing, NEW y \in BOOLEAN
      PROVE  [interrupts EXCEPT ![t].reserved = y, ![t].deferred = x] \in [Turn -> InterruptWork]
    <2> DEFINE work == [interrupts[t] EXCEPT !.reserved = y, !.deferred = x]
    <2>1. work \in InterruptWork
        BY DEF InterruptWork
    <2> HIDE DEF work
    <2>2. [interrupts EXCEPT ![t] = work] \in [Turn -> InterruptWork]
        BY <2>1
    <2> QED BY <2>2 DEF work
<1>4. [interrupts EXCEPT ![t].flushed = TRUE] \in [Turn -> InterruptWork]
    BY DEF InterruptWork
<1>5. [interrupts EXCEPT ![t].closeAfter = TRUE] \in [Turn -> InterruptWork]
    BY DEF InterruptWork
<1>6. [interrupts EXCEPT ![t].status = "done", ![t].reserved = FALSE]
         \in [Turn -> InterruptWork]
    <2> DEFINE work == [interrupts[t] EXCEPT !.status = "done", !.reserved = FALSE]
    <2>1. work \in InterruptWork
        BY DEF InterruptWork
    <2> HIDE DEF work
    <2>2. [interrupts EXCEPT ![t] = work] \in [Turn -> InterruptWork]
        BY <2>1
    <2> QED BY <2>2 DEF work
<1>7. \A f \in Frame : OwnedWork(f) \in InterruptWork
    BY FrameFacts DEF InterruptWork, OwnedWork, NoWork, Standing
<1> QED BY <1>1, <1>2, <1>3, <1>4, <1>5, <1>6, <1>7

LEMMA StartTurnKeepsTypes ==
    ASSUME SessionInvariant, NEW f \in Frame, StartTurn(f)
    PROVE  DataTypes'
<1> DataTypes
    BY DEF SessionInvariant
<1>1. CASE StartAdmission(f)
    BY <1>1 DEF StartAdmission, DataTypes, Taken
<1>2. CASE StartReject(f)
  <2>1. Suits(f, pc[f], local[f])
      BY <1>2, Here DEF StartReject, Still
  <2>2. local[f].turn # NoTurn
      BY <1>2, <2>1 DEF StartReject, Suits, StartLabels
  <2> QED BY <1>2, <2>2, LocalTypes, RetainTypes, EmitTypes
             DEF StartReject, DataTypes, TurnOutcome, TurnOrNone
<1>3. CASE StartRepeat(f)
    BY <1>3 DEF StartRepeat, DataTypes
<1>4. CASE StartAdmit(f)
  <2>1. Suits(f, pc[f], local[f])
      BY <1>4, Here DEF StartAdmit, Still
  <2>2. local[f].turn # NoTurn
      BY <1>4, <2>1 DEF StartAdmit, Suits, StartLabels
  <2> QED BY <1>4, <2>2, LocalTypes
             DEF StartAdmit, DataTypes, Gate!StartGeneration, Gate!Generation, Context,
                 TurnOrNone
<1>5. CASE StartPhase(f)
  <2>1. Suits(f, pc[f], local[f])
      BY <1>5, Here DEF StartPhase, Still
  <2>2. local[f].turn # NoTurn
      BY <1>5, <2>1 DEF StartPhase, Suits, StartLabels
  <2> QED BY <1>5, <2>2, LocalTypes, AdvanceTypes, NoContextTyped
             DEF StartPhase, DataTypes, UndoStart, Phase, TurnOrNone
<1>6. CASE StartEmit(f)
  <2>1. Suits(f, pc[f], local[f])
      BY <1>6, Here DEF StartEmit, Still
  <2>2. local[f].turn # NoTurn
      BY <1>6, <2>1 DEF StartEmit, Suits, StartLabels
  <2> QED BY <1>6, <2>2, LocalTypes, AdvanceTypes, EmitTypes, NoContextTyped
             DEF StartEmit, DataTypes, UndoStart, TurnOrNone
<1>7. CASE StartReturn(f)
    BY <1>7 DEF StartReturn, DataTypes, Released
<1> QED BY <1>1, <1>2, <1>3, <1>4, <1>5, <1>6, <1>7 DEF StartTurn

LEMMA InterruptKeepsTypes ==
    ASSUME SessionInvariant, NEW f \in Frame, Interrupt(f)
    PROVE  DataTypes'
<1> DataTypes
    BY DEF SessionInvariant
<1>1. CASE Claim(f)
  <2>1. CurrentTurn \in TurnOrNone /\ RequestedTurn(f) \in TurnOrNone
      BY LocalTypes, DataTurns
  <2>2. \A t \in Turn : [interrupts EXCEPT ![t] = OwnedWork(f)] \in [Turn -> InterruptWork]
      BY InterruptTypes
  <2> QED BY <1>1, <2>1, <2>2 DEF Claim, DataTypes, TurnOrNone
<1>2. CASE ClaimWait(f)
    BY <1>2 DEF ClaimWait, DataTypes
<1>3. CASE Coordinate(f)
    BY <1>3 DEF Coordinate, DataTypes
<1>4. CASE IntEnter(f)
    BY <1>4 DEF IntEnter, DataTypes, EnterOperation
<1>5. CASE IntFlush(f)
  <2>1. Suits(f, pc[f], local[f])
      BY <1>5, Here DEF IntFlush, Still
  <2>2. local[f].work # NoTurn
      BY <1>5, <2>1 DEF IntFlush, Suits, StartLabels
  <2> QED BY <1>5, <2>2, LocalTypes, EmitTypes, InterruptTypes
             DEF IntFlush, DataTypes, EmitOrSkip, Standing, TurnOrNone
<1>6. CASE IntFlushDone(f)
    BY <1>6, LocalTypes, EmitTypes DEF IntFlushDone, DataTypes, EmitOrSkip, TurnOrNone
<1>7. CASE IntRequest(f)
    BY <1>7, LocalTypes, DataTurns, AdvanceTypes, EmitTypes
       DEF IntRequest, DataTypes, EmitOrSkip, TurnOrNone
<1>8. CASE IntOutcome(f)
  <2>1. /\ \/ UNCHANGED <<lastEvent, announced, admission>>
           \/ \E t \in {NoTurn, local[f].turn} : \E next : Emit(f, t, "live", next)
        /\ phase' \in {phase, "recovering"}
        /\ UNCHANGED <<active, context, records, closed, closeRequested, closeAdmission,
                       interrupts, activeInterrupt, normalReserved>>
      BY <1>8 DEF IntOutcome, Transition, IntRaise
  <2>2. /\ lastEvent' \in [Turn -> {"none", "started", "live", "ended"}]
        /\ announced' \in SUBSET Turn /\ admission' = admission
    <3>1. CASE UNCHANGED <<lastEvent, announced, admission>>
        BY <3>1 DEF DataTypes
    <3>2. CASE \E t \in {NoTurn, local[f].turn} : \E next : Emit(f, t, "live", next)
        <4>1. {NoTurn, local[f].turn} \subseteq TurnOrNone
            BY LocalTypes DEF TurnOrNone
        <4> QED BY <3>2, <4>1, EmitTypes
    <3> QED BY <2>1, <3>1, <3>2
  <2> QED BY <2>1, <2>2 DEF DataTypes, Phase
<1>9. CASE IntAccepted(f)
    BY <1>9, LocalTypes, EmitTypes DEF IntAccepted, DataTypes, EmitOrSkip, TurnOrNone
<1>10. CASE IntCommit(f)
  <2> DEFINE t == local[f].turn
  <2>1. ASSUME t \in Turn, DeferTerminal(t, "interrupted")
        PROVE  interrupts' \in [Turn -> InterruptWork]
      BY <2>1, InterruptTypes DEF DeferTerminal, Standing, TurnOutcome
  <2>2. ASSUME t \in Turn, CommitTerminal(f, t, "interrupted", "interrupted", "int_clear"),
               UNCHANGED <<context, closeVars, interruptVars>>
        PROVE  DataTypes'
      BY <2>2, LocalTypes, RetainTypes, AdvanceTypes, EmitTypes
         DEF DataTypes, CommitTerminal, Transition, TurnOrNone, TurnOutcome
  <2>3. t \in TurnOrNone
      BY LocalTypes
  <2> QED BY <1>10, <2>1, <2>2, <2>3 DEF IntCommit, IntRaise, DataTypes, TurnOrNone
<1>11. CASE IntClear(f)
    BY <1>11, NoContextTyped DEF IntClear, DataTypes, TurnOrNone
<1>12. CASE IntIdle(f)
    BY <1>12 DEF IntIdle, DataTypes, Phase
<1>13. CASE IntResolve(f)
  <2> DEFINE t == local[f].work
             deferred == IF t = NoTurn THEN "none" ELSE interrupts[t].deferred
  <2>1. t \in TurnOrNone /\ deferred \in Standing
      BY LocalTypes DEF DataTypes, InterruptWork, Standing, TurnOrNone
  <2>2. interrupts' \in [Turn -> InterruptWork]
      BY <1>13, <2>1, InterruptTypes DEF IntResolve, DataTypes, Standing, TurnOrNone
  <2>3. ASSUME t \in Turn, deferred \in TurnOutcome,
               UNCHANGED <<context, closeVars, activeInterrupt, normalReserved>>,
               CommitTerminal(f, t, deferred, deferred, "int_resolve_clear")
        PROVE  DataTypes'
      BY <2>2, <2>3, LocalTypes, RetainTypes, AdvanceTypes, EmitTypes
         DEF DataTypes, CommitTerminal, Transition, TurnOrNone
  <2> QED BY <1>13, <2>1, <2>2, <2>3 DEF IntResolve, DataTypes, TurnOrNone, Standing
<1>14. CASE IntResolveClear(f)
    BY <1>14, NoContextTyped DEF IntResolveClear, DataTypes, TurnOrNone
<1>15. CASE IntExit(f)
    BY <1>15 DEF IntExit, DataTypes, ExitOperation
<1>16. CASE IntRecover(f)
    BY <1>16 DEF IntRecover, DataTypes, EnterOperation
<1>17. CASE IntComplete(f)
  <2>1. Suits(f, pc[f], local[f])
      BY <1>17, Here DEF IntComplete, Still
  <2>2. local[f].work # NoTurn
      BY <1>17, <2>1 DEF IntComplete, Suits, StartLabels
  <2> QED BY <1>17, <2>2, LocalTypes, InterruptTypes
             DEF IntComplete, DataTypes, Standing, TurnOrNone
<1> QED BY <1>1, <1>2, <1>3, <1>4, <1>5, <1>6, <1>7, <1>8, <1>9, <1>10, <1>11, <1>12, <1>13,
           <1>14, <1>15, <1>16, <1>17 DEF Interrupt

LEMMA FlushKeepsTypes ==
    ASSUME SessionInvariant, NEW f \in Frame, Flush(f)
    PROVE  DataTypes'
<1> DataTypes
    BY DEF SessionInvariant
<1>1. CASE FlushAdmission(f)
    BY <1>1 DEF FlushAdmission, DataTypes
<1>2. CASE FlushWait(f)
    BY <1>2 DEF FlushWait, DataTypes
<1>3. CASE FlushEnter(f)
    BY <1>3 DEF FlushEnter, DataTypes, EnterOperation
<1>4. CASE FlushRequest(f)
  <2>1. FlushTarget(f) \in TurnOrNone /\ local[f].claimed \in TurnOrNone
      BY LocalTypes, DataTurns DEF FlushTarget
  <2>2. interrupts' \in [Turn -> InterruptWork]
    <3>1. \A t \in Turn : [interrupts EXCEPT ![t].flushed = TRUE] \in [Turn -> InterruptWork]
        BY InterruptTypes
    <3> QED BY <1>4, <2>1, <3>1 DEF FlushRequest, DataTypes, TurnOrNone
  <2> QED BY <1>4, <2>1, <2>2, EmitTypes DEF FlushRequest, EmitOrSkip, DataTypes, TurnOrNone
<1>5. CASE FlushDone(f)
    BY <1>5, LocalTypes, EmitTypes DEF FlushDone, DataTypes, EmitOrSkip, TurnOrNone
<1>6. CASE FlushExit(f)
    BY <1>6 DEF FlushExit, DataTypes, ExitOperation
<1> QED BY <1>1, <1>2, <1>3, <1>4, <1>5, <1>6 DEF Flush

LEMMA CloseKeepsTypes ==
    ASSUME SessionInvariant, NEW f \in Frame, Close(f)
    PROVE  DataTypes'
<1> DataTypes
    BY DEF SessionInvariant
<1>1. CASE CloseAdmission(f)
  <2>1. \A t \in Turn : [interrupts EXCEPT ![t].closeAfter = TRUE] \in [Turn -> InterruptWork]
      BY InterruptTypes
  <2>2. activeInterrupt \in Turn \cup {NoTurn}
      BY DEF DataTypes, TurnOrNone
  <2>3. interrupts' \in [Turn -> InterruptWork] /\ closeAdmission' \in BOOLEAN
    <3>1. \/ UNCHANGED interrupts
          \/ /\ activeInterrupt # NoTurn
             /\ interrupts' = [interrupts EXCEPT ![activeInterrupt].closeAfter = TRUE]
        BY <1>1 DEF CloseAdmission, Live
    <3>2. closeAdmission' \in {TRUE, closeAdmission}
        BY <1>1 DEF CloseAdmission
    <3>3. interrupts \in [Turn -> InterruptWork] /\ closeAdmission \in BOOLEAN
        BY DEF DataTypes
    <3>4. CASE UNCHANGED interrupts
        BY <3>2, <3>3, <3>4
    <3>5. CASE /\ activeInterrupt # NoTurn
               /\ interrupts' = [interrupts EXCEPT ![activeInterrupt].closeAfter = TRUE]
        <4>1. activeInterrupt \in Turn
            BY <2>2, <3>5
        <4>2. [interrupts EXCEPT ![activeInterrupt].closeAfter = TRUE] \in [Turn -> InterruptWork]
            BY <2>1, <4>1
        <4> QED BY <3>2, <3>3, <3>5, <4>2
    <3> QED BY <3>1, <3>4, <3>5
  <2> QED BY <1>1, <2>3 DEF CloseAdmission, DataTypes
<1>2. CASE CloseWait(f)
    BY <1>2 DEF CloseWait, DataTypes
<1>3. CASE CloseLock(f)
    BY <1>3 DEF CloseLock, DataTypes
<1>4. CASE CloseRead(f)
    BY <1>4 DEF CloseRead, DataTypes
<1>5. CASE CloseMark(f)
  <2>1. Suits(f, pc[f], local[f])
      BY <1>5, Here DEF CloseMark, Still
  <2>2. local[f].closes => local[f].closing # NoTurn
      BY <1>5, <2>1 DEF CloseMark, Suits, StartLabels
  <2> QED BY <1>5, <2>2, LocalTypes, RetainTypes, NoContextTyped
             DEF CloseMark, DataTypes, TurnOutcome, Gate!Advance, Phase, TurnOrNone
<1>6. CASE CloseEmit(f)
    BY <1>6, LocalTypes, EmitTypes DEF CloseEmit, DataTypes, Transition, TurnOrNone
<1>7. CASE CloseHub(f)
    BY <1>7 DEF CloseHub, DataTypes
<1>8. CASE CloseFinal(f)
    BY <1>8 DEF CloseFinal, DataTypes
<1> QED BY <1>1, <1>2, <1>3, <1>4, <1>5, <1>6, <1>7, <1>8 DEF Close

-----------------------------------------------------------------------------
(* The runtime's own steps.                                                 *)

LEMMA RunnerKeepsLock ==
    ASSUME SessionInvariant,
           RunEnter \/ RunStage \/ RunCommit \/ RunClear \/ RunIdle \/ RunExit
    PROVE  LockInvariant'
<1> FrameTypes /\ FramesFit /\ LockInvariant /\ Runner \in Frame
    BY FrameFacts DEF SessionInvariant
<1> USE DEF FrameTypes, Goto, SameSection, OperationLabels, CloseLabels
<1>1. CASE RunEnter
  <2>1. Goes(Runner)
      BY <1>1, RunEnterGoes
  <2> QED BY <1>1, <2>1, EnteringKeepsLock, MovesMoves DEF RunEnter, Goes
<1>2. CASE RunStage
  <2>1. Goes(Runner)
      BY <1>2, RunStageGoes
  <2> HIDE DEF Goto
  <2>2. CASE \E t, kind : Emit(Runner, t, kind, "run_step")
      BY <1>2, <2>1, <2>2, EmissionKeepsLock DEF RunStage
  <2>3. CASE /\ \E label \in {"run_clear", "run_exit"} : Goto(Runner, label)
             /\ UNCHANGED lockVars
      BY <1>2, <2>1, <2>3, WalkingKeepsLock DEF RunStage, Goto
  <2> QED BY <1>2, <2>2, <2>3 DEF RunStage, Transition
<1>3. CASE RunCommit
  <2>1. Goes(Runner)
      BY <1>3, RunCommitGoes
  <2> HIDE DEF Goto
  <2>2. CASE Emit(Runner, RunnerTurn, "ended", "run_clear")
      BY <1>3, <2>1, <2>2, EmissionKeepsLock DEF RunCommit
  <2>3. CASE /\ \E label \in {"run_clear", "run_exit"} : Goto(Runner, label)
             /\ UNCHANGED lockVars
      BY <1>3, <2>1, <2>3, WalkingKeepsLock DEF RunCommit, Goto
  <2> QED BY <1>3, <2>2, <2>3 DEF RunCommit, CommitTerminal, Transition
<1>4. CASE RunClear
  <2>1. Goes(Runner)
      BY <1>4, RunClearGoes
  <2> QED BY <1>4, <2>1, WalkingKeepsLock DEF RunClear
<1>5. CASE RunIdle
  <2>1. Goes(Runner)
      BY <1>5, RunIdleGoes
  <2> QED BY <1>5, <2>1, WalkingKeepsLock DEF RunIdle
<1>6. CASE RunExit
  <2>1. Goes(Runner)
      BY <1>6, RunExitGoes
  <2> QED BY <1>6, <2>1, LeavingKeepsLock, MovesMoves DEF RunExit, Goes
<1> QED BY <1>1, <1>2, <1>3, <1>4, <1>5, <1>6

LEMMA RunnerKeepsTypes ==
    ASSUME SessionInvariant,
           RunEnter \/ RunStage \/ RunCommit \/ RunClear \/ RunIdle \/ RunExit
    PROVE  DataTypes'
<1> DataTypes /\ Runner \in Frame
    BY FrameFacts DEF SessionInvariant
<1> DEFINE t == local[Runner].turn
<1>1. pc[Runner] = "run_step" => t \in Turn /\ local[Runner].step \in 0 .. 7
  <2> SUFFICES ASSUME pc[Runner] = "run_step"
               PROVE  t \in Turn /\ local[Runner].step \in 0 .. 7
      OBVIOUS
  <2>1. Suits(Runner, pc[Runner], local[Runner]) /\ local[Runner] \in Local
      BY Here DEF Still
  <2> QED BY <2>1 DEF Suits, Local, TurnOrNone
<1>2. CASE RunEnter
    BY <1>2 DEF RunEnter, EnterOperation, DataTypes
<1>3. CASE RunStage
  <2> DEFINE stage == Script[local[Runner].step + 1]
  <2>1. stage.phase \in Phase \cup {"unchanged"}
      BY <1>1, <1>3 DEF RunStage, Script, Phase
  <2>2. CASE Transition(Runner, RunnerTurn, stage.state, stage.phase, "live", "run_step")
      BY <1>1, <1>3, <2>1, <2>2, EmitTypes
         DEF RunStage, Transition, DataTypes, TurnOrNone, RunnerTurn
  <2>3. CASE UNCHANGED <<phase, state, lockVars, hubVars, ret>>
      BY <1>3, <2>3 DEF RunStage, DataTypes
  <2> QED BY <1>3, <2>2, <2>3 DEF RunStage
<1>4. CASE RunCommit
  <2>1. ASSUME DeferTerminal(t, "completed"), t \in Turn
        PROVE  interrupts' \in [Turn -> InterruptWork]
      BY <2>1, InterruptTypes DEF DeferTerminal, Standing, TurnOutcome
  <2>2. ASSUME CommitTerminal(Runner, t, "completed", "completed", "run_clear"), t \in Turn,
               UNCHANGED <<context, closeVars, interruptVars>>
        PROVE  DataTypes'
      BY <2>2, RetainTypes, AdvanceTypes, EmitTypes
         DEF DataTypes, CommitTerminal, Transition, TurnOrNone, TurnOutcome
  <2> QED BY <1>1, <1>4, <2>1, <2>2 DEF RunCommit, DataTypes, RunnerTurn
<1>5. CASE RunClear
    BY <1>5, NoContextTyped DEF RunClear, DataTypes
<1>6. CASE RunIdle
    BY <1>6 DEF RunIdle, DataTypes, Phase
<1>7. CASE RunExit
    BY <1>7 DEF RunExit, ExitOperation, DataTypes
<1> QED BY <1>2, <1>3, <1>4, <1>5, <1>6, <1>7

-----------------------------------------------------------------------------
(* Steps that begin, hand over or answer a call.                            *)

LEMMA GoingKeepsInvariant ==
    ASSUME SessionInvariant, NEW f \in Frame, Goes(f), LockInvariant', DataTypes'
    PROVE  SessionInvariant'
BY GoingKeepsFrames DEF SessionInvariant

LEMMA IdlingKeepsLock ==
    ASSUME LockInvariant, NEW f \in Frame, OnlyMoves(f), ~Busy(f), ~Busy(f)',
           Delivering(f)' <=> Delivering(f), UNCHANGED <<operation, depth, windowed, closed>>
    PROVE  LockInvariant'
<1>1. Stands(f)
    BY DEF Stands, Busy, InOperation, Closing
<1>2. \A g \in Frame \ {f} : Stands(g) /\ (Delivering(g)' <=> Delivering(g))
    BY OthersStand DEF Stands, LockInvariant
<1> QED BY <1>1, <1>2, StandingKeepsLock

LEMMA EntryFacts ==
    ASSUME NEW call \in SessionCall
    PROVE  /\ Entry[call.op] \in {"prepare", "start", "claim", "flush", "close", "subscribe"}
           /\ Entry[call.op] \in StartLabels => call.turn # NoTurn
BY DEF SessionCall, Entry, StartLabels

LEMMA BeginMoves ==
    ASSUME SessionInvariant, NEW f \in Frame, NEW call \in SessionCall, Begin(f, call),
           f # Runner
    PROVE  /\ Moves(f) /\ pc'[f] \in Label \ {"deliver", "rejoin", "absent"}
           /\ ~Busy(f)' /\ ~Delivering(f)'
<1> DEFINE fresh == [NoLocal EXCEPT !.call = call, !.turn = call.turn, !.after = Rest(f)]
           label == Entry[call.op]
<1>1. pc \in [Frame -> Label] /\ ret \in [Frame -> Label] /\ local \in [Frame -> Local]
    BY DEF SessionInvariant, FrameTypes
<1>2. label \in Label \ {"deliver", "rejoin", "absent"}
    BY EntryFacts DEF Label, StartLabels, OtherLabels
<1>3. fresh \in Local
  <2>1. call.turn \in TurnOrNone /\ Rest(f) \in Continuation
      BY DEF SessionCall, TurnOrNone, Continuation, Rest
  <2>2. 0 \in 0 .. MaxGenerations /\ 0 \in 0 .. 7
      OBVIOUS
  <2>3. NoLocal \in Local
      BY <2>2 DEF NoLocal, Local, TurnOrNone, Answers
  <2> QED BY <2>1, <2>3 DEF Local
<1>4. /\ pc' \in [Frame -> Label] /\ pc'[f] = label /\ ret' = ret
      /\ local' \in [Frame -> Local] /\ local'[f] = fresh
      /\ \A g \in Frame \ {f} : pc'[g] = pc[g] /\ local'[g] = local[g]
    BY <1>1, <1>2, <1>3 DEF Begin, Goto
<1>5. Position(f)' = label /\ ~Delivering(f)'
    BY <1>2, <1>4 DEF Position, Delivering
<1>6. ~Busy(f)'
    BY <1>5, EntryFacts DEF Busy, InOperation, Closing
<1>7. fresh.turn = call.turn /\ fresh.after = Rest(f) /\ fresh.closes = FALSE
    BY DEF NoLocal
<1>8. Suits(f, label, fresh)
    BY <1>7, EntryFacts DEF Suits, Belongs, RunnerLabels, StartLabels, CloseLabels, Rest
<1>9. Belongs(f, ret[f])
    BY DEF SessionInvariant, FramesFit, Fits, Own
<1> QED BY <1>1, <1>2, <1>4, <1>5, <1>6, <1>8, <1>9 DEF Moves, Own, Suits

LEMMA BeginCallKeeps ==
    ASSUME SessionInvariant, NEW f \in Frame, BeginCall(f)
    PROVE  SessionInvariant'
<1>1. PICK call \in calls[ThreadOf(f)] :
         Begin(f, call) /\ calls' = [calls EXCEPT ![ThreadOf(f)] = @ \ {call}]
    BY DEF BeginCall
<1>2. call \in SessionCall /\ f # Runner /\ pc[f] = "idle"
    BY FrameFacts DEF BeginCall, SessionInvariant, FrameTypes
<1>3. /\ Moves(f) /\ pc'[f] \in Label \ {"deliver", "rejoin", "absent"}
      /\ ~Busy(f)' /\ ~Delivering(f)'
    BY <1>1, <1>2, BeginMoves
<1>4. ~Busy(f) /\ ~Delivering(f)
    BY <1>2, Sections DEF Busy, Delivering, Position, OperationLabels, CloseLabels
<1>5. LockInvariant'
    BY <1>3, <1>4, IdlingKeepsLock, MovesMoves DEF BeginCall, SessionInvariant
<1>6. FrameTypes'
    BY <1>1, <1>3 DEF BeginCall, SessionInvariant, FrameTypes, Moves
<1>7. FramesFit'
  <2>1. pc[ChildOf(f)] = "absent" \/ IsCallback(f)
      BY <1>2 DEF SessionInvariant, FramesFit, Fits
  <2>2. dispatcher # f /\ dispatcher' = dispatcher
      BY <1>2 DEF SessionInvariant, FramesFit, Fits, BeginCall
  <2>3. Fits(f)'
      BY <1>3, <2>1, <2>2, FrameFacts DEF Fits, Moves
  <2>4. \A g \in Frame \ {f} : Fits(g)'
      BY <1>2, <1>3, <2>2, OthersFit DEF SessionInvariant
  <2> QED BY <2>3, <2>4 DEF FramesFit
<1>8. CallersWait'
  <2>1. Submitted' = Submitted /\ Awaited' = Awaited
      BY DEF Submitted, Awaited, BeginCall
  <2>2. Executed' = Executed
      BY <1>2, <1>3, FrameFacts DEF Executed, Moves
  <2>3. \A g \in Frame : pc[g] = "await_run" => pc'[g] = "await_run"
      BY <1>2, <1>3 DEF Moves
  <2> QED BY <2>1, <2>2, <2>3 DEF SessionInvariant, CallersWait, BeginCall
<1>9. DataTypes'
    BY DEF SessionInvariant, DataTypes, BeginCall
<1> QED BY <1>5, <1>6, <1>7, <1>8, <1>9 DEF SessionInvariant

LEMMA BeginCallbackKeeps ==
    ASSUME SessionInvariant, NEW f \in Frame, BeginCallback(f)
    PROVE  SessionInvariant'
<1> DEFINE c == ChildOf(f)
<1>1. PICK call \in callbackCalls : Begin(c, call) /\ callbackCalls' = callbackCalls \ {call}
    BY DEF BeginCallback
<1>2. /\ call \in SessionCall /\ c \in Frame /\ c # f /\ c # Runner /\ IsCallback(c)
      /\ pc[f] = "deliver" /\ pc[c] = "absent"
    BY <1>1, FrameFacts DEF BeginCallback, SessionInvariant, FrameTypes
<1>3. /\ Moves(c) /\ pc'[c] \in Label \ {"deliver", "rejoin", "absent"}
      /\ ~Busy(c)' /\ ~Delivering(c)'
    BY <1>1, <1>2, BeginMoves
<1>4. ~Busy(c) /\ ~Delivering(c)
    BY <1>2, Sections DEF Busy, Delivering, Position, OperationLabels, CloseLabels
<1>5. LockInvariant'
    BY <1>2, <1>3, <1>4, IdlingKeepsLock, MovesMoves DEF BeginCallback, SessionInvariant
<1>6. FrameTypes'
    BY <1>1, <1>3 DEF BeginCallback, SessionInvariant, FrameTypes, Moves
<1>7. FramesFit'
  <2>1. dispatcher # c /\ dispatcher' = dispatcher
      BY <1>2 DEF SessionInvariant, FramesFit, Fits, BeginCallback
  <2>2. Fits(c)'
      BY <1>2, <1>3, <2>1 DEF Fits, Moves
  <2>3. ASSUME NEW g \in Frame, g # c
        PROVE  Fits(g)'
    <3>1. /\ Position(g)' = Position(g) /\ (Delivering(g)' <=> Delivering(g))
          /\ pc'[g] = pc[g] /\ ret'[g] = ret[g] /\ local'[g] = local[g]
        BY <1>2, <1>3, <2>3, OthersStand, MovesMoves DEF Moves
    <3>2. Own(g)'
        BY <2>3, <3>1 DEF SessionInvariant, FramesFit, Fits, Own
    <3>3. CASE g = f
        BY <1>2, <3>1, <3>2, <3>3 DEF Fits
    <3>4. CASE g # f
      <4>1. ~IsCallback(g) => ChildOf(g) # c
          BY <1>2, <2>3, <3>4 DEF ChildOf, IsCallback, Frame, BeginCallback
      <4>2. ~IsCallback(g) => pc'[ChildOf(g)] = pc[ChildOf(g)]
          BY <1>3, <4>1, FrameFacts DEF Moves
      <4> QED BY <2>1, <2>3, <3>1, <3>2, <4>2 DEF SessionInvariant, FramesFit, Fits
    <3> QED BY <3>3, <3>4
  <2> QED BY <2>2, <2>3 DEF FramesFit
<1>8. CallersWait'
  <2>1. Submitted' = Submitted /\ Awaited' = Awaited
      BY DEF Submitted, Awaited, BeginCallback
  <2>2. Executed' = Executed
      BY <1>2, <1>3, FrameFacts DEF Executed, Moves
  <2>3. \A g \in Frame : pc[g] = "await_run" => pc'[g] = "await_run"
      BY <1>2, <1>3 DEF Moves
  <2> QED BY <2>1, <2>2, <2>3 DEF SessionInvariant, CallersWait, BeginCallback
<1>9. DataTypes'
    BY DEF SessionInvariant, DataTypes, BeginCallback
<1> QED BY <1>5, <1>6, <1>7, <1>8, <1>9 DEF SessionInvariant

LEMMA FinishDeliveryKeeps ==
    ASSUME SessionInvariant, NEW f \in Frame, FinishDelivery(f)
    PROVE  SessionInvariant'
<1>1. /\ pc \in [Frame -> Label] /\ pc[f] = "deliver" /\ pc' = [pc EXCEPT ![f] = "rejoin"]
      /\ UNCHANGED <<ret, local, operation, depth, windowed, closed>>
    BY DEF FinishDelivery, Goto, SessionInvariant, FrameTypes
<1>2. \A g \in Frame : /\ Position(g)' = Position(g) /\ (Delivering(g)' <=> Delivering(g))
                       /\ InOperation(g)' <=> InOperation(g)
                       /\ Closing(g)' <=> Closing(g)
    BY <1>1 DEF Position, Delivering, InOperation, Closing
<1>3. LockInvariant'
    BY <1>1, <1>2, StandingKeepsLock DEF Stands, SessionInvariant, LockInvariant
<1>4. FrameTypes'
    BY <1>1 DEF FinishDelivery, SessionInvariant, FrameTypes, Label
<1>5. FramesFit'
  <2> SUFFICES ASSUME NEW g \in Frame
               PROVE  Fits(g)'
      BY DEF FramesFit
  <2>1. Fits(g) /\ Own(g)
      BY DEF SessionInvariant, FramesFit, Fits
  <2>2. Belongs(g, pc'[g])
      BY <1>1, <2>1 DEF Own, Belongs, RunnerProgram, RunnerLabels
  <2>3. Own(g)'
      BY <1>1, <1>2, <2>1, <2>2 DEF Own
  <2>4. ~IsCallback(g) /\ pc'[ChildOf(g)] # "absent" => pc'[g] = "deliver"
      BY <1>1, <2>1, FrameFacts DEF Fits, FinishDelivery
  <2>5. dispatcher' = g => pc'[g] = "deliver"
      BY <1>1, <2>1, FrameFacts DEF Fits, FinishDelivery
  <2> QED BY <2>3, <2>4, <2>5 DEF Fits
<1>6. CallersWait'
  <2>1. Submitted' = Submitted /\ Awaited' = Awaited
      BY DEF Submitted, Awaited, FinishDelivery
  <2>2. Executed' = Executed
      BY <1>1, FrameFacts DEF Executed
  <2>3. \A g \in Frame : pc[g] = "await_run" => pc'[g] = "await_run"
      BY <1>1
  <2> QED BY <2>1, <2>2, <2>3 DEF SessionInvariant, CallersWait, FinishDelivery
<1>7. DataTypes'
    BY DEF SessionInvariant, DataTypes, FinishDelivery
<1> QED BY <1>3, <1>4, <1>5, <1>6, <1>7 DEF SessionInvariant

LEMMA RejoinKeeps ==
    ASSUME SessionInvariant, NEW f \in Frame, Rejoin(f)
    PROVE  SessionInvariant'
<1>1. /\ pc \in [Frame -> Label] /\ pc[f] = "rejoin" /\ pc' = [pc EXCEPT ![f] = ret[f]]
      /\ ret[f] \in Resumption /\ UNCHANGED <<ret, local, depth, closed>>
    BY DEF Rejoin, Goto, SessionInvariant, FrameTypes, FramesFit, Fits, Own, Delivering
<1>2. ret[f] \notin {"deliver", "rejoin", "idle", "absent"} /\ ret[f] \in Label
    BY <1>1 DEF Resumption
<1>3. \A g \in Frame : /\ Position(g)' = Position(g)
                       /\ InOperation(g)' <=> InOperation(g)
                       /\ Closing(g)' <=> Closing(g)
    BY <1>1, <1>2 DEF Position, Delivering, InOperation, Closing
<1>4. \A g \in Frame \ {f} : Delivering(g)' <=> Delivering(g)
    BY <1>1 DEF Delivering
<1>5. Delivering(f) /\ ~Delivering(f)'
    BY <1>1, <1>2 DEF Delivering
<1>6. LockInvariant'
    BY <1>1, <1>3, <1>4, <1>5, RejoiningKeepsLock
       DEF Rejoin, Stands, SessionInvariant, LockInvariant
<1>7. FrameTypes'
    BY <1>1, <1>2 DEF Rejoin, SessionInvariant, FrameTypes
<1>8. FramesFit'
  <2> SUFFICES ASSUME NEW g \in Frame
               PROVE  Fits(g)'
      BY DEF FramesFit
  <2>1. Fits(g) /\ Own(g)
      BY DEF SessionInvariant, FramesFit, Fits
  <2>2. Own(g)'
      BY <1>1, <1>2, <1>3, <2>1 DEF Own, Delivering
  <2>3. ~IsCallback(g) /\ pc'[ChildOf(g)] # "absent" => pc'[g] = "deliver"
      BY <1>1, <2>1, FrameFacts DEF Fits
  <2>4. dispatcher' = g => pc'[g] = "deliver"
      BY <1>1, <2>1, FrameFacts DEF Fits, Rejoin
  <2> QED BY <2>2, <2>3, <2>4 DEF Fits
<1>9. CallersWait'
  <2>1. Submitted' = Submitted /\ Awaited' = Awaited
      BY DEF Submitted, Awaited, Rejoin
  <2>2. Executed' = Executed
      BY <1>1, <1>2, FrameFacts DEF Executed
  <2>3. \A g \in Frame : pc[g] = "await_run" => pc'[g] = "await_run"
      BY <1>1
  <2> QED BY <2>1, <2>2, <2>3 DEF SessionInvariant, CallersWait, Rejoin
<1>10. DataTypes'
    BY DEF SessionInvariant, DataTypes, Rejoin
<1> QED BY <1>6, <1>7, <1>8, <1>9, <1>10 DEF SessionInvariant

-----------------------------------------------------------------------------
(* Coroutines and their callers.                                            *)

LEMMA AppendedCaller ==
    ASSUME NEW queue \in Seq(Coroutine), NEW entry \in Coroutine,
           entry.caller \notin CallersOf(queue), Distinct(queue)
    PROVE  /\ CallersOf(Append(queue, entry)) = CallersOf(queue) \cup {entry.caller}
           /\ Distinct(Append(queue, entry))
<1> DEFINE longer == Append(queue, entry)
<1>1. /\ Len(longer) = Len(queue) + 1 /\ Len(queue) \in Nat
      /\ longer[Len(queue) + 1] = entry
      /\ \A i \in 1 .. Len(queue) : longer[i] = queue[i]
    BY AppendProperties
<1>2. \A i \in 1 .. Len(longer) : i \in 1 .. Len(queue) \/ i = Len(queue) + 1
    BY <1>1
<1>3. \A i \in 1 .. Len(queue) : i \in 1 .. Len(longer)
    BY <1>1
<1>4. Len(queue) + 1 \in 1 .. Len(longer)
    BY <1>1
<1> HIDE DEF longer
<1>5. CallersOf(longer) = CallersOf(queue) \cup {entry.caller}
    BY <1>1, <1>2, <1>3, <1>4 DEF CallersOf
<1>6. Distinct(longer)
    BY <1>1, <1>2 DEF Distinct, CallersOf
<1> QED BY <1>5, <1>6 DEF longer

LEMMA HeadCaller ==
    ASSUME NEW queue \in Seq(Coroutine), queue # <<>>, Distinct(queue)
    PROVE  /\ Head(queue) \in Coroutine /\ Head(queue).caller \in CallersOf(queue)
           /\ CallersOf(Tail(queue)) = CallersOf(queue) \ {Head(queue).caller}
           /\ Distinct(Tail(queue)) /\ Tail(queue) \in Seq(Coroutine)
<1> DEFINE rest == Tail(queue)
<1>1. /\ Head(queue) = queue[1] /\ Head(queue) \in Coroutine /\ rest \in Seq(Coroutine)
      /\ Len(queue) \in Nat /\ Len(queue) >= 1 /\ Len(rest) = Len(queue) - 1
      /\ \A i \in 1 .. Len(rest) : rest[i] = queue[i + 1]
    BY HeadTailProperties, EmptySeq
<1>2. \A i \in 1 .. Len(rest) : i + 1 \in 1 .. Len(queue) /\ i + 1 # 1
    BY <1>1
<1>3. \A i \in 1 .. Len(queue) : i # 1 => i - 1 \in 1 .. Len(rest) /\ queue[i] = rest[i - 1]
    BY <1>1
<1>4. 1 \in 1 .. Len(queue)
    BY <1>1
<1> HIDE DEF rest
<1>5. CallersOf(rest) = CallersOf(queue) \ {Head(queue).caller}
  <2>1. ASSUME NEW i \in 1 .. Len(rest)
        PROVE  rest[i].caller \in CallersOf(queue) \ {Head(queue).caller}
      BY <1>1, <1>2, <1>4 DEF CallersOf, Distinct
  <2>2. ASSUME NEW i \in 1 .. Len(queue), queue[i].caller # Head(queue).caller
        PROVE  queue[i].caller \in CallersOf(rest)
      BY <1>1, <1>3, <2>2 DEF CallersOf
  <2> QED BY <2>1, <2>2 DEF CallersOf
<1>6. Distinct(rest)
  <2> SUFFICES ASSUME NEW i \in 1 .. Len(rest), NEW j \in 1 .. Len(rest),
                      rest[i].caller = rest[j].caller
               PROVE  i = j
      BY DEF Distinct
  <2>1. i + 1 = j + 1
      BY <1>1, <1>2 DEF Distinct
  <2> QED BY <2>1
<1> QED BY <1>1, <1>4, <1>5, <1>6 DEF CallersOf, rest

LEMMA SubmitKeeps ==
    ASSUME SessionInvariant, NEW f \in Frame, Submit(f)
    PROVE  SessionInvariant'
<1>1. pc[f] = "submit" /\ pc[f] \notin Still /\ ~Busy(f)
    BY DEF Submit, Still, Busy, InOperation, Closing, Position, Delivering
<1>2. /\ Suits(f, "submit", local[f]) /\ local[f] \in Local
      /\ local' = local => SetLocal(f, local[f])
    BY <1>1, Here
<1>3. DataTypes'
    BY DEF SessionInvariant, DataTypes, Submit
<1>4. CASE bridgeClosed
  <2> DEFINE carried == [local[f] EXCEPT !.error = TRUE]
  <2>1. carried \in Local /\ carried.caller = local[f].caller
      BY <1>2 DEF Local
  <2>2. Suits(f, Rest(f), carried) /\ Rest(f) \in Label \ {"deliver", "rejoin", "await_run"}
      BY <1>2, FrameFacts
         DEF Local, Suits, Belongs, RunnerProgram, Rest, RunnerLabels, StartLabels, CloseLabels,
             OtherLabels, Label
  <2>3. Goto(f, Rest(f)) /\ SetLocal(f, carried) /\ UNCHANGED <<ret, dispatcher, Steady>>
      BY <1>4 DEF Submit, Finish
  <2>4. Goes(f)
    <3> HIDE DEF carried
    <3> QED BY <1>1, <2>1, <2>2, <2>3, WalkGoes
  <2>5. LockInvariant'
      BY <1>1, <2>3, <2>4, WalkingKeepsLock
         DEF Submit, SessionInvariant, FrameTypes, Goto, Rest, SameSection,
             OperationLabels, CloseLabels
  <2> QED BY <1>3, <2>4, <2>5, GoingKeepsInvariant
<1>5. CASE ~bridgeClosed
  <2> DEFINE entry == [turn |-> local[f].turn, caller |-> f, generation |-> local[f].generation]
  <2>1. /\ pc \in [Frame -> Label] /\ pc' = [pc EXCEPT ![f] = "await_run"]
        /\ UNCHANGED <<ret, local, dispatcher>> /\ runQueue' = Append(runQueue, entry)
      BY <1>5 DEF Submit, Goto, SessionInvariant, FrameTypes
  <2>2. entry \in Coroutine
      BY <1>2 DEF Suits, StartLabels, Local, Coroutine, TurnOrNone
  <2>3. Moves(f)
    <3>1. f # Runner
        BY <1>2 DEF Suits, Belongs, RunnerProgram, RunnerLabels, CloseLabels
    <3>2. Suits(f, "await_run", local[f])
        BY <1>2, <3>1 DEF Suits, Belongs, RunnerLabels, StartLabels, CloseLabels
    <3>3. Position(f)' = "await_run" /\ ~Delivering(f)'
        BY <2>1 DEF Position, Delivering
    <3>4. Belongs(f, ret[f])
        BY DEF SessionInvariant, FramesFit, Fits, Own
    <3> QED BY <2>1, <3>2, <3>3, <3>4 DEF Moves, Own, Suits, SessionInvariant, FrameTypes, Label
  <2>4. ~Busy(f)' /\ (Delivering(f)' <=> Delivering(f))
      BY <1>1, <2>1 DEF Busy, InOperation, Closing, Position, Delivering
  <2>5. LockInvariant'
      BY <1>1, <2>3, <2>4, IdlingKeepsLock, MovesMoves DEF Submit, SessionInvariant
  <2>6. f \notin Submitted \cup Awaited \cup Executed
      BY <1>1 DEF SessionInvariant, CallersWait
  <2>7. /\ runQueue \in Seq(Coroutine) /\ Distinct(runQueue)
        /\ f \notin CallersOf(runQueue) /\ entry.caller = f
      BY <2>6 DEF SessionInvariant, FrameTypes, CallersWait, Submitted
  <2>8. /\ Submitted' = Submitted \cup {f} /\ Distinct(runQueue')
        /\ runQueue' \in Seq(Coroutine)
    <3> HIDE DEF entry
    <3> QED BY <2>1, <2>2, <2>7, AppendedCaller, AppendProperties DEF Submitted
  <2>9. FrameTypes'
      BY <2>1, <2>3, <2>8 DEF Submit, SessionInvariant, FrameTypes, Moves
  <2>10. FramesFit'
    <3>1. pc[ChildOf(f)] = "absent" \/ IsCallback(f)
        BY <1>1 DEF SessionInvariant, FramesFit, Fits
    <3>2. dispatcher # f
        BY <1>1 DEF SessionInvariant, FramesFit, Fits
    <3>3. Fits(f)'
        BY <2>1, <2>3, <3>1, <3>2, FrameFacts DEF Fits, Moves
    <3>4. \A g \in Frame \ {f} : Fits(g)'
        BY <1>1, <2>1, <2>3, OthersFit DEF SessionInvariant
    <3> QED BY <3>3, <3>4 DEF FramesFit
  <2>11. CallersWait'
    <3>1. Awaited' = Awaited /\ awaiting' = awaiting
        BY DEF Awaited, Submit
    <3>2. Executed' = Executed
        BY <1>1, <2>1, FrameFacts DEF Executed
    <3>3. pc'[f] = "await_run" /\ \A g \in Frame : pc[g] = "await_run" => pc'[g] = "await_run"
        BY <2>1
    <3> QED BY <2>6, <2>8, <3>1, <3>2, <3>3 DEF SessionInvariant, CallersWait
  <2> QED BY <1>3, <2>5, <2>9, <2>10, <2>11 DEF SessionInvariant
<1> QED BY <1>4, <1>5

LEMMA RunTakeKeeps ==
    ASSUME SessionInvariant, RunTake
    PROVE  SessionInvariant'
<1> DEFINE entry == Head(runQueue)
           fresh == [NoLocal EXCEPT !.turn = entry.turn, !.generation = entry.generation,
                                    !.caller = entry.caller]
<1>1. /\ pc \in [Frame -> Label] /\ ret \in [Frame -> Label] /\ local \in [Frame -> Local]
      /\ Runner \in Frame /\ pc[Runner] = "idle" /\ pc' = [pc EXCEPT ![Runner] = "run_enter"]
      /\ local' = [local EXCEPT ![Runner] = fresh]
      /\ UNCHANGED <<ret, dispatcher, awaiting>> /\ runQueue' = Tail(runQueue)
    BY FrameFacts DEF RunTake, Goto, SetLocal, SessionInvariant, FrameTypes
<1>2. /\ entry \in Coroutine /\ entry.caller \in Submitted
      /\ Submitted' = Submitted \ {entry.caller} /\ Distinct(runQueue')
      /\ runQueue' \in Seq(Coroutine)
    BY <1>1, HeadCaller DEF RunTake, SessionInvariant, FrameTypes, CallersWait, Submitted
<1> HIDE DEF entry
<1>3. fresh \in Local /\ fresh.turn # NoTurn /\ fresh.caller = entry.caller
      /\ fresh.after = "none" /\ fresh.closes = FALSE
  <2>1. 0 \in 0 .. MaxGenerations /\ 0 \in 0 .. 7
      OBVIOUS
  <2>2. NoLocal \in Local
      BY <2>1 DEF NoLocal, Local, TurnOrNone, Answers
  <2>3. /\ entry.turn \in Turn /\ entry.generation \in 0 .. MaxGenerations
        /\ entry.caller \in Frame
      BY <1>2 DEF Coroutine
  <2>4. fresh \in Local
      BY <2>2, <2>3 DEF Local, TurnOrNone
  <2> QED BY <2>3, <2>4 DEF NoLocal
<1> HIDE DEF fresh
<1>4. Moves(Runner)
  <2>1. Suits(Runner, "run_enter", fresh)
      BY <1>3 DEF Suits, Belongs, RunnerProgram, RunnerLabels, StartLabels, CloseLabels
  <2>2. Position(Runner)' = "run_enter" /\ ~Delivering(Runner)'
      BY <1>1 DEF Position, Delivering
  <2>3. Belongs(Runner, ret[Runner])
      BY <1>1 DEF SessionInvariant, FramesFit, Fits, Own
  <2> QED BY <1>1, <1>3, <2>1, <2>2, <2>3 DEF Moves, Own, Suits, Label, RunnerLabels
<1>5. ~Busy(Runner) /\ ~Busy(Runner)' /\ (Delivering(Runner)' <=> Delivering(Runner))
    BY <1>1 DEF Busy, InOperation, Closing, Position, Delivering
<1>6. LockInvariant'
    BY <1>1, <1>4, <1>5, IdlingKeepsLock, MovesMoves DEF RunTake, SessionInvariant
<1>7. FrameTypes'
    BY <1>1, <1>2, <1>4 DEF RunTake, SessionInvariant, FrameTypes, Moves
<1>8. FramesFit'
  <2>1. pc[ChildOf(Runner)] = "absent" /\ dispatcher # Runner
      BY <1>1, FrameFacts DEF SessionInvariant, FramesFit, Fits
  <2>2. Fits(Runner)'
      BY <1>1, <1>4, <2>1, FrameFacts DEF Fits, Moves
  <2>3. \A g \in Frame \ {Runner} : Fits(g)'
      BY <1>1, <1>4, OthersFit DEF SessionInvariant
  <2> QED BY <2>2, <2>3 DEF FramesFit
<1>9. CallersWait'
  <2>1. Awaited' = Awaited
      BY <1>1 DEF Awaited
  <2>2. Executed = {} /\ Executed' = {entry.caller}
      BY <1>1, <1>3 DEF Executed
  <2>3. \A g \in Frame : pc[g] = "await_run" => pc'[g] = "await_run"
      BY <1>1
  <2> QED BY <1>1, <1>2, <2>1, <2>2, <2>3 DEF SessionInvariant, CallersWait
<1>10. DataTypes'
  <2>1. entry.turn \in Turn
      BY <1>2 DEF Coroutine
  <2> QED BY <2>1 DEF SessionInvariant, DataTypes, RunTake, entry
<1> QED BY <1>6, <1>7, <1>8, <1>9, <1>10 DEF SessionInvariant

(* A caller gets its answer, or is abandoned by a bridge that was stopped.     *)
LEMMA AnsweringKeeps ==
    ASSUME SessionInvariant, NEW caller \in Frame, pc[caller] = "await_run",
           Answer(caller, Runner, "idle"), pc[Runner] \in {"idle", "run_finish"},
           UNCHANGED <<ret, local, dispatcher, operation, depth, windowed, closed>>
    PROVE  /\ pc' \in [Frame -> Label] /\ pc'[Runner] = "idle"
           /\ \A g \in Frame \ {caller, Runner} : pc'[g] = pc[g]
           /\ FramesFit' /\ LockInvariant'
<1>1. PICK label \in {Rest(caller), "abandoned"} :
         pc' = [pc EXCEPT ![caller] = label, ![Runner] = "idle"]
    BY DEF Answer
<1>2. pc \in [Frame -> Label] /\ Runner \in Frame /\ ~IsCallback(Runner)
    BY FrameFacts DEF SessionInvariant, FrameTypes
<1>3. \A g \in Frame : Own(g) /\ Fits(g)
    BY DEF SessionInvariant, FramesFit, Fits
<1>4. caller # Runner
    BY <1>2
<1>5. /\ pc'[Runner] = "idle" /\ pc'[caller] = label
      /\ \A g \in Frame \ {caller, Runner} : pc'[g] = pc[g]
    BY <1>1, <1>2, <1>4
<1>6. pc' \in [Frame -> Label]
    BY <1>1, <1>2 DEF Label, Rest, OtherLabels
<1>7. \A g \in Frame : Delivering(g)' <=> Delivering(g)
    BY <1>5 DEF Delivering, Rest
<1>8. \A g \in Frame : Stands(g)
  <2>1. \A g \in Frame \ {caller, Runner} : Stands(g)
      BY <1>5 DEF Stands, InOperation, Closing, Position, Delivering, SessionInvariant,
              LockInvariant
  <2>2. Stands(Runner) /\ Stands(caller)
      BY <1>5 DEF Stands, InOperation, Closing, Position, Delivering, Rest
  <2> QED BY <2>1, <2>2
<1>9. LockInvariant'
    BY <1>7, <1>8, StandingKeepsLock DEF SessionInvariant
<1>10. ASSUME NEW g \in Frame
       PROVE  Own(g)'
  <2>1. CASE g = Runner
    <3>1. Position(g)' = "idle" /\ Position(g) = pc[g] /\ ~Delivering(g)'
        BY <1>5, <2>1 DEF Position, Delivering
    <3> QED BY <1>3, <1>5, <2>1, <3>1
            DEF Own, Suits, Belongs, RunnerProgram, RunnerLabels, CloseLabels, StartLabels
  <2>2. CASE g = caller
    <3>1. Position(g)' = label /\ Position(g) = "await_run" /\ ~Delivering(g)'
        BY <1>5, <2>2 DEF Position, Delivering, Rest
    <3>2. Suits(g, label, local[g])
        BY <1>3, <1>4, <2>2, <3>1
           DEF Own, Suits, Belongs, Rest, RunnerLabels, CloseLabels, StartLabels
    <3> QED BY <1>3, <1>4, <1>5, <2>2, <3>1, <3>2 DEF Own, Suits
  <2>3. CASE g \notin {caller, Runner}
    <3>1. Position(g)' = Position(g) /\ (Delivering(g)' <=> Delivering(g)) /\ pc'[g] = pc[g]
        BY <1>5, <2>3 DEF Position, Delivering
    <3> QED BY <1>3, <3>1 DEF Own
  <2> QED BY <2>1, <2>2, <2>3
<1>11. ASSUME NEW g \in Frame
       PROVE  Fits(g)'
  <2>1. dispatcher' = g => pc'[g] = "deliver"
      BY <1>3, <1>5 DEF Fits
  <2>2. ASSUME ~IsCallback(g), pc'[ChildOf(g)] # "absent"
        PROVE  pc'[g] = "deliver"
    <3>1. pc[ChildOf(g)] # "absent"
        BY <1>2, <1>5, <2>2, FrameFacts
    <3>2. pc[g] = "deliver"
        BY <1>3, <2>2, <3>1 DEF Fits
    <3> QED BY <1>5, <3>2
  <2> QED BY <1>10, <2>1, <2>2 DEF Fits
<1> QED BY <1>5, <1>6, <1>9, <1>11 DEF FramesFit

LEMMA AnswerKeeps ==
    ASSUME SessionInvariant, NEW caller \in Submitted \cup Awaited \cup Executed,
           Answer(caller, Runner, "idle"), pc[Runner] \in {"idle", "run_finish"},
           UNCHANGED <<ret, local, dispatcher, operation, depth, windowed, closed, calls,
                       callbackCalls>>,
           runQueue' \in Seq(Coroutine), Distinct(runQueue'), awaiting' \subseteq awaiting,
           Submitted' \subseteq Submitted \ {caller}, Awaited' \subseteq Awaited \ {caller},
           DataTypes'
    PROVE  SessionInvariant'
<1>1. caller \in Frame /\ pc[caller] = "await_run"
    BY DEF SessionInvariant, CallersWait
<1>2. /\ pc' \in [Frame -> Label] /\ pc'[Runner] = "idle"
      /\ \A g \in Frame \ {caller, Runner} : pc'[g] = pc[g]
      /\ FramesFit' /\ LockInvariant'
    BY <1>1, AnsweringKeeps
<1>3. FrameTypes'
    BY <1>2 DEF SessionInvariant, FrameTypes
<1>4. CallersWait'
  <2>1. Executed' = {}
      BY <1>2 DEF Executed
  <2>2. \A g \in Submitted' \cup Awaited' : g \in Frame /\ pc[g] = "await_run" /\ g # caller
      BY DEF SessionInvariant, CallersWait
  <2>3. \A g \in Submitted' \cup Awaited' : g \in Frame /\ pc'[g] = "await_run"
      BY <1>2, <2>2
  <2> QED BY <2>1, <2>3 DEF SessionInvariant, CallersWait
<1> QED BY <1>2, <1>3, <1>4 DEF SessionInvariant

LEMMA QueueAnswered ==
    ASSUME SessionInvariant, pc[Runner] = "idle"
    PROVE  /\ runQueue # <<>> =>
                /\ Head(runQueue).caller \in Submitted /\ Distinct(Tail(runQueue))
                /\ Tail(runQueue) \in Seq(Coroutine)
                /\ CallersOf(Tail(runQueue)) = Submitted \ {Head(runQueue).caller}
                /\ Head(runQueue).caller \notin Awaited
           /\ \A parked \in awaiting :
                /\ parked.caller \in Awaited /\ parked.caller \notin Submitted
                /\ {other.caller : other \in awaiting \ {parked}} = Awaited \ {parked.caller}
<1>1. runQueue \in Seq(Coroutine) /\ Distinct(runQueue) /\ Submitted \cap Awaited = {}
      /\ \A a, b \in awaiting : a.caller = b.caller => a = b
    BY DEF SessionInvariant, FrameTypes, CallersWait
<1> QED BY <1>1, HeadCaller DEF Submitted, Awaited

LEMMA RunFinishKeeps ==
    ASSUME SessionInvariant, RunFinish
    PROVE  SessionInvariant'
<1>1. /\ local[Runner].caller \in Executed /\ Executed \cap (Submitted \cup Awaited) = {}
      /\ UNCHANGED <<runQueue, awaiting>> /\ pc[Runner] = "run_finish"
    BY DEF RunFinish, Executed, SessionInvariant, CallersWait
<1>2. Submitted' = Submitted /\ Awaited' = Awaited
    BY <1>1 DEF Submitted, Awaited
<1>3. DataTypes' /\ runQueue' \in Seq(Coroutine) /\ Distinct(runQueue')
    BY <1>1 DEF SessionInvariant, DataTypes, RunFinish, FrameTypes, CallersWait
<1> QED BY <1>1, <1>2, <1>3, AnswerKeeps DEF RunFinish

LEMMA RunResumeKeeps ==
    ASSUME SessionInvariant, RunResume
    PROVE  SessionInvariant'
<1>1. PICK parked \in awaiting :
         awaiting' = awaiting \ {parked} /\ Answer(parked.caller, Runner, "idle")
    BY DEF RunResume
<1>2. DataTypes' /\ runQueue' \in Seq(Coroutine) /\ Distinct(runQueue')
    BY DEF SessionInvariant, DataTypes, RunResume, FrameTypes, CallersWait
<1>3. Submitted' = Submitted /\ Awaited' = {other.caller : other \in awaiting \ {parked}}
    BY <1>1 DEF Submitted, Awaited, RunResume
<1>4. /\ parked.caller \in Awaited /\ parked.caller \notin Submitted
      /\ Awaited' = Awaited \ {parked.caller}
    BY <1>3, QueueAnswered DEF RunResume
<1> QED BY <1>1, <1>2, <1>3, <1>4, AnswerKeeps DEF RunResume

LEMMA CancelSubmittedKeeps ==
    ASSUME SessionInvariant, CancelSubmitted
    PROVE  SessionInvariant'
<1>1. DataTypes' /\ pc[Runner] = "idle"
    BY DEF SessionInvariant, DataTypes, CancelSubmitted
<1>2. CASE /\ runQueue # <<>> /\ Answer(Head(runQueue).caller, Runner, "idle")
           /\ runQueue' = Tail(runQueue) /\ UNCHANGED awaiting
  <2>1. /\ Head(runQueue).caller \in Submitted \ Awaited /\ runQueue' \in Seq(Coroutine)
        /\ Distinct(runQueue') /\ Submitted' = Submitted \ {Head(runQueue).caller}
      BY <1>1, <1>2, QueueAnswered DEF Submitted
  <2>2. Awaited' = Awaited
      BY <1>2 DEF Awaited
  <2> QED BY <1>1, <1>2, <2>1, <2>2, AnswerKeeps DEF CancelSubmitted
<1>3. ASSUME NEW parked \in awaiting, Answer(parked.caller, Runner, "idle"),
             awaiting' = awaiting \ {parked}, UNCHANGED runQueue
      PROVE  SessionInvariant'
  <2>1. Submitted' = Submitted /\ Awaited' = {other.caller : other \in awaiting \ {parked}}
      BY <1>3 DEF Submitted, Awaited
  <2>2. /\ parked.caller \in Awaited /\ parked.caller \notin Submitted
        /\ Awaited' = Awaited \ {parked.caller}
      BY <1>1, <2>1, QueueAnswered
  <2>3. runQueue' \in Seq(Coroutine) /\ Distinct(runQueue')
      BY <1>3 DEF SessionInvariant, FrameTypes, CallersWait
  <2> QED BY <1>1, <1>3, <2>1, <2>2, <2>3, AnswerKeeps DEF CancelSubmitted
<1> QED BY <1>2, <1>3 DEF CancelSubmitted

LEMMA RunParkKeeps ==
    ASSUME SessionInvariant, RunPark
    PROVE  SessionInvariant'
<1> DEFINE parked == [turn |-> RunnerTurn, caller |-> local[Runner].caller]
<1>1. /\ pc \in [Frame -> Label] /\ ret \in [Frame -> Label] /\ local \in [Frame -> Local]
      /\ Runner \in Frame /\ ~IsCallback(Runner) /\ pc[Runner] = "run_park"
      /\ pc' = [pc EXCEPT ![Runner] = "idle"] /\ awaiting' = awaiting \cup {parked}
      /\ UNCHANGED <<ret, local, dispatcher, runQueue, calls, callbackCalls>>
    BY FrameFacts DEF RunPark, Goto, SessionInvariant, FrameTypes
<1>2. Fits(Runner) /\ Own(Runner) /\ Suits(Runner, "run_park", local[Runner])
    BY <1>1 DEF SessionInvariant, FramesFit, Fits, Own, Position, Delivering
<1>3. parked \in Parked
  <2>1. local[Runner].turn \in Turn
      BY <1>1, <1>2, LocalTypes DEF Suits, TurnOrNone
  <2>2. local[Runner].caller \in Frame
      BY <1>1 DEF SessionInvariant, CallersWait, Executed
  <2> QED BY <2>1, <2>2 DEF Parked, RunnerTurn
<1>4. Executed = {parked.caller} /\ Executed' = {}
    BY <1>1 DEF Executed
<1> HIDE DEF parked
<1>5. Moves(Runner)
  <2>1. Suits(Runner, "idle", local[Runner])
      BY <1>2 DEF Suits, Belongs, RunnerProgram, RunnerLabels, StartLabels, CloseLabels
  <2>2. Position(Runner)' = "idle" /\ ~Delivering(Runner)'
      BY <1>1 DEF Position, Delivering
  <2> QED BY <1>1, <1>2, <2>1, <2>2 DEF Moves, Own, Suits, Label
<1>6. ~Busy(Runner) /\ ~Busy(Runner)' /\ (Delivering(Runner)' <=> Delivering(Runner))
    BY <1>1 DEF Busy, InOperation, Closing, Position, Delivering
<1>7. LockInvariant'
    BY <1>1, <1>5, <1>6, IdlingKeepsLock, MovesMoves DEF RunPark, SessionInvariant
<1>8. FrameTypes'
    BY <1>1, <1>3, <1>5 DEF SessionInvariant, FrameTypes, Moves
<1>9. FramesFit'
  <2>1. pc[ChildOf(Runner)] = "absent" /\ dispatcher # Runner
      BY <1>1, <1>2 DEF Fits
  <2>2. Fits(Runner)'
      BY <1>1, <1>5, <2>1, FrameFacts DEF Fits, Moves
  <2>3. \A g \in Frame \ {Runner} : Fits(g)'
      BY <1>1, <1>5, OthersFit DEF SessionInvariant
  <2> QED BY <2>2, <2>3 DEF FramesFit
<1>10. CallersWait'
  <2>1. Submitted' = Submitted /\ Awaited' = Awaited \cup {parked.caller}
      BY <1>1 DEF Submitted, Awaited
  <2>2. parked.caller \notin Submitted \cup Awaited
      BY <1>4 DEF SessionInvariant, CallersWait
  <2>3. \A a, b \in awaiting' : a.caller = b.caller => a = b
      BY <1>1, <2>2 DEF SessionInvariant, CallersWait, Awaited
  <2>4. \A g \in Frame : pc[g] = "await_run" => pc'[g] = "await_run"
      BY <1>1
  <2> QED BY <1>1, <1>4, <2>1, <2>2, <2>3, <2>4 DEF SessionInvariant, CallersWait
<1>11. DataTypes'
    BY DEF SessionInvariant, DataTypes, RunPark
<1> QED BY <1>7, <1>8, <1>9, <1>10, <1>11 DEF SessionInvariant

LEMMA PrepareOrSubscribeKeeps ==
    ASSUME SessionInvariant, NEW f \in Frame, Prepare(f) \/ Subscribe(f)
    PROVE  SessionInvariant'
<1>1. DataTypes'
    BY DEF SessionInvariant, DataTypes, Prepare, Subscribe
<1>2. Goes(f)
    BY PrepareGoes, SubscribeGoes
<1>3. LockInvariant'
    BY <1>2, WalkingKeepsLock
       DEF Prepare, Subscribe, SessionInvariant, FrameTypes, Goto, Rest, SameSection,
           OperationLabels, CloseLabels
<1> QED BY <1>1, <1>2, <1>3, GoingKeepsInvariant

-----------------------------------------------------------------------------
(* The invariant holds.                                                     *)

LEMMA InitEstablishes == Init => SessionInvariant
<1> SUFFICES ASSUME Init
             PROVE  SessionInvariant
    OBVIOUS
<1>1. /\ \A f \in Frame : pc[f] = Rest(f) /\ ret[f] = Rest(f) /\ local[f] = NoLocal
      /\ runQueue = <<>> /\ awaiting = {} /\ operation = NoFrame /\ windowed = {} /\ depth = 0
      /\ dispatcher = NoFrame
    BY DEF Init
<1>2. NoLocal \in Local
  <2>1. 0 \in 0 .. MaxGenerations /\ 0 \in 0 .. 7
      OBVIOUS
  <2> QED BY <2>1 DEF NoLocal, Local, TurnOrNone, Answers
<1>3. FrameTypes
  <2>1. \A f \in Frame : Rest(f) \in Label
      BY DEF Rest, Label, OtherLabels
  <2>2. calls \in [Host -> SUBSET SessionCall] /\ callbackCalls \in SUBSET SessionCall
      BY ScenarioAssumption DEF Init
  <2>3. runQueue \in Seq(Coroutine)
      BY <1>1
  <2>4. pc \in [Frame -> Label] /\ ret \in [Frame -> Label] /\ local \in [Frame -> Local]
      BY <1>2, <2>1 DEF Init
  <2> QED BY <1>1, <2>2, <2>3, <2>4 DEF FrameTypes
<1>4. DataTypes
  <2>1. records \in Seq(Registry!Record)
      BY DEF Init
  <2>2. interrupts \in [Turn -> InterruptWork]
      BY DEF Init, NoWork, InterruptWork, Standing
  <2> QED BY <2>1, <2>2, NoContextTyped DEF Init, DataTypes, Phase, TurnOrNone
<1>5. \A f \in Frame : /\ Position(f) = Rest(f) /\ ~Delivering(f)
                       /\ ~InOperation(f) /\ ~Closing(f)
    BY <1>1 DEF Position, Delivering, InOperation, Closing, Rest
<1>6. FramesFit
  <2> SUFFICES ASSUME NEW f \in Frame
               PROVE  Fits(f)
      BY DEF FramesFit
  <2>1. Suits(f, Rest(f), NoLocal)
      BY FrameFacts
         DEF Suits, Belongs, RunnerProgram, Rest, NoLocal, RunnerLabels, StartLabels,
             CloseLabels
  <2>2. Own(f)
      BY <1>1, <1>5, <2>1 DEF Own, Suits
  <2> QED BY <1>1, <2>2, FrameFacts DEF Fits, Rest
<1>7. LockInvariant
  <2>1. Operations = {} /\ \A f \in Frame : ~Busy(f)
      BY <1>5 DEF Operations, Busy
  <2>2. IsFiniteSet(Operations) /\ depth = Cardinality(Operations)
      BY <1>1, <2>1, FS_EmptySet
  <2>3. \A f \in Frame : Position(f) \notin {"close_emit", "close_hub"}
      BY <1>5 DEF Rest
  <2> QED BY <1>1, <2>1, <2>2, <2>3, FrameFacts DEF LockInvariant
<1>8. CallersWait
  <2>1. Len(runQueue) = 0
      BY <1>1
  <2>2. Submitted = {} /\ Distinct(runQueue)
      BY <2>1 DEF Submitted, CallersOf, Distinct
  <2>3. Awaited = {} /\ Executed = {}
      BY <1>1, FrameFacts DEF Awaited, Executed, Rest
  <2> QED BY <1>1, <2>2, <2>3 DEF CallersWait
<1> QED BY <1>3, <1>4, <1>6, <1>7, <1>8 DEF SessionInvariant

LEMMA StartTurnKeeps ==
    ASSUME SessionInvariant, NEW f \in Frame, StartTurn(f)
    PROVE  SessionInvariant'
BY StartTurnKeepsLock, StartTurnKeepsTypes, GoingKeepsInvariant, StartAdmissionGoes,
   StartRejectGoes, StartRepeatGoes, StartAdmitGoes, StartPhaseGoes, StartEmitGoes,
   StartReturnGoes DEF StartTurn

LEMMA InterruptKeeps ==
    ASSUME SessionInvariant, NEW f \in Frame, Interrupt(f)
    PROVE  SessionInvariant'
BY InterruptKeepsLock, InterruptKeepsTypes, GoingKeepsInvariant, ClaimGoes, ClaimWaitGoes,
   CoordinateGoes, IntEnterGoes, IntFlushGoes, IntFlushDoneGoes, IntRequestGoes,
   IntOutcomeGoes, IntAcceptedGoes, IntCommitGoes, IntClearGoes, IntIdleGoes, IntResolveGoes,
   IntResolveClearGoes, IntExitGoes, IntRecoverGoes, IntCompleteGoes DEF Interrupt

LEMMA FlushKeeps ==
    ASSUME SessionInvariant, NEW f \in Frame, Flush(f)
    PROVE  SessionInvariant'
BY FlushKeepsLock, FlushKeepsTypes, GoingKeepsInvariant, FlushAdmissionGoes, FlushWaitGoes,
   FlushEnterGoes, FlushRequestGoes, FlushDoneGoes, FlushExitGoes DEF Flush

LEMMA CloseKeeps ==
    ASSUME SessionInvariant, NEW f \in Frame, Close(f)
    PROVE  SessionInvariant'
BY CloseKeepsLock, CloseKeepsTypes, GoingKeepsInvariant, CloseAdmissionGoes, CloseWaitGoes,
   CloseLockGoes, CloseReadGoes, CloseMarkGoes, CloseEmitGoes, CloseHubGoes, CloseFinalGoes
   DEF Close

LEMMA RuntimeLoopKeeps ==
    ASSUME SessionInvariant, RuntimeLoop
    PROVE  SessionInvariant'
<1>1. CASE RunEnter \/ RunStage \/ RunCommit \/ RunClear \/ RunIdle \/ RunExit
  <2>1. Goes(Runner)
      BY <1>1, RunEnterGoes, RunStageGoes, RunCommitGoes, RunClearGoes, RunIdleGoes, RunExitGoes
  <2> QED BY <1>1, <2>1, RunnerKeepsLock, RunnerKeepsTypes, GoingKeepsInvariant, FrameFacts
<1> QED BY <1>1, RunTakeKeeps, RunFinishKeeps, RunParkKeeps, RunResumeKeeps,
          CancelSubmittedKeeps DEF RuntimeLoop

LEMMA NextKeeps == SessionInvariant /\ [Next]_vars => SessionInvariant'
<1> SUFFICES ASSUME SessionInvariant, [Next]_vars
             PROVE  SessionInvariant'
    OBVIOUS
<1>1. ASSUME UNCHANGED vars
      PROVE  SessionInvariant'
  <2>1. FrameTypes' /\ DataTypes'
      BY <1>1 DEF vars, SessionInvariant, FrameTypes, DataTypes
  <2>2. \A f \in Frame : /\ Position(f)' = Position(f) /\ (Delivering(f)' <=> Delivering(f))
                         /\ InOperation(f)' <=> InOperation(f)
                         /\ Closing(f)' <=> Closing(f)
                         /\ pc'[f] = pc[f] /\ ret'[f] = ret[f] /\ local'[f] = local[f]
      BY <1>1 DEF vars, Position, Delivering, InOperation, Closing
  <2>3. LockInvariant'
      BY <1>1, <2>2, StandingKeepsLock DEF vars, Stands, SessionInvariant, LockInvariant
  <2>4. FramesFit'
      BY <1>1, <2>2, FrameFacts DEF vars, SessionInvariant, FramesFit, Fits, Own
  <2>5. CallersWait'
    <3>1. Submitted' = Submitted /\ Awaited' = Awaited /\ Executed' = Executed
        BY <1>1 DEF vars, Submitted, Awaited, Executed
    <3> QED BY <1>1, <3>1 DEF vars, SessionInvariant, CallersWait
  <2> QED BY <2>1, <2>3, <2>4, <2>5 DEF SessionInvariant
<1>2. ASSUME NEW f \in Frame, Step(f)
      PROVE  SessionInvariant'
    BY <1>2, FinishDeliveryKeeps, RejoinKeeps, StartTurnKeeps, SubmitKeeps, InterruptKeeps,
       FlushKeeps, CloseKeeps, PrepareOrSubscribeKeeps DEF Step, RunTurn
<1> QED BY <1>1, <1>2, BeginCallKeeps, BeginCallbackKeeps, RuntimeLoopKeeps DEF Next, Finished

(* Between any two steps the locks, the frames and the coroutines of a session *)
(* fit together as SessionInvariant says.                                    *)
THEOREM SessionStands == Spec => []SessionInvariant
<1>1. Init => SessionInvariant
    BY InitEstablishes
<1>2. SessionInvariant /\ [Next]_vars => SessionInvariant'
    BY NextKeeps
<1> QED BY <1>1, <1>2, PTL DEF Spec

(* _serialized_operation: operations and closes of different threads exclude   *)
(* each other although the lock is given up around every callback, and         *)
(* _operation_depth is exact.                                                *)
THEOREM OperationsAreSerial == Spec => []OneOperationAtATime
<1>1. SessionInvariant => OneOperationAtATime
  <2> SUFFICES ASSUME SessionInvariant
               PROVE  OneOperationAtATime
      OBVIOUS
  <2>1. LockInvariant
      BY DEF SessionInvariant
  <2> QED BY <2>1 DEF LockInvariant, OneOperationAtATime, Busy, Operations
<1> QED BY <1>1, SessionStands, PTL

(* _callback_delivery_window: no frame runs a subscriber while its thread      *)
(* holds the operation lock, unless a call of that subscriber took it.        *)
THEOREM CallbacksRunOutside == Spec => []CallbacksOutsideOperation
<1>1. SessionInvariant => CallbacksOutsideOperation
  <2> SUFFICES ASSUME SessionInvariant, NEW f \in Frame, dispatcher = f,
                      ThreadOf(operation) = ThreadOf(f)
               PROVE  pc[ChildOf(f)] # "absent"
      BY DEF CallbacksOutsideOperation
  <2>1. pc[f] = "deliver" /\ Delivering(f)
      BY DEF SessionInvariant, FramesFit, Fits, Delivering
  <2>2. operation \in Frame
      BY FrameFacts DEF SessionInvariant, LockInvariant
  <2>3. Busy(operation) /\ ~Delivering(operation)
      BY <2>2 DEF SessionInvariant, LockInvariant
  <2>4. pc[operation] \notin {"absent", "deliver"}
      BY <2>3, Sections DEF Busy, Delivering, Position, OperationLabels, CloseLabels
  <2>5. CASE operation = ChildOf(f)
      BY <2>4, <2>5
  <2>6. CASE ~IsCallback(operation) /\ f = ChildOf(operation)
      BY <2>1, <2>2, <2>4, <2>6 DEF SessionInvariant, FramesFit, Fits
  <2> QED BY <2>1, <2>2, <2>3, <2>5, <2>6, FrameFacts
<1> QED BY <1>1, SessionStands, PTL

(* The session's variables keep their types, and at most an operation and one  *)
(* that a callback of it makes are open at once.                             *)
THEOREM SessionIsTyped == Spec => []TypeInvariant
<1>1. SessionInvariant => TypeInvariant
  <2> SUFFICES ASSUME SessionInvariant
               PROVE  TypeInvariant
      OBVIOUS
  <2>1. depth \in 0 .. 2
    <3>1. IsFiniteSet(Operations) /\ depth = Cardinality(Operations)
        BY DEF SessionInvariant, LockInvariant
    <3>2. CASE Operations = {}
        BY <3>1, <3>2, FS_EmptySet
    <3>3. ASSUME NEW f \in Operations
          PROVE  depth \in 0 .. 2
      <4> DEFINE low == <<ThreadOf(f), 0>>
                 high == <<ThreadOf(f), 1>>
      <4>1. Operations \subseteq {low} \cup {high}
          BY <3>3 DEF Operations, SessionInvariant, LockInvariant, Busy, Frame, ThreadOf
      <4>2. low # high
          OBVIOUS
      <4> HIDE DEF low, high
      <4>3. IsFiniteSet({low}) /\ Cardinality({low}) = 1 /\ high \notin {low}
          BY <4>2, FS_Singleton
      <4>4. IsFiniteSet({low} \cup {high}) /\ Cardinality({low} \cup {high}) = 1 + 1
          BY <4>3, FS_AddElement
      <4>5. Cardinality(Operations) \in Nat /\ Cardinality(Operations) <= 2
          BY <3>1, <4>1, <4>4, FS_Subset, FS_CardinalityType
      <4> QED BY <3>1, <4>5
    <3> QED BY <3>2, <3>3
  <2>2. records \in Seq([turn : Turn, outcome : TurnOutcome])
      BY DEF SessionInvariant, DataTypes, Registry!Record, Registry!TurnOutcome, TurnOutcome
  <2> QED BY <2>1, <2>2
             DEF SessionInvariant, DataTypes, FrameTypes, LockInvariant, TypeInvariant, 
                            TurnOrNone
<1> QED BY <1>1, SessionStands, PTL

-----------------------------------------------------------------------------
(* Where a step takes a frame, and what a frame at a point has to see to.     *)

CloserLabels == {"close_read", "close_mark"}
FinisherLabels == {"close_emit", "close_hub", "close_final"}
AskerLabels == {"close", "close_wait"}
OwnerLabels ==
    {"coordinate", "int_enter", "int_flush", "int_flush_done", "int_request", "int_outcome",
     "int_accepted", "int_commit", "int_clear", "int_idle", "int_resolve",
     "int_resolve_clear", "int_exit", "int_recover", "int_complete"}
RoleLabels ==
    OperationLabels \cup CloserLabels \cup FinisherLabels \cup AskerLabels \cup OwnerLabels
        \cup {"close_lock"}

(* Frame f has still to complete the interrupt of t, maybe after a close that  *)
(* was deferred to it.                                                       *)
Owns(f, t) ==
    /\ local[f].work = t
    /\ \/ Position(f) \in OwnerLabels
       \/ /\ Position(f) \in CloserLabels \cup FinisherLabels
          /\ local[f].after \in {"int_recover", "int_complete"}

(* Whatever is promised about closing has a frame that will see to it.        *)
ClosePromises ==
    /\ closeRequested =>
          /\ closeAdmission /\ ~closed
          /\ \E f \in Frame : InOperation(f) \/ Position(f) \in CloserLabels
    /\ closed =>
          /\ closeAdmission
          /\ closeFinalized \/ \E f \in Frame : Position(f) \in FinisherLabels
    /\ closeAdmission =>
          closed \/ closeRequested
             \/ \E f \in Frame : Position(f) \in CloserLabels \cup {"close_lock"}
    /\ \A f \in Frame :
          Position(f) \in CloserLabels \cup FinisherLabels \cup {"close_lock"} => closeAdmission

(* An interrupt that was claimed has its owner, and a close that waits for an  *)
(* interrupt has one to wait for or somebody who still asks for it.           *)
InterruptPromises ==
    /\ \A t \in Turn : interrupts[t].status = "live" => \E f \in Frame : Owns(f, t)
    /\ \A t \in Turn : interrupts[t].closeAfter =>
          \/ closeAdmission
          \/ \E f \in Frame : Position(f) \in AskerLabels
          \/ \E u \in Turn : interrupts[u].status = "live" /\ interrupts[u].closeAfter

LEMMA AtLabel ==
    ASSUME FrameTypes, NEW f \in Frame, NEW label, Goto(f, label),
           label \notin {"deliver", "rejoin"}
    PROVE  Position(f)' = label
BY DEF FrameTypes, Goto, Position, Delivering

LEMMA AtNext ==
    ASSUME FrameTypes, NEW f \in Frame, NEW t, NEW kind, NEW next, Emit(f, t, kind, next)
    PROVE  Position(f)' = next
BY DEF FrameTypes, Emit, Goto, Position, Delivering

LEMMA AtSkip ==
    ASSUME FrameTypes, NEW f \in Frame, NEW t, NEW next, NEW skip,
           EmitOrSkip(f, t, next, skip), skip \notin {"deliver", "rejoin"}
    PROVE  Position(f)' \in {next, skip}
BY AtLabel, AtNext DEF EmitOrSkip

LEMMA Here1 ==
    ASSUME NEW f, pc[f] \notin {"deliver", "rejoin"}
    PROVE  Position(f) = pc[f]
BY DEF Position, Delivering

(* What a frame sees to is left to it by any step of another frame, and by     *)
(* its own steps between two points of the same kind.                        *)
SameRole(g) ==
    /\ InOperation(g) => InOperation(g)'
    /\ Position(g) \in CloserLabels <=> Position(g)' \in CloserLabels
    /\ Position(g) \in FinisherLabels <=> Position(g)' \in FinisherLabels
    /\ Position(g) = "close_lock" <=> Position(g)' = "close_lock"
    /\ Position(g) \in AskerLabels => Position(g)' \in AskerLabels
    /\ \A t \in Turn : Owns(g, t) => Owns(g, t)'

SameWork ==
    \A t \in Turn : /\ interrupts'[t].status = interrupts[t].status
                    /\ interrupts'[t].closeAfter = interrupts[t].closeAfter

LEMMA RolesKeepPromises ==
    ASSUME ClosePromises, InterruptPromises, \A g \in Frame : SameRole(g), SameWork,
           UNCHANGED closeVars
    PROVE  ClosePromises' /\ InterruptPromises'
<1>1. ClosePromises'
    BY DEF ClosePromises, SameRole
<1>2. InterruptPromises'
    BY DEF InterruptPromises, SameRole, SameWork
<1> QED BY <1>1, <1>2

LEMMA StandingRole ==
    ASSUME NEW g \in Frame, Position(g)' = Position(g), local'[g] = local[g]
    PROVE  SameRole(g)
BY Sections DEF SameRole, Owns, InOperation

LEMMA OthersRole ==
    ASSUME NEW f \in Frame, Moves(f), NEW g \in Frame \ {f}
    PROVE  SameRole(g)
BY StandingRole DEF Moves, Position, Delivering

LEMMA MovingRole ==
    ASSUME NEW f \in Frame, NEW a, NEW b, Position(f) = a, Position(f)' = b,
           a \notin CloserLabels \cup FinisherLabels \cup {"close_lock"},
           b \notin CloserLabels \cup FinisherLabels \cup {"close_lock"},
           a \in OperationLabels => b \in OperationLabels,
           a \in AskerLabels => b \in AskerLabels,
           a \in OwnerLabels => b \in OwnerLabels /\ local'[f].work = local[f].work
    PROVE  SameRole(f)
BY Sections DEF SameRole, Owns, InOperation, OperationLabels

(* The steps of a call that see to nothing of this.                           *)
Plain(f) == Position(f) \notin RoleLabels /\ Position(f)' \notin RoleLabels

LEMMA PlainKeepsPromises ==
    ASSUME ClosePromises, InterruptPromises, NEW f \in Frame, Moves(f), Plain(f), SameWork,
           UNCHANGED closeVars
    PROVE  ClosePromises' /\ InterruptPromises'
<1>1. SameRole(f)
    BY MovingRole DEF Plain, RoleLabels
<1> QED BY <1>1, OthersRole, RolesKeepPromises

USE DEF RoleLabels, OperationLabels, CloserLabels, FinisherLabels, AskerLabels, OwnerLabels

LEMMA StartTurnIsPlain ==
    ASSUME FrameTypes, NEW f \in Frame, StartTurn(f) \/ Prepare(f) \/ Submit(f) \/ Subscribe(f)
    PROVE  Plain(f) /\ UNCHANGED closeVars /\ interrupts' = interrupts
<1> USE AtLabel, AtNext, Here1 DEF Plain
<1>1. CASE StartAdmission(f)
    BY <1>1 DEF StartAdmission
<1>2. CASE StartReject(f)
    BY <1>2 DEF StartReject
<1>3. CASE StartRepeat(f)
    BY <1>3 DEF StartRepeat
<1>4. CASE StartAdmit(f)
    BY <1>4 DEF StartAdmit
<1>5. CASE StartPhase(f)
    BY <1>5 DEF StartPhase, UndoStart
<1>6. CASE StartEmit(f)
    BY <1>6 DEF StartEmit, UndoStart
<1>7. CASE StartReturn(f)
    BY <1>7 DEF StartReturn
<1>8. CASE Prepare(f)
    BY <1>8 DEF Prepare
<1>9. CASE Submit(f)
    BY <1>9 DEF Submit
<1>10. CASE Subscribe(f)
    BY <1>10 DEF Subscribe
<1> QED BY <1>1, <1>2, <1>3, <1>4, <1>5, <1>6, <1>7, <1>8, <1>9, <1>10 DEF StartTurn

(* An interrupt's steps between its claim and its completion stay with their  *)
(* interrupt.                                                                *)
Owning(f) ==
    /\ Position(f) \in OwnerLabels /\ Position(f)' \in OwnerLabels
    /\ Position(f) \in OperationLabels => Position(f)' \in OperationLabels
    /\ local'[f].work = local[f].work

LEMMA OwningKeepsPromises ==
    ASSUME ClosePromises, InterruptPromises, NEW f \in Frame, Moves(f), Owning(f), SameWork,
           UNCHANGED closeVars
    PROVE  ClosePromises' /\ InterruptPromises'
<1>1. SameRole(f)
    BY MovingRole DEF Owning
<1> QED BY <1>1, OthersRole, RolesKeepPromises

LEMMA LocalFields ==
    ASSUME FrameTypes, NEW f \in Frame, NEW record, SetLocal(f, record)
    PROVE  local'[f] = record
BY DEF FrameTypes, SetLocal

LEMMA WorkFields ==
    ASSUME DataTypes, NEW t \in Turn
    PROVE  \A x : /\ interrupts' = [interrupts EXCEPT ![t].flushed = x] => SameWork
                  /\ interrupts' = [interrupts EXCEPT ![t].deferred = x] => SameWork
                  /\ \A y : interrupts' = [interrupts EXCEPT ![t].reserved = x,
                                                             ![t].deferred = y] => SameWork
BY DEF DataTypes, InterruptWork, SameWork

LEMMA MiddleIsOwning ==
    ASSUME SessionInvariant, NEW f \in Frame,
           \/ Coordinate(f) \/ IntEnter(f) \/ IntFlush(f) \/ IntFlushDone(f) \/ IntRequest(f)
           \/ IntOutcome(f) \/ IntAccepted(f) \/ IntCommit(f) \/ IntClear(f) \/ IntIdle(f)
           \/ IntResolve(f) \/ IntResolveClear(f) \/ IntRecover(f)
    PROVE  Owning(f) /\ SameWork /\ UNCHANGED closeVars
<1> FrameTypes /\ DataTypes /\ local[f] \in Local /\ local[f].work \in TurnOrNone
    BY LocalTypes DEF SessionInvariant, FrameTypes
<1>a. UNCHANGED interrupts => SameWork
    BY DEF SameWork
<1>b. \A record : SetLocal(f, record) => local'[f] = record
    BY LocalFields
<1>c. /\ \A x : [local[f] EXCEPT !.outcome = x].work = local[f].work
    BY DEF Local
<1>d. IntRaise(f) => /\ local'[f].work = local[f].work /\ Position(f)' = "int_exit"
                     /\ UNCHANGED <<phase, state, lockVars, hubVars, ret>>
    BY <1>b, AtLabel DEF Local, IntRaise
<1> USE <1>a, <1>b, <1>c, AtLabel, AtNext, AtSkip, Here1 DEF Owning
<1>1. CASE Coordinate(f)
    BY <1>1 DEF Coordinate
<1>2. CASE IntEnter(f)
    BY <1>2 DEF IntEnter
<1>3. CASE IntFlush(f)
  <2>1. local[f].work \in Turn
      BY <1>3, Here DEF IntFlush, Still, Suits, TurnOrNone
  <2> QED BY <1>3, <2>1, WorkFields DEF IntFlush
<1>4. CASE IntFlushDone(f)
    BY <1>4 DEF IntFlushDone
<1>5. CASE IntRequest(f)
  <2>1. local'[f].work = local[f].work
      BY <1>5, LocalFields DEF IntRequest, Local
  <2> QED BY <1>5, <2>1 DEF IntRequest
<1>6. CASE IntOutcome(f)
    BY <1>6, <1>d DEF IntOutcome, Transition
<1>7. CASE IntAccepted(f)
    BY <1>7 DEF IntAccepted
<1>8. CASE IntCommit(f)
  <2>1. local[f].turn \in TurnOrNone
      BY LocalTypes
  <2>2. DeferTerminal(local[f].turn, "interrupted") /\ local[f].turn # NoTurn => SameWork
      BY <2>1, WorkFields DEF DeferTerminal, TurnOrNone
  <2> QED BY <1>8, <1>d, <2>2 DEF IntCommit, CommitTerminal, Transition
<1>9. CASE IntClear(f)
    BY <1>9 DEF IntClear
<1>10. CASE IntIdle(f)
    BY <1>10 DEF IntIdle
<1>11. CASE IntResolve(f)
  <2>1. SameWork
      BY <1>11, WorkFields DEF IntResolve, TurnOrNone
  <2> QED BY <1>11, <2>1 DEF IntResolve, CommitTerminal, Transition
<1>12. CASE IntResolveClear(f)
    BY <1>12 DEF IntResolveClear
<1>13. CASE IntRecover(f)
  <2>1. local'[f].work = local[f].work
      BY <1>13, <1>b DEF IntRecover, Local
  <2> QED BY <1>13, <2>1 DEF IntRecover
<1> QED BY <1>1, <1>2, <1>3, <1>4, <1>5, <1>6, <1>7, <1>8, <1>9, <1>10, <1>11, <1>12, <1>13

(* A flush and a run stay in their operation until they leave it.             *)
Working(f) ==
    /\ Position(f) \notin RoleLabels \ OperationLabels
    /\ Position(f)' \notin RoleLabels \ OperationLabels
    /\ Position(f) \in OperationLabels => Position(f)' \in OperationLabels
    /\ Position(f) \notin OwnerLabels

LEMMA WorkingKeepsPromises ==
    ASSUME ClosePromises, InterruptPromises, NEW f \in Frame, Moves(f), Working(f), SameWork,
           UNCHANGED closeVars
    PROVE  ClosePromises' /\ InterruptPromises'
<1>1. SameRole(f)
    BY MovingRole DEF Working
<1> QED BY <1>1, OthersRole, RolesKeepPromises

LEMMA FlushIsWorking ==
    ASSUME SessionInvariant, NEW f \in Frame,
           \/ FlushAdmission(f) \/ FlushWait(f) \/ FlushEnter(f) \/ FlushRequest(f) \/ FlushDone(f)
           \/ ClaimWait(f)
    PROVE  Working(f) /\ SameWork /\ UNCHANGED closeVars
<1> FrameTypes /\ DataTypes
    BY DEF SessionInvariant
<1>a. UNCHANGED interrupts => SameWork
    BY DEF SameWork
<1> USE <1>a, AtLabel, AtNext, AtSkip, Here1 DEF Working
<1>1. CASE FlushAdmission(f)
    BY <1>1 DEF FlushAdmission
<1>2. CASE FlushWait(f)
    BY <1>2 DEF FlushWait
<1>3. CASE FlushEnter(f)
    BY <1>3 DEF FlushEnter
<1>4. CASE FlushRequest(f)
  <2>1. local[f].claimed \in TurnOrNone
      BY LocalTypes
  <2>2. SameWork
      BY <1>4, <2>1, WorkFields DEF FlushRequest, TurnOrNone
  <2> QED BY <1>4, <2>2 DEF FlushRequest
<1>5. CASE FlushDone(f)
    BY <1>5 DEF FlushDone
<1>6. CASE ClaimWait(f)
    BY <1>6 DEF ClaimWait
<1> QED BY <1>1, <1>2, <1>3, <1>4, <1>5, <1>6

LEMMA RunIsWorking ==
    ASSUME SessionInvariant, RunEnter \/ RunStage \/ RunCommit \/ RunClear \/ RunIdle
    PROVE  Working(Runner) /\ SameWork /\ UNCHANGED closeVars
<1> FrameTypes /\ DataTypes /\ Runner \in Frame
    BY FrameFacts DEF SessionInvariant
<1>a. UNCHANGED interrupts => SameWork
    BY DEF SameWork
<1> USE <1>a, AtLabel, AtNext, AtSkip, Here1 DEF Working
<1>1. CASE RunEnter
    BY <1>1 DEF RunEnter
<1>2. CASE RunStage
    BY <1>2 DEF RunStage, Transition
<1>3. CASE RunCommit
  <2>1. local[Runner].turn \in TurnOrNone
      BY LocalTypes
  <2>2. DeferTerminal(RunnerTurn, "completed") /\ RunnerTurn # NoTurn => SameWork
      BY <2>1, WorkFields DEF DeferTerminal, TurnOrNone, RunnerTurn
  <2> QED BY <1>3, <2>2 DEF RunCommit, CommitTerminal, Transition, OwnedByOther, Live
<1>4. CASE RunClear
    BY <1>4 DEF RunClear
<1>5. CASE RunIdle
    BY <1>5 DEF RunIdle
<1> QED BY <1>1, <1>2, <1>3, <1>4, <1>5

(* Whoever leaves the last operation closes the session if that was asked for; *)
(* the others leave an operation behind.                                     *)
LEMMA LeavingKeepsPromises ==
    ASSUME SessionInvariant, ClosePromises, InterruptPromises, NEW f \in Frame, Moves(f),
           NEW next, ExitOperation(f, next), pc[f] \in {"run_exit", "int_exit", "flush_exit"},
           next \notin RoleLabels \ {"int_recover", "int_complete"},
           next \notin {"deliver", "rejoin"},
           pc[f] = "int_exit" /\ local[f].work # NoTurn => next \in {"int_recover", "int_complete"},
           UNCHANGED closeVars, interrupts' = interrupts
    PROVE  ClosePromises' /\ InterruptPromises'
<1> DEFINE closeNow == depth = 1 /\ closeRequested /\ ~closed
<1>1. /\ Position(f) = pc[f] /\ Position(f)' = IF closeNow THEN "close_read" ELSE next
      /\ local'[f].work = local[f].work /\ local'[f].after = next
  <2>1. FrameTypes /\ local[f] \in Local
      BY DEF SessionInvariant, FrameTypes
  <2>2. local'[f] = [local[f] EXCEPT !.after = next]
      BY <2>1, LocalFields DEF ExitOperation
  <2>3. Position(f)' = IF closeNow THEN "close_read" ELSE next
      BY <2>1, AtLabel DEF ExitOperation
  <2> QED BY <2>1, <2>2, <2>3, Here1 DEF Local
<1>2. \A g \in Frame \ {f} : SameRole(g)
    BY OthersRole
<1>3. \A g \in Frame : Position(g) \in CloserLabels => Position(g)' \in CloserLabels
    BY <1>1, <1>2 DEF SameRole
<1>4. \A g \in Frame : Position(g) \in FinisherLabels <=> Position(g)' \in FinisherLabels
    BY <1>1, <1>2 DEF SameRole
<1>5. \A g \in Frame : Position(g) = "close_lock" <=> Position(g)' = "close_lock"
    BY <1>1, <1>2 DEF SameRole
<1>6. \A g \in Frame : Position(g) \in AskerLabels => Position(g)' \in AskerLabels
    BY <1>1, <1>2 DEF SameRole
<1>7. \A g \in Frame, t \in Turn : Owns(g, t) => Owns(g, t)'
    BY <1>1, <1>2 DEF SameRole, Owns
<1>8. ASSUME closeRequested
      PROVE  \E g \in Frame : InOperation(g)' \/ Position(g)' \in CloserLabels
  <2>1. CASE closeNow
      BY <1>1, <2>1
  <2>2. CASE ~closeNow
    <3>1. Cardinality(Operations) # 1
        BY <1>8, <2>2 DEF ClosePromises, SessionInvariant, LockInvariant
    <3>2. Operations # {f}
        BY <3>1, FS_Singleton
    <3>3. f \in Operations
        BY <1>1, Sections DEF Operations
    <3>4. PICK g \in Operations : g # f
        BY <3>2, <3>3
    <3> QED BY <1>2, <3>4 DEF Operations, SameRole
  <2> QED BY <2>1, <2>2
<1>9. \A g \in Frame : Position(g)' \in CloserLabels \cup FinisherLabels \cup {"close_lock"}
                         => closeAdmission
    BY <1>1, <1>2 DEF SameRole, ClosePromises
<1>10. ClosePromises'
    BY <1>3, <1>4, <1>5, <1>8, <1>9 DEF ClosePromises
<1>11. InterruptPromises'
    BY <1>6, <1>7 DEF InterruptPromises
<1> QED BY <1>10, <1>11

LEMMA ExitsKeepPromises ==
    ASSUME SessionInvariant, ClosePromises, InterruptPromises, NEW f \in Frame,
           IntExit(f) \/ FlushExit(f) \/ (f = Runner /\ RunExit)
    PROVE  ClosePromises' /\ InterruptPromises'
<1>1. Moves(f)
    BY IntExitGoes, FlushExitGoes, RunExitGoes DEF Goes
<1>2. CASE IntExit(f)
    BY <1>1, <1>2, LeavingKeepsPromises DEF IntExit
<1>3. CASE FlushExit(f)
    BY <1>1, <1>3, LeavingKeepsPromises DEF FlushExit
<1>4. CASE f = Runner /\ RunExit
    BY <1>1, <1>4, LeavingKeepsPromises DEF RunExit
<1> QED BY <1>2, <1>3, <1>4

LEMMA ClaimKeepsPromises ==
    ASSUME SessionInvariant, ClosePromises, InterruptPromises, NEW f \in Frame, Claim(f)
    PROVE  ClosePromises' /\ InterruptPromises'
<1>1. Moves(f) /\ UNCHANGED closeVars /\ Position(f) = "claim" /\ FrameTypes
    BY ClaimGoes, Here1 DEF Goes, Claim, SessionInvariant
<1>2. CASE UNCHANGED interrupts
  <2>1. Position(f)' \notin RoleLabels \ {"coordinate"}
      BY <1>1, <1>2, AtLabel DEF Claim
  <2>2. SameRole(f)
      BY <1>1, <2>1, MovingRole
  <2> QED BY <1>1, <1>2, <2>2, OthersRole, RolesKeepPromises DEF SameWork
<1>3. ASSUME NEW t \in Turn, interrupts[t].status = "none",
             interrupts' = [interrupts EXCEPT ![t] = OwnedWork(f)],
             SetLocal(f, [local[f] EXCEPT !.claimed = t, !.work = t]), Goto(f, "coordinate")
      PROVE  ClosePromises' /\ InterruptPromises'
  <2>1. Position(f)' = "coordinate"
      BY <1>1, <1>3, AtLabel
  <2>2. local'[f].work = t
    <3>1. local'[f] = [local[f] EXCEPT !.claimed = t, !.work = t]
        BY <1>1, <1>3, LocalFields
    <3>2. local[f] \in Local
        BY <1>1 DEF FrameTypes
    <3> QED BY <3>1, <3>2 DEF Local
  <2>3. SameRole(f)
      BY <1>1, <2>1, MovingRole
  <2>4. \A g \in Frame : SameRole(g)
      BY <1>1, <2>3, OthersRole
  <2>5. ClosePromises'
      BY <1>1, <2>4 DEF ClosePromises, SameRole
  <2>6. Owns(f, t)'
      BY <2>1, <2>2 DEF Owns
  <2>7. /\ interrupts'[t].status = "live" /\ ~interrupts'[t].closeAfter
        /\ \A u \in Turn \ {t} : interrupts'[u] = interrupts[u]
      BY <1>3 DEF SessionInvariant, DataTypes, OwnedWork, NoWork
  <2>8. InterruptPromises'
    <3>1. \A u \in Turn : interrupts'[u].status = "live" => \E g \in Frame : Owns(g, u)'
        BY <2>4, <2>6, <2>7 DEF InterruptPromises, SameRole
    <3>2. ASSUME NEW u \in Turn, interrupts'[u].closeAfter
          PROVE  \/ closeAdmission'
                 \/ \E g \in Frame : Position(g)' \in AskerLabels
                 \/ \E v \in Turn : interrupts'[v].status = "live" /\ interrupts'[v].closeAfter
      <4>1. interrupts[u].closeAfter
          BY <2>7, <3>2
      <4>2. CASE closeAdmission \/ \E g \in Frame : Position(g) \in AskerLabels
          BY <1>1, <2>4, <4>2 DEF SameRole
      <4>3. ASSUME NEW v \in Turn, interrupts[v].status = "live" /\ interrupts[v].closeAfter
            PROVE  interrupts'[v].status = "live" /\ interrupts'[v].closeAfter
          BY <1>3, <2>7, <4>3
      <4> QED BY <4>1, <4>2, <4>3 DEF InterruptPromises
    <3> QED BY <3>1, <3>2 DEF InterruptPromises
  <2> QED BY <2>5, <2>8
<1>4. CurrentTurn \in TurnOrNone /\ RequestedTurn(f) \in TurnOrNone
    BY LocalTypes, DataTurns DEF SessionInvariant
<1> QED BY <1>2, <1>3, <1>4 DEF Claim, TurnOrNone

LEMMA CompleteKeepsPromises ==
    ASSUME SessionInvariant, ClosePromises, InterruptPromises, NEW f \in Frame, IntComplete(f)
    PROVE  ClosePromises' /\ InterruptPromises'
<1> DEFINE t == local[f].work
<1>1. Moves(f) /\ UNCHANGED closeVars /\ Position(f) = "int_complete" /\ FrameTypes
    BY IntCompleteGoes, Here1 DEF Goes, IntComplete, SessionInvariant
<1>2. t \in Turn
    BY Here, LocalTypes DEF IntComplete, Still, Suits, TurnOrNone
<1>3. /\ interrupts'[t].status = "done" /\ interrupts'[t].closeAfter = interrupts[t].closeAfter
      /\ \A u \in Turn \ {t} : interrupts'[u] = interrupts[u]
    <2>1. interrupts[t] \in InterruptWork
        BY <1>2 DEF SessionInvariant, DataTypes
    <2>2. /\ interrupts'[t] = [interrupts[t] EXCEPT !.status = "done", !.reserved = FALSE]
          /\ \A u \in Turn \ {t} : interrupts'[u] = interrupts[u]
        BY <1>2 DEF IntComplete, SessionInvariant, DataTypes
    <2> QED BY <2>1, <2>2 DEF InterruptWork
<1>4. Position(f)' = IF interrupts[t].closeAfter THEN "close" ELSE Rest(f)
    BY <1>1, AtLabel DEF IntComplete
<1>5. \A g \in Frame \ {f} : SameRole(g)
    BY <1>1, OthersRole
<1>6. ~InOperation(f)
    BY <1>1, Sections
<1>7. ClosePromises'
    BY <1>1, <1>4, <1>5, <1>6 DEF ClosePromises, SameRole
<1>8. ASSUME NEW u \in Turn, interrupts'[u].status = "live"
      PROVE  \E g \in Frame : Owns(g, u)'
  <2>1. u # t /\ interrupts[u].status = "live"
      BY <1>3, <1>8
  <2>2. PICK g \in Frame : Owns(g, u)
      BY <2>1 DEF InterruptPromises
  <2> QED BY <1>5, <2>1, <2>2 DEF Owns, SameRole
<1>9. ASSUME NEW u \in Turn, interrupts'[u].closeAfter
      PROVE  \/ closeAdmission'
             \/ \E g \in Frame : Position(g)' \in AskerLabels
             \/ \E v \in Turn : interrupts'[v].status = "live" /\ interrupts'[v].closeAfter
  <2>1. interrupts[u].closeAfter
      BY <1>3, <1>9
  <2>2. CASE closeAdmission
      BY <1>1, <2>2
  <2>3. CASE \E g \in Frame : Position(g) \in AskerLabels
      BY <1>1, <1>5, <2>3 DEF SameRole
  <2>4. ASSUME NEW v \in Turn, interrupts[v].status = "live" /\ interrupts[v].closeAfter
        PROVE  \/ \E g \in Frame : Position(g)' \in AskerLabels
               \/ interrupts'[v].status = "live" /\ interrupts'[v].closeAfter
      BY <1>3, <1>4, <2>4
  <2> QED BY <2>1, <2>2, <2>3, <2>4 DEF InterruptPromises
<1> QED BY <1>7, <1>8, <1>9 DEF InterruptPromises

(* A close asks again until it is admitted, requested or done.                *)
LEMMA AskingKeepsPromises ==
    ASSUME SessionInvariant, ClosePromises, InterruptPromises, NEW f \in Frame,
           CloseAdmission(f) \/ CloseWait(f)
    PROVE  ClosePromises' /\ InterruptPromises'
<1>1. Moves(f) /\ FrameTypes /\ DataTypes
    BY CloseAdmissionGoes, CloseWaitGoes DEF Goes, SessionInvariant
<1>2. \A g \in Frame \ {f} : SameRole(g)
    BY <1>1, OthersRole
<1>3. CASE CloseWait(f)
  <2>1. Position(f) = "close_wait" /\ Position(f)' = "close" /\ UNCHANGED <<closeVars, interrupts>>
      BY <1>1, <1>3, AtLabel, Here1 DEF CloseWait
  <2>2. SameRole(f)
      BY <2>1, MovingRole
  <2> QED BY <1>2, <2>1, <2>2, RolesKeepPromises DEF SameWork
<1>4. CASE CloseAdmission(f)
  <2>1. /\ Position(f) = "close" /\ ~InOperation(f) /\ \A t \in Turn : ~Owns(f, t)
        /\ closed' = closed /\ closeRequested' = closeRequested
        /\ closeFinalized' = closeFinalized
      BY <1>4, Here1, Sections DEF CloseAdmission, Owns
  <2>2. \A t \in Turn : (\E g \in Frame : Owns(g, t)) => \E g \in Frame : Owns(g, t)'
      BY <1>2, <2>1 DEF SameRole
  <2>3. CASE Finish(f) /\ closeAdmission /\ UNCHANGED <<interrupts, closeAdmission>>
    <3>1. Position(f)' = Rest(f)
        BY <1>1, <2>3, AtLabel
    <3>2. ClosePromises'
        BY <1>2, <2>1, <2>3, <3>1 DEF ClosePromises, SameRole
    <3>3. InterruptPromises'
        BY <2>2, <2>3 DEF InterruptPromises
    <3> QED BY <3>2, <3>3
  <2>4. ASSUME NEW u \in Turn, interrupts[u].status = "live", UNCHANGED closeAdmission,
               \/ interrupts' = [interrupts EXCEPT ![u].closeAfter = TRUE] /\ Finish(f)
               \/ UNCHANGED interrupts /\ Goto(f, "close_wait")
        PROVE  ClosePromises' /\ InterruptPromises'
    <3>1. Position(f)' \in {Rest(f), "close_wait"}
        BY <1>1, <2>4, AtLabel
    <3>2. ClosePromises'
        BY <1>2, <2>1, <2>4, <3>1 DEF ClosePromises, SameRole
    <3>3. \A t \in Turn : interrupts'[t].status = interrupts[t].status
        BY <1>1, <2>4 DEF DataTypes, InterruptWork
    <3>4. CASE interrupts' = [interrupts EXCEPT ![u].closeAfter = TRUE]
      <4>1. interrupts'[u].closeAfter
          BY <1>1, <3>4 DEF DataTypes, InterruptWork
      <4> QED BY <2>2, <2>4, <3>2, <3>3, <4>1 DEF InterruptPromises
    <3>5. CASE UNCHANGED interrupts /\ Goto(f, "close_wait")
      <4>1. Position(f)' = "close_wait"
          BY <1>1, <3>5, AtLabel
      <4> QED BY <2>2, <2>4, <3>2, <3>3, <4>1 DEF InterruptPromises
    <3> QED BY <2>4, <3>4, <3>5
  <2>5. CASE closeAdmission' /\ Goto(f, "close_lock") /\ UNCHANGED interrupts
    <3>1. Position(f)' = "close_lock"
        BY <1>1, <2>5, AtLabel
    <3>2. ClosePromises'
        BY <1>2, <2>1, <2>5, <3>1 DEF ClosePromises, SameRole
    <3>3. InterruptPromises'
        BY <2>2, <2>5 DEF InterruptPromises
    <3> QED BY <3>2, <3>3
  <2>6. activeInterrupt \in TurnOrNone
      BY <1>1 DEF DataTypes
  <2>7. closed \/ closeRequested => closeAdmission
      BY DEF ClosePromises
  <2> QED BY <1>4, <2>3, <2>4, <2>5, <2>6, <2>7 DEF CloseAdmission, Live, TurnOrNone
<1> QED BY <1>3, <1>4

LEMMA CloseKeepsPromises ==
    ASSUME SessionInvariant, ClosePromises, InterruptPromises, NEW f \in Frame,
           \/ CloseLock(f) \/ CloseRead(f) \/ CloseMark(f) \/ CloseEmit(f) \/ CloseHub(f)
           \/ CloseFinal(f)
    PROVE  ClosePromises' /\ InterruptPromises'
<1>1. Moves(f) /\ FrameTypes /\ interrupts' = interrupts /\ local[f] \in Local
    BY CloseLockGoes, CloseReadGoes, CloseMarkGoes, CloseEmitGoes, CloseHubGoes, CloseFinalGoes
       DEF Goes, CloseLock, CloseRead, CloseMark, CloseEmit, CloseHub, CloseFinal,
           SessionInvariant, FrameTypes
<1>2. \A g \in Frame \ {f} : SameRole(g)
    BY <1>1, OthersRole
<1>3. CASE CloseLock(f)
  <2>1. /\ Position(f) = "close_lock" /\ UNCHANGED <<closed, closeAdmission, closeFinalized>>
        /\ \A t \in Turn : ~Owns(f, t)
      BY <1>3, Here1 DEF CloseLock, Owns
  <2>2. Position(f)' \in {Rest(f), "close_read"}
      BY <1>1, <1>3, AtLabel DEF CloseLock
  <2>3. InterruptPromises'
      BY <1>1, <1>2, <2>1 DEF InterruptPromises, SameRole
  <2>4. CASE (closed \/ closeRequested) /\ Finish(f) /\ UNCHANGED closeRequested
    <3>1. Position(f)' = Rest(f) /\ ~InOperation(f)
        BY <1>1, <2>1, <2>4, AtLabel, Sections
    <3> QED BY <1>2, <2>1, <2>3, <2>4, <3>1 DEF ClosePromises, SameRole
  <2>5. CASE ~closed /\ depth > 0 /\ closeRequested' /\ Finish(f)
    <3>1. Position(f)' = Rest(f) /\ ~InOperation(f)
        BY <1>1, <2>1, <2>5, AtLabel, Sections
    <3>2. Operations # {}
        BY <2>5, FS_EmptySet DEF SessionInvariant, LockInvariant
    <3>3. PICK g \in Frame : InOperation(g) /\ g # f
        BY <3>1, <3>2 DEF Operations
    <3> QED BY <1>2, <2>1, <2>3, <2>5, <3>1, <3>3 DEF ClosePromises, SameRole
  <2>6. CASE ~closed /\ ~closeRequested /\ Goto(f, "close_read") /\ UNCHANGED closeRequested
    <3>1. Position(f)' = "close_read"
        BY <1>1, <2>6, AtLabel
    <3> QED BY <1>2, <2>1, <2>3, <2>6, <3>1 DEF ClosePromises, SameRole
  <2> QED BY <1>3, <2>4, <2>5, <2>6 DEF CloseLock
<1>4. CASE CloseRead(f)
  <2>1. /\ Position(f) = "close_read" /\ Position(f)' = "close_mark" /\ UNCHANGED closeVars
      BY <1>1, <1>4, AtLabel, Here1 DEF CloseRead
  <2>2. local'[f].work = local[f].work /\ local'[f].after = local[f].after
    <3>1. \A x, y : local'[f] = [local[f] EXCEPT !.closing = x, !.closes = y]
                       => local'[f].work = local[f].work /\ local'[f].after = local[f].after
        BY <1>1 DEF Local
    <3>2. \E x, y : local'[f] = [local[f] EXCEPT !.closing = x, !.closes = y]
        BY <1>1, <1>4, LocalFields DEF CloseRead
    <3> QED BY <3>1, <3>2
  <2>3. SameRole(f)
      BY <2>1, <2>2, Sections DEF SameRole, Owns
  <2> QED BY <1>1, <1>2, <2>1, <2>3, RolesKeepPromises DEF SameWork
<1>5. CASE CloseMark(f)
  <2>1. /\ Position(f) = "close_mark" /\ Position(f)' = "close_emit" /\ local'[f] = local[f]
        /\ closed' /\ ~closeRequested' /\ UNCHANGED <<closeAdmission, closeFinalized>>
      BY <1>1, <1>5, AtLabel, Here1 DEF CloseMark
  <2>2. ClosePromises'
      BY <1>2, <2>1 DEF ClosePromises, SameRole
  <2>3. \A t \in Turn : Owns(f, t) => Owns(f, t)'
      BY <2>1 DEF Owns
  <2>4. InterruptPromises'
      BY <1>1, <1>2, <2>1, <2>3 DEF InterruptPromises, SameRole
  <2> QED BY <2>2, <2>4
<1>6. CASE CloseEmit(f) \/ CloseHub(f)
  <2>1. /\ Position(f) \in {"close_emit", "close_hub"}
        /\ Position(f)' \in {"close_hub", "close_final"}
        /\ local'[f] = local[f] /\ UNCHANGED closeVars
      BY <1>1, <1>6, AtLabel, AtNext, Here1 DEF CloseEmit, CloseHub, Transition
  <2>2. SameRole(f)
      BY <2>1, Sections DEF SameRole, Owns
  <2> QED BY <1>1, <1>2, <2>1, <2>2, RolesKeepPromises DEF SameWork
<1>7. CASE CloseFinal(f)
  <2>1. local[f].after \in Continuation
      BY <1>1, <1>7, Here DEF CloseFinal, Still, Suits, Local
  <2>2. /\ Position(f) = "close_final" /\ Position(f)' = local[f].after /\ local'[f] = local[f]
        /\ closeFinalized' /\ UNCHANGED <<closed, closeRequested, closeAdmission>>
      BY <1>1, <1>7, <2>1, AtLabel, Here1 DEF CloseFinal, Continuation
  <2>3. ~InOperation(f)
      BY <2>2, Sections
  <2>4. ClosePromises'
      BY <1>2, <2>1, <2>2, <2>3 DEF ClosePromises, SameRole, Continuation
  <2>5. \A t \in Turn : Owns(f, t) => Owns(f, t)'
      BY <2>2 DEF Owns
  <2>6. InterruptPromises'
      BY <1>1, <1>2, <2>1, <2>2, <2>5 DEF InterruptPromises, SameRole
  <2> QED BY <2>4, <2>6
<1> QED BY <1>3, <1>4, <1>5, <1>6, <1>7

(* Deliveries, and the coroutines' own steps.                                *)
LEMMA AnsweringRole ==
    ASSUME SessionInvariant, NEW caller \in Frame, pc[caller] = "await_run",
           Answer(caller, Runner, "idle"), pc[Runner] \in {"idle", "run_finish"},
           UNCHANGED <<ret, local>>
    PROVE  \A g \in Frame : SameRole(g)
<1>1. PICK label \in {Rest(caller), "abandoned"} :
         pc' = [pc EXCEPT ![caller] = label, ![Runner] = "idle"]
    BY DEF Answer
<1>2. pc \in [Frame -> Label] /\ Runner \in Frame /\ caller # Runner
    BY FrameFacts DEF SessionInvariant, FrameTypes
<1>3. /\ Position(caller) = "await_run" /\ Position(caller)' = label
      /\ Position(Runner) \in {"idle", "run_finish"} /\ Position(Runner)' = "idle"
    BY <1>1, <1>2 DEF Position, Delivering
<1>4. SameRole(caller) /\ SameRole(Runner)
    BY <1>2, <1>3, MovingRole
<1>5. \A g \in Frame \ {caller, Runner} : SameRole(g)
    BY <1>1, <1>2, StandingRole DEF Position, Delivering
<1> QED BY <1>4, <1>5

LEMMA CoroutineKeepsPromises ==
    ASSUME SessionInvariant, ClosePromises, InterruptPromises,
           RunTake \/ RunFinish \/ RunPark \/ RunResume \/ CancelSubmitted
    PROVE  ClosePromises' /\ InterruptPromises'
<1>1. UNCHANGED closeVars /\ SameWork
    BY DEF RunTake, RunFinish, RunPark, RunResume, CancelSubmitted, SameWork
<1>2. FrameTypes /\ Runner \in Frame
    BY FrameFacts DEF SessionInvariant
<1>3. ASSUME RunTake \/ RunPark
      PROVE  \A g \in Frame : SameRole(g)
  <2>1. /\ Position(Runner) \in {"idle", "run_park"}
        /\ Position(Runner)' \in {"idle", "run_enter"}
      BY <1>2, <1>3, AtLabel, Here1 DEF RunTake, RunPark
  <2>2. SameRole(Runner)
      BY <1>2, <2>1, MovingRole
  <2>3. \A g \in Frame \ {Runner} : pc'[g] = pc[g] /\ ret'[g] = ret[g] /\ local'[g] = local[g]
      BY <1>2, <1>3 DEF RunTake, RunPark, FrameTypes, Goto, SetLocal
  <2>4. \A g \in Frame \ {Runner} : SameRole(g)
      BY <2>3, StandingRole DEF Position, Delivering
  <2> QED BY <2>2, <2>4
<1>4. \A caller \in Submitted \cup Awaited \cup Executed :
         caller \in Frame /\ pc[caller] = "await_run"
    BY DEF SessionInvariant, CallersWait
<1>5. ASSUME RunFinish \/ RunResume \/ CancelSubmitted
      PROVE  \E caller \in Submitted \cup Awaited \cup Executed :
                /\ Answer(caller, Runner, "idle") /\ pc[Runner] \in {"idle", "run_finish"}
                /\ UNCHANGED <<ret, local>>
  <2>1. CASE RunFinish
      BY <2>1 DEF RunFinish, Executed
  <2>2. CASE RunResume
      BY <2>2 DEF RunResume, Awaited
  <2>3. CASE CancelSubmitted
      BY <2>3, QueueAnswered DEF CancelSubmitted, Awaited
  <2> QED BY <1>5, <2>1, <2>2, <2>3
<1>6. ASSUME RunFinish \/ RunResume \/ CancelSubmitted
      PROVE  \A g \in Frame : SameRole(g)
    BY <1>4, <1>5, <1>6, AnsweringRole
<1> QED BY <1>1, <1>3, <1>6, RolesKeepPromises

LEMMA DeliveryKeepsPromises ==
    ASSUME SessionInvariant, ClosePromises, InterruptPromises, NEW f \in Frame,
           FinishDelivery(f) \/ Rejoin(f)
    PROVE  ClosePromises' /\ InterruptPromises'
<1>1. /\ UNCHANGED closeVars /\ SameWork /\ UNCHANGED <<ret, local>> /\ FrameTypes
      /\ pc[f] \in {"deliver", "rejoin"}
    BY DEF FinishDelivery, Rejoin, SameWork, SessionInvariant
<1>2. Position(f) = ret[f] /\ ret[f] \notin {"deliver", "rejoin"}
    BY <1>1 DEF SessionInvariant, FramesFit, Fits, Own, Position, Delivering, Resumption
<1>3. Position(f)' = ret[f]
    BY <1>1, <1>2 DEF FinishDelivery, Rejoin, Position, Delivering, Goto, FrameTypes
<1>4. \A g \in Frame \ {f} : Position(g)' = Position(g)
    BY <1>1 DEF FinishDelivery, Rejoin, Goto, FrameTypes, Position, Delivering
<1> QED BY <1>1, <1>2, <1>3, <1>4, StandingRole, RolesKeepPromises

LEMMA BeginningKeepsPromises ==
    ASSUME SessionInvariant, ClosePromises, InterruptPromises, NEW f \in Frame,
           BeginCall(f) \/ BeginCallback(f)
    PROVE  ClosePromises' /\ InterruptPromises'
<1>1. UNCHANGED closeVars /\ SameWork /\ FrameTypes
    BY DEF BeginCall, BeginCallback, SameWork, SessionInvariant
<1>2. PICK g \in Frame, call \in SessionCall : pc[g] \in {"idle", "absent"} /\ Begin(g, call)
    BY <1>1, FrameFacts DEF BeginCall, BeginCallback, FrameTypes, Frame, ThreadOf
<1>3. Entry[call.op] \in {"prepare", "start", "claim", "flush", "close", "subscribe"}
    BY DEF SessionCall, Entry
<1>4. Position(g) \in {"idle", "absent"} /\ Position(g)' = Entry[call.op]
    BY <1>1, <1>2, <1>3, AtLabel, Here1 DEF Begin
<1>5. SameRole(g)
    BY <1>3, <1>4, MovingRole
<1>6. \A h \in Frame \ {g} : pc'[h] = pc[h] /\ ret'[h] = ret[h] /\ local'[h] = local[h]
    BY <1>1, <1>2 DEF Begin, Goto, FrameTypes
<1>7. \A h \in Frame \ {g} : SameRole(h)
    BY <1>6, StandingRole DEF Position, Delivering
<1> QED BY <1>1, <1>5, <1>7, RolesKeepPromises

LEMMA NextKeepsPromises ==
    ASSUME SessionInvariant, ClosePromises, InterruptPromises, [Next]_vars
    PROVE  ClosePromises' /\ InterruptPromises'
<1>1. CASE UNCHANGED vars
  <2>1. UNCHANGED closeVars /\ SameWork
      BY <1>1 DEF vars, SameWork
  <2>2. \A g \in Frame : Position(g)' = Position(g) /\ local'[g] = local[g]
      BY <1>1 DEF vars, Position, Delivering
  <2> QED BY <2>1, <2>2, StandingRole, RolesKeepPromises
<1>2. ASSUME NEW f \in Frame, StartTurn(f) \/ Prepare(f) \/ Submit(f) \/ Subscribe(f)
      PROVE  ClosePromises' /\ InterruptPromises'
  <2>1. Plain(f) /\ UNCHANGED closeVars /\ SameWork
      BY <1>2, StartTurnIsPlain DEF SessionInvariant, SameWork
  <2>2. CASE Submit(f)
    <3>1. \A g \in Frame \ {f} :
             pc'[g] = pc[g] /\ ret'[g] = ret[g] /\ local'[g] = local[g]
        BY <2>2 DEF Submit, SessionInvariant, FrameTypes, Goto, SetLocal
    <3>2. \A g \in Frame \ {f} : SameRole(g)
        BY <3>1, StandingRole DEF Position, Delivering
    <3>3. SameRole(f)
        BY <2>1, MovingRole DEF Plain
    <3> QED BY <2>1, <3>2, <3>3, RolesKeepPromises
  <2>3. CASE ~Submit(f)
    <3>1. Moves(f)
        BY <1>2, <2>3, StartAdmissionGoes, StartRejectGoes, StartRepeatGoes, StartAdmitGoes,
           StartPhaseGoes, StartEmitGoes, StartReturnGoes, PrepareGoes, SubscribeGoes
           DEF StartTurn, Goes
    <3> QED BY <2>1, <3>1, PlainKeepsPromises
  <2> QED BY <2>2, <2>3
<1>3. ASSUME NEW f \in Frame, Interrupt(f)
      PROVE  ClosePromises' /\ InterruptPromises'
  <2>1. CASE Claim(f) \/ IntComplete(f) \/ IntExit(f)
      BY <2>1, ClaimKeepsPromises, CompleteKeepsPromises, ExitsKeepPromises
  <2>2. CASE ClaimWait(f)
      BY <2>2, ClaimWaitGoes, FlushIsWorking, WorkingKeepsPromises DEF Goes
  <2>3. CASE \/ Coordinate(f) \/ IntEnter(f) \/ IntFlush(f) \/ IntFlushDone(f) \/ IntRequest(f)
             \/ IntOutcome(f) \/ IntAccepted(f) \/ IntCommit(f) \/ IntClear(f) \/ IntIdle(f)
             \/ IntResolve(f) \/ IntResolveClear(f) \/ IntRecover(f)
    <3>1. Moves(f)
        BY <2>3, CoordinateGoes, IntEnterGoes, IntFlushGoes, IntFlushDoneGoes, IntRequestGoes,
           IntOutcomeGoes, IntAcceptedGoes, IntCommitGoes, IntClearGoes, IntIdleGoes,
           IntResolveGoes, IntResolveClearGoes, IntRecoverGoes DEF Goes
    <3> QED BY <2>3, <3>1, MiddleIsOwning, OwningKeepsPromises
  <2> QED BY <1>3, <2>1, <2>2, <2>3 DEF Interrupt
<1>4. ASSUME NEW f \in Frame, Flush(f)
      PROVE  ClosePromises' /\ InterruptPromises'
  <2>1. Moves(f)
      BY <1>4, FlushAdmissionGoes, FlushWaitGoes, FlushEnterGoes, FlushRequestGoes,
         FlushDoneGoes, FlushExitGoes DEF Flush, Goes
  <2> QED BY <1>4, <2>1, ExitsKeepPromises, FlushIsWorking, WorkingKeepsPromises DEF Flush
<1>5. ASSUME NEW f \in Frame, Close(f)
      PROVE  ClosePromises' /\ InterruptPromises'
    BY <1>5, AskingKeepsPromises, CloseKeepsPromises DEF Close
<1>6. ASSUME RuntimeLoop
      PROVE  ClosePromises' /\ InterruptPromises'
  <2>1. CASE RunEnter \/ RunStage \/ RunCommit \/ RunClear \/ RunIdle
    <3>1. Moves(Runner)
        BY <2>1, RunEnterGoes, RunStageGoes, RunCommitGoes, RunClearGoes, RunIdleGoes DEF Goes
    <3> QED BY <2>1, <3>1, RunIsWorking, WorkingKeepsPromises, FrameFacts
  <2> QED BY <1>6, <2>1, ExitsKeepPromises, CoroutineKeepsPromises, FrameFacts DEF RuntimeLoop
<1> QED BY <1>1, <1>2, <1>3, <1>4, <1>5, <1>6, BeginningKeepsPromises, DeliveryKeepsPromises
        DEF Next, Step, RunTurn, Finished

(* Between any two steps every close that was asked for, and every interrupt  *)
(* that was claimed, has a frame that will see to it.                         *)
THEOREM PromisesAreKept == Spec => [](ClosePromises /\ InterruptPromises)
<1>1. Init => ClosePromises /\ InterruptPromises
  <2> SUFFICES ASSUME Init
               PROVE  ClosePromises /\ InterruptPromises
      OBVIOUS
  <2>1. \A f \in Frame : Position(f) \in {"idle", "absent"}
      BY DEF Init, Position, Delivering
  <2>2. \A t \in Turn : interrupts[t].status = "none" /\ ~interrupts[t].closeAfter
      BY DEF Init, NoWork
  <2> QED BY <2>1, <2>2 DEF Init, ClosePromises, InterruptPromises
<1>2. /\ SessionInvariant /\ ClosePromises /\ InterruptPromises /\ [Next]_vars
      => ClosePromises' /\ InterruptPromises'
    BY NextKeepsPromises
<1> QED BY <1>1, <1>2, SessionStands, PTL DEF Spec

(* _serialized_operation and _complete_interrupt_request: a close that was    *)
(* deferred, to the operation in progress or to the end of an interrupt, is    *)
(* never forgotten.                                                          *)
THEOREM DeferredCloseHappens == Spec => []DeferredCloseIsHonoured
<1>1. SessionInvariant /\ ClosePromises /\ InterruptPromises => DeferredCloseIsHonoured
  <2> SUFFICES ASSUME SessionInvariant, ClosePromises, InterruptPromises, Quiet,
                      closeRequested \/ closeAdmission \/ \E t \in Turn : interrupts[t].closeAfter
               PROVE  closed /\ closeFinalized /\ ~closeRequested
      BY DEF DeferredCloseIsHonoured
  <2>1. \A f \in Frame : Position(f) \in {"idle", "absent", "abandoned"}
      BY DEF Quiet, Position, Delivering
  <2>2. \A f \in Frame : ~InOperation(f) /\ Position(f) \notin RoleLabels
      BY <2>1, Sections
  <2>3. ~closeRequested /\ (closeAdmission => closed) /\ (closed => closeFinalized)
      BY <2>2 DEF ClosePromises
  <2>4. \A t \in Turn : interrupts[t].status # "live"
      BY <2>2 DEF InterruptPromises, Owns
  <2>5. closeAdmission
      BY <2>2, <2>3, <2>4 DEF InterruptPromises
  <2> QED BY <2>3, <2>5
<1> QED BY <1>1, SessionStands, PromisesAreKept, PTL

HIDE DEF RoleLabels, OperationLabels, CloserLabels, FinisherLabels, AskerLabels, OwnerLabels

-----------------------------------------------------------------------------
(* Turns, their generations and their records.                              *)

Reason == {Gate!NotRetired, "new_turn", "turn_terminal", "interrupt", "reset", "session_closed"}

(* A generation of t was retired by an interrupt.                             *)
RetiredByInterrupt(t) ==
    \E g \in Gate!Generation : knownTurns[g] = t /\ retired[g] = "interrupt"

(* The active generation is known and not retired, the generations still to be *)
(* issued are neither.                                                       *)
GateFits ==
    /\ retired \in [Gate!Generation -> Reason] /\ knownTurns \in [Gate!Generation -> TurnOrNone]
    /\ startCount \in 0 .. MaxGenerations
    /\ active.turn = NoTurn <=> active.generation = 0
    /\ active.turn # NoTurn =>
          /\ retired[active.generation] = Gate!NotRetired
          /\ knownTurns[active.generation] = active.turn
    /\ \A g \in Gate!Generation : g > startCount =>
          knownTurns[g] = NoTurn /\ retired[g] = Gate!NotRetired

(* The session has one turn: its context's, its generation's and the one that  *)
(* is being interrupted, and none is once a close was admitted.               *)
OneTurn ==
    /\ context.turn # NoTurn /\ active.turn # NoTurn => context.turn = active.turn
    /\ \A t \in Turn :
          /\ interrupts[t].status = "live" =>
                /\ activeInterrupt = t /\ ~closeAdmission
                /\ context.turn \in {t, NoTurn} /\ active.turn \in {t, NoTurn}
          /\ interrupts[t].reserved => interrupts[t].status = "live"

(* What was recorded, or is about to be, has its generation retired.          *)
RecordsFit ==
    \A t \in Turn :
        /\ \A i \in 1 .. Len(records) : records[i].turn = t =>
              /\ active.turn # t
              /\ records[i].outcome = "interrupted" => RetiredByInterrupt(t)
        /\ interrupts[t].deferred = "interrupted" => RetiredByInterrupt(t)
        /\ context.turn = t /\ active.turn = NoTurn /\ ~Terminal(t) => RetiredByInterrupt(t)

(* An interrupt that asked for the turn it found current has retired it.      *)
PendingLabels == {"int_outcome", "int_accepted", "int_commit"}
RequestsFit ==
    /\ \A f \in Frame, t \in Turn :
          Position(f) \in PendingLabels /\ local[f].turn = t /\ local[f].current = t
             => RetiredByInterrupt(t)
    /\ local[Runner].work = NoTurn

TurnInvariant == GateFits /\ OneTurn /\ RecordsFit /\ RequestsFit

(* What a step may do to the turns.                                           *)
WorkStays ==
    \A t \in Turn : /\ interrupts'[t].status = interrupts[t].status
                    /\ interrupts'[t].reserved => interrupts[t].reserved
                    /\ interrupts'[t].deferred \in {interrupts[t].deferred, "none"}
Rests ==
    UNCHANGED <<gateVars, records, context, activeInterrupt, closeAdmission>> /\ WorkStays
Clears ==
    /\ context' = NoContext
    /\ UNCHANGED <<gateVars, records, activeInterrupt, closeAdmission>> /\ WorkStays
Admits(t) ==
    /\ ~InterruptInProgress(t) /\ ~Terminal(t) /\ CurrentTurn = NoTurn
    /\ Gate!StartGeneration(t) /\ context' = active'
    /\ UNCHANGED <<records, activeInterrupt, closeAdmission>> /\ WorkStays
Rejects(t) ==
    /\ InterruptInProgress(t) \/ CurrentTurn \notin {NoTurn, t}
    /\ ~Terminal(t) /\ Registry!Retain(t, "rejected")
    /\ UNCHANGED <<gateVars, context, activeInterrupt, closeAdmission>> /\ WorkStays
Abandons(t) ==
    /\ AdvanceTurn(t, "reset") /\ context' = NoContext
    /\ UNCHANGED <<records, activeInterrupt, closeAdmission>> /\ WorkStays
Retires(t) ==
    /\ AdvanceTurn(t, "interrupt")
    /\ UNCHANGED <<records, context, activeInterrupt, closeAdmission>> /\ WorkStays
Ends(t, outcome) ==
    /\ ~Terminal(t)
    /\ outcome = "interrupted" => RetiredByInterrupt(t)
    /\ interrupts[t].reserved /\ interrupts'[t].reserved => outcome = "interrupted"
    /\ Registry!Retain(t, outcome) /\ AdvanceTurn(t, "turn_terminal")
    /\ UNCHANGED <<context, activeInterrupt, closeAdmission>> /\ WorkStays
Claims(t) ==
    /\ t = CurrentTurn /\ ~closeAdmission /\ interrupts[t].status = "none"
    /\ \E th \in Thread :
          interrupts' = [interrupts EXCEPT ![t] = [NoWork EXCEPT !.status = "live", !.owner = th,
                                                                 !.reserved = TRUE]]
    /\ activeInterrupt' = t
    /\ UNCHANGED <<gateVars, records, context, closeAdmission>>
Defers(t, outcome) ==
    /\ outcome = "interrupted" => RetiredByInterrupt(t)
    /\ DeferTerminal(t, outcome)
    /\ UNCHANGED <<gateVars, records, context, activeInterrupt, closeAdmission>>
Completes(t) ==
    /\ interrupts' = [interrupts EXCEPT ![t].status = "done", ![t].reserved = FALSE]
    /\ activeInterrupt' = IF activeInterrupt = t THEN NoTurn ELSE activeInterrupt
    /\ UNCHANGED <<gateVars, records, context, closeAdmission>>
AdmitsClose ==
    /\ ~Live(activeInterrupt) /\ closeAdmission'
    /\ UNCHANGED <<gateVars, records, context, activeInterrupt, interrupts>>
Closes(t) ==
    /\ closeAdmission
    /\ UNCHANGED records \/ (t # NoTurn /\ Registry!Retain(t, "closed"))
    /\ IF active.turn # NoTurn /\ t \in {NoTurn, active.turn}
         THEN Gate!Advance("session_closed") ELSE UNCHANGED gateVars
    /\ context' = NoContext
    /\ UNCHANGED <<activeInterrupt, interrupts, closeAdmission>>

TurnStep ==
    \/ Rests \/ Clears \/ AdmitsClose
    \/ \E t \in Turn : \/ Admits(t) \/ Rejects(t) \/ Abandons(t) \/ Retires(t) \/ Claims(t)
                       \/ Completes(t)
                       \/ \E outcome \in TurnOutcome : Ends(t, outcome) \/ Defers(t, outcome)
    \/ \E t \in TurnOrNone : Closes(t)

-----------------------------------------------------------------------------
(* The gate.                                                                *)

LEMMA ActiveGeneration ==
    ASSUME DataTypes, GateFits, active.turn # NoTurn
    PROVE  active.generation \in Gate!Generation /\ active.turn \in Turn
BY DEF DataTypes, GateFits, Context, Gate!Generation

LEMMA AdvancingFits ==
    ASSUME DataTypes, GateFits, NEW reason \in Reason \ {Gate!NotRetired}, Gate!Advance(reason)
    PROVE  /\ GateFits' /\ active' = Gate!Inactive
           /\ \A t \in Turn : RetiredByInterrupt(t) => RetiredByInterrupt(t)'
           /\ reason = "interrupt" => \A t \in Turn : active.turn = t => RetiredByInterrupt(t)'
<1> DEFINE g == active.generation
<1>1. g # 0
    BY DEF Gate!Advance, Gate!IsActive
<1>2. active.turn # NoTurn /\ g \in Gate!Generation
    BY <1>1, ActiveGeneration DEF GateFits
<1>3. /\ retired' = [retired EXCEPT ![g] = reason] /\ active' = Gate!Inactive
      /\ UNCHANGED <<knownTurns, startCount>>
    BY <1>1 DEF Gate!Advance, Gate!RetireActive, Gate!IsActive
<1>4. retired[g] = Gate!NotRetired /\ knownTurns[g] = active.turn
    BY <1>2 DEF GateFits
<1>5. Gate!NotRetired # "interrupt"
    BY DEF Gate!NotRetired
<1>6. g <= startCount
    BY <1>2, <1>4 DEF GateFits, Gate!Generation
<1>7. /\ retired' \in [Gate!Generation -> Reason] /\ retired'[g] = reason
      /\ \A h \in Gate!Generation \ {g} : retired'[h] = retired[h]
    BY <1>2, <1>3 DEF GateFits
<1>8. GateFits'
    BY <1>3, <1>6, <1>7 DEF GateFits, Gate!Inactive, Gate!Generation
<1>9. \A t \in Turn : RetiredByInterrupt(t) => RetiredByInterrupt(t)'
    BY <1>3, <1>4, <1>5, <1>7 DEF RetiredByInterrupt
<1>10. ASSUME reason = "interrupt", NEW t \in Turn, active.turn = t
       PROVE  RetiredByInterrupt(t)'
    BY <1>2, <1>3, <1>4, <1>7, <1>10 DEF RetiredByInterrupt
<1> QED BY <1>3, <1>8, <1>9, <1>10

LEMMA StartingFits ==
    ASSUME DataTypes, GateFits, active.turn = NoTurn, NEW t \in Turn, Gate!StartGeneration(t)
    PROVE  /\ GateFits' /\ active'.turn = t
           /\ \A u \in Turn : RetiredByInterrupt(u) => RetiredByInterrupt(u)'
<1> DEFINE g == startCount + 1
<1>1. active.generation = 0
    BY DEF GateFits
<1>2. /\ g \in Gate!Generation /\ active' = [turn |-> t, generation |-> g]
      /\ knownTurns' = [knownTurns EXCEPT ![g] = t] /\ startCount' = g /\ retired' = retired
    BY <1>1 DEF Gate!StartGeneration, Gate!RetireActive, Gate!IsActive
<1>3. startCount \in Nat /\ g > startCount
    BY DEF GateFits
<1>4. knownTurns[g] = NoTurn /\ retired[g] = Gate!NotRetired
    BY <1>2, <1>3 DEF GateFits
<1>5. /\ knownTurns' \in [Gate!Generation -> TurnOrNone] /\ knownTurns'[g] = t
      /\ \A h \in Gate!Generation \ {g} : knownTurns'[h] = knownTurns[h]
    BY <1>2 DEF GateFits, TurnOrNone
<1>6. \A h \in Gate!Generation : h > g => h > startCount /\ h # g
    BY <1>3 DEF Gate!Generation
<1>7. g \in 0 .. MaxGenerations /\ g # 0
    BY <1>2, <1>3 DEF Gate!Generation
<1>8. GateFits'
    BY <1>2, <1>4, <1>5, <1>6, <1>7 DEF GateFits
<1>9. \A u \in Turn : RetiredByInterrupt(u) => RetiredByInterrupt(u)'
    BY <1>2, <1>4, <1>5 DEF RetiredByInterrupt
<1> QED BY <1>2, <1>8, <1>9

(* What a step may do to the gate: keep what was retired, and make nobody      *)
(* active but a turn that is admitted.                                       *)
Retained ==
    /\ GateFits'
    /\ \A t \in Turn : RetiredByInterrupt(t) => RetiredByInterrupt(t)'

LEMMA GateStands ==
    ASSUME GateFits, UNCHANGED gateVars
    PROVE  Retained
BY DEF Retained, GateFits, RetiredByInterrupt, gateVars

LEMMA TurnAdvances ==
    ASSUME DataTypes, GateFits, NEW t \in Turn, NEW reason \in Reason \ {Gate!NotRetired},
           AdvanceTurn(t, reason)
    PROVE  /\ Retained /\ active'.turn # t /\ active'.turn \in {active.turn, NoTurn}
           /\ active'.turn # active.turn => active.turn = t
           /\ active.turn = t /\ reason = "interrupt" => RetiredByInterrupt(t)'
<1>1. CASE active.turn = t
    BY <1>1, AdvancingFits DEF AdvanceTurn, Retained, Gate!Inactive
<1>2. CASE active.turn # t
    BY <1>2, GateStands DEF AdvanceTurn, gateVars
<1> QED BY <1>1, <1>2

-----------------------------------------------------------------------------
(* The records.                                                             *)

LEMMA RecordTypes ==
    ASSUME DataTypes, NEW i \in 1 .. Len(records)
    PROVE  records[i].turn \in Turn /\ records[i].outcome \in TurnOutcome
<1>1. records[i] \in Registry!Record
    BY ElementOfSeq DEF DataTypes
<1> QED BY <1>1 DEF Registry!Record, Registry!TurnOutcome, TurnOutcome

LEMMA TerminalIsRecorded ==
    ASSUME DataTypes
    PROVE  /\ \A t : Terminal(t) <=> \E i \in 1 .. Len(records) : records[i].turn = t
           /\ \A t : Terminal(t) => \E i \in 1 .. Len(records) :
                        records[i].turn = t /\ Outcome(t) = records[i].outcome
<1>1. DOMAIN records = 1 .. Len(records)
    BY DEF DataTypes
<1>2. \A i \in 1 .. Len(records) : records[i].outcome # "none"
    BY RecordTypes DEF TurnOutcome
<1>3. ASSUME NEW t
      PROVE  t \in Registry!Recorded <=> \E i \in 1 .. Len(records) : records[i].turn = t
    BY <1>1 DEF Registry!Recorded
<1>4. ASSUME NEW t, t \in Registry!Recorded
      PROVE  /\ Terminal(t)
             /\ \E i \in 1 .. Len(records) :
                   records[i].turn = t /\ Outcome(t) = records[i].outcome
  <2> DEFINE i == CHOOSE i \in 1 .. Len(records) : records[i].turn = t
  <2>1. i \in 1 .. Len(records) /\ records[i].turn = t
      BY <1>3, <1>4
  <2>2. Outcome(t) = records[i].outcome
      BY <1>1, <1>4 DEF Outcome, Registry!OutcomeOf
  <2> QED BY <1>2, <2>1, <2>2 DEF Terminal
<1>5. ASSUME NEW t, t \notin Registry!Recorded
      PROVE  ~Terminal(t)
    BY <1>5 DEF Terminal, Outcome, Registry!OutcomeOf, Registry!NoOutcome
<1> QED BY <1>3, <1>4, <1>5

LEMMA RetainedRecord ==
    ASSUME DataTypes, NEW t, NEW outcome, Registry!Retain(t, outcome)
    PROVE  /\ Len(records') = Len(records) + 1 /\ Len(records) \in Nat
           /\ \A i \in 1 .. Len(records) : records'[i] = records[i]
           /\ records'[Len(records) + 1].turn = t
           /\ records'[Len(records) + 1].outcome = outcome
<1>1. records \in Seq(Registry!Record)
    BY DEF DataTypes
<1> QED BY <1>1 DEF Registry!Retain

(* Recording an outcome gives it to that turn and to no other.                *)
LEMMA OutcomesAfter ==
    ASSUME DataTypes, NEW t, NEW outcome \in TurnOutcome, Registry!Retain(t, outcome)
    PROVE  /\ \A u : u # t => Outcome(u)' = Outcome(u)
           /\ ~Terminal(t) => Outcome(t)' = outcome
           /\ Terminal(t)'
<1> DEFINE n == Len(records)
           old(u) == CHOOSE i \in DOMAIN records : records[i].turn = u
           new(u) == CHOOSE i \in DOMAIN records' : records'[i].turn = u
<1>1. /\ Len(records') = n + 1 /\ n \in Nat
      /\ \A i \in 1 .. n : records'[i] = records[i]
      /\ records'[n + 1].turn = t /\ records'[n + 1].outcome = outcome
    BY RetainedRecord
<1>2. /\ DOMAIN records = 1 .. n
      /\ DOMAIN records' = 1 .. n + 1
    BY DEF DataTypes, Registry!Retain
<1>3. /\ \A u : Outcome(u) = IF u \in Registry!Recorded THEN records[old(u)].outcome ELSE "none"
      /\ \A u : Outcome(u)' = IF u \in Registry!Recorded' THEN records'[new(u)].outcome ELSE "none"
    BY DEF Outcome, Registry!OutcomeOf, Registry!NoOutcome
<1>4. /\ \A u : u \in Registry!Recorded <=> \E i \in 1 .. n : records[i].turn = u
      /\ \A u : u \in Registry!Recorded' <=> \E i \in 1 .. n + 1 : records'[i].turn = u
    BY <1>2 DEF Registry!Recorded
<1>5. \A i : i \in 1 .. n + 1 <=> i \in 1 .. n \/ i = n + 1
    BY <1>1
<1>6. \A u : /\ u \in Registry!Recorded => old(u) \in 1 .. n /\ records[old(u)].turn = u
             /\ u \in Registry!Recorded' => new(u) \in 1 .. n + 1 /\ records'[new(u)].turn = u
    BY <1>2, <1>4
<1>7. ASSUME NEW u, u # t
      PROVE  Outcome(u)' = Outcome(u)
  <2>1. \A i : i \in DOMAIN records /\ records[i].turn = u
                  <=> i \in DOMAIN records' /\ records'[i].turn = u
      BY <1>1, <1>2, <1>5, <1>7
  <2>2. old(u) = new(u)
      BY <2>1
  <2>3. u \in Registry!Recorded <=> u \in Registry!Recorded'
      BY <1>1, <1>4, <1>5, <1>7
  <2>4. u \in Registry!Recorded => records[old(u)] = records'[new(u)]
      BY <1>1, <1>6, <2>2
  <2> QED BY <1>3, <2>3, <2>4
<1>8. ASSUME ~Terminal(t)
      PROVE  Outcome(t)' = outcome
  <2>1. \A i \in 1 .. n : records[i].turn # t
      BY <1>8, TerminalIsRecorded
  <2>2. t \in Registry!Recorded'
      BY <1>1, <1>4, <1>5
  <2>3. new(t) \in 1 .. n + 1 /\ records'[new(t)].turn = t
      BY <1>6, <2>2
  <2>4. new(t) = n + 1
      BY <1>1, <1>5, <2>1, <2>3
  <2> QED BY <1>1, <1>3, <2>2, <2>4
<1>9. Terminal(t)'
  <2>1. t \in Registry!Recorded'
      BY <1>1, <1>4, <1>5
  <2>2. new(t) \in 1 .. n + 1
      BY <1>6, <2>1
  <2>3. records'[new(t)].outcome # "none"
    <3>1. \A i \in 1 .. n : records[i].outcome # "none"
        BY RecordTypes DEF TurnOutcome
    <3>2. outcome # "none"
        BY DEF TurnOutcome
    <3> QED BY <1>1, <1>5, <2>2, <3>1, <3>2
  <2> QED BY <1>3, <2>1, <2>3 DEF Terminal
<1> QED BY <1>7, <1>8, <1>9

LEMMA EndsRemain ==
    ASSUME DataTypes,
           \/ UNCHANGED records
           \/ \E t \in Turn, outcome \in TurnOutcome : Registry!Retain(t, outcome)
    PROVE  \A u : Terminal(u) => Terminal(u)'
<1>1. CASE UNCHANGED records
    BY <1>1 DEF Terminal, Outcome, Registry!OutcomeOf, Registry!Recorded
<1>2. ASSUME NEW t \in Turn, NEW outcome \in TurnOutcome, Registry!Retain(t, outcome), NEW u,
             Terminal(u)
      PROVE  Terminal(u)'
  <2>1. CASE u = t
      BY <1>2, <2>1, OutcomesAfter
  <2>2. CASE u # t
      BY <1>2, <2>2, OutcomesAfter DEF Terminal
  <2> QED BY <2>1, <2>2
<1> QED BY <1>1, <1>2

-----------------------------------------------------------------------------
(* The effects keep what is said about turns.                                *)

TurnsFit == GateFits /\ OneTurn /\ RecordsFit

(* Part by part: what was recorded, what is deferred, the context.             *)
LEMMA RecordsKept ==
    ASSUME DataTypes, TurnsFit, Retained,
           \A t \in Turn : \A i \in 1 .. Len(records) :
               records[i].turn = t => active'.turn # t,
           \/ UNCHANGED records
           \/ \E t \in Turn, outcome \in TurnOutcome :
                 /\ Registry!Retain(t, outcome) /\ active'.turn # t
                 /\ outcome = "interrupted" => RetiredByInterrupt(t)
    PROVE  \A t \in Turn : \A i \in 1 .. Len(records') : records'[i].turn = t =>
               /\ active'.turn # t
               /\ records'[i].outcome = "interrupted" => RetiredByInterrupt(t)'
<1>1. \A t \in Turn : RetiredByInterrupt(t) => RetiredByInterrupt(t)'
    BY DEF Retained
<1>2. \A u \in Turn : \A i \in 1 .. Len(records) :
         records[i].turn = u /\ records[i].outcome = "interrupted" => RetiredByInterrupt(u)'
    BY <1>1 DEF TurnsFit, RecordsFit
<1>3. CASE UNCHANGED records
    BY <1>2, <1>3
<1>4. ASSUME NEW t \in Turn, NEW outcome \in TurnOutcome, Registry!Retain(t, outcome),
             active'.turn # t, outcome = "interrupted" => RetiredByInterrupt(t),
             NEW u \in Turn, NEW i \in 1 .. Len(records'), records'[i].turn = u
      PROVE  /\ active'.turn # u
             /\ records'[i].outcome = "interrupted" => RetiredByInterrupt(u)'
  <2>1. /\ Len(records') = Len(records) + 1 /\ Len(records) \in Nat
        /\ \A k \in 1 .. Len(records) : records'[k] = records[k]
        /\ records'[Len(records) + 1].turn = t /\ records'[Len(records) + 1].outcome = outcome
      BY <1>4, RetainedRecord
  <2>2. CASE i \in 1 .. Len(records)
      BY <1>2, <1>4, <2>1, <2>2
  <2>3. CASE i = Len(records) + 1
      BY <1>1, <1>4, <2>1, <2>3
  <2> QED BY <2>1, <2>2, <2>3
<1> QED BY <1>3, <1>4

LEMMA DeferredKept ==
    ASSUME TurnsFit, Retained,
           \A t \in Turn : \/ interrupts'[t].deferred \in {interrupts[t].deferred, "none"}
                           \/ interrupts'[t].deferred = "interrupted" => RetiredByInterrupt(t)
    PROVE  \A t \in Turn : interrupts'[t].deferred = "interrupted" => RetiredByInterrupt(t)'
BY DEF TurnsFit, RecordsFit, Retained

LEMMA ContextKept ==
    ASSUME TurnsFit, Retained, \A u : Terminal(u) => Terminal(u)',
           context'.turn \in {context.turn, NoTurn, active'.turn},
           \A t \in Turn : context.turn = t /\ active.turn # NoTurn /\ active'.turn = NoTurn
                             => Terminal(t)' \/ RetiredByInterrupt(t)'
    PROVE  \A t \in Turn : context'.turn = t /\ active'.turn = NoTurn /\ ~Terminal(t)'
                             => RetiredByInterrupt(t)'
BY DEF TurnsFit, RecordsFit, Retained

LEMMA RestingFits ==
    ASSUME DataTypes, TurnsFit, UNCHANGED <<gateVars, records, activeInterrupt, closeAdmission>>,
           context' \in {context, NoContext}, WorkStays
    PROVE  TurnsFit'
<1>1. Retained /\ \A u : Terminal(u) => Terminal(u)'
    BY GateStands, EndsRemain DEF TurnsFit
<1>2. context'.turn \in {context.turn, NoTurn} /\ active' = active /\ records' = records
    BY DEF NoContext, gateVars
<1>3. OneTurn'
    BY <1>2 DEF TurnsFit, OneTurn, WorkStays
<1>4. RecordsFit'
  <2>1. \A t \in Turn : \A i \in 1 .. Len(records) : records[i].turn = t => active'.turn # t
      BY <1>2 DEF TurnsFit, RecordsFit
  <2> QED BY <1>1, <1>2, <2>1, RecordsKept, DeferredKept, ContextKept
             DEF RecordsFit, WorkStays
<1> QED BY <1>1, <1>3, <1>4 DEF TurnsFit, Retained

LEMMA AdmittingFits ==
    ASSUME DataTypes, TurnsFit, NEW t \in Turn, Admits(t)
    PROVE  TurnsFit'
<1>1. ~Terminal(t) /\ context.turn = NoTurn /\ active.turn = NoTurn
    BY DEF Admits, CurrentTurn
<1>2. Retained /\ active'.turn = t /\ context' = active' /\ \A u : Terminal(u) => Terminal(u)'
    BY <1>1, StartingFits, EndsRemain DEF TurnsFit, Retained, Admits
<1>3. \A u \in Turn : interrupts[u].status = "live" => u = t
    BY DEF TurnsFit, OneTurn, Admits, InterruptInProgress, Live
<1>4. OneTurn'
    BY <1>2, <1>3 DEF TurnsFit, OneTurn, Admits, WorkStays
<1>5. \A u \in Turn : \A i \in 1 .. Len(records) : records[i].turn = u => active'.turn # u
    BY <1>1, <1>2, TerminalIsRecorded
<1>6. UNCHANGED records /\ WorkStays
    BY DEF Admits
<1>7. RecordsFit'
    BY <1>1, <1>2, <1>5, <1>6, RecordsKept, DeferredKept, ContextKept
       DEF RecordsFit, WorkStays
<1> QED BY <1>2, <1>4, <1>7 DEF TurnsFit, Retained

LEMMA RejectingFits ==
    ASSUME DataTypes, TurnsFit, NEW t \in Turn, Rejects(t)
    PROVE  TurnsFit'
<1>1. Retained /\ active' = active /\ context' = context /\ Registry!Retain(t, "rejected")
      /\ WorkStays
    BY GateStands DEF TurnsFit, Rejects, gateVars
<1>2. "rejected" \in TurnOutcome
    BY DEF TurnOutcome
<1>3. \A u : Terminal(u) => Terminal(u)'
    BY <1>1, <1>2, EndsRemain
<1>4. active.turn # t
    BY DataTurns
       DEF TurnsFit, OneTurn, Rejects, InterruptInProgress, Live, CurrentTurn, DataTypes, 
                     TurnOrNone
<1>5. \A u \in Turn : \A i \in 1 .. Len(records) : records[i].turn = u => active'.turn # u
    BY <1>1 DEF TurnsFit, RecordsFit
<1>6. OneTurn'
    BY <1>1 DEF TurnsFit, OneTurn, Rejects, WorkStays
<1>7. RecordsFit'
    BY <1>1, <1>2, <1>3, <1>4, <1>5, RecordsKept, DeferredKept, ContextKept
       DEF RecordsFit, WorkStays
<1> QED BY <1>1, <1>6, <1>7 DEF TurnsFit, Retained

LEMMA RetiringFits ==
    ASSUME DataTypes, TurnsFit, NEW t \in Turn, Abandons(t) \/ Retires(t)
    PROVE  TurnsFit'
<1>1. PICK reason \in {"reset", "interrupt"} :
         /\ AdvanceTurn(t, reason)
         /\ reason = "interrupt" \/ context' = NoContext
         /\ context' \in {context, NoContext}
         /\ UNCHANGED <<records, activeInterrupt, closeAdmission>> /\ WorkStays
    BY DEF Abandons, Retires
<1>2. reason \in Reason \ {Gate!NotRetired}
    BY DEF Reason, Gate!NotRetired
<1>3. /\ Retained /\ active'.turn # t /\ active'.turn \in {active.turn, NoTurn}
      /\ active'.turn # active.turn => active.turn = t
      /\ active.turn = t /\ reason = "interrupt" => RetiredByInterrupt(t)'
    BY <1>1, <1>2, TurnAdvances DEF TurnsFit
<1>4. context'.turn \in {context.turn, NoTurn} /\ (reason = "interrupt" \/ context'.turn = NoTurn)
    BY <1>1 DEF NoContext
<1>5. \A u : Terminal(u) => Terminal(u)'
    BY <1>1, EndsRemain
<1>6. OneTurn'
    BY <1>1, <1>3, <1>4 DEF TurnsFit, OneTurn, WorkStays
<1>7. \A u \in Turn : \A i \in 1 .. Len(records) : records[i].turn = u => active'.turn # u
    BY <1>3 DEF TurnsFit, RecordsFit
<1>8. RecordsFit'
  <2>1. \A u \in Turn : context'.turn = u /\ active'.turn = NoTurn /\ ~Terminal(u)'
                           => RetiredByInterrupt(u)'
      BY <1>3, <1>4, <1>5 DEF TurnsFit, RecordsFit, OneTurn, Retained
  <2> QED BY <1>1, <1>3, <1>7, <2>1, RecordsKept, DeferredKept DEF RecordsFit, WorkStays
<1> QED BY <1>3, <1>6, <1>8 DEF TurnsFit, Retained

LEMMA EndingFits ==
    ASSUME DataTypes, TurnsFit, NEW t \in Turn, NEW outcome \in TurnOutcome, Ends(t, outcome)
    PROVE  TurnsFit'
<1>1. "turn_terminal" \in Reason \ {Gate!NotRetired}
    BY DEF Reason, Gate!NotRetired
<1>2. /\ Registry!Retain(t, outcome) /\ AdvanceTurn(t, "turn_terminal")
      /\ outcome = "interrupted" => RetiredByInterrupt(t)
      /\ UNCHANGED <<context, activeInterrupt, closeAdmission>> /\ WorkStays
    BY DEF Ends
<1>3. /\ Retained /\ active'.turn # t /\ active'.turn \in {active.turn, NoTurn}
      /\ active'.turn # active.turn => active.turn = t
    BY <1>1, <1>2, TurnAdvances DEF TurnsFit
<1>4. (\A u : Terminal(u) => Terminal(u)') /\ Terminal(t)'
    BY <1>2, EndsRemain, OutcomesAfter
<1>5. OneTurn'
    BY <1>2, <1>3 DEF TurnsFit, OneTurn, WorkStays
<1>6. \A u \in Turn : \A i \in 1 .. Len(records) : records[i].turn = u => active'.turn # u
    BY <1>3 DEF TurnsFit, RecordsFit
<1>7. RecordsFit'
  <2>1. \A u \in Turn : context'.turn = u /\ active'.turn = NoTurn /\ ~Terminal(u)'
                           => RetiredByInterrupt(u)'
      BY <1>2, <1>3, <1>4 DEF TurnsFit, RecordsFit, OneTurn, Retained
  <2> QED BY <1>2, <1>3, <1>6, <2>1, RecordsKept, DeferredKept DEF RecordsFit, WorkStays
<1> QED BY <1>3, <1>5, <1>7 DEF TurnsFit, Retained

LEMMA ClosingFits ==
    ASSUME DataTypes, TurnsFit, NEW t \in TurnOrNone, Closes(t)
    PROVE  TurnsFit'
<1>1. "session_closed" \in Reason \ {Gate!NotRetired} /\ "closed" \in TurnOutcome
    BY DEF Reason, Gate!NotRetired, TurnOutcome
<1>2. Retained /\ active'.turn \in {active.turn, NoTurn} /\ (t # NoTurn => active'.turn # t)
  <2>1. CASE active.turn # NoTurn /\ t \in {NoTurn, active.turn}
      BY <1>1, <2>1, AdvancingFits DEF TurnsFit, Closes, Retained, Gate!Inactive
  <2>2. CASE ~(active.turn # NoTurn /\ t \in {NoTurn, active.turn})
      BY <2>2, GateStands DEF TurnsFit, Closes, gateVars
  <2> QED BY <2>1, <2>2
<1>3. /\ UNCHANGED records \/ (t \in Turn /\ Registry!Retain(t, "closed"))
      /\ context'.turn = NoTurn /\ closeAdmission
      /\ UNCHANGED <<activeInterrupt, interrupts, closeAdmission>>
    BY DEF Closes, NoContext, TurnOrNone
<1>4. OneTurn'
    BY <1>3 DEF TurnsFit, OneTurn
<1>5. \A u \in Turn : \A i \in 1 .. Len(records) : records[i].turn = u => active'.turn # u
    BY <1>2 DEF TurnsFit, RecordsFit
<1>6. RecordsFit'
    BY <1>1, <1>2, <1>3, <1>5, RecordsKept, DeferredKept DEF RecordsFit
<1> QED BY <1>2, <1>4, <1>6 DEF TurnsFit, Retained

(* The steps of an interrupt's work.                                          *)
LEMMA WorkingFits ==
    ASSUME DataTypes, TurnsFit, UNCHANGED <<gateVars, records, context>>, OneTurn',
           \A t \in Turn : \/ interrupts'[t].deferred \in {interrupts[t].deferred, "none"}
                           \/ interrupts'[t].deferred = "interrupted" => RetiredByInterrupt(t)
    PROVE  TurnsFit'
<1>1. Retained /\ \A u : Terminal(u) => Terminal(u)'
    BY GateStands, EndsRemain DEF TurnsFit
<1>2. context' = context /\ active' = active /\ records' = records
    BY DEF gateVars
<1>3. \A t \in Turn : \A i \in 1 .. Len(records) : records[i].turn = t => active'.turn # t
    BY <1>2 DEF TurnsFit, RecordsFit
<1>4. RecordsFit'
    BY <1>1, <1>2, <1>3, RecordsKept, DeferredKept, ContextKept DEF RecordsFit
<1> QED BY <1>1, <1>4 DEF TurnsFit, Retained

LEMMA ClaimingFits ==
    ASSUME DataTypes, TurnsFit, NEW t \in Turn, Claims(t)
    PROVE  TurnsFit'
<1>1. /\ \A u \in Turn \ {t} : interrupts'[u] = interrupts[u]
      /\ interrupts'[t].deferred = "none" /\ activeInterrupt' = t
      /\ UNCHANGED <<gateVars, records, context, closeAdmission>> /\ ~closeAdmission
    BY DEF Claims, DataTypes, NoWork
<1>2. \A u \in Turn \ {t} : interrupts[u].status # "live"
    BY DEF TurnsFit, OneTurn, Claims, CurrentTurn
<1>3. context.turn \in {t, NoTurn} /\ active.turn \in {t, NoTurn}
    BY DEF TurnsFit, OneTurn, Claims, CurrentTurn
<1>4. interrupts'[t].status = "live"
    BY DEF Claims, DataTypes, NoWork
<1>5. OneTurn'
    BY <1>1, <1>2, <1>3, <1>4 DEF TurnsFit, OneTurn, gateVars
<1> QED BY <1>1, <1>5, WorkingFits

LEMMA DeferringFits ==
    ASSUME DataTypes, TurnsFit, NEW t \in Turn, NEW outcome \in TurnOutcome, Defers(t, outcome)
    PROVE  TurnsFit'
<1>1. /\ \A u \in Turn : /\ interrupts'[u].status = interrupts[u].status
                         /\ interrupts'[u].reserved = interrupts[u].reserved
      /\ \A u \in Turn : interrupts'[u].deferred # interrupts[u].deferred
                            => u = t /\ interrupts'[u].deferred = outcome
    BY DEF Defers, DeferTerminal, DataTypes, InterruptWork
<1>2. OneTurn'
    BY <1>1 DEF TurnsFit, OneTurn, Defers, gateVars
<1> QED BY <1>1, <1>2, WorkingFits DEF Defers

LEMMA CompletingFits ==
    ASSUME DataTypes, TurnsFit, NEW t \in Turn, Completes(t)
    PROVE  TurnsFit'
<1>1. /\ \A u \in Turn \ {t} : interrupts'[u] = interrupts[u]
      /\ interrupts'[t].status = "done" /\ ~interrupts'[t].reserved
      /\ interrupts'[t].deferred = interrupts[t].deferred
    BY DEF Completes, DataTypes, InterruptWork
<1>2. OneTurn'
    BY <1>1 DEF TurnsFit, OneTurn, Completes, gateVars
<1> QED BY <1>1, <1>2, WorkingFits DEF Completes

LEMMA TurnStepFits ==
    ASSUME DataTypes, TurnsFit, TurnStep
    PROVE  TurnsFit'
<1>1. CASE Rests \/ Clears
    BY <1>1, RestingFits DEF Rests, Clears
<1>2. CASE AdmitsClose
  <2>1. OneTurn'
      BY <1>2 DEF AdmitsClose, TurnsFit, OneTurn, Live, gateVars
  <2> QED BY <1>2, <2>1, WorkingFits DEF AdmitsClose
<1> QED BY <1>1, <1>2, AdmittingFits, RejectingFits, RetiringFits, EndingFits, ClosingFits,
           ClaimingFits, DeferringFits, CompletingFits DEF TurnStep

-----------------------------------------------------------------------------
(* Every step has one of the effects.                                         *)

LEMMA WorkThatStays ==
    ASSUME DataTypes
    PROVE  /\ UNCHANGED interrupts => WorkStays
           /\ \A t \in Turn : \A x :
                 /\ interrupts' = [interrupts EXCEPT ![t].flushed = x] => WorkStays
                 /\ interrupts' = [interrupts EXCEPT ![t].closeAfter = x] => WorkStays
                 /\ interrupts' = [interrupts EXCEPT ![t].reserved = FALSE, ![t].deferred = "none"]
                       => WorkStays /\ ~interrupts'[t].reserved
BY DEF DataTypes, InterruptWork, WorkStays

LEMMA StartTakesTurnStep ==
    ASSUME SessionInvariant, NEW f \in Frame,
           StartTurn(f) \/ Prepare(f) \/ Submit(f) \/ Subscribe(f)
    PROVE  TurnStep
<1> DataTypes /\ local[f].turn \in TurnOrNone
    BY LocalTypes DEF SessionInvariant
<1>a. pc[f] \in {"start_check", "start_phase", "start_emit"} => local[f].turn \in Turn
    BY Here DEF Suits, StartLabels, Still, TurnOrNone
<1>b. UNCHANGED interrupts => WorkStays
    BY WorkThatStays
<1>1. CASE \/ StartAdmission(f) \/ StartRepeat(f) \/ StartReturn(f) \/ Prepare(f) \/ Submit(f)
           \/ Subscribe(f)
  <2>1. Rests
      BY <1>1, <1>b
         DEF StartAdmission, StartRepeat, StartReturn, Prepare, Submit, Subscribe, Rests
  <2> QED BY <2>1 DEF TurnStep
<1>2. CASE StartReject(f)
  <2>1. local[f].turn \in Turn
      BY <1>2, <1>a DEF StartReject
  <2>2. CASE Terminal(local[f].turn)
    <3>1. Rests
        BY <1>2, <1>b, <2>2 DEF StartReject, Rests
    <3> QED BY <3>1 DEF TurnStep
  <2>3. CASE ~Terminal(local[f].turn)
    <3>1. Rejects(local[f].turn)
        BY <1>2, <1>b, <2>3 DEF StartReject, Rejects
    <3> QED BY <2>1, <3>1 DEF TurnStep
  <2> QED BY <2>2, <2>3
<1>3. CASE StartAdmit(f)
  <2>1. local[f].turn \in Turn
      BY <1>3, <1>a DEF StartAdmit
  <2>2. Admits(local[f].turn)
      BY <1>3, <1>b DEF StartAdmit, Admits
  <2> QED BY <2>1, <2>2 DEF TurnStep
<1>4. CASE StartPhase(f) \/ StartEmit(f)
  <2>1. local[f].turn \in Turn
      BY <1>4, <1>a DEF StartPhase, StartEmit
  <2>2. UNCHANGED <<records, activeInterrupt, closeAdmission>> /\ WorkStays
      BY <1>4, <1>b DEF StartPhase, StartEmit
  <2>3. UNCHANGED <<gateVars, context>> \/ UndoStart(f)
      BY <1>4 DEF StartPhase, StartEmit
  <2>4. CASE UNCHANGED <<gateVars, context>>
    <3>1. Rests
        BY <2>2, <2>4 DEF Rests
    <3> QED BY <3>1 DEF TurnStep
  <2>5. CASE UndoStart(f)
    <3>1. Abandons(local[f].turn)
        BY <2>2, <2>5 DEF UndoStart, Abandons
    <3> QED BY <2>1, <3>1 DEF TurnStep
  <2> QED BY <2>3, <2>4, <2>5
<1> QED BY <1>1, <1>2, <1>3, <1>4 DEF StartTurn

LEMMA RunTakesTurnStep ==
    ASSUME SessionInvariant, TurnInvariant, RuntimeLoop
    PROVE  TurnStep
<1> DataTypes /\ Runner \in Frame
    BY FrameFacts DEF SessionInvariant
<1>b. UNCHANGED interrupts => WorkStays
    BY WorkThatStays
<1>1. CASE \/ RunTake \/ RunEnter \/ RunStage \/ RunIdle \/ RunExit \/ RunFinish \/ RunPark
           \/ RunResume \/ CancelSubmitted
  <2>1. Rests
      BY <1>1, <1>b DEF RunTake, RunEnter, RunStage, RunIdle, RunExit, RunFinish, RunPark,
                        RunResume, CancelSubmitted, Rests
  <2> QED BY <2>1 DEF TurnStep
<1>2. CASE RunClear
  <2>1. Rests \/ Clears
      BY <1>2, <1>b DEF RunClear, Rests, Clears
  <2> QED BY <2>1 DEF TurnStep
<1>3. CASE RunCommit
  <2>1. RunnerTurn \in Turn
      BY <1>3, Here, LocalTypes DEF RunCommit, Suits, Still, TurnOrNone, RunnerTurn
  <2>2. "completed" \in TurnOutcome
      BY DEF TurnOutcome
  <2>3. CASE OwnedByOther(RunnerTurn, Runner)
    <3>1. Defers(RunnerTurn, "completed")
        BY <1>3, <2>3 DEF RunCommit, Defers
    <3> QED BY <2>1, <2>2, <3>1 DEF TurnStep
  <2>4. CASE ~OwnedByOther(RunnerTurn, Runner) /\ Terminal(RunnerTurn)
    <3>1. Rests
        BY <1>3, <1>b, <2>4 DEF RunCommit, Rests
    <3> QED BY <3>1 DEF TurnStep
  <2>5. CASE ~OwnedByOther(RunnerTurn, Runner) /\ ~Terminal(RunnerTurn)
    <3>1. ~interrupts[RunnerTurn].reserved
        BY <2>1, <2>5 DEF OwnedByOther, Live, TurnInvariant, OneTurn, RequestsFit
    <3>2. /\ CommitTerminal(Runner, RunnerTurn, "completed", "completed", "run_clear")
          /\ UNCHANGED <<context, closeAdmission, activeInterrupt, interrupts>>
        BY <1>3, <2>5 DEF RunCommit
    <3>3. Ends(RunnerTurn, "completed")
        BY <1>b, <2>5, <3>1, <3>2 DEF Ends, CommitTerminal
    <3> QED BY <2>1, <2>2, <3>3 DEF TurnStep
  <2> QED BY <2>3, <2>4, <2>5
<1> QED BY <1>1, <1>2, <1>3 DEF RuntimeLoop

LEMMA CommitTakesTurnStep ==
    ASSUME SessionInvariant, TurnInvariant, NEW f \in Frame, IntCommit(f)
    PROVE  TurnStep
<1> DEFINE t == local[f].turn
<1> DataTypes /\ t \in TurnOrNone
    BY LocalTypes DEF SessionInvariant
<1>b. UNCHANGED interrupts => WorkStays
    BY WorkThatStays
<1>c. "interrupted" \in TurnOutcome
    BY DEF TurnOutcome
<1>1. CASE t = NoTurn \/ t # local[f].current \/ Terminal(t)
  <2>1. Rests
      BY <1>1, <1>b DEF IntCommit, Rests
  <2> QED BY <2>1 DEF TurnStep
<1>2. CASE t # NoTurn /\ t = local[f].current /\ ~Terminal(t)
  <2>1. t \in Turn /\ RetiredByInterrupt(t)
      BY <1>2, Here1 DEF TurnOrNone, TurnInvariant, RequestsFit, PendingLabels, IntCommit
  <2>2. CASE OwnedByOther(t, f)
    <3>1. Defers(t, "interrupted")
        BY <1>2, <2>1, <2>2 DEF IntCommit, Defers
    <3> QED BY <1>c, <2>1, <3>1 DEF TurnStep
  <2>3. CASE ~OwnedByOther(t, f)
    <3>1. /\ CommitTerminal(f, t, "interrupted", "interrupted", "int_clear")
          /\ UNCHANGED <<context, closeAdmission, activeInterrupt, interrupts>>
        BY <1>2, <2>3 DEF IntCommit
    <3>2. Ends(t, "interrupted")
        BY <1>2, <1>b, <2>1, <3>1 DEF Ends, CommitTerminal
    <3> QED BY <1>c, <2>1, <3>2 DEF TurnStep
  <2> QED BY <2>2, <2>3
<1> QED BY <1>1, <1>2

LEMMA ResolveTakesTurnStep ==
    ASSUME SessionInvariant, TurnInvariant, NEW f \in Frame, IntResolve(f)
    PROVE  TurnStep
<1> DEFINE t == local[f].work
           deferred == IF t = NoTurn THEN "none" ELSE interrupts[t].deferred
<1> DataTypes /\ t \in TurnOrNone
    BY LocalTypes DEF SessionInvariant
<1>1. WorkStays /\ (t # NoTurn => ~interrupts'[t].reserved)
    BY WorkThatStays DEF IntResolve, TurnOrNone
<1>2. UNCHANGED <<context, activeInterrupt, closeAdmission>>
    BY DEF IntResolve
<1>3. CASE UNCHANGED <<gateVars, records>>
  <2>1. Rests
      BY <1>1, <1>2, <1>3 DEF Rests
  <2> QED BY <2>1 DEF TurnStep
<1>4. CASE ~UNCHANGED <<gateVars, records>>
  <2>1. /\ deferred # "none" /\ ~Terminal(t)
        /\ CommitTerminal(f, t, deferred, deferred, "int_resolve_clear")
      BY <1>4 DEF IntResolve
  <2>2. t \in Turn /\ deferred \in TurnOutcome
      BY <2>1 DEF TurnOrNone, DataTypes, InterruptWork, Standing
  <2>3. deferred = "interrupted" => RetiredByInterrupt(t)
      BY <2>2 DEF TurnInvariant, RecordsFit
  <2>4. Ends(t, deferred)
      BY <1>1, <1>2, <2>1, <2>2, <2>3 DEF Ends, CommitTerminal
  <2> HIDE DEF deferred
  <2> QED BY <2>2, <2>4 DEF TurnStep
<1> QED BY <1>3, <1>4

LEMMA InterruptTakesTurnStep ==
    ASSUME SessionInvariant, TurnInvariant, NEW f \in Frame, Interrupt(f)
    PROVE  TurnStep
<1> DataTypes /\ local[f].turn \in TurnOrNone /\ local[f].work \in TurnOrNone
    BY LocalTypes DEF SessionInvariant
<1>b. UNCHANGED interrupts => WorkStays
    BY WorkThatStays
<1>1. CASE \/ ClaimWait(f) \/ Coordinate(f) \/ IntEnter(f) \/ IntFlushDone(f) \/ IntOutcome(f)
           \/ IntAccepted(f) \/ IntIdle(f) \/ IntExit(f) \/ IntRecover(f)
  <2>1. Rests
      BY <1>1, <1>b DEF ClaimWait, Coordinate, IntEnter, IntFlushDone, IntOutcome, IntAccepted,
                        IntIdle, IntExit, IntRecover, Rests
  <2> QED BY <2>1 DEF TurnStep
<1>2. CASE IntFlush(f)
  <2>1. local[f].work \in Turn
      BY <1>2, Here DEF IntFlush, Suits, Still, TurnOrNone
  <2>2. Rests
      BY <1>2, <2>1, WorkThatStays DEF IntFlush, Rests
  <2> QED BY <2>2 DEF TurnStep
<1>3. CASE IntClear(f) \/ IntResolveClear(f)
  <2>1. Rests \/ Clears
      BY <1>3, <1>b DEF IntClear, IntResolveClear, Rests, Clears
  <2> QED BY <2>1 DEF TurnStep
<1>4. CASE IntRequest(f)
  <2> DEFINE target == IF RequestedTurn(f) # NoTurn THEN RequestedTurn(f) ELSE GateTurn
  <2>1. target \in TurnOrNone
      BY LocalTypes, DataTurns
  <2>2. /\ UNCHANGED gateVars \/ AdvanceTurn(target, "interrupt")
        /\ UNCHANGED <<records, context, activeInterrupt, closeAdmission, interrupts>>
      BY <1>4 DEF IntRequest
  <2>3. target = NoTurn => UNCHANGED gateVars
      BY <2>2 DEF AdvanceTurn
  <2> HIDE DEF target
  <2>4. Rests \/ (target \in Turn /\ Retires(target))
      BY <1>b, <2>1, <2>2, <2>3 DEF Rests, Retires, TurnOrNone
  <2> QED BY <2>4 DEF TurnStep
<1>5. CASE IntComplete(f)
  <2>1. local[f].work \in Turn
      BY <1>5, Here DEF IntComplete, Suits, Still, TurnOrNone
  <2>2. Completes(local[f].work)
      BY <1>5 DEF IntComplete, Completes
  <2> QED BY <2>1, <2>2 DEF TurnStep
<1>6. CASE Claim(f)
  <2> DEFINE resolved == IF RequestedTurn(f) # NoTurn THEN RequestedTurn(f) ELSE CurrentTurn
  <2>1. \/ UNCHANGED <<interrupts, activeInterrupt>>
        \/ /\ interrupts' = [interrupts EXCEPT ![resolved] = OwnedWork(f)]
           /\ activeInterrupt' = resolved /\ resolved = CurrentTurn /\ resolved # NoTurn
           /\ ~closeAdmission /\ interrupts[resolved].status = "none"
      BY <1>6 DEF Claim
  <2>2. UNCHANGED <<gateVars, records, context, closeAdmission>>
      BY <1>6 DEF Claim
  <2>3. resolved \in TurnOrNone /\ ThreadOf(f) \in Thread
      BY LocalTypes, DataTurns, FrameFacts
  <2> HIDE DEF resolved
  <2>4. Rests \/ (resolved \in Turn /\ Claims(resolved))
      BY <1>b, <2>1, <2>2, <2>3 DEF Rests, Claims, OwnedWork, TurnOrNone
  <2> QED BY <2>4 DEF TurnStep
<1> QED BY <1>1, <1>2, <1>3, <1>4, <1>5, <1>6, CommitTakesTurnStep, ResolveTakesTurnStep
        DEF Interrupt

LEMMA FlushTakesTurnStep ==
    ASSUME SessionInvariant, NEW f \in Frame, Flush(f)
    PROVE  TurnStep
<1> DataTypes /\ local[f].claimed \in TurnOrNone
    BY LocalTypes DEF SessionInvariant
<1>1. WorkStays
  <2>1. CASE FlushRequest(f)
      BY <2>1, WorkThatStays DEF FlushRequest, TurnOrNone
  <2>2. CASE ~FlushRequest(f)
      BY <2>2, WorkThatStays
         DEF Flush, FlushAdmission, FlushWait, FlushEnter, FlushDone, FlushExit
  <2> QED BY <2>1, <2>2
<1>2. Rests
    BY <1>1 DEF Rests, Flush, FlushAdmission, FlushWait, FlushEnter, FlushRequest, FlushDone,
                FlushExit
<1> QED BY <1>2 DEF TurnStep

LEMMA CloseTakesTurnStep ==
    ASSUME SessionInvariant, ClosePromises, NEW f \in Frame, Close(f)
    PROVE  TurnStep
<1> DataTypes /\ local[f].closing \in TurnOrNone /\ activeInterrupt \in TurnOrNone
    BY LocalTypes DEF SessionInvariant, DataTypes
<1>b. UNCHANGED interrupts => WorkStays
    BY WorkThatStays
<1>1. CASE \/ CloseWait(f) \/ CloseLock(f) \/ CloseRead(f) \/ CloseEmit(f) \/ CloseHub(f)
           \/ CloseFinal(f)
  <2>1. Rests
      BY <1>1, <1>b DEF CloseWait, CloseLock, CloseRead, CloseEmit, CloseHub, CloseFinal, Rests
  <2> QED BY <2>1 DEF TurnStep
<1>2. CASE CloseAdmission(f)
  <2>1. UNCHANGED <<gateVars, records, context, activeInterrupt>>
      BY <1>2 DEF CloseAdmission
  <2>2. \/ UNCHANGED <<interrupts, closeAdmission>>
        \/ /\ Live(activeInterrupt) /\ UNCHANGED closeAdmission
           /\ interrupts' = [interrupts EXCEPT ![activeInterrupt].closeAfter = TRUE]
        \/ /\ ~Live(activeInterrupt) /\ closeAdmission' /\ UNCHANGED interrupts
      BY <1>2 DEF CloseAdmission
  <2>3. Rests \/ AdmitsClose
      BY <1>b, <2>1, <2>2, WorkThatStays DEF Rests, AdmitsClose, Live, TurnOrNone
  <2> QED BY <2>3 DEF TurnStep
<1>3. CASE CloseMark(f)
  <2>1. closeAdmission
      BY <1>3, Here1 DEF CloseMark, ClosePromises, CloserLabels
  <2>2. local[f].closes => local[f].closing # NoTurn
      BY <1>3, Here DEF CloseMark, Suits, Still
  <2>3. Closes(local[f].closing)
      BY <1>3, <2>1, <2>2 DEF CloseMark, Closes
  <2> QED BY <2>3 DEF TurnStep
<1> QED BY <1>1, <1>2, <1>3 DEF Close

LEMMA NextTakesTurnStep ==
    ASSUME SessionInvariant, ClosePromises, TurnInvariant, [Next]_vars
    PROVE  TurnStep
<1> DataTypes
    BY DEF SessionInvariant
<1>b. UNCHANGED interrupts => WorkStays
    BY WorkThatStays
<1>1. ASSUME NEW f \in Frame,
             BeginCall(f) \/ BeginCallback(f) \/ FinishDelivery(f) \/ Rejoin(f)
      PROVE  TurnStep
  <2>1. Rests
      BY <1>1, <1>b DEF BeginCall, BeginCallback, FinishDelivery, Rejoin, Rests
  <2> QED BY <2>1 DEF TurnStep
<1>2. CASE UNCHANGED vars
  <2>1. Rests
      BY <1>2, <1>b DEF vars, Rests
  <2> QED BY <2>1 DEF TurnStep
<1> QED BY <1>1, <1>2, StartTakesTurnStep, RunTakesTurnStep, InterruptTakesTurnStep,
           FlushTakesTurnStep, CloseTakesTurnStep
        DEF Next, Step, RunTurn, Finished

-----------------------------------------------------------------------------
(* Requests.                                                                *)

LEMMA StepRetains ==
    ASSUME DataTypes, TurnsFit, TurnStep
    PROVE  Retained
<1> GateFits
    BY DEF TurnsFit
<1>1. {"interrupt", "reset", "turn_terminal", "session_closed"} \subseteq Reason \ {Gate!NotRetired}
    BY DEF Reason, Gate!NotRetired
<1>2. ASSUME NEW t \in Turn, Admits(t)
      PROVE  Retained
    BY <1>2, StartingFits DEF Admits, CurrentTurn, Retained
<1>3. ASSUME NEW t \in Turn, Abandons(t) \/ Retires(t)
      PROVE  Retained
    BY <1>1, <1>3, TurnAdvances DEF Abandons, Retires
<1>4. ASSUME NEW t \in Turn, NEW outcome \in TurnOutcome, Ends(t, outcome)
      PROVE  Retained
    BY <1>1, <1>4, TurnAdvances DEF Ends
<1>5. ASSUME NEW t \in TurnOrNone, Closes(t)
      PROVE  Retained
    BY <1>1, <1>5, AdvancingFits, GateStands DEF Closes, Retained
<1>6. ASSUME NEW t \in Turn,
             \/ Rejects(t) \/ Claims(t) \/ Completes(t)
             \/ \E outcome \in TurnOutcome : Defers(t, outcome)
      PROVE  UNCHANGED gateVars
    BY <1>6 DEF Rejects, Claims, Completes, Defers
<1>7. Rests \/ Clears \/ AdmitsClose => UNCHANGED gateVars
    BY DEF Rests, Clears, AdmitsClose
<1> QED BY <1>2, <1>3, <1>4, <1>5, <1>6, <1>7, GateStands DEF TurnStep

(* A frame has a request only if it had it, or has retired the turn.           *)
RequestStands(f) ==
    \A t \in Turn :
        Position(f)' \in PendingLabels /\ local'[f].turn = t /\ local'[f].current = t
        => \/ Position(f) \in PendingLabels /\ local[f].turn = t /\ local[f].current = t
           \/ RetiredByInterrupt(t)'

LEMMA RequestsStand ==
    ASSUME RequestsFit, Retained, \A f \in Frame : RequestStands(f),
           local'[Runner].work = NoTurn
    PROVE  RequestsFit'
BY DEF RequestsFit, RequestStands, Retained

LEMMA StandingRequest ==
    ASSUME NEW f \in Frame, Position(f)' \in PendingLabels => Position(f)' = Position(f),
           local'[f].turn = local[f].turn /\ local'[f].current = local[f].current
    PROVE  RequestStands(f)
BY DEF RequestStands

LEMMA NoRequest ==
    ASSUME NEW f \in Frame, Position(f)' \notin PendingLabels
    PROVE  RequestStands(f)
BY DEF RequestStands

LEMMA MovingRequests ==
    ASSUME RequestsFit, Retained, NEW f \in Frame, Moves(f), RequestStands(f),
           f = Runner => local'[f].work = local[f].work
    PROVE  RequestsFit'
<1>1. \A g \in Frame \ {f} : Position(g)' = Position(g) /\ local'[g] = local[g]
    BY DEF Moves, Position, Delivering
<1>2. \A g \in Frame \ {f} : RequestStands(g)
    BY <1>1, StandingRequest
<1>3. local'[Runner].work = NoTurn
    BY <1>1, FrameFacts DEF RequestsFit
<1> QED BY <1>2, <1>3, RequestsStand

LEMMA NotTheRunner ==
    ASSUME SessionInvariant, pc[Runner] \notin RunnerProgram
    PROVE  FALSE
BY FrameFacts DEF SessionInvariant, FramesFit, Fits, Own, Belongs

(* Only an interrupt's own steps make a request.                              *)
LEMMA AsksFor ==
    ASSUME SessionInvariant, TurnInvariant, Retained, NEW f \in Frame, IntRequest(f)
    PROVE  RequestStands(f)
<1> DEFINE target == IF RequestedTurn(f) # NoTurn THEN RequestedTurn(f) ELSE GateTurn
           carried == [local[f] EXCEPT !.turn = target, !.current = GateTurn]
<1>1. FrameTypes /\ DataTypes /\ local[f] \in Local /\ "interrupt" \in Reason \ {Gate!NotRetired}
    BY DEF SessionInvariant, FrameTypes, Reason, Gate!NotRetired
<1>2. CASE closed \/ closeRequested
  <2>1. Position(f)' = "int_resolve"
      BY <1>1, <1>2, AtLabel DEF IntRequest
  <2> QED BY <2>1, NoRequest DEF PendingLabels
<1>3. CASE ~closed /\ ~closeRequested
  <2>1. /\ SetLocal(f, carried) /\ AdvanceTurn(target, "interrupt")
        /\ EmitOrSkip(f, target, "int_outcome", "int_resolve")
      BY <1>3 DEF IntRequest
  <2>2. local'[f].turn = target /\ local'[f].current = GateTurn
    <3>1. local'[f] = carried
        BY <1>1, <2>1, LocalFields
    <3> QED BY <1>1, <3>1 DEF Local
  <2>3. CASE Refusal(target, "unchanged") # "none"
    <3>1. Position(f)' = "int_resolve"
        BY <1>1, <2>1, <2>3, AtLabel DEF EmitOrSkip
    <3> QED BY <3>1, NoRequest DEF PendingLabels
  <2>4. ASSUME Refusal(target, "unchanged") = "none", NEW t \in Turn, target = t, GateTurn = t
        PROVE  RetiredByInterrupt(t)'
    <3>1. ~Terminal(t)
        BY <2>4 DEF Refusal
    <3>2. CASE active.turn = t
        BY <1>1, <2>1, <2>4, <3>2, TurnAdvances DEF TurnInvariant
    <3>3. CASE active.turn # t
        BY <2>4, <3>1, <3>3 DEF GateTurn, TurnInvariant, RecordsFit, Retained
    <3> QED BY <3>2, <3>3
  <2> HIDE DEF target
  <2> QED BY <2>2, <2>3, <2>4 DEF RequestStands
<1> QED BY <1>2, <1>3

LEMMA InterruptKeepsRequests ==
    ASSUME SessionInvariant, TurnInvariant, Retained, NEW f \in Frame, Interrupt(f)
    PROVE  RequestsFit'
<1> FrameTypes /\ RequestsFit
    BY DEF SessionInvariant, TurnInvariant
<1>1. f # Runner
    BY NotTheRunner DEF RunnerProgram, RunnerLabels, CloseLabels, Interrupt, Claim, ClaimWait,
         Coordinate, IntEnter, IntFlush, IntFlushDone, IntRequest, IntOutcome, IntAccepted,
         IntCommit, IntClear, IntIdle, IntResolve, IntResolveClear, IntExit, IntRecover,
         IntComplete
<1>2. Moves(f)
    BY ClaimGoes, ClaimWaitGoes, CoordinateGoes, IntEnterGoes, IntFlushGoes, IntFlushDoneGoes,
       IntRequestGoes, IntOutcomeGoes, IntAcceptedGoes, IntCommitGoes, IntClearGoes, IntIdleGoes,
       IntResolveGoes, IntResolveClearGoes, IntExitGoes, IntRecoverGoes, IntCompleteGoes
       DEF Interrupt, Goes
<1>3. CASE IntOutcome(f) \/ IntAccepted(f)
  <2>1. /\ Position(f) \in PendingLabels
        /\ Position(f)' \in PendingLabels => UNCHANGED local
    <3>1. CASE IntOutcome(f)
        BY <3>1, Here1, AtLabel, AtNext DEF IntOutcome, IntRaise, Transition, PendingLabels
    <3>2. CASE IntAccepted(f)
        BY <3>2, Here1, AtSkip DEF IntAccepted, PendingLabels
    <3> QED BY <1>3, <3>1, <3>2
  <2>2. RequestStands(f)
      BY <2>1 DEF RequestStands
  <2> QED BY <1>1, <1>2, <2>2, MovingRequests
<1>4. CASE IntRequest(f)
    BY <1>1, <1>2, <1>4, AsksFor, MovingRequests
<1>5. CASE ~IntOutcome(f) /\ ~IntAccepted(f) /\ ~IntRequest(f)
  <2>1. Position(f)' \notin PendingLabels
    <3> USE AtLabel, AtNext, AtSkip DEF PendingLabels, Finish, Rest
    <3>1. CASE Claim(f) \/ ClaimWait(f)
        BY <3>1 DEF Claim, ClaimWait
    <3>2. CASE Coordinate(f) \/ IntEnter(f) \/ IntFlush(f) \/ IntFlushDone(f)
        BY <3>2 DEF Coordinate, IntEnter, IntFlush, IntFlushDone
    <3>3. CASE IntCommit(f)
        BY <3>3 DEF IntCommit, IntRaise, CommitTerminal, Transition
    <3>4. CASE IntClear(f) \/ IntIdle(f) \/ IntResolveClear(f)
        BY <3>4 DEF IntClear, IntIdle, IntResolveClear
    <3>5. CASE IntResolve(f)
        BY <3>5 DEF IntResolve, CommitTerminal, Transition
    <3>6. CASE IntExit(f)
        BY <3>6 DEF IntExit, ExitOperation
    <3>7. CASE IntRecover(f) \/ IntComplete(f)
        BY <3>7 DEF IntRecover, IntComplete
    <3> QED BY <1>5, <3>1, <3>2, <3>3, <3>4, <3>5, <3>6, <3>7 DEF Interrupt
  <2> QED BY <1>1, <1>2, <2>1, NoRequest, MovingRequests
<1> QED BY <1>3, <1>4, <1>5

LEMMA StartKeepsRequests ==
    ASSUME SessionInvariant, TurnInvariant, Retained, NEW f \in Frame,
           StartTurn(f) \/ Prepare(f) \/ Submit(f) \/ Subscribe(f)
    PROVE  RequestsFit'
<1> FrameTypes /\ RequestsFit
    BY DEF SessionInvariant, TurnInvariant
<1>1. f # Runner
    BY NotTheRunner DEF RunnerProgram, RunnerLabels, CloseLabels, StartTurn, Prepare, Submit,
         Subscribe, StartAdmission, StartReject, StartRepeat, StartAdmit, StartPhase, StartEmit,
         StartReturn
<1>2. RequestStands(f)
  <2>1. Position(f)' \notin PendingLabels
      BY StartTurnIsPlain DEF Plain, RoleLabels, OperationLabels, PendingLabels
  <2> QED BY <2>1, NoRequest
<1>3. CASE Submit(f)
  <2>1. \A g \in Frame \ {f} : pc'[g] = pc[g] /\ ret'[g] = ret[g] /\ local'[g] = local[g]
      BY <1>3 DEF Submit, FrameTypes, Goto, SetLocal
  <2>2. \A g \in Frame \ {f} : RequestStands(g)
      BY <2>1, StandingRequest DEF Position, Delivering
  <2> QED BY <1>1, <1>2, <2>1, <2>2, RequestsStand, FrameFacts DEF RequestsFit
<1>4. CASE ~Submit(f)
  <2>1. Moves(f)
      BY <1>4, StartAdmissionGoes, StartRejectGoes, StartRepeatGoes, StartAdmitGoes,
         StartPhaseGoes, StartEmitGoes, StartReturnGoes, PrepareGoes, SubscribeGoes
         DEF StartTurn, Goes
  <2> QED BY <1>1, <1>2, <2>1, MovingRequests
<1> QED BY <1>3, <1>4

LEMMA FlushKeepsRequests ==
    ASSUME SessionInvariant, TurnInvariant, Retained, NEW f \in Frame, Flush(f)
    PROVE  RequestsFit'
<1> FrameTypes /\ RequestsFit
    BY DEF SessionInvariant, TurnInvariant
<1>1. f # Runner
    BY NotTheRunner DEF RunnerProgram, RunnerLabels, CloseLabels, Flush, FlushAdmission,
         FlushWait, FlushEnter, FlushRequest, FlushDone, FlushExit
<1>2. Moves(f)
    BY FlushAdmissionGoes, FlushWaitGoes, FlushEnterGoes, FlushRequestGoes, FlushDoneGoes,
       FlushExitGoes DEF Flush, Goes
<1>3. Position(f)' \notin PendingLabels
  <2> USE AtLabel, AtSkip DEF PendingLabels, Rest
  <2>1. CASE FlushAdmission(f) \/ FlushWait(f) \/ FlushEnter(f)
      BY <2>1 DEF FlushAdmission, FlushWait, FlushEnter
  <2>2. CASE FlushRequest(f) \/ FlushDone(f)
      BY <2>2 DEF FlushRequest, FlushDone
  <2>3. CASE FlushExit(f)
      BY <2>3 DEF FlushExit, ExitOperation
  <2> QED BY <2>1, <2>2, <2>3 DEF Flush
<1> QED BY <1>1, <1>2, <1>3, NoRequest, MovingRequests

LEMMA CloseKeepsRequests ==
    ASSUME SessionInvariant, TurnInvariant, Retained, NEW f \in Frame, Close(f)
    PROVE  RequestsFit'
<1> FrameTypes /\ RequestsFit /\ local[f] \in Local
    BY DEF SessionInvariant, FrameTypes, TurnInvariant
<1>1. Moves(f)
    BY CloseAdmissionGoes, CloseWaitGoes, CloseLockGoes, CloseReadGoes, CloseMarkGoes,
       CloseEmitGoes, CloseHubGoes, CloseFinalGoes DEF Close, Goes
<1>2. Position(f)' \notin PendingLabels
  <2> USE AtLabel, AtNext DEF PendingLabels, Finish, Rest
  <2>1. CASE CloseAdmission(f) \/ CloseWait(f) \/ CloseLock(f)
      BY <2>1 DEF CloseAdmission, CloseWait, CloseLock
  <2>2. CASE CloseRead(f) \/ CloseMark(f) \/ CloseEmit(f) \/ CloseHub(f)
      BY <2>2 DEF CloseRead, CloseMark, CloseEmit, CloseHub, Transition
  <2>3. CASE CloseFinal(f)
    <3>1. local[f].after \in Continuation
        BY <2>3, Here DEF CloseFinal, Still, Suits, Local, CloseLabels
    <3> QED BY <2>3, <3>1 DEF CloseFinal, Continuation
  <2> QED BY <2>1, <2>2, <2>3 DEF Close
<1>3. f = Runner => local'[f].work = local[f].work
  <2>1. CASE CloseAdmission(f) \/ CloseWait(f) \/ CloseLock(f)
    <3>1. f # Runner
        BY <2>1, NotTheRunner DEF RunnerProgram, RunnerLabels, CloseLabels, CloseAdmission,
             CloseWait, CloseLock
    <3> QED BY <3>1
  <2>2. CASE CloseRead(f)
    <3>1. \A x, y : local'[f] = [local[f] EXCEPT !.closing = x, !.closes = y]
                       => local'[f].work = local[f].work
        BY DEF Local
    <3>2. \E x, y : local'[f] = [local[f] EXCEPT !.closing = x, !.closes = y]
        BY <2>2, LocalFields DEF CloseRead
    <3> QED BY <3>1, <3>2
  <2>3. CASE CloseMark(f) \/ CloseEmit(f) \/ CloseHub(f) \/ CloseFinal(f)
      BY <2>3 DEF CloseMark, CloseEmit, CloseHub, CloseFinal
  <2> QED BY <2>1, <2>2, <2>3 DEF Close
<1> QED BY <1>1, <1>2, <1>3, NoRequest, MovingRequests

LEMMA RunKeepsRequests ==
    ASSUME SessionInvariant, TurnInvariant, Retained,
           RunEnter \/ RunStage \/ RunCommit \/ RunClear \/ RunIdle \/ RunExit
    PROVE  RequestsFit'
<1> FrameTypes /\ RequestsFit /\ Runner \in Frame /\ local[Runner] \in Local
    BY FrameFacts DEF SessionInvariant, FrameTypes, TurnInvariant
<1>1. Moves(Runner)
    BY RunEnterGoes, RunStageGoes, RunCommitGoes, RunClearGoes, RunIdleGoes, RunExitGoes
       DEF Goes
<1>2. Position(Runner)' \notin PendingLabels
  <2> USE AtLabel, AtNext DEF PendingLabels
  <2>1. CASE RunEnter \/ RunClear \/ RunIdle
      BY <2>1 DEF RunEnter, RunClear, RunIdle
  <2>2. CASE RunStage
      BY <2>2 DEF RunStage, Transition
  <2>3. CASE RunCommit
      BY <2>3 DEF RunCommit, CommitTerminal, Transition
  <2>4. CASE RunExit
      BY <2>4 DEF RunExit, ExitOperation
  <2> QED BY <2>1, <2>2, <2>3, <2>4
<1>3. local'[Runner].work = local[Runner].work
  <2>1. \A x, y : /\ [local[Runner] EXCEPT !.error = x].work = local[Runner].work
                  /\ [local[Runner] EXCEPT !.outcome = x].work = local[Runner].work
                  /\ [local[Runner] EXCEPT !.after = x].work = local[Runner].work
                  /\ [local[Runner] EXCEPT !.step = @ + 1].work = local[Runner].work
      BY DEF Local
  <2>2. \A record : SetLocal(Runner, record) => local'[Runner] = record
      BY LocalFields
  <2>3. CASE RunEnter \/ RunClear \/ RunIdle
      BY <2>1, <2>2, <2>3 DEF RunEnter, RunClear, RunIdle
  <2>4. CASE RunStage
      BY <2>1, <2>2, <2>4 DEF RunStage
  <2>5. CASE RunCommit
      BY <2>1, <2>2, <2>5 DEF RunCommit
  <2>6. CASE RunExit
    <3>1. \E x : SetLocal(Runner, [local[Runner] EXCEPT !.after = x])
        BY <2>6 DEF RunExit, ExitOperation
    <3> QED BY <2>1, <2>2, <3>1
  <2> QED BY <2>3, <2>4, <2>5, <2>6
<1> QED BY <1>1, <1>2, <1>3, NoRequest, MovingRequests

LEMMA CoroutineKeepsRequests ==
    ASSUME SessionInvariant, TurnInvariant, Retained,
           RunTake \/ RunFinish \/ RunPark \/ RunResume \/ CancelSubmitted
    PROVE  RequestsFit'
<1> FrameTypes /\ RequestsFit /\ Runner \in Frame
    BY FrameFacts DEF SessionInvariant, TurnInvariant
<1>1. \A g \in Frame : Position(g)' \in PendingLabels
                          => Position(g)' = Position(g) /\ g # Runner
  <2>1. CASE RunTake \/ RunPark
    <3>1. Position(Runner)' \notin PendingLabels
        BY <2>1, AtLabel DEF RunTake, RunPark, PendingLabels
    <3>2. \A g \in Frame \ {Runner} : pc'[g] = pc[g] /\ ret'[g] = ret[g]
        BY <2>1 DEF RunTake, RunPark, FrameTypes, Goto
    <3> QED BY <3>1, <3>2 DEF Position, Delivering
  <2>2. ASSUME NEW caller, Answer(caller, Runner, "idle"), UNCHANGED ret
        PROVE  \A g \in Frame : Position(g)' \in PendingLabels
                                  => Position(g)' = Position(g) /\ g # Runner
    <3>1. PICK label \in {Rest(caller), "abandoned"} :
             pc' = [pc EXCEPT ![caller] = label, ![Runner] = "idle"]
        BY <2>2 DEF Answer
    <3>2. label \in {"idle", "absent", "abandoned"}
        BY DEF Rest
    <3>3. ASSUME NEW g \in Frame
          PROVE  pc'[g] \in {pc[g], "idle", "absent", "abandoned"} /\ pc'[Runner] = "idle"
        BY <3>1, <3>2 DEF FrameTypes
    <3>4. ASSUME NEW g \in Frame, Position(g)' \in PendingLabels
          PROVE  pc'[g] = pc[g]
        BY <3>3, <3>4 DEF Position, Delivering, PendingLabels
    <3>5. Position(Runner)' = "idle"
        BY <3>3 DEF Position, Delivering
    <3> QED BY <2>2, <3>4, <3>5 DEF Position, Delivering, PendingLabels
  <2>3. CASE RunFinish \/ RunResume \/ CancelSubmitted
    <3>1. UNCHANGED ret /\ \E caller : Answer(caller, Runner, "idle")
        BY <2>3 DEF RunFinish, RunResume, CancelSubmitted
    <3> QED BY <2>2, <3>1
  <2> QED BY <2>1, <2>3
<1>2. \A g \in Frame \ {Runner} : local'[g] = local[g]
    BY DEF RunTake, RunFinish, RunPark, RunResume, CancelSubmitted, SetLocal, FrameTypes
<1>3. local'[Runner].work = NoTurn
  <2>1. CASE RunTake
    <3> DEFINE entry == Head(runQueue)
               taken == [NoLocal EXCEPT !.turn = entry.turn, !.generation = entry.generation,
                                        !.caller = entry.caller]
    <3>1. SetLocal(Runner, taken)
        BY <2>1 DEF RunTake
    <3>2. taken.work = NoTurn
        BY DEF NoLocal
    <3> HIDE DEF taken
    <3>3. local'[Runner] = taken
        BY <3>1, LocalFields, FrameFacts
    <3> QED BY <3>2, <3>3
  <2>2. CASE ~RunTake
      BY <2>2 DEF RunFinish, RunPark, RunResume, CancelSubmitted, RequestsFit
  <2> QED BY <2>1, <2>2
<1>4. \A g \in Frame : RequestStands(g)
    BY <1>1, <1>2, StandingRequest, NoRequest
<1> QED BY <1>3, <1>4, RequestsStand

LEMMA NextKeepsRequests ==
    ASSUME SessionInvariant, TurnInvariant, Retained, [Next]_vars
    PROVE  RequestsFit'
<1> FrameTypes /\ RequestsFit
    BY DEF SessionInvariant, TurnInvariant
<1>1. CASE UNCHANGED vars
  <2>1. UNCHANGED <<pc, ret, local>>
      BY <1>1 DEF vars
  <2> QED BY <2>1, StandingRequest, RequestsStand DEF Position, Delivering, RequestsFit
<1>2. ASSUME NEW f \in Frame, FinishDelivery(f) \/ Rejoin(f)
      PROVE  RequestsFit'
  <2>1. UNCHANGED <<ret, local>> /\ pc[f] \in {"deliver", "rejoin"}
      BY <1>2 DEF FinishDelivery, Rejoin
  <2>2. Position(f) = ret[f] /\ ret[f] \notin {"deliver", "rejoin"}
      BY <2>1 DEF SessionInvariant, FramesFit, Fits, Own, Position, Delivering, Resumption
  <2>3. Position(f)' = ret[f]
      BY <1>2, <2>1, <2>2 DEF FinishDelivery, Rejoin, Position, Delivering, Goto, FrameTypes
  <2>4. \A g \in Frame \ {f} : Position(g)' = Position(g)
      BY <1>2, <2>1 DEF FinishDelivery, Rejoin, Goto, FrameTypes, Position, Delivering
  <2> QED BY <2>1, <2>2, <2>3, <2>4, StandingRequest, RequestsStand DEF RequestsFit
<1>3. ASSUME NEW f \in Frame, BeginCall(f) \/ BeginCallback(f)
      PROVE  RequestsFit'
  <2>1. PICK g \in Frame \ {Runner}, call \in SessionCall : Begin(g, call)
      BY <1>3, FrameFacts DEF BeginCall, BeginCallback, FrameTypes, ThreadOf, Runner
  <2>2. Entry[call.op] \in {"prepare", "start", "claim", "flush", "close", "subscribe"}
      BY DEF SessionCall, Entry
  <2>3. Position(g)' \notin PendingLabels
      BY <2>1, <2>2, AtLabel DEF Begin, PendingLabels
  <2>4. \A h \in Frame \ {g} : pc'[h] = pc[h] /\ ret'[h] = ret[h] /\ local'[h] = local[h]
      BY <2>1 DEF Begin, Goto, FrameTypes
  <2>5. \A h \in Frame : RequestStands(h)
      BY <2>3, <2>4, StandingRequest, NoRequest DEF Position, Delivering
  <2> QED BY <2>1, <2>4, <2>5, RequestsStand, FrameFacts DEF RequestsFit
<1> QED BY <1>1, <1>2, <1>3, StartKeepsRequests, InterruptKeepsRequests, FlushKeepsRequests,
           CloseKeepsRequests, RunKeepsRequests, CoroutineKeepsRequests
        DEF Next, Step, RunTurn, RuntimeLoop, Finished

-----------------------------------------------------------------------------
(* Initially there are no turns.                                              *)
LEMMA InitFits == Init => TurnInvariant
<1> SUFFICES ASSUME Init
             PROVE  TurnInvariant
    OBVIOUS
<1>1. GateFits
  <2>1. /\ \A g \in Gate!Generation : knownTurns[g] = NoTurn /\ retired[g] = Gate!NotRetired
        /\ retired \in [Gate!Generation -> Reason]
        /\ knownTurns \in [Gate!Generation -> TurnOrNone]
      BY DEF Init, Reason, TurnOrNone
  <2>2. active.turn = NoTurn /\ active.generation = 0 /\ startCount = 0
      BY DEF Init, Gate!Inactive
  <2> QED BY <2>1, <2>2 DEF GateFits
<1>2. \A t \in Turn : /\ interrupts[t].status = "none" /\ ~interrupts[t].reserved
                      /\ interrupts[t].deferred = "none"
    BY DEF Init, NoWork
<1>3. /\ active.turn = NoTurn /\ context.turn = NoTurn /\ records = <<>>
      /\ local[Runner].work = NoTurn
    BY FrameFacts DEF Init, Gate!Inactive, NoContext, NoLocal
<1>4. \A f \in Frame : Position(f) \notin PendingLabels
    BY DEF Init, Position, Delivering, PendingLabels, Rest
<1>5. OneTurn
    BY <1>2, <1>3 DEF OneTurn
<1>6. RecordsFit
    BY <1>2, <1>3 DEF RecordsFit
<1>7. RequestsFit
    BY <1>3, <1>4 DEF RequestsFit
<1> QED BY <1>1, <1>5, <1>6, <1>7 DEF TurnInvariant

(* The gate, the records, the context and the interrupts agree between any     *)
(* two steps: one turn at a time, and nothing is recorded or about to be       *)
(* recorded for a generation that is still active.                           *)
THEOREM TurnsStand == Spec => []TurnInvariant
<1>1. Init => TurnInvariant
    BY InitFits
<1>2. SessionInvariant /\ ClosePromises /\ TurnInvariant /\ [Next]_vars => TurnInvariant'
  <2> SUFFICES ASSUME SessionInvariant, ClosePromises, TurnInvariant, [Next]_vars
               PROVE  TurnInvariant'
      OBVIOUS
  <2>1. DataTypes /\ TurnsFit /\ TurnStep
      BY NextTakesTurnStep DEF SessionInvariant, TurnInvariant, TurnsFit
  <2>2. TurnsFit' /\ Retained
      BY <2>1, TurnStepFits, StepRetains
  <2>3. RequestsFit'
      BY <2>2, NextKeepsRequests
  <2> QED BY <2>2, <2>3 DEF TurnInvariant, TurnsFit
<1> QED BY <1>1, <1>2, SessionStands, PromisesAreKept, PTL DEF Spec

(* _commit_terminal_result and _interrupt_serialized: a turn that is over has   *)
(* no active generation, and one that ended as interrupted had its generation  *)
(* retired by the interrupt, so whatever its stages still deliver is stale.    *)
THEOREM EndsAreRetired == Spec => []EndedTurnsAreRetired
<1>1. SessionInvariant /\ TurnInvariant => EndedTurnsAreRetired
  <2> SUFFICES ASSUME SessionInvariant, TurnInvariant, NEW t \in Turn, Terminal(t)
               PROVE  /\ active.turn # t
                      /\ Outcome(t) = "interrupted" => RetiredByInterrupt(t)
      BY DEF EndedTurnsAreRetired, RetiredByInterrupt
  <2>1. PICK i \in 1 .. Len(records) : records[i].turn = t /\ Outcome(t) = records[i].outcome
      BY TerminalIsRecorded DEF SessionInvariant
  <2> QED BY <2>1 DEF TurnInvariant, RecordsFit
<1> QED BY <1>1, SessionStands, TurnsStand, PTL

(* _commit_terminal_result: while an interrupt holds the terminal reservation  *)
(* of a turn, nothing but "interrupted" is recorded for it, whoever commits:    *)
(* its stages, a rejected start, another interrupt or a close.                 *)
THEOREM ReservationsAreKept == Spec => ReservationIsKept
<1> DEFINE Kept == \A t \in Turn :
               interrupts[t].reserved /\ interrupts'[t].reserved /\ Outcome(t)' # Outcome(t)
                  => Outcome(t)' = "interrupted"
<1>1. SessionInvariant /\ ClosePromises /\ TurnInvariant /\ [Next]_vars => Kept
  <2> SUFFICES ASSUME SessionInvariant, ClosePromises, TurnInvariant, [Next]_vars,
                      NEW t \in Turn, interrupts[t].reserved, interrupts'[t].reserved,
                      Outcome(t)' # Outcome(t)
               PROVE  Outcome(t)' = "interrupted"
      OBVIOUS
  <2>1. TurnStep /\ DataTypes
      BY NextTakesTurnStep DEF SessionInvariant
  <2>2. /\ ~closeAdmission /\ activeInterrupt = t
        /\ context.turn \in {t, NoTurn} /\ active.turn \in {t, NoTurn}
      BY DEF TurnInvariant, OneTurn
  <2>3. records' # records
    <3>1. records' = records => Outcome(t)' = Outcome(t)
        BY DEF Outcome, Registry!OutcomeOf, Registry!Recorded
    <3> QED BY <3>1
  <2>4. "rejected" \in TurnOutcome /\ "closed" \in TurnOutcome
      BY DEF TurnOutcome
  <2>5. ASSUME NEW u \in Turn, Rejects(u)
        PROVE  FALSE
    <3>1. u = t
        BY <2>1, <2>4, <2>5, OutcomesAfter DEF Rejects
    <3> QED BY <2>2, <2>5, <3>1 DEF Rejects, InterruptInProgress, CurrentTurn
  <2>6. ASSUME NEW u \in Turn, NEW outcome \in TurnOutcome, Ends(u, outcome)
        PROVE  Outcome(t)' = "interrupted"
    <3>1. u = t
        BY <2>1, <2>6, OutcomesAfter DEF Ends
    <3> QED BY <2>1, <2>6, <3>1, OutcomesAfter DEF Ends
  <2>7. ASSUME NEW u \in TurnOrNone, Closes(u)
        PROVE  FALSE
      BY <2>2, <2>7 DEF Closes
  <2> QED BY <2>1, <2>3, <2>5, <2>6, <2>7
          DEF TurnStep, Rests, Clears, AdmitsClose, Admits, Abandons, Retires, Claims, Completes,
              Defers
<1>2. Kept => [Kept]_<<records, interrupts>>
    OBVIOUS
<1>3. SessionInvariant /\ ClosePromises /\ TurnInvariant /\ [Next]_vars
         => [Kept]_<<records, interrupts>>
    BY <1>1, <1>2
<1> QED BY <1>3, SessionStands, PromisesAreKept, TurnsStand, PTL DEF Spec, ReservationIsKept

-----------------------------------------------------------------------------
(***************************************************************************)
(* A completion that was deferred to an interrupt.  The loser of a terminal *)
(* reservation leaves its result with the interrupt that holds it, and the  *)
(* runtime thread parks.  Nothing in the request itself says that the owner *)
(* will end the turn: an interrupt that was accepted drops what was deferred *)
(* to it, because it has ended the turn itself.  That it has follows from    *)
(* what the runtime established before it began the turn's stages: from then *)
(* on the turn is the session's, and no start, no other interrupt and no     *)
(* other run takes it away from the owner.                                   *)
(***************************************************************************)

(* A frame in the section of the admission lock has it, or its caller has.     *)
StartingLabels == {"start_phase", "start_emit"}
SectionLabels == {"start_check", "start_phase", "start_emit", "start_return"}
InSection(f) == Position(f) \in SectionLabels
AdmissionHeld ==
    /\ admission # NoFrame => InSection(admission)
    /\ \A f \in Frame : InSection(f) =>
          ThreadOf(admission) = ThreadOf(f) /\ (IsCallback(f) \/ admission = f)

(* A start that may still be undone has a generation that nobody else knows of. *)
Fresh(f) ==
    /\ local[f].generation # 0
    /\ context \in {NoContext, [turn |-> local[f].turn, generation |-> local[f].generation]}
    /\ \A g \in Frame \ {f} : local[g].generation # local[f].generation
    /\ \A i \in 1 .. Len(runQueue) : runQueue[i].generation # local[f].generation

(* Generations are handed on as they were issued.                             *)
GenerationsFit ==
    /\ context.turn = NoTurn <=> context.generation = 0
    /\ context.generation <= startCount
    /\ \A f \in Frame :
          /\ local[f].generation <= startCount
          /\ Position(f) = "submit" => local[f].generation # 0
          /\ Position(f) \in StartingLabels => ~Delivering(f) /\ Fresh(f)
    /\ \A i \in 1 .. Len(runQueue) :
          runQueue[i].generation # 0 /\ runQueue[i].generation <= startCount
    /\ Position(Runner) # "idle" => local[Runner].generation # 0

StartsFit == AdmissionHeld /\ GenerationsFit

(* An interrupt of t is under way, and t has no outcome yet.                  *)
Waits(t) == interrupts[t].status = "live" /\ ~Terminal(t)

(* The outcome of t is recorded, or its interrupt keeps one for it.           *)
Held(t) ==
    \/ Terminal(t)
    \/ Waits(t) /\ interrupts[t].reserved /\ interrupts[t].deferred # "none"

(* The runtime has deferred the result of t ...                               *)
Kept(t) ==
    \/ local[Runner].outcome = "reserved" /\ RunnerTurn = t
    \/ \E parked \in awaiting : parked.turn = t
CompletionsHeld == \A t \in Turn : Kept(t) => Held(t)

(* ... or is still in its stages.                                            *)
Pursued(t) == Kept(t) \/ (Position(Runner) = "run_step" /\ RunnerTurn = t)

(* No frame is about to take the turn away from its interrupt: none undoes a   *)
(* start or clears the context, and an interrupt that found t current ends it. *)
Spares(f, t) ==
    /\ Position(f) \notin StartingLabels
    /\ Position(f) # "int_clear"
    /\ Position(f) \in PendingLabels =>
          local[f].current = t /\ (local[f].work = t => local[f].turn = t)
    /\ Position(f) \in {"int_idle", "int_resolve"} /\ local[f].work = t =>
          local[f].outcome # "accepted"

PursuedTurnsStand ==
    \A t \in Turn : Pursued(t) /\ Waits(t) =>
        context.turn = t /\ \A f \in Frame : Spares(f, t)

(* What an interrupt has established at the point it has reached.             *)
Settled(f) ==
    \/ Position(f) \in {"int_resolve_clear", "int_complete"}
    \/ Position(f) = "int_exit" /\ local[f].outcome # "error"
    \/ Position(f) \in CloserLabels \cup FinisherLabels /\ local[f].after = "int_complete"
Knows(f) ==
    /\ local[f].work # NoTurn =>
          /\ interrupts[local[f].work].status # "none"
          /\ RequestedTurn(f) \in {NoTurn, local[f].work}
          /\ Settled(f) => ~interrupts[local[f].work].reserved
    /\ Position(f) = "int_resolve_clear" => Terminal(local[f].work)
    /\ Position(f) \in AskerLabels \cup {"close_lock"} => local[f].after = Rest(f)

(* ... and the runtime.                                                      *)
RunnerKnows ==
    /\ Position(Runner) = "run_clear" => Terminal(RunnerTurn)
    /\ Position(Runner) \in {"run_enter", "run_step"} =>
          RunnerTurn \in normalReserved \/ interrupts[RunnerTurn].status # "none"
    /\ \/ Position(Runner) = "run_park"
       \/ Position(Runner) \in CloserLabels \cup FinisherLabels
             /\ local[Runner].after = "run_park"
       => local[Runner].outcome = "reserved"

CompletionInvariant ==
    CompletionsHeld /\ PursuedTurnsStand /\ (\A f \in Frame : Knows(f)) /\ RunnerKnows

(* What a frame keeps when another one moves, or when it is answered.          *)
Remains(g) ==
    /\ local'[g] = local[g]
    /\ \/ Position(g)' = Position(g) /\ (Delivering(g)' => Delivering(g))
       \/ /\ Position(g) \in {"idle", "await_run", "run_finish"}
          /\ Position(g)' \in {"idle", "absent", "abandoned"}

LEMMA MovingRemains ==
    ASSUME NEW f \in Frame, Moves(f)
    PROVE  \A g \in Frame \ {f} : Remains(g)
BY DEF Moves, Remains, Position, Delivering

(* Only one frame at a time is between two steps of the admission section.     *)
LEMMA OneStarts ==
    ASSUME SessionInvariant, AdmissionHeld, NEW f \in Frame, NEW g \in Frame,
           InSection(f), InSection(g), ~Delivering(f), ~Delivering(g)
    PROVE  f = g
<1> SUFFICES ASSUME f # g
             PROVE  FALSE
    OBVIOUS
<1>1. ThreadOf(f) = ThreadOf(g) /\ pc[f] \in SectionLabels /\ pc[g] \in SectionLabels
    BY DEF AdmissionHeld, InSection, Position
<1>2. PICK a \in {f, g}, b \in {f, g} : ~IsCallback(a) /\ b = ChildOf(a)
    BY <1>1, FrameFacts
<1>3. pc[b] # "absent"
    BY <1>1, <1>2 DEF SectionLabels
<1>4. pc[a] = "deliver"
    BY <1>2, <1>3 DEF SessionInvariant, FramesFit, Fits
<1> QED BY <1>1, <1>2, <1>4 DEF SectionLabels

LEMMA SectionStands ==
    ASSUME AdmissionHeld, admission \in Frame \cup {NoFrame}, UNCHANGED admission,
           \A g \in Frame : InSection(g)' <=> InSection(g)
    PROVE  AdmissionHeld'
BY DEF AdmissionHeld

(* The steps of the other calls.                                             *)
QueuedGenerations == {runQueue[i].generation : i \in 1 .. Len(runQueue)}
Elsewhere(g) ==
    /\ InSection(g)' <=> InSection(g)
    /\ Position(g)' \in StartingLabels =>
          /\ Position(g) \in StartingLabels /\ local'[g] = local[g]
          /\ Delivering(g)' => Delivering(g)
    /\ Position(g)' = "submit" => local'[g].generation # 0
    /\ local'[g].generation \in {0, local[g].generation} \cup QueuedGenerations
Queues ==
    \A i \in 1 .. Len(runQueue') :
        \/ runQueue'[i].generation \in QueuedGenerations
        \/ \E g \in Frame : Position(g) = "submit" /\ runQueue'[i].generation = local[g].generation

LEMMA ElsewhereKeepsStarts ==
    ASSUME SessionInvariant, StartsFit, UNCHANGED <<admission, startCount>>,
           context' \in {context, NoContext}, \A g \in Frame : Elsewhere(g), Queues,
           Position(Runner)' # "idle" => local'[Runner].generation # 0, startCount \in Nat
    PROVE  StartsFit'
<1>1. AdmissionHeld'
    BY SectionStands DEF StartsFit, Elsewhere, SessionInvariant, DataTypes
<1>2. (context.turn = NoTurn <=> context.generation = 0)' /\ context'.generation <= startCount
    BY DEF StartsFit, GenerationsFit, NoContext
<1>3. \A x \in QueuedGenerations : x # 0 /\ x <= startCount
    BY DEF StartsFit, GenerationsFit, QueuedGenerations
<1>4. \A g \in Frame : local'[g].generation <= startCount
    BY <1>3 DEF StartsFit, GenerationsFit, Elsewhere
<1>5. \A i \in 1 .. Len(runQueue') :
          runQueue'[i].generation # 0 /\ runQueue'[i].generation <= startCount
    BY <1>3 DEF StartsFit, GenerationsFit, Queues
<1>6. ASSUME NEW f \in Frame, Position(f)' \in StartingLabels
      PROVE  ~Delivering(f)' /\ Fresh(f)'
  <2>1. /\ Position(f) \in StartingLabels /\ local'[f] = local[f]
        /\ Delivering(f)' => Delivering(f)
      BY <1>6 DEF Elsewhere
  <2>2. ~Delivering(f) /\ Fresh(f)
      BY <2>1 DEF StartsFit, GenerationsFit
  <2>3. \A x \in QueuedGenerations : x # local[f].generation
      BY <2>2 DEF Fresh, QueuedGenerations
  <2>4. \A g \in Frame \ {f} : local'[g].generation # local'[f].generation
      BY <2>1, <2>2, <2>3 DEF Fresh, Elsewhere
  <2>5. \A i \in 1 .. Len(runQueue') : runQueue'[i].generation # local'[f].generation
    <3>1. \A g \in Frame : Position(g) = "submit" => local[g].generation # local[f].generation
        BY <2>1, <2>2 DEF Fresh, StartingLabels
    <3> QED BY <2>1, <2>3, <3>1 DEF Queues
  <2> QED BY <2>1, <2>2, <2>4, <2>5 DEF Fresh
<1>7. \A f \in Frame : Position(f)' = "submit" => local'[f].generation # 0
    BY DEF Elsewhere
<1> QED BY <1>1, <1>2, <1>4, <1>5, <1>6, <1>7 DEF StartsFit, GenerationsFit

LEMMA RemainsElsewhere ==
    ASSUME StartsFit, NEW g \in Frame, Remains(g)
    PROVE  Elsewhere(g)
BY DEF Remains, Elsewhere, InSection, SectionLabels, StartingLabels, StartsFit, GenerationsFit

(* The call, the generation and the interrupt of a frame are its own.          *)
Carries(f) ==
    /\ local'[f].call = local[f].call
    /\ local'[f].generation = local[f].generation
    /\ local'[f].work = local[f].work

LEMMA CarriedOn ==
    ASSUME FrameTypes, NEW f \in Frame,
           \/ UNCHANGED local
           \/ \E x, y :
                \/ SetLocal(f, [local[f] EXCEPT !.outcome = x])
                \/ SetLocal(f, [local[f] EXCEPT !.error = x])
                \/ SetLocal(f, [local[f] EXCEPT !.after = x])
                \/ SetLocal(f, [local[f] EXCEPT !.turn = x])
                \/ SetLocal(f, [local[f] EXCEPT !.claimed = x])
                \/ SetLocal(f, [local[f] EXCEPT !.step = @ + 1])
                \/ SetLocal(f, [local[f] EXCEPT !.outcome = x, !.error = y])
                \/ SetLocal(f, [local[f] EXCEPT !.turn = x, !.current = y])
                \/ SetLocal(f, [local[f] EXCEPT !.turn = x, !.claimed = y])
                \/ SetLocal(f, [local[f] EXCEPT !.closing = x, !.closes = y])
    PROVE  Carries(f)
<1> DEFINE same(r) == r.call = local[f].call /\ r.generation = local[f].generation
                        /\ r.work = local[f].work
<1>1. local[f] \in Local
    BY DEF FrameTypes
<1>2. \A x, y : /\ same([local[f] EXCEPT !.outcome = x])
                /\ same([local[f] EXCEPT !.error = x])
                /\ same([local[f] EXCEPT !.after = x])
                /\ same([local[f] EXCEPT !.turn = x])
                /\ same([local[f] EXCEPT !.claimed = x])
                /\ same([local[f] EXCEPT !.step = @ + 1])
                /\ same([local[f] EXCEPT !.outcome = x, !.error = y])
                /\ same([local[f] EXCEPT !.turn = x, !.current = y])
                /\ same([local[f] EXCEPT !.turn = x, !.claimed = y])
                /\ same([local[f] EXCEPT !.closing = x, !.closes = y])
    BY <1>1 DEF Local
<1>3. \A r : SetLocal(f, r) => local'[f] = r
    BY LocalFields
<1>4. \A r : SetLocal(f, r) /\ same(r) => Carries(f)
    BY <1>3 DEF Carries
<1> HIDE DEF same
<1>5. CASE UNCHANGED local
    BY <1>5 DEF Carries
<1> QED BY <1>2, <1>4, <1>5

LEMMA InterruptCarries ==
    ASSUME FrameTypes, NEW f \in Frame, Interrupt(f)
    PROVE  /\ local'[f].call = local[f].call /\ local'[f].generation = local[f].generation
           /\ ~Claim(f) => Carries(f)
<1>1. CASE Claim(f)
  <2>1. \A x, y : LET after == [local[f] EXCEPT !.claimed = x, !.work = y]
                  IN  after.call = local[f].call /\ after.generation = local[f].generation
      BY DEF FrameTypes, Local
  <2>2. \/ Carries(f)
        \/ \E x, y : SetLocal(f, [local[f] EXCEPT !.claimed = x, !.work = y])
      BY <1>1, CarriedOn DEF Claim
  <2>3. \A r : SetLocal(f, r) => local'[f] = r
      BY LocalFields
  <2>4. ASSUME NEW x, NEW y, SetLocal(f, [local[f] EXCEPT !.claimed = x, !.work = y])
        PROVE  local'[f].call = local[f].call /\ local'[f].generation = local[f].generation
    <3>1. local'[f] = [local[f] EXCEPT !.claimed = x, !.work = y]
        BY <2>3, <2>4
    <3> QED BY <2>1, <3>1
  <2> QED BY <1>1, <2>2, <2>4 DEF Carries
<1>2. CASE \/ ClaimWait(f) \/ Coordinate(f) \/ IntEnter(f) \/ IntFlush(f) \/ IntFlushDone(f)
           \/ IntRequest(f)
    BY <1>2, CarriedOn DEF ClaimWait, Coordinate, IntEnter, IntFlush, IntFlushDone, IntRequest,
                           Carries
<1>3. CASE IntOutcome(f) \/ IntAccepted(f) \/ IntCommit(f) \/ IntClear(f) \/ IntIdle(f)
    BY <1>3, CarriedOn DEF IntOutcome, IntAccepted, IntCommit, IntClear, IntIdle, IntRaise,
                           Carries
<1>4. CASE \/ IntResolve(f) \/ IntResolveClear(f) \/ IntExit(f) \/ IntRecover(f)
           \/ IntComplete(f)
    BY <1>4, CarriedOn DEF IntResolve, IntResolveClear, IntExit, IntRecover, IntComplete,
                           ExitOperation, Carries
<1> QED BY <1>1, <1>2, <1>3, <1>4 DEF Interrupt, Carries

LEMMA OthersCarry ==
    ASSUME FrameTypes, NEW f \in Frame,
           Flush(f) \/ Close(f) \/ Prepare(f) \/ Subscribe(f)
    PROVE  Carries(f)
<1> USE CarriedOn
<1>1. CASE Flush(f)
    BY <1>1 DEF Flush, FlushAdmission, FlushWait, FlushEnter, FlushRequest, FlushDone, FlushExit,
                ExitOperation
<1>2. CASE Close(f)
    BY <1>2 DEF Close, CloseAdmission, CloseWait, CloseLock, CloseRead, CloseMark, CloseEmit,
                CloseHub, CloseFinal
<1>3. CASE Prepare(f) \/ Subscribe(f)
    BY <1>3 DEF Prepare, Subscribe
<1> QED BY <1>1, <1>2, <1>3

LEMMA RunCarries ==
    ASSUME FrameTypes,
           RunEnter \/ RunStage \/ RunCommit \/ RunClear \/ RunIdle \/ RunExit
    PROVE  Carries(Runner)
BY CarriedOn, FrameFacts DEF RunEnter, RunStage, RunCommit, RunClear, RunIdle, RunExit,
                             ExitOperation

-----------------------------------------------------------------------------
(* Every step keeps the admissions apart.                                     *)

LEMMA GenerationFacts ==
    ASSUME SessionInvariant, TurnInvariant
    PROVE  /\ startCount \in Nat /\ startCount \in 0 .. MaxGenerations
           /\ active.generation <= startCount /\ active.generation \in Nat
           /\ context.generation \in Nat
           /\ \A f \in Frame : local[f].generation \in Nat
           /\ active.turn = NoTurn <=> active.generation = 0
<1>1. GateFits /\ active \in Context /\ context \in Context /\ local \in [Frame -> Local]
    BY DEF SessionInvariant, FrameTypes, DataTypes, TurnInvariant
<1>2. /\ startCount \in 0 .. MaxGenerations
      /\ active.generation \in 0 .. MaxGenerations /\ context.generation \in 0 .. MaxGenerations
      /\ \A f \in Frame : local[f].generation \in 0 .. MaxGenerations
    BY <1>1 DEF GateFits, Context, Local
<1>3. active.turn = NoTurn <=> active.generation = 0
    BY <1>1 DEF GateFits
<1>4. active.generation <= startCount
  <2> SUFFICES ASSUME active.generation > startCount
               PROVE  FALSE
      BY <1>2
  <2>1. active.turn # NoTurn /\ active.generation \in Gate!Generation
      BY <1>2, <1>3 DEF Gate!Generation
  <2> QED BY <1>1, <2>1 DEF GateFits
<1> QED BY <1>2, <1>3, <1>4

(* A step outside the section leaves the starts alone.                        *)
LEMMA AwayKeepsStarts ==
    ASSUME SessionInvariant, TurnInvariant, StartsFit, NEW f \in Frame, Moves(f),
           Position(f) \notin SectionLabels, Position(f)' \notin SectionLabels \cup {"submit"},
           local'[f].generation = local[f].generation \/ local'[f].generation = 0,
           f = Runner => local'[f].generation = local[f].generation
                            /\ Position(Runner) # "idle",
           UNCHANGED <<admission, startCount, runQueue>>, context' \in {context, NoContext}
    PROVE  StartsFit'
<1>1. \A g \in Frame \ {f} : Remains(g) /\ Elsewhere(g)
    BY MovingRemains, RemainsElsewhere
<1>2. Elsewhere(f)
    BY DEF Elsewhere, InSection, SectionLabels, StartingLabels
<1>3. Queues
    BY DEF Queues, QueuedGenerations
<1>4. Position(Runner)' # "idle" => local'[Runner].generation # 0
  <2>1. CASE f = Runner
      BY <2>1 DEF StartsFit, GenerationsFit
  <2>2. CASE f # Runner
    <3>1. Remains(Runner) /\ Belongs(Runner, pc'[Runner]) /\ Belongs(Runner, ret'[Runner])
        BY <1>1, <2>2, FrameFacts DEF SessionInvariant, FramesFit, Fits, Own, Moves
    <3>2. Position(Runner)' \notin {"absent", "abandoned"}
        BY <3>1 DEF Belongs, RunnerProgram, RunnerLabels, CloseLabels, Position, Delivering
    <3> QED BY <3>1, <3>2 DEF Remains, StartsFit, GenerationsFit
  <2> QED BY <2>1, <2>2
<1> QED BY <1>1, <1>2, <1>3, <1>4, ElsewhereKeepsStarts, GenerationFacts

(* A step within the section, or into it or out of it.                        *)
LEMMA WithinKeepsGenerations ==
    ASSUME SessionInvariant, TurnInvariant, StartsFit, NEW f \in Frame, Moves(f), f # Runner,
           UNCHANGED <<startCount, runQueue>>, context' \in {context, NoContext},
           Position(f)' \in StartingLabels =>
              Position(f) \in StartingLabels /\ local'[f] = local[f] /\ ~Delivering(f)',
           Position(f)' = "submit" => local'[f].generation # 0,
           \/ local'[f].generation \in {0, local[f].generation}
           \/ /\ local'[f].generation <= startCount
              /\ \A g \in Frame \ {f} : Position(g) \notin StartingLabels
    PROVE  GenerationsFit'
<1>1. \A g \in Frame \ {f} : /\ Position(g)' = Position(g) /\ local'[g] = local[g]
                             /\ Delivering(g)' <=> Delivering(g)
    BY DEF Moves, Position, Delivering
<1>2. (context.turn = NoTurn <=> context.generation = 0)' /\ context'.generation <= startCount
    BY GenerationFacts DEF StartsFit, GenerationsFit, NoContext
<1>3. local'[f].generation <= startCount
    BY GenerationFacts DEF StartsFit, GenerationsFit
<1>4. ASSUME NEW g \in Frame, Position(g)' \in StartingLabels
      PROVE  ~Delivering(g)' /\ Fresh(g)'
  <2>1. /\ Position(g) \in StartingLabels /\ local'[g] = local[g] /\ ~Delivering(g)'
        /\ Fresh(g)
      BY <1>1, <1>4 DEF StartsFit, GenerationsFit
  <2>2. \A h \in Frame \ {g} : local'[h].generation # local'[g].generation
      BY <1>1, <2>1 DEF Fresh
  <2> QED BY <2>1, <2>2 DEF Fresh
<1>5. Position(Runner)' # "idle" => local'[Runner].generation # 0
    BY <1>1, FrameFacts DEF StartsFit, GenerationsFit
<1> QED BY <1>1, <1>2, <1>3, <1>4, <1>5 DEF StartsFit, GenerationsFit

LEMMA SectionFacts ==
    ASSUME SessionInvariant, AdmissionHeld, NEW f \in Frame, pc[f] \in SectionLabels
    PROVE  /\ InSection(f) /\ ~Delivering(f) /\ Position(f) = pc[f] /\ f # Runner
           /\ ThreadOf(admission) = ThreadOf(f)
           /\ \A g \in Frame \ {f} : InSection(g) => Delivering(g)
<1>1. pc[f] \notin {"deliver", "rejoin"}
    BY DEF SectionLabels
<1>2. InSection(f) /\ ~Delivering(f) /\ Position(f) = pc[f]
    BY <1>1 DEF InSection, Delivering, Position
<1>3. f # Runner
    BY DEF SessionInvariant, FramesFit, Fits, Own, Belongs, RunnerProgram, RunnerLabels,
           CloseLabels, SectionLabels
<1> QED BY <1>2, <1>3, OneStarts DEF AdmissionHeld

LEMMA NobodyElseStarts ==
    ASSUME SessionInvariant, StartsFit, NEW f \in Frame, pc[f] \in SectionLabels
    PROVE  \A g \in Frame \ {f} : Position(g) \notin StartingLabels
BY SectionFacts DEF StartsFit, GenerationsFit, InSection, SectionLabels, StartingLabels

LEMMA StayingKeepsAdmission ==
    ASSUME SessionInvariant, StartsFit, NEW f \in Frame, Moves(f),
           pc[f] \in SectionLabels, Position(f)' \in SectionLabels, UNCHANGED admission
    PROVE  AdmissionHeld'
<1>1. InSection(f) /\ InSection(f)'
    BY SectionFacts DEF InSection, StartsFit
<1>2. \A g \in Frame \ {f} : InSection(g)' <=> InSection(g)
    BY DEF Moves, Position, Delivering, InSection
<1> QED BY <1>1, <1>2, SectionStands DEF StartsFit, SessionInvariant, DataTypes

LEMMA EnteringKeepsStarts ==
    ASSUME SessionInvariant, TurnInvariant, StartsFit, NEW f \in Frame, StartAdmission(f)
    PROVE  StartsFit'
<1> FrameTypes /\ AdmissionHeld /\ admission \in Frame \cup {NoFrame}
    BY DEF SessionInvariant, DataTypes, StartsFit
<1>1. /\ Moves(f) /\ f # Runner /\ pc[f] = "start" /\ Position(f) = "start"
      /\ UNCHANGED <<local, context, startCount, runQueue>>
    BY StartAdmissionGoes, NotTheRunner, Here1
       DEF StartAdmission, Goes, RunnerProgram, RunnerLabels, CloseLabels
<1>2. CASE pc'[f] # "start_check"
  <2>1. UNCHANGED admission /\ Position(f)' \in {"idle", "absent"}
      BY <1>2, AtLabel DEF StartAdmission, Finish, Rest, FrameTypes, Goto
  <2> QED BY <1>1, <2>1, AwayKeepsStarts DEF SectionLabels
<1>3. CASE pc'[f] = "start_check"
  <2>1. FreeFor(admission, f) /\ admission' = Taken(admission, f) /\ Position(f)' = "start_check"
      BY <1>3, AtLabel DEF StartAdmission, Finish, Rest, FrameTypes, Goto
  <2>2. InSection(f)' /\ ~InSection(f)
      BY <1>1, <2>1 DEF InSection, SectionLabels
  <2>3. \A g \in Frame \ {f} : InSection(g)' <=> InSection(g)
      BY <1>1 DEF Moves, Position, Delivering, InSection
  <2>4. AdmissionHeld'
    <3>1. CASE admission = NoFrame
      <4>1. \A g \in Frame : ~InSection(g)
          BY <3>1, FrameFacts DEF AdmissionHeld
      <4> QED BY <2>1, <2>2, <2>3, <3>1, <4>1 DEF AdmissionHeld, Taken
    <3>2. CASE admission # NoFrame
      <4>1. /\ admission' = admission /\ ThreadOf(admission) = ThreadOf(f) /\ admission \in Frame
            /\ InSection(admission) /\ admission # f
          BY <2>1, <2>2, <3>2 DEF Taken, FreeFor, AdmissionHeld
      <4>2. IsCallback(f)
        <5>1. CASE ~IsCallback(f)
          <6>1. admission = ChildOf(f)
              BY <4>1, <5>1, FrameFacts
          <6>2. pc[admission] # "absent"
              BY <4>1 DEF InSection, SectionLabels, Position, Delivering
          <6> QED BY <1>1, <5>1, <6>1, <6>2 DEF SessionInvariant, FramesFit, Fits
        <5> QED BY <5>1
      <4> QED BY <2>2, <2>3, <4>1, <4>2 DEF AdmissionHeld
    <3> QED BY <3>1, <3>2
  <2>5. GenerationsFit'
      BY <1>1, <2>1, WithinKeepsGenerations DEF StartingLabels
  <2> QED BY <2>4, <2>5 DEF StartsFit
<1> QED BY <1>2, <1>3

LEMMA LeavingKeepsStarts ==
    ASSUME SessionInvariant, TurnInvariant, StartsFit, NEW f \in Frame, StartReturn(f)
    PROVE  StartsFit'
<1> FrameTypes /\ AdmissionHeld /\ admission \in Frame \cup {NoFrame}
    BY DEF SessionInvariant, DataTypes, StartsFit
<1>1. /\ Moves(f) /\ pc[f] = "start_return" /\ UNCHANGED <<local, context, startCount, runQueue>>
      /\ admission' = Released(admission, f)
    BY StartReturnGoes DEF StartReturn, Goes
<1>2. /\ InSection(f) /\ ~Delivering(f) /\ f # Runner
      /\ ThreadOf(admission) = ThreadOf(f)
    BY <1>1, SectionFacts DEF SectionLabels
<1>3. /\ Position(f)' \in {"idle", "absent", "submit"}
      /\ Position(f)' = "submit" => local[f].generation # 0
    BY AtLabel DEF StartReturn, Finish, Rest
<1>4. \A g \in Frame \ {f} : InSection(g)' <=> InSection(g)
    BY <1>1 DEF Moves, Position, Delivering, InSection
<1>5. ~InSection(f)'
    BY <1>3 DEF InSection, SectionLabels
<1>6. AdmissionHeld'
  <2>1. CASE admission = f
    <3>1. ASSUME NEW g \in Frame \ {f}, InSection(g)
          PROVE  FALSE
      <4>1. ThreadOf(g) = ThreadOf(f) /\ IsCallback(g)
          BY <2>1, <3>1 DEF AdmissionHeld
      <4>2. g = ChildOf(f) /\ ~IsCallback(f)
          BY <3>1, <4>1, FrameFacts DEF IsCallback
      <4>3. pc[g] # "absent"
          BY <3>1 DEF InSection, SectionLabels, Position, Delivering
      <4> QED BY <1>1, <4>2, <4>3 DEF SessionInvariant, FramesFit, Fits
    <3> QED BY <1>1, <1>4, <1>5, <2>1, <3>1 DEF AdmissionHeld, Released
  <2>2. CASE admission # f
      BY <1>1, <1>2, <1>4, <1>5, <2>2 DEF AdmissionHeld, Released
  <2> QED BY <2>1, <2>2
<1>7. GenerationsFit'
    BY <1>1, <1>2, <1>3, WithinKeepsGenerations DEF StartingLabels
<1> QED BY <1>6, <1>7 DEF StartsFit

LEMMA AdmittingKeepsStarts ==
    ASSUME SessionInvariant, TurnInvariant, StartsFit, NEW f \in Frame, StartAdmit(f)
    PROVE  StartsFit'
<1> FrameTypes
    BY DEF SessionInvariant
<1>1. /\ Moves(f) /\ pc[f] = "start_check" /\ UNCHANGED <<runQueue, admission>>
      /\ Position(f)' = "start_phase" /\ pc'[f] = "start_phase"
    BY StartAdmitGoes, AtLabel DEF StartAdmit, Goes, Goto, FrameTypes
<1>2. f # Runner /\ \A g \in Frame \ {f} : Position(g) \notin StartingLabels
    BY <1>1, SectionFacts, NobodyElseStarts DEF SectionLabels, StartsFit
<1>3. AdmissionHeld'
    BY <1>1, StayingKeepsAdmission DEF SectionLabels
<1>4. /\ startCount' = startCount + 1
      /\ context' = [turn |-> local[f].turn, generation |-> startCount + 1]
    BY DEF StartAdmit, Gate!StartGeneration
<1>5. local[f] \in Local /\ local[f].turn # NoTurn
    BY <1>1, Here DEF Suits, StartLabels, Still
<1>6. local'[f].generation = startCount + 1 /\ local'[f].turn = local[f].turn
  <2>1. local'[f] = [local[f] EXCEPT !.generation = active'.generation]
      BY LocalFields DEF StartAdmit
  <2>2. active'.generation = startCount + 1
      BY DEF StartAdmit, Gate!StartGeneration
  <2> QED BY <1>5, <2>1, <2>2 DEF Local
<1>7. \A g \in Frame \ {f} : /\ Position(g)' = Position(g) /\ local'[g] = local[g]
                             /\ local[g].generation <= startCount
    BY <1>1 DEF Moves, Position, Delivering, StartsFit, GenerationsFit
<1>8. startCount \in Nat /\ \A g \in Frame : local[g].generation \in Nat
    BY GenerationFacts
<1>9. \A g \in Frame : local'[g].generation <= startCount'
    BY <1>4, <1>6, <1>7, <1>8
<1>10. ASSUME NEW i \in 1 .. Len(runQueue)
       PROVE  /\ runQueue[i].generation # 0 /\ runQueue[i].generation <= startCount
              /\ runQueue[i].generation \in Nat
  <2>1. runQueue \in Seq(Coroutine)
      BY DEF FrameTypes
  <2>2. runQueue[i] \in Coroutine
      BY <2>1, ElementOfSeq
  <2>3. runQueue[i].generation \in Nat
      BY <2>2 DEF Coroutine
  <2> QED BY <2>3 DEF StartsFit, GenerationsFit
<1>11. Fresh(f)'
  <2>1. \A g \in Frame \ {f} : local'[g].generation # local'[f].generation
      BY <1>6, <1>7, <1>8
  <2>2. \A i \in 1 .. Len(runQueue) : runQueue[i].generation # local'[f].generation
      BY <1>6, <1>8, <1>10
  <2> QED BY <1>1, <1>4, <1>6, <1>8, <2>1, <2>2 DEF Fresh
<1>12. ~Delivering(f)'
    BY <1>1 DEF Delivering
<1>13. \A g \in Frame : Position(g)' \in StartingLabels => g = f
    BY <1>2, <1>7
<1>14. \A g \in Frame : Position(g)' = "submit" => local'[g].generation # 0
    BY <1>1, <1>7 DEF StartsFit, GenerationsFit
<1>15. Position(Runner)' # "idle" => local'[Runner].generation # 0
    BY <1>2, <1>7, FrameFacts DEF StartsFit, GenerationsFit
<1>16. \A i \in 1 .. Len(runQueue) : runQueue[i].generation <= startCount'
    BY <1>4, <1>8, <1>10
<1>17. GenerationsFit'
    BY <1>1, <1>4, <1>5, <1>8, <1>9, <1>10, <1>11, <1>12, <1>13, <1>14, <1>15, <1>16
       DEF GenerationsFit
<1> QED BY <1>3, <1>17 DEF StartsFit

LEMMA RepeatingKeepsStarts ==
    ASSUME SessionInvariant, TurnInvariant, StartsFit, NEW f \in Frame,
           StartReject(f) \/ StartRepeat(f)
    PROVE  StartsFit'
<1> FrameTypes
    BY DEF SessionInvariant
<1>1. /\ Moves(f) /\ pc[f] = "start_check"
      /\ UNCHANGED <<admission, context, startCount, runQueue>>
    BY StartRejectGoes, StartRepeatGoes DEF StartReject, StartRepeat, Goes, Emit
<1>2. f # Runner /\ \A g \in Frame \ {f} : Position(g) \notin StartingLabels
    BY <1>1, SectionFacts, NobodyElseStarts DEF SectionLabels, StartsFit
<1>3. Position(f)' = "start_return"
    BY AtLabel, AtNext DEF StartReject, StartRepeat
<1>4. AdmissionHeld'
    BY <1>1, <1>3, StayingKeepsAdmission DEF SectionLabels
<1>5. local'[f].generation \in {local[f].generation, context.generation, active.generation}
  <2>1. local[f] \in Local /\ \A r : SetLocal(f, r) => local'[f] = r
      BY LocalFields DEF FrameTypes
  <2>2. \A x : /\ [local[f] EXCEPT !.error = x].generation = local[f].generation
               /\ [local[f] EXCEPT !.generation = x].generation = x
      BY <2>1 DEF Local
  <2> QED BY <2>1, <2>2 DEF StartReject, StartRepeat
<1>6. local'[f].generation <= startCount
    BY <1>5, GenerationFacts DEF StartsFit, GenerationsFit
<1>7. GenerationsFit'
    BY <1>1, <1>2, <1>3, <1>6, WithinKeepsGenerations DEF StartingLabels
<1> QED BY <1>4, <1>7 DEF StartsFit

LEMMA PublishingKeepsStarts ==
    ASSUME SessionInvariant, TurnInvariant, StartsFit, NEW f \in Frame,
           StartPhase(f) \/ StartEmit(f)
    PROVE  StartsFit'
<1> FrameTypes /\ local[f] \in Local
    BY DEF SessionInvariant, FrameTypes
<1>1. /\ Moves(f) /\ pc[f] \in {"start_phase", "start_emit"} /\ UNCHANGED <<admission, runQueue>>
    BY StartPhaseGoes, StartEmitGoes DEF StartPhase, StartEmit, Goes, Emit, UndoStart
<1>2. f # Runner /\ Position(f) = pc[f]
    BY <1>1, SectionFacts DEF SectionLabels, StartsFit
<1>3. /\ Position(f)' \in {"start_emit", "start_return"}
      /\ Position(f)' = "start_emit" => pc'[f] = "start_emit" /\ local' = local
    BY AtLabel, AtNext DEF StartPhase, StartEmit, UndoStart, Goto, FrameTypes
<1>4. AdmissionHeld'
    BY <1>1, <1>3, StayingKeepsAdmission DEF SectionLabels
<1>5. startCount' = startCount /\ context' \in {context, NoContext}
    BY DEF StartPhase, StartEmit, UndoStart, AdvanceTurn, Gate!Advance, gateVars
<1>6. local'[f].generation \in {0, local[f].generation}
  <2>1. [local[f] EXCEPT !.error = TRUE, !.generation = 0].generation = 0
      BY DEF Local
  <2> QED BY <2>1, LocalFields DEF StartPhase, StartEmit, UndoStart
<1>7. Position(f)' \in StartingLabels =>
          Position(f) \in StartingLabels /\ local'[f] = local[f] /\ ~Delivering(f)'
    BY <1>1, <1>2, <1>3 DEF StartingLabels, Delivering
<1>8. GenerationsFit'
    BY <1>1, <1>2, <1>3, <1>5, <1>6, <1>7, WithinKeepsGenerations
<1> QED BY <1>4, <1>8 DEF StartsFit

(* A frame of another call.                                                   *)
LEMMA InterruptKeepsStarts ==
    ASSUME SessionInvariant, TurnInvariant, StartsFit, NEW f \in Frame, Interrupt(f)
    PROVE  StartsFit'
<1> FrameTypes
    BY DEF SessionInvariant
<1>1. Moves(f) /\ UNCHANGED runQueue
    BY ClaimGoes, ClaimWaitGoes, CoordinateGoes, IntEnterGoes, IntFlushGoes, IntFlushDoneGoes,
       IntRequestGoes, IntOutcomeGoes, IntAcceptedGoes, IntCommitGoes, IntClearGoes, IntIdleGoes,
       IntResolveGoes, IntResolveClearGoes, IntExitGoes, IntRecoverGoes, IntCompleteGoes
       DEF Interrupt, Goes
<1>2. /\ f # Runner /\ Position(f) \notin SectionLabels
      /\ Position(f)' \notin SectionLabels \cup {"submit"}
  <2> DEFINE middle == \/ Coordinate(f) \/ IntEnter(f) \/ IntFlush(f) \/ IntFlushDone(f)
                       \/ IntRequest(f) \/ IntOutcome(f) \/ IntAccepted(f) \/ IntCommit(f)
                       \/ IntClear(f) \/ IntIdle(f) \/ IntResolve(f) \/ IntResolveClear(f)
                       \/ IntRecover(f)
  <2>1. CASE middle
    <3>1. Owning(f)
        BY <2>1, MiddleIsOwning
    <3>2. f # Runner
        BY <2>1, NotTheRunner DEF RunnerProgram, RunnerLabels, CloseLabels, Coordinate, IntEnter,
           IntFlush, IntFlushDone, IntRequest, IntOutcome, IntAccepted, IntCommit, IntClear,
           IntIdle, IntResolve, IntResolveClear, IntRecover
    <3>3. OwnerLabels \cap (SectionLabels \cup {"submit"}) = {}
        BY DEF SectionLabels, OwnerLabels
    <3> QED BY <3>1, <3>2, <3>3 DEF Owning, SectionLabels
  <2>2. CASE Claim(f) \/ ClaimWait(f)
      BY <2>2, NotTheRunner, AtLabel, Here1
         DEF RunnerProgram, RunnerLabels, CloseLabels, SectionLabels, Claim, ClaimWait, Finish, Rest
  <2>3. CASE IntExit(f) \/ IntComplete(f)
      BY <2>3, NotTheRunner, AtLabel, Here1
         DEF RunnerProgram, RunnerLabels, CloseLabels, SectionLabels, IntExit, IntComplete,
             ExitOperation, Rest
  <2> QED BY <2>1, <2>2, <2>3 DEF Interrupt
<1>3. local'[f].generation = local[f].generation
    BY InterruptCarries DEF Carries
<1>4. UNCHANGED <<admission, startCount>> /\ context' \in {context, NoContext}
  <2>1. CASE \/ Claim(f) \/ ClaimWait(f) \/ Coordinate(f) \/ IntEnter(f) \/ IntFlush(f)
             \/ IntFlushDone(f) \/ IntOutcome(f) \/ IntAccepted(f)
      BY <2>1 DEF Claim, ClaimWait, Coordinate, IntEnter, IntFlush, IntFlushDone, IntOutcome,
         IntAccepted, EmitOrSkip, Emit, Transition, IntRaise, EnterOperation
  <2>2. CASE IntRequest(f) \/ IntCommit(f) \/ IntResolve(f)
      BY <2>2 DEF IntRequest, IntCommit, IntResolve, EmitOrSkip, Emit, Transition, IntRaise,
         CommitTerminal, AdvanceTurn, Gate!Advance
  <2>3. CASE \/ IntClear(f) \/ IntIdle(f) \/ IntResolveClear(f) \/ IntExit(f) \/ IntRecover(f)
             \/ IntComplete(f)
      BY <2>3 DEF IntClear, IntIdle, IntResolveClear, IntExit, IntRecover, IntComplete,
         ExitOperation, EnterOperation
  <2> QED BY <2>1, <2>2, <2>3 DEF Interrupt
<1> QED BY <1>1, <1>2, <1>3, <1>4, AwayKeepsStarts

LEMMA FlushKeepsStarts ==
    ASSUME SessionInvariant, TurnInvariant, StartsFit, NEW f \in Frame,
           Flush(f) \/ Prepare(f) \/ Subscribe(f)
    PROVE  StartsFit'
<1> FrameTypes
    BY DEF SessionInvariant
<1>1. Moves(f) /\ UNCHANGED runQueue
    BY FlushAdmissionGoes, FlushWaitGoes, FlushEnterGoes, FlushRequestGoes, FlushDoneGoes,
       FlushExitGoes, PrepareGoes, SubscribeGoes DEF Flush, Goes
<1>2. f # Runner
    BY NotTheRunner DEF RunnerProgram, RunnerLabels, CloseLabels, Flush, FlushAdmission,
         FlushWait, FlushEnter, FlushRequest, FlushDone, FlushExit, Prepare, Subscribe
<1>3. /\ Position(f) \notin SectionLabels
      /\ Position(f)' \notin SectionLabels \cup {"submit"}
  <2> USE AtLabel, AtSkip, Here1 DEF SectionLabels, Rest
  <2>1. CASE FlushAdmission(f) \/ FlushWait(f) \/ FlushEnter(f)
      BY <2>1 DEF FlushAdmission, FlushWait, FlushEnter
  <2>2. CASE FlushRequest(f) \/ FlushDone(f)
      BY <2>2 DEF FlushRequest, FlushDone
  <2>3. CASE FlushExit(f)
      BY <2>3 DEF FlushExit, ExitOperation
  <2>4. CASE Prepare(f) \/ Subscribe(f)
      BY <2>4 DEF Prepare, Subscribe, Finish
  <2> QED BY <2>1, <2>2, <2>3, <2>4 DEF Flush
<1>4. local'[f].generation = local[f].generation
    BY OthersCarry DEF Carries
<1>5. UNCHANGED <<admission, startCount, context>>
    BY DEF Flush, FlushAdmission, FlushWait, FlushEnter, FlushRequest, FlushDone, FlushExit,
           EmitOrSkip, Emit, EnterOperation, ExitOperation, Prepare, Subscribe
<1> QED BY <1>1, <1>2, <1>3, <1>4, <1>5, AwayKeepsStarts

LEMMA CloseKeepsStarts ==
    ASSUME SessionInvariant, TurnInvariant, StartsFit, NEW f \in Frame, Close(f)
    PROVE  StartsFit'
<1> FrameTypes
    BY DEF SessionInvariant
<1>1. Moves(f) /\ UNCHANGED runQueue
    BY CloseAdmissionGoes, CloseWaitGoes, CloseLockGoes, CloseReadGoes, CloseMarkGoes,
       CloseEmitGoes, CloseHubGoes, CloseFinalGoes DEF Close, Goes
<1>2. /\ Position(f) \notin SectionLabels \cup {"idle"}
      /\ Position(f)' \notin SectionLabels \cup {"submit"}
  <2> USE AtLabel, AtNext, Here1 DEF SectionLabels, Finish, Rest
  <2>1. CASE CloseAdmission(f) \/ CloseWait(f) \/ CloseLock(f)
      BY <2>1 DEF CloseAdmission, CloseWait, CloseLock
  <2>2. CASE CloseRead(f) \/ CloseMark(f) \/ CloseEmit(f) \/ CloseHub(f)
      BY <2>2 DEF CloseRead, CloseMark, CloseEmit, CloseHub, Transition
  <2>3. CASE CloseFinal(f)
    <3>1. local[f].after \in Continuation
        BY <2>3, Here DEF CloseFinal, Still, Suits, Local, CloseLabels
    <3> QED BY <2>3, <3>1 DEF CloseFinal, Continuation
  <2> QED BY <2>1, <2>2, <2>3 DEF Close
<1>3. local'[f].generation = local[f].generation
    BY OthersCarry DEF Carries
<1>4. UNCHANGED <<admission, startCount>> /\ context' \in {context, NoContext}
    BY DEF Close, CloseAdmission, CloseWait, CloseLock, CloseRead, CloseMark, CloseEmit, CloseHub,
           CloseFinal, Emit, Transition, Gate!Advance
<1> QED BY <1>1, <1>2, <1>3, <1>4, AwayKeepsStarts

LEMMA RunKeepsStarts ==
    ASSUME SessionInvariant, TurnInvariant, StartsFit,
           RunEnter \/ RunStage \/ RunCommit \/ RunClear \/ RunIdle \/ RunExit
    PROVE  StartsFit'
<1> FrameTypes /\ Runner \in Frame
    BY FrameFacts DEF SessionInvariant
<1>1. Moves(Runner) /\ UNCHANGED runQueue
    BY RunEnterGoes, RunStageGoes, RunCommitGoes, RunClearGoes, RunIdleGoes, RunExitGoes
       DEF Goes
<1>2. /\ Position(Runner) \notin SectionLabels \cup {"idle"}
      /\ Position(Runner)' \notin SectionLabels \cup {"submit"}
  <2> USE AtLabel, AtNext, Here1 DEF SectionLabels
  <2>1. CASE RunEnter \/ RunClear \/ RunIdle
      BY <2>1 DEF RunEnter, RunClear, RunIdle
  <2>2. CASE RunStage
      BY <2>2 DEF RunStage, Transition
  <2>3. CASE RunCommit
      BY <2>3 DEF RunCommit, CommitTerminal, Transition
  <2>4. CASE RunExit
      BY <2>4 DEF RunExit, ExitOperation
  <2> QED BY <2>1, <2>2, <2>3, <2>4
<1>3. local'[Runner].generation = local[Runner].generation
    BY RunCarries DEF Carries
<1>4. UNCHANGED <<admission, startCount>> /\ context' \in {context, NoContext}
  <2>1. CASE RunEnter \/ RunClear \/ RunIdle \/ RunExit
      BY <2>1 DEF RunEnter, RunClear, RunIdle, RunExit, EnterOperation, ExitOperation
  <2>2. CASE RunStage
      BY <2>2 DEF RunStage, Transition, Emit
  <2>3. CASE RunCommit
      BY <2>3 DEF RunCommit, CommitTerminal, Transition, Emit, AdvanceTurn, Gate!Advance
  <2> QED BY <2>1, <2>2, <2>3
<1> QED BY <1>1, <1>2, <1>3, <1>4, AwayKeepsStarts

LEMMA SubmittingKeepsStarts ==
    ASSUME SessionInvariant, TurnInvariant, StartsFit, NEW f \in Frame, Submit(f)
    PROVE  StartsFit'
<1> FrameTypes /\ local[f] \in Local /\ runQueue \in Seq(Coroutine)
    BY DEF SessionInvariant, FrameTypes
<1>1. /\ pc[f] = "submit" /\ Position(f) = "submit" /\ f # Runner
      /\ UNCHANGED <<admission, startCount, context, ret>>
    BY NotTheRunner, Here1 DEF Submit, RunnerProgram, RunnerLabels, CloseLabels
<1>2. \A g \in Frame \ {f} : pc'[g] = pc[g] /\ local'[g] = local[g] /\ Position(g)' = Position(g)
                             /\ (Delivering(g)' <=> Delivering(g))
    BY <1>1 DEF Submit, Goto, Finish, SetLocal, FrameTypes, Position, Delivering
<1>3. Position(f)' \in {"idle", "absent", "await_run"}
    BY AtLabel DEF Submit, Finish, Rest
<1>4. local'[f].generation = local[f].generation
  <2>1. [local[f] EXCEPT !.error = TRUE].generation = local[f].generation
      BY DEF Local
  <2>2. \A r : SetLocal(f, r) => local'[f] = r
      BY LocalFields
  <2> QED BY <2>1, <2>2 DEF Submit
<1>5. \A g \in Frame : Elsewhere(g)
  <2>1. Elsewhere(f)
      BY <1>1, <1>3, <1>4 DEF Elsewhere, InSection, SectionLabels, StartingLabels
  <2>2. \A g \in Frame \ {f} : Elsewhere(g)
      BY <1>2, RemainsElsewhere DEF Remains
  <2> QED BY <2>1, <2>2
<1>6. Queues
  <2> DEFINE entry == [turn |-> local[f].turn, caller |-> f, generation |-> local[f].generation]
  <2>1. CASE UNCHANGED runQueue
      BY <2>1 DEF Queues, QueuedGenerations
  <2>2. CASE runQueue' = Append(runQueue, entry)
    <3>1. entry.generation = local[f].generation
        OBVIOUS
    <3>2. Len(runQueue) \in Nat /\ Len(runQueue') = Len(runQueue) + 1
        BY <2>2
    <3>3. \A i \in 1 .. Len(runQueue) : runQueue'[i] = runQueue[i]
        BY <2>2
    <3>4. runQueue'[Len(runQueue) + 1] = entry
        BY <2>2
    <3> HIDE DEF entry
    <3>5. \A i \in 1 .. Len(runQueue') : i \in 1 .. Len(runQueue) \/ i = Len(runQueue) + 1
        BY <3>2
    <3> QED BY <1>1, <3>1, <3>3, <3>4, <3>5 DEF Queues, QueuedGenerations
  <2> QED BY <2>1, <2>2 DEF Submit
<1>7. Position(Runner)' # "idle" => local'[Runner].generation # 0
    BY <1>1, <1>2, FrameFacts DEF StartsFit, GenerationsFit
<1> QED BY <1>1, <1>5, <1>6, <1>7, ElsewhereKeepsStarts, GenerationFacts

(* The runtime takes a coroutine, and answers its caller.                      *)
LEMMA AnsweringRemains ==
    ASSUME SessionInvariant, NEW caller \in Frame, pc[caller] = "await_run",
           Answer(caller, Runner, "idle"), pc[Runner] \in {"idle", "run_finish"},
           UNCHANGED <<ret, local>>
    PROVE  (\A g \in Frame : Remains(g)) /\ Position(Runner)' = "idle"
<1>1. PICK label \in {Rest(caller), "abandoned"} :
         pc' = [pc EXCEPT ![caller] = label, ![Runner] = "idle"]
    BY DEF Answer
<1>2. pc \in [Frame -> Label] /\ Runner \in Frame /\ caller # Runner
    BY FrameFacts DEF SessionInvariant, FrameTypes
<1>3. /\ pc'[Runner] = "idle" /\ pc'[caller] = label
      /\ \A g \in Frame \ {caller, Runner} : pc'[g] = pc[g]
    BY <1>1, <1>2
<1>4. label \in {"idle", "absent", "abandoned"}
    BY DEF Rest
<1>5. Remains(caller) /\ Remains(Runner) /\ Position(Runner)' = "idle"
    BY <1>2, <1>3, <1>4 DEF Remains, Position, Delivering
<1>6. \A g \in Frame \ {caller, Runner} : Remains(g)
    BY <1>3 DEF Remains, Position, Delivering
<1> QED BY <1>5, <1>6

LEMMA AnswersRemain ==
    ASSUME SessionInvariant, RunFinish \/ RunResume \/ CancelSubmitted
    PROVE  /\ (\A g \in Frame : Remains(g)) /\ Position(Runner)' = "idle"
           /\ UNCHANGED <<turnVars, admission, interrupts, local>> /\ awaiting' \subseteq awaiting
           /\ UNCHANGED runQueue \/ (runQueue # <<>> /\ runQueue' = Tail(runQueue))
<1>1. CASE RunFinish
  <2>1. local[Runner].caller \in Frame /\ pc[local[Runner].caller] = "await_run"
      BY <1>1 DEF RunFinish, Executed, SessionInvariant, CallersWait
  <2> QED BY <1>1, <2>1, AnsweringRemains DEF RunFinish
<1>2. CASE RunResume
  <2>1. PICK parked \in awaiting :
           awaiting' = awaiting \ {parked} /\ Answer(parked.caller, Runner, "idle")
      BY <1>2 DEF RunResume
  <2>2. parked.caller \in Frame /\ pc[parked.caller] = "await_run"
      BY DEF Awaited, SessionInvariant, CallersWait
  <2> QED BY <1>2, <2>1, <2>2, AnsweringRemains DEF RunResume
<1>3. CASE CancelSubmitted
  <2>1. CASE runQueue # <<>> /\ Answer(Head(runQueue).caller, Runner, "idle")
                /\ runQueue' = Tail(runQueue) /\ UNCHANGED awaiting
    <3>1. Head(runQueue).caller \in Submitted
        BY <1>3, <2>1, QueueAnswered DEF CancelSubmitted
    <3>2. Head(runQueue).caller \in Frame /\ pc[Head(runQueue).caller] = "await_run"
        BY <3>1 DEF SessionInvariant, CallersWait
    <3> QED BY <1>3, <2>1, <3>2, AnsweringRemains DEF CancelSubmitted
  <2>2. CASE UNCHANGED runQueue /\ \E parked \in awaiting :
                /\ Answer(parked.caller, Runner, "idle") /\ awaiting' = awaiting \ {parked}
    <3>1. PICK parked \in awaiting :
             awaiting' = awaiting \ {parked} /\ Answer(parked.caller, Runner, "idle")
        BY <2>2
    <3>2. parked.caller \in Frame /\ pc[parked.caller] = "await_run"
        BY DEF Awaited, SessionInvariant, CallersWait
    <3> QED BY <1>3, <2>2, <3>1, <3>2, AnsweringRemains DEF CancelSubmitted
  <2> QED BY <1>3, <2>1, <2>2 DEF CancelSubmitted
<1> QED BY <1>1, <1>2, <1>3

LEMMA QueueTail ==
    ASSUME SessionInvariant, runQueue # <<>>, runQueue' = Tail(runQueue)
    PROVE  Queues /\ Head(runQueue).generation \in QueuedGenerations
<1>1. runQueue \in Seq(Coroutine) /\ Len(runQueue) \in Nat \ {0}
    BY DEF SessionInvariant, FrameTypes
<1>2. Len(runQueue') = Len(runQueue) - 1
    BY <1>1
<1>3. \A i \in 1 .. Len(runQueue') : runQueue'[i] = runQueue[i + 1] /\ i + 1 \in 1 .. Len(runQueue)
    BY <1>1, <1>2
<1>4. Head(runQueue) = runQueue[1] /\ 1 \in 1 .. Len(runQueue)
    BY <1>1
<1> QED BY <1>3, <1>4 DEF Queues, QueuedGenerations

LEMMA CoroutineKeepsStarts ==
    ASSUME SessionInvariant, TurnInvariant, StartsFit,
           RunTake \/ RunFinish \/ RunPark \/ RunResume \/ CancelSubmitted
    PROVE  StartsFit'
<1> FrameTypes /\ Runner \in Frame
    BY FrameFacts DEF SessionInvariant
<1>a. UNCHANGED runQueue => Queues
    BY DEF Queues, QueuedGenerations
<1>1. CASE RunFinish \/ RunResume \/ CancelSubmitted
  <2>1. /\ \A g \in Frame : Elsewhere(g)
        /\ Position(Runner)' = "idle" /\ UNCHANGED <<turnVars, admission>> /\ Queues
      BY <1>1, <1>a, AnswersRemain, RemainsElsewhere, QueueTail
  <2>2. UNCHANGED <<context, startCount>>
      BY <2>1 DEF turnVars, gateVars
  <2> QED BY <2>1, <2>2, ElsewhereKeepsStarts, GenerationFacts
<1>2. CASE RunPark
  <2>1. UNCHANGED <<local, ret, context, startCount, admission, runQueue>>
      BY <1>2 DEF RunPark
  <2>2. Position(Runner)' = "idle" /\ Position(Runner) = "run_park"
      BY <1>2, AtLabel, Here1 DEF RunPark
  <2>3. \A g \in Frame \ {Runner} : Remains(g)
      BY <1>2, <2>1 DEF RunPark, Goto, Remains, Position, Delivering
  <2>4. Elsewhere(Runner)
      BY <2>1, <2>2 DEF Elsewhere, InSection, SectionLabels, StartingLabels
  <2> QED BY <1>a, <2>1, <2>2, <2>3, <2>4, RemainsElsewhere, ElsewhereKeepsStarts, GenerationFacts
<1>3. CASE RunTake
  <2>1. /\ UNCHANGED <<ret, context, startCount, admission>>
        /\ runQueue # <<>> /\ runQueue' = Tail(runQueue)
      BY <1>3 DEF RunTake
  <2>2. Position(Runner)' = "run_enter" /\ Position(Runner) = "idle"
      BY <1>3, AtLabel, Here1 DEF RunTake
  <2>3. \A g \in Frame \ {Runner} : Remains(g)
      BY <1>3, <2>1 DEF RunTake, Goto, SetLocal, Remains, Position, Delivering
  <2>4. local'[Runner].generation = Head(runQueue).generation
    <3>1. \A x, y, z : [NoLocal EXCEPT !.turn = x, !.generation = y, !.caller = z].generation = y
        BY DEF NoLocal
    <3>2. local'[Runner] = [NoLocal EXCEPT !.turn = Head(runQueue).turn,
                                           !.generation = Head(runQueue).generation,
                                           !.caller = Head(runQueue).caller]
        BY <1>3, LocalFields DEF RunTake
    <3> QED BY <3>1, <3>2
  <2>5. Queues /\ local'[Runner].generation \in QueuedGenerations
      BY <2>1, <2>4, QueueTail
  <2>6. Elsewhere(Runner)
      BY <2>2, <2>5 DEF Elsewhere, InSection, SectionLabels, StartingLabels
  <2>7. local'[Runner].generation # 0
      BY <2>5 DEF QueuedGenerations, StartsFit, GenerationsFit
  <2> QED BY <2>1, <2>3, <2>5, <2>6, <2>7, RemainsElsewhere, ElsewhereKeepsStarts,
             GenerationFacts
<1> QED BY <1>1, <1>2, <1>3

(* Deliveries.                                                               *)
LEMMA DeliveringRemains ==
    ASSUME SessionInvariant, NEW f \in Frame, FinishDelivery(f) \/ Rejoin(f)
    PROVE  \A g \in Frame : Remains(g) /\ Position(g)' = Position(g)
<1> FrameTypes
    BY DEF SessionInvariant
<1>1. UNCHANGED <<ret, local>> /\ pc[f] \in {"deliver", "rejoin"}
    BY DEF FinishDelivery, Rejoin
<1>2. Position(f) = ret[f] /\ ret[f] \notin {"deliver", "rejoin"}
    BY <1>1 DEF SessionInvariant, FramesFit, Fits, Own, Position, Delivering, Resumption
<1>3. Position(f)' = ret[f] /\ Delivering(f)
    BY <1>1, <1>2 DEF FinishDelivery, Rejoin, Position, Delivering, Goto, FrameTypes
<1>4. \A g \in Frame \ {f} : pc'[g] = pc[g]
    BY DEF FinishDelivery, Rejoin, Goto, FrameTypes
<1> QED BY <1>1, <1>2, <1>3, <1>4 DEF Remains, Position, Delivering

LEMMA DeliveryKeepsStarts ==
    ASSUME SessionInvariant, TurnInvariant, StartsFit, NEW f \in Frame,
           FinishDelivery(f) \/ Rejoin(f)
    PROVE  StartsFit'
<1>1. UNCHANGED <<admission, startCount, context, runQueue, local>>
    BY DEF FinishDelivery, Rejoin
<1>2. \A g \in Frame : Elsewhere(g) /\ Position(g)' = Position(g)
    BY DeliveringRemains, RemainsElsewhere
<1>3. Queues
    BY <1>1 DEF Queues, QueuedGenerations
<1>4. Position(Runner)' # "idle" => local'[Runner].generation # 0
    BY <1>1, <1>2, FrameFacts DEF StartsFit, GenerationsFit
<1> QED BY <1>1, <1>2, <1>3, <1>4, ElsewhereKeepsStarts, GenerationFacts

(* Calls.                                                                   *)
LEMMA BeginningMoves ==
    ASSUME SessionInvariant, NEW f \in Frame, BeginCall(f) \/ BeginCallback(f)
    PROVE  \E g \in Frame \ {Runner} :
              /\ \A h \in Frame \ {g} : Remains(h) /\ Position(h)' = Position(h)
              /\ Position(g) \in {"idle", "absent"}
              /\ Position(g)' \in {"prepare", "start", "claim", "flush", "close", "subscribe"}
              /\ local'[g].work = NoTurn /\ local'[g].generation = 0
              /\ local'[g].after = Rest(g)
<1> FrameTypes
    BY DEF SessionInvariant
<1>1. PICK g \in Frame \ {Runner}, call \in SessionCall :
         Begin(g, call) /\ pc[g] \in {"idle", "absent"}
  <2>1. CASE BeginCall(f)
    <3>1. ThreadOf(f) \in Host /\ pc[f] = "idle" /\ \E call \in calls[ThreadOf(f)] : Begin(f, call)
        BY <2>1 DEF BeginCall
    <3>2. f # Runner
        BY <3>1 DEF Runner, ThreadOf
    <3> QED BY <3>1, <3>2 DEF FrameTypes
  <2>2. CASE BeginCallback(f)
    <3>1. /\ ~IsCallback(f) /\ pc[ChildOf(f)] = "absent"
          /\ \E call \in callbackCalls : Begin(ChildOf(f), call)
        BY <2>2 DEF BeginCallback
    <3>2. ChildOf(f) \in Frame \ {Runner}
        BY <3>1, FrameFacts
    <3> QED BY <3>1, <3>2 DEF FrameTypes
  <2> QED BY <2>1, <2>2
<1>2. Entry[call.op] \in {"prepare", "start", "claim", "flush", "close", "subscribe"}
    BY EntryFacts
<1>3. Position(g)' \in {"prepare", "start", "claim", "flush", "close", "subscribe"}
    BY <1>1, <1>2, AtLabel DEF Begin
<1>4. \A h \in Frame \ {g} : pc'[h] = pc[h] /\ ret'[h] = ret[h] /\ local'[h] = local[h]
    BY <1>1 DEF Begin, Goto, FrameTypes
<1>5. local'[g].work = NoTurn /\ local'[g].generation = 0 /\ local'[g].after = Rest(g)
    BY <1>1 DEF Begin, FrameTypes, NoLocal
<1> QED BY <1>1, <1>3, <1>4, <1>5 DEF Remains, Position, Delivering

LEMMA BeginningKeepsStarts ==
    ASSUME SessionInvariant, TurnInvariant, StartsFit, NEW f \in Frame,
           BeginCall(f) \/ BeginCallback(f)
    PROVE  StartsFit'
<1>1. UNCHANGED <<admission, startCount, context, runQueue>>
    BY DEF BeginCall, BeginCallback
<1>2. PICK g \in Frame \ {Runner} :
              /\ \A h \in Frame \ {g} : Remains(h) /\ Position(h)' = Position(h)
              /\ Position(g) \in {"idle", "absent"}
              /\ Position(g)' \in {"prepare", "start", "claim", "flush", "close", "subscribe"}
              /\ local'[g].generation = 0
    BY BeginningMoves
<1>3. \A h \in Frame \ {g} : Elsewhere(h)
    BY <1>2, RemainsElsewhere
<1>4. Elsewhere(g)
    BY <1>2 DEF Elsewhere, InSection, SectionLabels, StartingLabels
<1>5. Queues
    BY <1>1 DEF Queues, QueuedGenerations
<1>6. Position(Runner)' # "idle" => local'[Runner].generation # 0
    BY <1>2, FrameFacts DEF StartsFit, GenerationsFit, Remains
<1> QED BY <1>1, <1>3, <1>4, <1>5, <1>6, ElsewhereKeepsStarts, GenerationFacts

LEMMA NextKeepsStarts ==
    ASSUME SessionInvariant, TurnInvariant, StartsFit, [Next]_vars
    PROVE  StartsFit'
<1>1. CASE UNCHANGED vars
  <2>1. UNCHANGED <<pc, ret, local, admission, startCount, context, runQueue>>
      BY <1>1 DEF vars, turnVars, gateVars, lockVars, runVars, frameVars
  <2> QED BY <2>1 DEF StartsFit, AdmissionHeld, GenerationsFit, Fresh, InSection, Position,
                      Delivering
<1> QED BY <1>1, EnteringKeepsStarts, LeavingKeepsStarts, AdmittingKeepsStarts,
           RepeatingKeepsStarts, PublishingKeepsStarts, SubmittingKeepsStarts,
           InterruptKeepsStarts, FlushKeepsStarts, CloseKeepsStarts, RunKeepsStarts,
           CoroutineKeepsStarts, DeliveryKeepsStarts, BeginningKeepsStarts
        DEF Next, Step, StartTurn, RunTurn, RuntimeLoop, Finished

LEMMA InitStarts == Init => StartsFit
<1> SUFFICES ASSUME Init
             PROVE  StartsFit
    OBVIOUS
<1>1. /\ admission = NoFrame /\ context = NoContext /\ startCount = 0 /\ runQueue = <<>>
      /\ \A f \in Frame : pc[f] = Rest(f) /\ local[f] = NoLocal
    BY DEF Init
<1>2. \A f \in Frame : Position(f) = Rest(f) /\ local[f].generation = 0
    BY <1>1 DEF Position, Delivering, Rest, NoLocal
<1>3. \A f \in Frame : Position(f) \in {"idle", "absent"}
    BY <1>2 DEF Rest
<1>4. Position(Runner) = "idle"
    BY <1>2, FrameFacts DEF Rest
<1> QED BY <1>1, <1>2, <1>3, <1>4
        DEF StartsFit, AdmissionHeld, GenerationsFit, InSection, SectionLabels, StartingLabels,
            NoContext

(* start_turn runs under the admission lock: at most one frame is publishing a *)
(* new turn, and until it has, nobody else knows the generation it was given.   *)
THEOREM StartsAreApart == Spec => []StartsFit
BY InitStarts, NextKeepsStarts, SessionStands, TurnsStand, PTL DEF Spec

-----------------------------------------------------------------------------
(* What no step takes back.                                                   *)
Onward ==
    \A t \in Turn :
        /\ Terminal(t) => Terminal(t)'
        /\ interrupts[t].status # "none" =>
              interrupts'[t].status # "none" /\ (interrupts'[t].reserved => interrupts[t].reserved)

LEMMA StepsGoOnward ==
    ASSUME DataTypes, TurnStep
    PROVE  Onward
<1>1. \A t \in Turn : Terminal(t) => Terminal(t)'
  <2>1. {"rejected", "closed"} \subseteq TurnOutcome
      BY DEF TurnOutcome
  <2>2. \/ UNCHANGED records
        \/ \E t \in Turn, outcome \in TurnOutcome : Registry!Retain(t, outcome)
      BY <2>1 DEF TurnStep, Rests, Clears, AdmitsClose, Admits, Rejects, Abandons, Retires, Claims,
                  Completes, Ends, Defers, Closes, TurnOrNone
  <2> QED BY <2>2, EndsRemain
<1>2. WorkStays => \A t \in Turn : interrupts[t].status # "none" =>
              interrupts'[t].status # "none" /\ (interrupts'[t].reserved => interrupts[t].reserved)
    BY DEF WorkStays
<1>3. ASSUME NEW t \in Turn, NEW u \in Turn, interrupts[u].status # "none",
             Claims(t) \/ Completes(t) \/ \E outcome \in TurnOutcome : Defers(t, outcome)
      PROVE  interrupts'[u].status # "none" /\ (interrupts'[u].reserved => interrupts[u].reserved)
  <2>1. CASE Claims(t)
      BY <1>3, <2>1 DEF Claims, DataTypes
  <2>2. CASE Completes(t)
      BY <1>3, <2>2 DEF Completes, DataTypes, InterruptWork
  <2>3. CASE \E outcome \in TurnOutcome : Defers(t, outcome)
      BY <1>3, <2>3 DEF Defers, DeferTerminal, DataTypes, InterruptWork
  <2> QED BY <1>3, <2>1, <2>2, <2>3
<1>4. interrupts' = interrupts => WorkStays
    BY WorkThatStays
<1>5. ASSUME NEW u \in Turn, interrupts[u].status # "none"
      PROVE  interrupts'[u].status # "none" /\ (interrupts'[u].reserved => interrupts[u].reserved)
  <2>1. \/ WorkStays
        \/ \E t \in Turn : \/ Claims(t) \/ Completes(t)
                           \/ \E outcome \in TurnOutcome : Defers(t, outcome)
      BY <1>4 DEF TurnStep, Rests, Clears, AdmitsClose, Admits, Rejects, Abandons, Retires, Ends,
                  Closes
  <2> QED BY <1>2, <1>3, <1>5, <2>1
<1> QED BY <1>1, <1>5 DEF Onward

(* An interrupt keeps what it has ...                                         *)
WorkHolds ==
    \A t \in Turn : /\ interrupts'[t].status = interrupts[t].status
                    /\ interrupts[t].reserved => interrupts'[t].reserved
                    /\ interrupts[t].deferred # "none" => interrupts'[t].deferred # "none"

LEMMA HoldingWork ==
    ASSUME DataTypes
    PROVE  /\ UNCHANGED interrupts => WorkHolds
           /\ \A t \in Turn : \A x :
                 /\ interrupts' = [interrupts EXCEPT ![t].flushed = x] => WorkHolds
                 /\ interrupts' = [interrupts EXCEPT ![t].closeAfter = x] => WorkHolds
                 /\ x # "none" /\ DeferTerminal(t, x) => WorkHolds
BY DEF DataTypes, InterruptWork, WorkHolds, DeferTerminal

LEMMA HeldOn ==
    ASSUME Onward, WorkHolds, NEW t \in Turn
    PROVE  (Held(t) => Held(t)') /\ (Waits(t)' => Waits(t))
BY DEF Onward, WorkHolds, Held, Waits

(* ... and a frame what it knows.                                             *)
LEMMA KnowsOn ==
    ASSUME SessionInvariant, Onward, NEW g \in Frame, Knows(g), Remains(g)
    PROVE  Knows(g)'
<1>1. local[g].work # NoTurn => local[g].work \in Turn
    BY LocalTypes DEF TurnOrNone
<1>2. local'[g] = local[g] /\ RequestedTurn(g)' = RequestedTurn(g)
    BY DEF Remains, RequestedTurn
<1>3. Settled(g)' => Settled(g)
    BY <1>2 DEF Remains, Settled, CloserLabels, FinisherLabels
<1>4. ASSUME local[g].work # NoTurn
      PROVE  /\ interrupts'[local[g].work].status # "none"
             /\ RequestedTurn(g) \in {NoTurn, local[g].work}
             /\ Settled(g)' => ~interrupts'[local[g].work].reserved
    BY <1>1, <1>3, <1>4 DEF Knows, Onward
<1>5. Position(g)' = "int_resolve_clear" => Terminal(local[g].work)'
  <2>1. ASSUME Position(g)' = "int_resolve_clear", NEW t, t = local[g].work
        PROVE  Terminal(t)'
    <3>1. Position(g) = "int_resolve_clear" /\ Terminal(t)
        BY <2>1 DEF Remains, Knows
    <3>2. t \in Turn
        BY <1>1, <2>1, <3>1 DEF SessionInvariant, FramesFit, Fits, Own, Suits
    <3> QED BY <3>1, <3>2 DEF Onward
  <2>2. Position(g)' = "int_resolve_clear" => \E t : t = local[g].work /\ Terminal(t)'
      BY <2>1
  <2> QED BY <1>2, <2>2
<1>6. Position(g)' \in AskerLabels \cup {"close_lock"} => local[g].after = Rest(g)
    BY DEF Remains, Knows, AskerLabels
<1> QED BY <1>2, <1>4, <1>5, <1>6 DEF Knows

LEMMA SparesOn ==
    ASSUME NEW g \in Frame, NEW t, Spares(g, t), Remains(g)
    PROVE  Spares(g, t)'
BY DEF Spares, Remains, StartingLabels, PendingLabels

(* The runtime's own frame has no interrupt.                                  *)
LEMMA RunnerStandsBy ==
    ASSUME Position(Runner)' \in RunnerProgram, local'[Runner].work = NoTurn
    PROVE  Knows(Runner)' /\ \A t \in Turn : Spares(Runner, t)'
<1>1. Position(Runner)' \notin StartingLabels \cup PendingLabels \cup AskerLabels
         \cup {"int_clear", "int_idle", "int_resolve", "int_resolve_clear", "close_lock"}
    BY DEF RunnerProgram, RunnerLabels, CloseLabels, StartingLabels, PendingLabels, AskerLabels
<1> QED BY <1>1 DEF Knows, Spares

(* A step of another frame than the runtime's.                                *)
LEMMA OthersPursue ==
    ASSUME SessionInvariant, CompletionInvariant, Onward, Remains(Runner),
           awaiting' \subseteq awaiting, UNCHANGED normalReserved,
           \A g \in Frame : Remains(g) \/ Knows(g)',
           \A t \in Turn : Kept(t) /\ Held(t) => Held(t)',
           \A t \in Turn : Waits(t)' => \/ Waits(t)
                                        \/ interrupts[t].status = "none" /\ t \notin normalReserved,
           \A t \in Turn :
              Waits(t) /\ Waits(t)' /\ context.turn = t /\ (\A g \in Frame : Spares(g, t))
              => context'.turn = t /\ \A g \in Frame : Remains(g) \/ Spares(g, t)'
    PROVE  CompletionInvariant'
<1>1. local'[Runner] = local[Runner] /\ RunnerTurn' = RunnerTurn
    BY DEF Remains, RunnerTurn
<1>2. \A t \in Turn : Kept(t)' => Kept(t)
    BY <1>1 DEF Kept
<1>3. CompletionsHeld'
    BY <1>2 DEF CompletionInvariant, CompletionsHeld
<1>4. \A t \in Turn : Pursued(t)' => Pursued(t)
    BY <1>1, <1>2 DEF Pursued, Remains
<1>5. ASSUME NEW t \in Turn, Pursued(t)', Waits(t)'
      PROVE  context'.turn = t /\ \A g \in Frame : Spares(g, t)'
  <2>1. Pursued(t) /\ ~Terminal(t)
      BY <1>4, <1>5 DEF Onward, Waits
  <2>2. Waits(t)
    <3> SUFFICES ASSUME interrupts[t].status = "none", t \notin normalReserved
                 PROVE  FALSE
        BY <1>5
    <3>1. CASE Kept(t)
        BY <2>1, <3>1 DEF CompletionInvariant, CompletionsHeld, Held, Waits
    <3>2. CASE Position(Runner) = "run_step" /\ RunnerTurn = t
        BY <3>2 DEF CompletionInvariant, RunnerKnows
    <3> QED BY <2>1, <3>1, <3>2 DEF Pursued
  <2>3. context.turn = t /\ \A g \in Frame : Spares(g, t)
      BY <2>1, <2>2 DEF CompletionInvariant, PursuedTurnsStand
  <2> QED BY <1>5, <2>2, <2>3, SparesOn
<1>6. \A g \in Frame : Knows(g)'
    BY KnowsOn DEF CompletionInvariant
<1>7. RunnerKnows'
  <2>1. Position(Runner)' \in {Position(Runner), "idle", "absent", "abandoned"}
      BY DEF Remains
  <2>2. Position(Runner)' = "run_clear" => Terminal(RunnerTurn)'
    <3>1. ASSUME Position(Runner) = "run_clear"
          PROVE  Terminal(RunnerTurn)'
      <4>1. RunnerTurn \in Turn
          BY <3>1, LocalTypes, FrameFacts
             DEF SessionInvariant, FramesFit, Fits, Own, Suits, RunnerTurn, TurnOrNone
      <4> QED BY <1>1, <3>1, <4>1 DEF CompletionInvariant, RunnerKnows, Onward
    <3> QED BY <2>1, <3>1
  <2>3. Position(Runner)' \in {"run_enter", "run_step"} =>
          RunnerTurn \in normalReserved \/ interrupts'[RunnerTurn].status # "none"
    <3>1. ASSUME Position(Runner) \in {"run_enter", "run_step"}
          PROVE  RunnerTurn \in normalReserved \/ interrupts'[RunnerTurn].status # "none"
      <4>1. RunnerTurn \in Turn
          BY <3>1, LocalTypes, FrameFacts
             DEF SessionInvariant, FramesFit, Fits, Own, Suits, RunnerTurn, TurnOrNone
      <4> QED BY <3>1, <4>1 DEF CompletionInvariant, RunnerKnows, Onward
    <3> QED BY <2>1, <3>1
  <2>4. RunnerKnows
      BY DEF CompletionInvariant
  <2> QED BY <1>1, <2>1, <2>2, <2>3, <2>4 DEF RunnerKnows, CloserLabels, FinisherLabels
<1> QED BY <1>3, <1>5, <1>6, <1>7 DEF CompletionInvariant, PursuedTurnsStand

(* A step of the runtime.                                                     *)
LEMMA RuntimePursues ==
    ASSUME SessionInvariant, CompletionInvariant, Onward,
           \A g \in Frame \ {Runner} : Remains(g),
           Position(Runner)' \in RunnerProgram, local'[Runner].work = NoTurn,
           RunnerKnows', CompletionsHeld', WorkHolds,
           \A t \in Turn : Pursued(t)' /\ Waits(t) =>
              Pursued(t) \/ (context.turn = t /\ \A g \in Frame : Spares(g, t)),
           \A t \in Turn : Waits(t) /\ Waits(t)' /\ context.turn = t => context'.turn = t
    PROVE  CompletionInvariant'
<1>1. Knows(Runner)' /\ \A t \in Turn : Spares(Runner, t)'
    BY RunnerStandsBy
<1>2. \A g \in Frame : Knows(g)'
    BY <1>1, KnowsOn DEF CompletionInvariant
<1>3. ASSUME NEW t \in Turn, Pursued(t)', Waits(t)'
      PROVE  context'.turn = t /\ \A g \in Frame : Spares(g, t)'
  <2>1. Waits(t)
      BY <1>3, HeldOn
  <2>2. context.turn = t /\ \A g \in Frame : Spares(g, t)
      BY <1>3, <2>1 DEF CompletionInvariant, PursuedTurnsStand
  <2> QED BY <1>1, <1>3, <2>1, <2>2, SparesOn
<1> QED BY <1>2, <1>3 DEF CompletionInvariant, PursuedTurnsStand

(* The turn the runtime executes stays ended.                                 *)
LEMMA RunnerTurnEnds ==
    ASSUME SessionInvariant, Onward, local'[Runner].turn = local[Runner].turn
    PROVE  Terminal(RunnerTurn) => Terminal(RunnerTurn)'
<1>1. \A t : Terminal(t) => t \in Turn
    BY TerminalIsRecorded, RecordTypes DEF SessionInvariant
<1>2. \A t : Terminal(t) => Terminal(t)'
    BY <1>1 DEF Onward
<1>3. PICK t : t = RunnerTurn
    OBVIOUS
<1> QED BY <1>2, <1>3 DEF RunnerTurn

(* The runtime's steps that keep the turn and the outcome it carries.         *)
LEMMA RuntimeGoesOn ==
    ASSUME SessionInvariant, TurnInvariant, CompletionInvariant, Onward, Moves(Runner),
           local'[Runner].turn = local[Runner].turn,
           local'[Runner].outcome = local[Runner].outcome,
           local'[Runner].work = local[Runner].work,
           UNCHANGED awaiting, WorkHolds, RunnerKnows',
           \/ Position(Runner)' = "run_step" => Position(Runner) = "run_step"
           \/ context.turn = RunnerTurn /\ \A g \in Frame : Spares(g, RunnerTurn),
           \A t \in Turn : Waits(t) /\ context.turn = t => context'.turn = t
    PROVE  CompletionInvariant'
<1>1. \A g \in Frame \ {Runner} : Remains(g)
    BY FrameFacts, MovingRemains
<1>2. Position(Runner)' \in RunnerProgram
    BY DEF Moves, Own, Suits, Belongs
<1>3. local'[Runner].work = NoTurn /\ RunnerTurn' = RunnerTurn
    BY DEF TurnInvariant, RequestsFit, RunnerTurn
<1>4. \A t \in Turn : Kept(t)' => Kept(t)
    BY <1>3 DEF Kept
<1>5. CompletionsHeld'
    BY <1>4, HeldOn DEF CompletionInvariant, CompletionsHeld
<1>6. \A t \in Turn : Pursued(t)' =>
          Pursued(t) \/ (context.turn = t /\ \A g \in Frame : Spares(g, t))
    BY <1>3, <1>4 DEF Pursued
<1> QED BY <1>1, <1>2, <1>3, <1>5, <1>6, RuntimePursues

LEMMA RunnerFields ==
    ASSUME FrameTypes, NEW f \in Frame,
           \/ UNCHANGED local
           \/ \E x, y : \/ SetLocal(f, [local[f] EXCEPT !.error = x])
                        \/ SetLocal(f, [local[f] EXCEPT !.after = x])
                        \/ SetLocal(f, [local[f] EXCEPT !.step = @ + 1])
                        \/ SetLocal(f, [local[f] EXCEPT !.closing = x, !.closes = y])
    PROVE  /\ local'[f].turn = local[f].turn /\ local'[f].outcome = local[f].outcome
           /\ local'[f].work = local[f].work
<1> DEFINE same(r) == r.turn = local[f].turn /\ r.outcome = local[f].outcome
                        /\ r.work = local[f].work
<1>1. local[f] \in Local
    BY DEF FrameTypes
<1>2. \A x, y : /\ same([local[f] EXCEPT !.error = x])
                /\ same([local[f] EXCEPT !.after = x])
                /\ same([local[f] EXCEPT !.step = @ + 1])
                /\ same([local[f] EXCEPT !.closing = x, !.closes = y])
    BY <1>1 DEF Local
<1>3. \A r : SetLocal(f, r) => local'[f] = r
    BY LocalFields
<1>4. \A r : SetLocal(f, r) /\ same(r) => same(local'[f])
    BY <1>3
<1>5. UNCHANGED local => same(local'[f])
    OBVIOUS
<1> HIDE DEF same
<1>6. same(local'[f])
    BY <1>2, <1>4, <1>5
<1> QED BY <1>6 DEF same

(* The operation lock is free only when nobody is inside an operation.         *)
LEMMA EntersAlone ==
    ASSUME SessionInvariant, NEW f \in Frame, ~IsCallback(f),
           pc[f] \notin {"deliver", "rejoin", "absent"}, ~Busy(f),
           FreeFor(operation, f), WindowClosedTo(f)
    PROVE  \A g \in Frame : ~Busy(g)
<1> FramesFit /\ LockInvariant
    BY DEF SessionInvariant
<1>1. operation = NoFrame
    BY LockIsOwn DEF LockInvariant
<1>2. ASSUME NEW g \in Frame, Busy(g)
      PROVE  FALSE
  <2>1. g \in windowed /\ Delivering(g)
      BY <1>1, <1>2, FrameFacts DEF LockInvariant
  <2>2. ThreadOf(g) = ThreadOf(f) /\ g # f
      BY <1>2, <2>1 DEF WindowClosedTo
  <2>3. g = ChildOf(f)
      BY <2>2, FrameFacts DEF IsCallback
  <2>4. pc[g] # "absent"
      BY <2>1 DEF Delivering
  <2> QED BY <2>3, <2>4 DEF FramesFit, Fits
<1> QED BY <1>2

LEMMA RunEnterPursues ==
    ASSUME SessionInvariant, TurnInvariant, StartsFit, CompletionInvariant, Onward, RunEnter
    PROVE  CompletionInvariant'
<1> FrameTypes /\ Runner \in Frame /\ ~IsCallback(Runner)
    BY FrameFacts DEF SessionInvariant
<1>1. Moves(Runner)
    BY RunEnterGoes DEF Goes
<1>2. pc[Runner] = "run_enter" /\ Position(Runner) = "run_enter" /\ ~Busy(Runner)
    BY Here1 DEF RunEnter, Busy, InOperation, Closing
<1>3. Position(Runner)' \in {"run_step", "run_exit"}
    BY AtLabel DEF RunEnter
<1>4. /\ local'[Runner].turn = local[Runner].turn
      /\ local'[Runner].outcome = local[Runner].outcome
      /\ local'[Runner].work = local[Runner].work
    BY RunnerFields DEF RunEnter
<1>5. UNCHANGED <<awaiting, context, interrupts, normalReserved>> /\ WorkHolds
    BY HoldingWork DEF RunEnter, SessionInvariant
<1>6. RunnerKnows'
    BY <1>2, <1>3, <1>4, <1>5
       DEF CompletionInvariant, RunnerKnows, RunnerTurn, CloserLabels, FinisherLabels
<1>7. Position(Runner)' = "run_step" =>
          context.turn = RunnerTurn /\ \A g \in Frame : Spares(g, RunnerTurn)
  <2> SUFFICES ASSUME Position(Runner)' = "run_step"
               PROVE  context.turn = RunnerTurn /\ \A g \in Frame : Spares(g, RunnerTurn)
      OBVIOUS
  <2>1. CurrentTurn = RunnerTurn /\ context.generation = local[Runner].generation
      BY AtLabel DEF RunEnter
  <2>2. context.generation # 0 /\ context.turn # NoTurn
      BY <1>2, <2>1 DEF StartsFit, GenerationsFit
  <2>3. context.turn = RunnerTurn
      BY <2>1, <2>2 DEF CurrentTurn
  <2>4. \A g \in Frame : ~Busy(g)
      BY <1>2, EntersAlone DEF RunEnter, EnterOperation
  <2>5. ASSUME NEW g \in Frame, Position(g) \in StartingLabels
        PROVE  FALSE
    <3>1. g # Runner /\ Fresh(g)
        BY <1>2, <2>5 DEF StartsFit, GenerationsFit, StartingLabels
    <3>2. context.generation = local[g].generation
        BY <2>2, <3>1 DEF Fresh, NoContext
    <3> QED BY <2>1, <3>1, <3>2 DEF Fresh
  <2>6. ASSUME NEW g \in Frame
        PROVE  Position(g) \notin PendingLabels \cup {"int_clear", "int_idle", "int_resolve"}
      BY <2>4 DEF Busy, InOperation, PendingLabels
  <2> QED BY <2>3, <2>5, <2>6 DEF Spares
<1> QED BY <1>1, <1>2, <1>3, <1>4, <1>5, <1>6, <1>7, RuntimeGoesOn

LEMMA RunStagePursues ==
    ASSUME SessionInvariant, TurnInvariant, CompletionInvariant, Onward, RunStage
    PROVE  CompletionInvariant'
<1> FrameTypes /\ Runner \in Frame
    BY FrameFacts DEF SessionInvariant
<1>1. Moves(Runner)
    BY RunStageGoes DEF Goes
<1>2. Position(Runner) = "run_step"
    BY Here1 DEF RunStage
<1>3. /\ local'[Runner].turn = local[Runner].turn
      /\ local'[Runner].outcome = local[Runner].outcome
      /\ local'[Runner].work = local[Runner].work
    BY RunnerFields DEF RunStage
<1>4. UNCHANGED <<awaiting, context, interrupts, normalReserved, records>> /\ WorkHolds
    BY HoldingWork DEF RunStage, SessionInvariant
<1>5. /\ Position(Runner)' \in {"run_step", "run_clear", "run_exit"}
      /\ Position(Runner)' = "run_clear" => Terminal(RunnerTurn)
  <2>1. CASE \E next : Position(Runner)' = "run_step"
      BY <2>1
  <2>2. CASE \E phase_ : /\ Goto(Runner, IF Refusal(RunnerTurn, phase_) = "late"
                                         THEN "run_clear" ELSE "run_exit")
    <3>1. PICK phase_ : Goto(Runner, IF Refusal(RunnerTurn, phase_) = "late"
                                     THEN "run_clear" ELSE "run_exit")
        BY <2>2
    <3> QED BY <3>1, AtLabel DEF Refusal
  <2> QED BY <2>1, <2>2, AtNext DEF RunStage, Transition
<1>6. RunnerKnows'
  <2>1. Terminal(RunnerTurn) => Terminal(RunnerTurn)'
      BY <1>3, RunnerTurnEnds
  <2> QED BY <1>2, <1>3, <1>4, <1>5, <2>1
          DEF CompletionInvariant, RunnerKnows, RunnerTurn, CloserLabels, FinisherLabels
<1> QED BY <1>1, <1>2, <1>3, <1>4, <1>6, RuntimeGoesOn

LEMMA RunCommitPursues ==
    ASSUME SessionInvariant, TurnInvariant, CompletionInvariant, Onward, RunCommit
    PROVE  CompletionInvariant'
<1> FrameTypes /\ DataTypes /\ Runner \in Frame
    BY FrameFacts DEF SessionInvariant
<1>1. Moves(Runner)
    BY RunCommitGoes DEF Goes
<1>2. Position(Runner) = "run_step"
    BY Here1 DEF RunCommit
<1>3. UNCHANGED <<awaiting, context, normalReserved>>
    BY DEF RunCommit
<1>t. RunnerTurn \in Turn
    BY <1>2, LocalTypes
       DEF SessionInvariant, FramesFit, Fits, Own, Suits, RunnerTurn, TurnOrNone
<1>4. CASE OwnedByOther(RunnerTurn, Runner)
  <2>1. /\ Live(RunnerTurn) /\ interrupts[RunnerTurn].reserved
        /\ DeferTerminal(RunnerTurn, "completed")
        /\ SetLocal(Runner, [local[Runner] EXCEPT !.outcome = "reserved"])
        /\ Goto(Runner, "run_exit") /\ UNCHANGED records
      BY <1>4 DEF RunCommit, OwnedByOther
  <2>2. WorkHolds
      BY <1>t, <2>1, HoldingWork
  <2>3. /\ local'[Runner].turn = local[Runner].turn /\ local'[Runner].outcome = "reserved"
        /\ local'[Runner].work = local[Runner].work
    <3>1. local'[Runner] = [local[Runner] EXCEPT !.outcome = "reserved"]
        BY <2>1, LocalFields
    <3> QED BY <3>1 DEF FrameTypes, Local
  <2>4. Position(Runner)' = "run_exit"
      BY <2>1, AtLabel
  <2>5. Held(RunnerTurn)'
    <3>1. PICK t \in Turn : t = RunnerTurn
        BY <1>t
    <3>2. /\ interrupts'[t].status = "live" /\ interrupts'[t].reserved
          /\ interrupts'[t].deferred # "none"
        BY <2>1, <3>1 DEF DeferTerminal, DataTypes, InterruptWork, Live
    <3>3. Held(t)'
        BY <3>2 DEF Held, Waits
    <3>4. RunnerTurn' = t
        BY <2>3, <3>1 DEF RunnerTurn
    <3> QED BY <3>3, <3>4
  <2>6. \A t \in Turn : Kept(t)' => Kept(t) \/ t = RunnerTurn
      BY <1>3, <2>3 DEF Kept, RunnerTurn
  <2>7. CompletionsHeld'
    <3>1. ASSUME NEW t \in Turn, Kept(t)'
          PROVE  Held(t)'
      <4>1. CASE Kept(t)
          BY <2>2, <4>1, HeldOn DEF CompletionInvariant, CompletionsHeld
      <4>2. CASE t = RunnerTurn
        <5>1. RunnerTurn' = t
            BY <2>3, <4>2 DEF RunnerTurn
        <5> QED BY <2>5, <5>1
      <4> QED BY <2>6, <3>1, <4>1, <4>2
    <3> QED BY <3>1 DEF CompletionsHeld
  <2>8. RunnerKnows'
      BY <2>4 DEF RunnerKnows, CloserLabels, FinisherLabels
  <2>9. \A t \in Turn : Pursued(t)' => Pursued(t)
      BY <1>2, <2>4, <2>6 DEF Pursued
  <2>10. \A g \in Frame \ {Runner} : Remains(g)
      BY <1>1, MovingRemains
  <2>11. local'[Runner].work = NoTurn
      BY <2>3 DEF TurnInvariant, RequestsFit
  <2>12. Position(Runner)' \in RunnerProgram
      BY <2>4 DEF RunnerProgram, RunnerLabels
  <2> QED BY <1>3, <2>2, <2>7, <2>8, <2>9, <2>10, <2>11, <2>12, RuntimePursues
<1>5. CASE ~OwnedByOther(RunnerTurn, Runner)
  <2>1. UNCHANGED <<local, interrupts>> /\ Position(Runner)' = "run_clear"
      BY <1>5, AtLabel, AtNext DEF RunCommit, CommitTerminal, Transition
  <2>2. Terminal(RunnerTurn)'
    <3>1. CASE Terminal(RunnerTurn)
        BY <2>1, <3>1, RunnerTurnEnds
    <3>2. CASE ~Terminal(RunnerTurn)
      <4>1. PICK t : t = RunnerTurn
          OBVIOUS
      <4>2. Registry!Retain(t, "completed") /\ "completed" \in TurnOutcome
          BY <1>5, <3>2, <4>1 DEF RunCommit, CommitTerminal, TurnOutcome
      <4>3. Terminal(t)'
          BY <4>2, OutcomesAfter
      <4> QED BY <2>1, <4>1, <4>3 DEF RunnerTurn
    <3> QED BY <3>1, <3>2
  <2>3. WorkHolds
      BY <2>1, HoldingWork
  <2>4. RunnerKnows'
      BY <2>1, <2>2 DEF RunnerKnows, CloserLabels, FinisherLabels
  <2> QED BY <1>1, <1>3, <2>1, <2>3, <2>4, RuntimeGoesOn
<1> QED BY <1>4, <1>5

LEMMA RunLeavesPursue ==
    ASSUME SessionInvariant, TurnInvariant, CompletionInvariant, Onward,
           RunClear \/ RunIdle \/ RunExit
    PROVE  CompletionInvariant'
<1> FrameTypes /\ DataTypes /\ Runner \in Frame
    BY FrameFacts DEF SessionInvariant
<1>1. Moves(Runner)
    BY RunClearGoes, RunIdleGoes, RunExitGoes DEF Goes
<1>2. /\ local'[Runner].turn = local[Runner].turn
      /\ local'[Runner].outcome = local[Runner].outcome
      /\ local'[Runner].work = local[Runner].work
    BY RunnerFields DEF RunClear, RunIdle, RunExit, ExitOperation
<1>3. UNCHANGED <<awaiting, interrupts, normalReserved, records>> /\ WorkHolds
    BY HoldingWork DEF RunClear, RunIdle, RunExit
<1>4. \A t \in Turn : Waits(t) /\ context.turn = t => context'.turn = t
  <2>1. CASE RunClear
    <3>1. Position(Runner) = "run_clear"
        BY <2>1, Here1 DEF RunClear
    <3>2. Terminal(RunnerTurn)
        BY <3>1 DEF CompletionInvariant, RunnerKnows
    <3>3. context' = context \/ context.turn = RunnerTurn
        BY <2>1 DEF RunClear
    <3> QED BY <3>2, <3>3 DEF Waits
  <2>2. CASE RunIdle \/ RunExit
      BY <2>2 DEF RunIdle, RunExit
  <2> QED BY <2>1, <2>2
<1>5. /\ Position(Runner)' # "run_step"
      /\ RunnerKnows'
  <2>1. CASE RunClear \/ RunIdle
    <3>1. Position(Runner)' \in {"run_idle", "run_exit"}
        BY <2>1, AtLabel DEF RunClear, RunIdle
    <3> QED BY <3>1 DEF RunnerKnows, CloserLabels, FinisherLabels
  <2>2. CASE RunExit
    <3> DEFINE next == IF local[Runner].outcome = "reserved" THEN "run_park" ELSE "run_finish"
    <3>1. ExitOperation(Runner, next)
        BY <2>2 DEF RunExit
    <3>2. Position(Runner)' \in {"close_read", next}
        BY <3>1, AtLabel DEF ExitOperation
    <3>3. local'[Runner].after = next
      <4>1. local'[Runner] = [local[Runner] EXCEPT !.after = next]
          BY <3>1, LocalFields DEF ExitOperation
      <4> QED BY <4>1 DEF FrameTypes, Local
    <3> QED BY <1>2, <3>2, <3>3 DEF RunnerKnows, CloserLabels, FinisherLabels
  <2> QED BY <2>1, <2>2
<1> QED BY <1>1, <1>2, <1>3, <1>4, <1>5, RuntimeGoesOn

LEMMA RunTakePursues ==
    ASSUME SessionInvariant, TurnInvariant, CompletionInvariant, Onward, RunTake
    PROVE  CompletionInvariant'
<1> FrameTypes /\ DataTypes /\ Runner \in Frame
    BY FrameFacts DEF SessionInvariant
<1> DEFINE entry == Head(runQueue)
<1>1. Position(Runner)' = "run_enter"
    BY AtLabel DEF RunTake
<1>2. \A g \in Frame \ {Runner} : Remains(g)
    BY DEF RunTake, Goto, SetLocal, Remains, Position, Delivering
<1>3. /\ local'[Runner].turn = entry.turn /\ local'[Runner].work = NoTurn
      /\ local'[Runner].outcome = "none"
  <2>1. local'[Runner] = [NoLocal EXCEPT !.turn = entry.turn, !.generation = entry.generation,
                                         !.caller = entry.caller]
      BY LocalFields DEF RunTake
  <2> QED BY <2>1 DEF NoLocal
<1>4. UNCHANGED <<awaiting, context, interrupts>> /\ WorkHolds
    BY HoldingWork DEF RunTake
<1>5. RunnerKnows'
  <2>1. entry.turn \in normalReserved' \/ interrupts[entry.turn].status # "none"
      BY DEF RunTake, Live
  <2>2. RunnerTurn' = entry.turn
      BY <1>3 DEF RunnerTurn
  <2> HIDE DEF entry
  <2> QED BY <1>1, <1>4, <2>1, <2>2 DEF RunnerKnows, CloserLabels, FinisherLabels
<1>6. \A t \in Turn : Kept(t)' => Kept(t)
    BY <1>3, <1>4 DEF Kept
<1>7. CompletionsHeld'
    BY <1>4, <1>6, HeldOn DEF CompletionInvariant, CompletionsHeld
<1>8. \A t \in Turn : Pursued(t)' => Pursued(t)
    BY <1>1, <1>6 DEF Pursued
<1>9. Position(Runner)' \in RunnerProgram
    BY <1>1 DEF RunnerProgram, RunnerLabels
<1> QED BY <1>2, <1>3, <1>4, <1>5, <1>7, <1>8, <1>9, RuntimePursues

LEMMA RunEndsPursue ==
    ASSUME SessionInvariant, TurnInvariant, CompletionInvariant, Onward,
           RunPark \/ RunFinish \/ RunResume \/ CancelSubmitted
    PROVE  CompletionInvariant'
<1> FrameTypes /\ DataTypes /\ Runner \in Frame
    BY FrameFacts DEF SessionInvariant
<1>1. /\ UNCHANGED <<context, interrupts, local>> /\ Position(Runner)' = "idle"
      /\ \A g \in Frame \ {Runner} : Remains(g)
  <2>1. CASE RunPark
    <3>1. UNCHANGED <<context, interrupts, local, ret>> /\ Goto(Runner, "idle")
        BY <2>1 DEF RunPark
    <3>2. Position(Runner)' = "idle"
        BY <3>1, AtLabel
    <3>3. \A g \in Frame \ {Runner} : Remains(g)
        BY <3>1 DEF Goto, Remains, Position, Delivering
    <3> QED BY <3>1, <3>2, <3>3
  <2>2. CASE RunFinish \/ RunResume \/ CancelSubmitted
      BY <2>2, AnswersRemain DEF turnVars
  <2> QED BY <2>1, <2>2
<1>2. WorkHolds
    BY <1>1, HoldingWork
<1>3. \A t \in Turn : Kept(t)' => Kept(t)
  <2>1. CASE RunPark
    <3>1. Position(Runner) = "run_park"
        BY <2>1, Here1 DEF RunPark
    <3>2. local[Runner].outcome = "reserved"
        BY <3>1 DEF CompletionInvariant, RunnerKnows
    <3>3. awaiting' = awaiting \cup {[turn |-> RunnerTurn, caller |-> local[Runner].caller]}
        BY <2>1 DEF RunPark
    <3> QED BY <1>1, <3>2, <3>3 DEF Kept, RunnerTurn
  <2>2. CASE RunFinish \/ RunResume \/ CancelSubmitted
      BY <1>1, <2>2, AnswersRemain DEF Kept, RunnerTurn
  <2> QED BY <2>1, <2>2
<1>4. CompletionsHeld'
    BY <1>2, <1>3, HeldOn DEF CompletionInvariant, CompletionsHeld
<1>5. RunnerKnows'
    BY <1>1 DEF RunnerKnows, CloserLabels, FinisherLabels
<1>6. \A t \in Turn : Pursued(t)' => Pursued(t)
    BY <1>1, <1>3 DEF Pursued
<1>7. Position(Runner)' \in RunnerProgram /\ local'[Runner].work = NoTurn
    BY <1>1 DEF RunnerProgram, TurnInvariant, RequestsFit
<1> QED BY <1>1, <1>2, <1>4, <1>5, <1>6, <1>7, RuntimePursues

(* A close that was deferred to the runtime's own operation.                   *)
LEMMA RunClosePursues ==
    ASSUME SessionInvariant, TurnInvariant, ClosePromises, CompletionInvariant, Onward,
           Close(Runner)
    PROVE  CompletionInvariant'
<1> FrameTypes /\ DataTypes /\ Runner \in Frame
    BY FrameFacts DEF SessionInvariant
<1>1. \/ CloseRead(Runner) \/ CloseMark(Runner) \/ CloseEmit(Runner) \/ CloseHub(Runner)
      \/ CloseFinal(Runner)
    BY NotTheRunner
       DEF Close, CloseAdmission, CloseWait, CloseLock, RunnerProgram, RunnerLabels, CloseLabels
<1>2. Moves(Runner)
    BY <1>1, CloseReadGoes, CloseMarkGoes, CloseEmitGoes, CloseHubGoes, CloseFinalGoes DEF Goes
<1>3. /\ local'[Runner].turn = local[Runner].turn
      /\ local'[Runner].outcome = local[Runner].outcome
      /\ local'[Runner].work = local[Runner].work
    BY <1>1, RunnerFields DEF CloseRead, CloseMark, CloseEmit, CloseHub, CloseFinal
<1>4. UNCHANGED <<awaiting, interrupts, normalReserved>> /\ WorkHolds
    BY <1>1, HoldingWork DEF CloseRead, CloseMark, CloseEmit, CloseHub, CloseFinal
<1>5. \A t \in Turn : Waits(t) /\ context.turn = t => context'.turn = t
  <2>1. CASE CloseMark(Runner)
    <3>1. Position(Runner) = "close_mark"
        BY <2>1, Here1 DEF CloseMark
    <3>2. closeAdmission
        BY <3>1 DEF ClosePromises, CloserLabels
    <3> QED BY <3>2 DEF Waits, TurnInvariant, OneTurn
  <2>2. CASE ~CloseMark(Runner)
      BY <1>1, <2>2 DEF CloseRead, CloseEmit, CloseHub, CloseFinal
  <2> QED BY <2>1, <2>2
<1>6. local'[Runner].after = local[Runner].after
  <2>1. \A x, y : [local[Runner] EXCEPT !.closing = x, !.closes = y].after = local[Runner].after
      BY DEF FrameTypes, Local
  <2>2. \A r : SetLocal(Runner, r) => local'[Runner] = r
      BY LocalFields
  <2>3. CASE CloseRead(Runner)
    <3>1. local'[Runner] = [local[Runner] EXCEPT !.closing = context.turn,
                                !.closes = context.turn # NoTurn /\ ~Terminal(context.turn)]
        BY <2>2, <2>3 DEF CloseRead
    <3> QED BY <2>1, <3>1
  <2>4. CASE ~CloseRead(Runner)
      BY <1>1, <2>4 DEF CloseMark, CloseEmit, CloseHub, CloseFinal
  <2> QED BY <2>3, <2>4
<1>7. /\ Position(Runner) \in CloserLabels \cup FinisherLabels
      /\ Position(Runner)' \in {"close_mark", "close_emit", "close_hub", "close_final",
                                local[Runner].after}
      /\ local[Runner].after \notin {"run_step", "run_enter", "run_clear"} \cup CloserLabels
                                       \cup FinisherLabels
  <2> USE Here1, AtLabel, AtNext DEF CloserLabels, FinisherLabels
  <2>1. local[Runner].after \in Continuation \cup {"none"}
      BY DEF FrameTypes, Local
  <2>2. CASE CloseFinal(Runner)
      BY <2>1, <2>2 DEF CloseFinal, Continuation
  <2>3. CASE CloseEmit(Runner)
      BY <2>1, <2>3 DEF CloseEmit, Transition, Continuation
  <2>4. CASE CloseRead(Runner) \/ CloseMark(Runner) \/ CloseHub(Runner)
      BY <2>1, <2>4 DEF CloseRead, CloseMark, CloseHub, Continuation
  <2> QED BY <1>1, <2>2, <2>3, <2>4
<1>8. RunnerKnows'
    BY <1>3, <1>6, <1>7 DEF CompletionInvariant, RunnerKnows
<1>9. Position(Runner)' # "run_step"
    BY <1>7
<1> QED BY <1>2, <1>3, <1>4, <1>5, <1>8, <1>9, RuntimeGoesOn

LEMMA RuntimeKeepsCompletions ==
    ASSUME SessionInvariant, TurnInvariant, StartsFit, CompletionInvariant, Onward, RuntimeLoop
    PROVE  CompletionInvariant'
BY RunEnterPursues, RunStagePursues, RunCommitPursues, RunLeavesPursue, RunTakePursues,
   RunEndsPursue DEF RuntimeLoop

-----------------------------------------------------------------------------
(* A step of a frame other than the runtime's keeps the completions.          *)

LEMMA FramePursues ==
    ASSUME SessionInvariant, CompletionInvariant, Onward, NEW f \in Frame \ {Runner},
           \A g \in Frame \ {f} : Remains(g), Knows(f)', UNCHANGED <<awaiting, normalReserved>>,
           WorkHolds,
           \A t \in Turn : Waits(t) /\ Waits(t)' /\ context.turn = t /\ Spares(f, t)
              => context'.turn = t /\ Spares(f, t)'
    PROVE  CompletionInvariant'
<1>1. \A t \in Turn : (Held(t) => Held(t)') /\ (Waits(t)' => Waits(t))
    BY HeldOn
<1>2. Remains(Runner)
    BY FrameFacts
<1> QED BY <1>1, <1>2, OthersPursue

(* Where a frame does nothing that could take a turn away from its interrupt.  *)
TakingLabels == StartingLabels \cup PendingLabels \cup {"int_clear", "int_idle", "int_resolve"}

LEMMA SparesElsewhere ==
    ASSUME NEW f, Position(f)' \notin TakingLabels
    PROVE  \A t : Spares(f, t)'
BY DEF Spares, TakingLabels

(* What a frame knows of its interrupt when it carries it on.                  *)
LEMMA KnowsAsCarried ==
    ASSUME SessionInvariant, CompletionInvariant, Onward, NEW f \in Frame,
           local'[f].call = local[f].call, local'[f].work = local[f].work,
           Settled(f)' => Settled(f), Position(f)' # "int_resolve_clear",
           Position(f)' \in {"close", "close_wait", "close_lock"} => local'[f].after = Rest(f)
    PROVE  Knows(f)'
<1>1. local[f].work # NoTurn => local[f].work \in Turn
    BY LocalTypes DEF TurnOrNone
<1>2. RequestedTurn(f)' = RequestedTurn(f)
    BY DEF RequestedTurn
<1>3. Knows(f)
    BY DEF CompletionInvariant
<1> QED BY <1>1, <1>2, <1>3 DEF Knows, Onward, AskerLabels

LEMMA Unsettled ==
    ASSUME NEW f, Position(f)' \notin {"int_resolve_clear", "int_complete", "int_exit"}
                                     \cup CloseLabels \cup {"close_final"}
    PROVE  ~Settled(f)'
BY DEF Settled, CloseLabels, CloserLabels, FinisherLabels

LEMMA StartCarries ==
    ASSUME FrameTypes, NEW f \in Frame, StartTurn(f) \/ Submit(f)
    PROVE  local'[f].call = local[f].call /\ local'[f].work = local[f].work
<1> DEFINE same(r) == r.call = local[f].call /\ r.work = local[f].work
<1>1. local[f] \in Local
    BY DEF FrameTypes
<1>2. \A x, y : /\ same([local[f] EXCEPT !.error = x])
                /\ same([local[f] EXCEPT !.generation = x])
                /\ same([local[f] EXCEPT !.error = x, !.generation = y])
    BY <1>1 DEF Local
<1>3. \A r : SetLocal(f, r) => local'[f] = r
    BY LocalFields
<1>4. \A r : SetLocal(f, r) /\ same(r) => same(local'[f])
    BY <1>3
<1>5. UNCHANGED local => same(local'[f])
    OBVIOUS
<1> HIDE DEF same
<1>6. same(local'[f])
    BY <1>2, <1>4, <1>5
       DEF StartTurn, StartAdmission, StartReject, StartRepeat, StartAdmit, StartPhase, StartEmit,
           StartReturn, UndoStart, Submit
<1> QED BY <1>6 DEF same

LEMMA StartKeepsCompletions ==
    ASSUME SessionInvariant, TurnInvariant, CompletionInvariant, Onward, NEW f \in Frame,
           StartTurn(f) \/ Prepare(f) \/ Submit(f) \/ Subscribe(f)
    PROVE  CompletionInvariant'
<1> FrameTypes /\ DataTypes
    BY DEF SessionInvariant
<1>1. f # Runner
    BY NotTheRunner
       DEF RunnerProgram, RunnerLabels, CloseLabels, StartTurn, StartAdmission, StartReject,
           StartRepeat, StartAdmit, StartPhase, StartEmit, StartReturn, Prepare, Submit, Subscribe
<1>2. \A g \in Frame \ {f} : Remains(g)
  <2>1. CASE Submit(f)
    <3>1. \A g \in Frame \ {f} : pc'[g] = pc[g] /\ ret'[g] = ret[g] /\ local'[g] = local[g]
        BY <2>1 DEF Submit, Goto, Finish, SetLocal, FrameTypes
    <3> QED BY <3>1 DEF Remains, Position, Delivering
  <2>2. CASE ~Submit(f)
      BY <2>2, MovingRemains, StartAdmissionGoes, StartRejectGoes, StartRepeatGoes,
         StartAdmitGoes, StartPhaseGoes, StartEmitGoes, StartReturnGoes, PrepareGoes,
         SubscribeGoes DEF StartTurn, Goes
  <2> QED BY <2>1, <2>2
<1>3. Plain(f) /\ UNCHANGED interrupts
    BY StartTurnIsPlain
<1>4. local'[f].call = local[f].call /\ local'[f].work = local[f].work
    BY StartCarries, OthersCarry DEF Carries
<1>5. Knows(f)'
  <2>1. Position(f)' \notin RoleLabels
      BY <1>3 DEF Plain
  <2>2. Position(f)' \notin {"int_resolve_clear", "close", "close_wait", "close_lock"}
                              \cup {"int_complete", "int_exit", "close_final"} \cup CloseLabels
      BY <2>1 DEF RoleLabels, OwnerLabels, AskerLabels, CloserLabels, FinisherLabels, CloseLabels
  <2> QED BY <1>4, <2>2, Unsettled, KnowsAsCarried
<1>6. UNCHANGED <<awaiting, normalReserved>>
    BY DEF StartTurn, StartAdmission, StartReject, StartRepeat, StartAdmit, StartPhase, StartEmit,
           StartReturn, Prepare, Submit, Subscribe
<1>7. ASSUME NEW t \in Turn, context.turn = t, Spares(f, t)
      PROVE  context'.turn = t /\ Spares(f, t)'
  <2>1. ~StartAdmit(f)
      BY <1>7 DEF StartAdmit, CurrentTurn
  <2>2. ~StartPhase(f) /\ ~StartEmit(f)
      BY <1>7, Here1 DEF StartPhase, StartEmit, Spares, StartingLabels
  <2>3. UNCHANGED context
      BY <2>1, <2>2 DEF StartTurn, StartAdmission, StartReject, StartRepeat, StartReturn, Prepare,
         Submit, Subscribe
  <2>4. Position(f)' \notin StartingLabels
    <3> USE AtLabel, AtNext DEF StartingLabels, Finish, Rest
    <3>1. CASE StartAdmission(f) \/ StartReturn(f)
        BY <3>1 DEF StartAdmission, StartReturn
    <3>2. CASE StartReject(f) \/ StartRepeat(f)
        BY <3>2 DEF StartReject, StartRepeat
    <3>3. CASE Prepare(f) \/ Submit(f) \/ Subscribe(f)
        BY <3>3 DEF Prepare, Submit, Subscribe
    <3> QED BY <2>1, <2>2, <3>1, <3>2, <3>3 DEF StartTurn
  <2>5. Position(f)' \notin TakingLabels
      BY <1>3, <2>4 DEF Plain, TakingLabels, PendingLabels, RoleLabels, OwnerLabels
  <2> QED BY <1>7, <2>3, <2>5, SparesElsewhere
<1>8. WorkHolds
    BY <1>3, HoldingWork
<1> QED BY <1>1, <1>2, <1>5, <1>6, <1>7, <1>8, FramePursues

LEMMA FlushKeepsCompletions ==
    ASSUME SessionInvariant, CompletionInvariant, Onward, NEW f \in Frame, Flush(f)
    PROVE  CompletionInvariant'
<1> FrameTypes /\ DataTypes
    BY DEF SessionInvariant
<1>1. f # Runner
    BY NotTheRunner DEF RunnerProgram, RunnerLabels, CloseLabels, Flush, FlushAdmission,
         FlushWait, FlushEnter, FlushRequest, FlushDone, FlushExit
<1>2. Moves(f)
    BY FlushAdmissionGoes, FlushWaitGoes, FlushEnterGoes, FlushRequestGoes, FlushDoneGoes,
       FlushExitGoes DEF Flush, Goes
<1>3. /\ Position(f)' \in {"idle", "absent", "flush_wait", "flush_enter", "flush_request",
                           "flush_done", "flush_exit", "close_read"}
      /\ Position(f)' = "close_read" => local'[f].after = Rest(f)
  <2> USE AtLabel, AtSkip DEF Rest
  <2>1. CASE FlushAdmission(f) \/ FlushWait(f) \/ FlushEnter(f)
      BY <2>1 DEF FlushAdmission, FlushWait, FlushEnter
  <2>2. CASE FlushRequest(f) \/ FlushDone(f)
      BY <2>2 DEF FlushRequest, FlushDone
  <2>3. CASE FlushExit(f)
    <3>1. ExitOperation(f, Rest(f))
        BY <2>3 DEF FlushExit
    <3>2. local'[f] = [local[f] EXCEPT !.after = Rest(f)]
        BY <3>1, LocalFields DEF ExitOperation
    <3>3. local'[f].after = Rest(f)
        BY <3>2 DEF FrameTypes, Local
    <3> QED BY <3>1, <3>3 DEF ExitOperation
  <2> QED BY <2>1, <2>2, <2>3 DEF Flush
<1>4. ~Settled(f)' /\ Position(f)' \notin TakingLabels
    BY <1>3 DEF Settled, TakingLabels, StartingLabels, PendingLabels, CloserLabels,
                FinisherLabels, Rest
<1>5. Knows(f)'
    BY <1>3, <1>4, OthersCarry, KnowsAsCarried DEF Carries
<1>6. UNCHANGED <<awaiting, normalReserved, context>>
    BY DEF Flush, FlushAdmission, FlushWait, FlushEnter, FlushRequest, FlushDone, FlushExit
<1>7. WorkHolds
  <2>1. CASE FlushRequest(f)
    <3>1. local[f].claimed # NoTurn => local[f].claimed \in Turn
        BY LocalTypes DEF TurnOrNone
    <3> QED BY <2>1, <3>1, HoldingWork DEF FlushRequest
  <2>2. CASE ~FlushRequest(f)
      BY <2>2, HoldingWork
         DEF Flush, FlushAdmission, FlushWait, FlushEnter, FlushDone, FlushExit
  <2> QED BY <2>1, <2>2
<1> QED BY <1>1, <1>2, <1>4, <1>5, <1>6, <1>7, MovingRemains, SparesElsewhere, FramePursues

LEMMA CloseKeepsCompletions ==
    ASSUME SessionInvariant, TurnInvariant, ClosePromises, CompletionInvariant, Onward,
           NEW f \in Frame, Close(f)
    PROVE  CompletionInvariant'
<1> FrameTypes /\ DataTypes /\ local[f] \in Local
    BY DEF SessionInvariant, FrameTypes
<1> SUFFICES ASSUME f # Runner
             PROVE  CompletionInvariant'
    BY RunClosePursues
<1>1. Moves(f)
    BY CloseAdmissionGoes, CloseWaitGoes, CloseLockGoes, CloseReadGoes, CloseMarkGoes,
       CloseEmitGoes, CloseHubGoes, CloseFinalGoes DEF Close, Goes
<1>2. local'[f].after = local[f].after
  <2>1. \A x, y : /\ [local[f] EXCEPT !.turn = x].after = local[f].after
                  /\ [local[f] EXCEPT !.closing = x, !.closes = y].after = local[f].after
      BY DEF Local
  <2>2. \A r : SetLocal(f, r) => local'[f] = r
      BY LocalFields
  <2>3. CASE CloseRead(f)
    <3>1. local'[f] = [local[f] EXCEPT !.closing = context.turn,
                                !.closes = context.turn # NoTurn /\ ~Terminal(context.turn)]
        BY <2>2, <2>3 DEF CloseRead
    <3> QED BY <2>1, <3>1
  <2>4. CASE CloseAdmission(f)
    <3>1. UNCHANGED local \/ local'[f] = [local[f] EXCEPT !.turn = activeInterrupt]
        BY <2>2, <2>4 DEF CloseAdmission
    <3> QED BY <2>1, <3>1
  <2>5. CASE CloseWait(f) \/ CloseLock(f) \/ CloseMark(f) \/ CloseEmit(f) \/ CloseHub(f)
             \/ CloseFinal(f)
      BY <2>5 DEF CloseWait, CloseLock, CloseMark, CloseEmit, CloseHub, CloseFinal
  <2> QED BY <2>3, <2>4, <2>5 DEF Close
<1>3. CASE CloseAdmission(f) \/ CloseWait(f) \/ CloseLock(f)
  <2>1. /\ Position(f) \in AskerLabels \cup {"close_lock"}
        /\ Position(f)' \in {"idle", "absent", "close", "close_wait", "close_lock", "close_read"}
      BY <1>3, AtLabel, Here1 DEF CloseAdmission, CloseWait, CloseLock, Finish, Rest, AskerLabels
  <2>2. local[f].after = Rest(f)
      BY <2>1 DEF CompletionInvariant, Knows
  <2>3. ~Settled(f)' /\ Position(f)' \notin TakingLabels
      BY <1>2, <2>1, <2>2 DEF Settled, TakingLabels, StartingLabels, PendingLabels, CloserLabels,
         FinisherLabels, Rest
  <2>4. Knows(f)'
      BY <1>2, <2>1, <2>2, <2>3, OthersCarry, KnowsAsCarried DEF Carries
  <2>5. WorkHolds
    <3>1. activeInterrupt # NoTurn => activeInterrupt \in Turn
        BY DEF DataTypes, TurnOrNone
    <3>2. \/ UNCHANGED interrupts
          \/ /\ Live(activeInterrupt)
             /\ interrupts' = [interrupts EXCEPT ![activeInterrupt].closeAfter = TRUE]
        BY <1>3 DEF CloseAdmission, CloseWait, CloseLock
    <3> QED BY <3>1, <3>2, HoldingWork DEF Live
  <2>6. UNCHANGED <<awaiting, normalReserved, context>>
      BY <1>3 DEF CloseAdmission, CloseWait, CloseLock
  <2> QED BY <1>1, <2>3, <2>4, <2>5, <2>6, MovingRemains, SparesElsewhere, FramePursues
<1>4. CASE CloseRead(f) \/ CloseMark(f) \/ CloseEmit(f) \/ CloseHub(f) \/ CloseFinal(f)
  <2>1. /\ Position(f) \in CloserLabels \cup FinisherLabels
        /\ \/ Position(f)' \in CloserLabels \cup FinisherLabels
           \/ Position(f)' = local[f].after
      <3> USE AtLabel, AtNext, Here1 DEF CloserLabels, FinisherLabels
      <3>1. CASE CloseFinal(f)
        <4>1. local[f].after \in Continuation \cup {"none"}
            BY DEF Local
        <4> QED BY <3>1, <4>1 DEF CloseFinal, Continuation
      <3>2. CASE CloseEmit(f)
          BY <3>2 DEF CloseEmit, Transition
      <3>3. CASE CloseRead(f) \/ CloseMark(f) \/ CloseHub(f)
          BY <3>3 DEF CloseRead, CloseMark, CloseHub
      <3> QED BY <1>4, <3>1, <3>2, <3>3
  <2>2. local[f].after \in {"idle", "absent", "int_recover", "int_complete", "none", "run_park",
                            "run_finish"}
      BY DEF Local, Continuation
  <2>3. Settled(f)' => Settled(f)
      BY <1>2, <2>1, <2>2 DEF Settled, CloserLabels, FinisherLabels
  <2>4. /\ Position(f)' \notin TakingLabels
        /\ Position(f)' \notin {"int_resolve_clear", "close", "close_wait", "close_lock"}
      BY <2>1, <2>2 DEF CloserLabels, FinisherLabels, TakingLabels, StartingLabels, PendingLabels
  <2>5. Knows(f)'
      BY <2>3, <2>4, OthersCarry, KnowsAsCarried DEF Carries
  <2>6. UNCHANGED <<awaiting, normalReserved, interrupts>> /\ WorkHolds
      BY <1>4, HoldingWork DEF CloseRead, CloseMark, CloseEmit, CloseHub, CloseFinal
  <2>7. ASSUME NEW t \in Turn, Waits(t)
        PROVE  context'.turn = context.turn
    <3>1. closeAdmission
        BY <2>1 DEF ClosePromises, CloserLabels, FinisherLabels
    <3> QED BY <2>7, <3>1 DEF Waits, TurnInvariant, OneTurn
  <2> QED BY <1>1, <2>4, <2>5, <2>6, <2>7, MovingRemains, SparesElsewhere, FramePursues
<1> QED BY <1>3, <1>4 DEF Close

LEMMA BeginningKeepsCompletions ==
    ASSUME SessionInvariant, CompletionInvariant, Onward, NEW f \in Frame,
           BeginCall(f) \/ BeginCallback(f)
    PROVE  CompletionInvariant'
<1> FrameTypes /\ DataTypes
    BY DEF SessionInvariant
<1>1. UNCHANGED <<context, interrupts, awaiting, normalReserved>> /\ WorkHolds
    BY HoldingWork DEF BeginCall, BeginCallback
<1>2. PICK g \in Frame \ {Runner} :
              /\ \A h \in Frame \ {g} : Remains(h)
              /\ Position(g)' \in {"prepare", "start", "claim", "flush", "close", "subscribe"}
              /\ local'[g].work = NoTurn /\ local'[g].after = Rest(g)
    BY BeginningMoves
<1>3. Knows(g)'
    BY <1>2 DEF Knows, AskerLabels
<1>4. Position(g)' \notin TakingLabels
    BY <1>2 DEF TakingLabels, StartingLabels, PendingLabels
<1> QED BY <1>1, <1>2, <1>3, <1>4, SparesElsewhere, FramePursues

LEMMA DeliveryKeepsCompletions ==
    ASSUME SessionInvariant, CompletionInvariant, Onward, NEW f \in Frame,
           FinishDelivery(f) \/ Rejoin(f)
    PROVE  CompletionInvariant'
<1> DataTypes
    BY DEF SessionInvariant
<1>1. UNCHANGED <<context, interrupts, awaiting, normalReserved>> /\ WorkHolds
    BY HoldingWork DEF FinishDelivery, Rejoin
<1>2. \A g \in Frame : Remains(g)
    BY DeliveringRemains
<1>3. \A t \in Turn : (Held(t) => Held(t)') /\ (Waits(t)' => Waits(t))
    BY <1>1, HeldOn
<1> QED BY <1>1, <1>2, <1>3, FrameFacts, OthersPursue

(* The steps of an interrupt.                                                *)
LEMMA NotRunnersInterrupt ==
    ASSUME SessionInvariant, NEW f \in Frame, Interrupt(f)
    PROVE  /\ f # Runner /\ Moves(f) /\ UNCHANGED awaiting
           /\ \A g \in Frame \ {f} : Remains(g)
<1>1. f # Runner
    BY NotTheRunner DEF RunnerProgram, RunnerLabels, CloseLabels, Interrupt, Claim, ClaimWait,
       Coordinate, IntEnter, IntFlush, IntFlushDone, IntRequest, IntOutcome, IntAccepted, IntCommit,
       IntClear, IntIdle, IntResolve, IntResolveClear, IntExit, IntRecover, IntComplete
<1>2. Goes(f)
    BY ClaimGoes, ClaimWaitGoes, CoordinateGoes, IntEnterGoes, IntFlushGoes, IntFlushDoneGoes,
       IntRequestGoes, IntOutcomeGoes, IntAcceptedGoes, IntCommitGoes, IntClearGoes, IntIdleGoes,
       IntResolveGoes, IntResolveClearGoes, IntExitGoes, IntRecoverGoes, IntCompleteGoes
       DEF Interrupt
<1> QED BY <1>1, <1>2, MovingRemains DEF Goes

LEMMA ClaimKeepsCompletions ==
    ASSUME SessionInvariant, TurnInvariant, CompletionInvariant, Onward,
           NEW f \in Frame, Claim(f)
    PROVE  CompletionInvariant'
<1> FrameTypes /\ DataTypes /\ local[f] \in Local
    BY DEF SessionInvariant, FrameTypes
<1> DEFINE resolved == IF RequestedTurn(f) # NoTurn THEN RequestedTurn(f) ELSE CurrentTurn
<1>1. /\ f # Runner /\ UNCHANGED awaiting
      /\ \A g \in Frame \ {f} : Remains(g)
    BY NotRunnersInterrupt DEF Interrupt
<1>2. UNCHANGED <<context, normalReserved, records>>
    BY DEF Claim
<1>3. Position(f)' \in {"idle", "absent", "claim_wait", "coordinate"}
    BY AtLabel DEF Claim, Finish, Rest
<1>4. Position(f)' \notin TakingLabels /\ ~Settled(f)'
    BY <1>3 DEF TakingLabels, StartingLabels, PendingLabels, Settled, CloserLabels, FinisherLabels
<1>5. resolved \in TurnOrNone
    BY LocalTypes, DataTurns
<1>6. CASE UNCHANGED interrupts /\ Carries(f)
    BY <1>1, <1>2, <1>3, <1>4, <1>6, HoldingWork, KnowsAsCarried, SparesElsewhere, FramePursues
       DEF Carries
<1>7. CASE /\ resolved # NoTurn /\ interrupts[resolved].status = "none"
           /\ resolved \notin normalReserved /\ ~Terminal(resolved)
           /\ interrupts' = [interrupts EXCEPT ![resolved] = OwnedWork(f)]
           /\ SetLocal(f, [local[f] EXCEPT !.claimed = resolved, !.work = resolved])
  <2>1. PICK r \in Turn : r = resolved
      BY <1>5, <1>7 DEF TurnOrNone
  <2>2. /\ interrupts'[r].status = "live"
        /\ \A t \in Turn \ {r} : interrupts'[t] = interrupts[t]
    <3>1. OwnedWork(f).status = "live"
        BY DEF OwnedWork, NoWork
    <3> QED BY <1>7, <2>1, <3>1 DEF DataTypes
  <2>3. local'[f].work = r /\ local'[f].call = local[f].call
    <3>1. local'[f] = [local[f] EXCEPT !.claimed = resolved, !.work = resolved]
        BY <1>7, LocalFields
    <3> QED BY <2>1, <3>1 DEF Local
  <2>4. RequestedTurn(f)' = RequestedTurn(f) /\ RequestedTurn(f) \in {NoTurn, r}
      BY <2>1, <2>3 DEF RequestedTurn
  <2>5. Knows(f)'
      BY <1>3, <1>4, <2>2, <2>3, <2>4 DEF Knows, AskerLabels
  <2>6. \A t \in Turn : Held(t) => Held(t)'
    <3>1. \A t \in Turn : Terminal(t) => Terminal(t)'
        BY DEF Onward
    <3>2. \A t \in Turn : Terminal(t)' => Terminal(t)
        BY <1>2 DEF Terminal, Outcome, Registry!OutcomeOf, Registry!Recorded
    <3>3. ~Held(r)
        BY <1>7, <2>1 DEF Held, Waits
    <3> QED BY <2>2, <3>1, <3>2, <3>3 DEF Held, Waits
  <2>7. ASSUME NEW t \in Turn, Waits(t)'
        PROVE  Waits(t) \/ (interrupts[t].status = "none" /\ t \notin normalReserved)
    <3>1. ~Terminal(t)
        BY <2>7 DEF Onward, Waits
    <3> QED BY <1>7, <2>1, <2>2, <2>7, <3>1 DEF Waits
  <2>8. \A g \in Frame : Remains(g) \/ Knows(g)'
      BY <1>1, <2>5
  <2>9. \A t \in Turn : \A g \in Frame : Remains(g) \/ Spares(g, t)'
      BY <1>1, <1>4, SparesElsewhere
  <2>10. Remains(Runner)
      BY <1>1, FrameFacts
  <2> QED BY <1>1, <1>2, <2>6, <2>7, <2>8, <2>9, <2>10, OthersPursue
<1>8. \/ UNCHANGED interrupts /\ Carries(f)
      \/ /\ resolved # NoTurn /\ interrupts[resolved].status = "none"
         /\ resolved \notin normalReserved /\ ~Terminal(resolved)
         /\ interrupts' = [interrupts EXCEPT ![resolved] = OwnedWork(f)]
         /\ SetLocal(f, [local[f] EXCEPT !.claimed = resolved, !.work = resolved])
  <2>1. \A r : SetLocal(f, [local[f] EXCEPT !.turn = r]) => Carries(f)
      BY CarriedOn
  <2>2. \A r : SetLocal(f, [local[f] EXCEPT !.claimed = r]) => Carries(f)
      BY CarriedOn
  <2>3. UNCHANGED local => Carries(f)
      BY CarriedOn
  <2> QED BY <2>1, <2>2, <2>3 DEF Claim
<1> QED BY <1>6, <1>7, <1>8

(* Steps that emit or wait on the way to the interrupt's request.              *)
LEMMA PreparingKeepsCompletions ==
    ASSUME SessionInvariant, CompletionInvariant, Onward, NEW f \in Frame,
           \/ ClaimWait(f) \/ Coordinate(f) \/ IntEnter(f) \/ IntFlush(f) \/ IntFlushDone(f)
    PROVE  CompletionInvariant'
<1> FrameTypes /\ DataTypes
    BY DEF SessionInvariant
<1>1. /\ f # Runner /\ UNCHANGED awaiting
      /\ \A g \in Frame \ {f} : Remains(g)
    BY NotRunnersInterrupt DEF Interrupt
<1>2. UNCHANGED <<context, normalReserved>>
    BY DEF ClaimWait, Coordinate, IntEnter, IntFlush, IntFlushDone
<1>3. Position(f)' \in {"idle", "absent", "int_enter", "int_flush", "int_flush_done", "int_request"}
  <2> USE AtLabel, AtSkip
  <2>1. CASE ClaimWait(f) \/ Coordinate(f) \/ IntEnter(f)
      BY <2>1 DEF ClaimWait, Coordinate, IntEnter, Finish, Rest
  <2>2. CASE IntFlush(f) \/ IntFlushDone(f)
      BY <2>2 DEF IntFlush, IntFlushDone
  <2> QED BY <2>1, <2>2
<1>4. Position(f)' \notin TakingLabels /\ ~Settled(f)'
    BY <1>3 DEF TakingLabels, StartingLabels, PendingLabels, Settled, CloserLabels, FinisherLabels
<1>5. Carries(f)
    BY InterruptCarries, CarriedOn
       DEF Interrupt, ClaimWait, Coordinate, IntEnter, IntFlush, IntFlushDone
<1>6. WorkHolds
  <2>1. CASE IntFlush(f)
    <3>1. local[f].work \in Turn
      <4>1. Suits(f, "int_flush", local[f])
          BY <2>1, Here DEF IntFlush, Still
      <4> QED BY <4>1, LocalTypes DEF Suits, TurnOrNone
    <3> QED BY <2>1, <3>1, HoldingWork DEF IntFlush
  <2>2. CASE ~IntFlush(f)
      BY <2>2, HoldingWork DEF ClaimWait, Coordinate, IntEnter, IntFlushDone
  <2> QED BY <2>1, <2>2
<1>7. Knows(f)'
    BY <1>3, <1>4, <1>5, KnowsAsCarried DEF Carries
<1> QED BY <1>1, <1>2, <1>4, <1>6, <1>7, SparesElsewhere, FramePursues

(* While t waits for its interrupt the session is open.                       *)
LEMMA WaitsWhileOpen ==
    ASSUME SessionInvariant, TurnInvariant, ClosePromises, NEW t \in Turn, Waits(t)
    PROVE  ~closed /\ ~closeRequested
BY DEF Waits, TurnInvariant, OneTurn, ClosePromises

LEMMA RefusedLate ==
    ASSUME ~closed, NEW u
    PROVE  /\ Refusal(u, "unchanged") # "none" => Terminal(u)
           /\ \A p : Refusal(u, p) = "late" => Terminal(u)
BY DEF Refusal

LEMMA RequestKeepsCompletions ==
    ASSUME SessionInvariant, TurnInvariant, ClosePromises, CompletionInvariant, Onward,
           NEW f \in Frame, IntRequest(f)
    PROVE  CompletionInvariant'
<1> FrameTypes /\ DataTypes /\ local[f] \in Local
    BY DEF SessionInvariant, FrameTypes
<1> DEFINE target == IF RequestedTurn(f) # NoTurn THEN RequestedTurn(f) ELSE GateTurn
<1>1. /\ f # Runner /\ UNCHANGED awaiting
      /\ \A g \in Frame \ {f} : Remains(g)
    BY NotRunnersInterrupt DEF Interrupt
<1>2. UNCHANGED <<context, normalReserved, interrupts>> /\ WorkHolds
    BY HoldingWork DEF IntRequest
<1>3. Position(f)' \in {"int_outcome", "int_resolve"}
    BY AtLabel, AtSkip DEF IntRequest
<1>4. Carries(f)
    BY InterruptCarries DEF Interrupt, Claim, IntRequest
<1>5. Knows(f)'
  <2>1. ~Settled(f)'
      BY <1>3 DEF Settled, CloserLabels, FinisherLabels
  <2> QED BY <1>3, <1>4, <2>1, KnowsAsCarried DEF Carries
<1>6. ASSUME NEW t \in Turn, Waits(t), context.turn = t
      PROVE  Spares(f, t)'
  <2>1. ~closed /\ ~closeRequested
      BY <1>6, WaitsWhileOpen
  <2>2. /\ SetLocal(f, [local[f] EXCEPT !.turn = target, !.current = GateTurn])
        /\ EmitOrSkip(f, target, "int_outcome", "int_resolve")
      BY <2>1 DEF IntRequest
  <2>3. GateTurn = t
    <3>1. active.turn \in {t, NoTurn}
        BY <1>6 DEF Waits, TurnInvariant, OneTurn
    <3> QED BY <1>6, <3>1 DEF GateTurn
  <2>4. local[f].work = t => target = t
      BY <2>3 DEF CompletionInvariant, Knows
  <2>5. local'[f].turn = target /\ local'[f].current = t /\ local'[f].work = local[f].work
    <3>1. local'[f] = [local[f] EXCEPT !.turn = target, !.current = GateTurn]
        BY <2>2, LocalFields
    <3> HIDE DEF target
    <3> QED BY <2>3, <3>1 DEF Local
  <2>6. Position(f)' = "int_resolve" => local[f].work # t
    <3>1. Position(f)' = "int_resolve" => Refusal(target, "unchanged") # "none"
        BY <2>2, AtNext DEF EmitOrSkip
    <3>2. Position(f)' = "int_resolve" => Terminal(target)
        BY <2>1, <3>1, RefusedLate
    <3> QED BY <1>6, <2>4, <3>2 DEF Waits
  <2> HIDE DEF target
  <2> QED BY <1>3, <2>4, <2>5, <2>6 DEF Spares, StartingLabels, PendingLabels
<1> QED BY <1>1, <1>2, <1>5, <1>6, FramePursues

LEMMA PublishingKeepsCompletions ==
    ASSUME SessionInvariant, TurnInvariant, ClosePromises, CompletionInvariant, Onward,
           NEW f \in Frame, IntOutcome(f) \/ IntAccepted(f)
    PROVE  CompletionInvariant'
<1> FrameTypes /\ DataTypes /\ local[f] \in Local
    BY DEF SessionInvariant, FrameTypes
<1>1. /\ f # Runner /\ UNCHANGED awaiting
      /\ \A g \in Frame \ {f} : Remains(g)
    BY NotRunnersInterrupt DEF Interrupt
<1>2. UNCHANGED <<context, normalReserved, interrupts>> /\ WorkHolds
    BY HoldingWork DEF IntOutcome, IntAccepted
<1>3. /\ Position(f) \in {"int_outcome", "int_accepted"}
      /\ Position(f)' \in {"int_accepted", "int_commit", "int_idle", "int_resolve", "int_exit"}
  <2> USE Here1, AtLabel, AtNext, AtSkip
  <2>1. CASE IntOutcome(f)
      BY <2>1 DEF IntOutcome, Transition, IntRaise
  <2>2. CASE IntAccepted(f)
      BY <2>2 DEF IntAccepted
  <2> QED BY <2>1, <2>2
<1>4. Carries(f)
    BY InterruptCarries DEF Interrupt, Claim, IntOutcome, IntAccepted
<1>5. \/ UNCHANGED local
      \/ Position(f)' = "int_exit" /\ local'[f].outcome = "error"
  <2>1. \A x : [local[f] EXCEPT !.outcome = "error", !.error = x].outcome = "error"
      BY DEF Local
  <2>2. IntRaise(f) => Position(f)' = "int_exit" /\ local'[f].outcome = "error"
      BY <2>1, AtLabel, LocalFields DEF IntRaise
  <2> QED BY <2>2 DEF IntOutcome, IntAccepted
<1>6. Knows(f)'
  <2>1. ~Settled(f)'
    <3>1. Position(f)' = "int_exit" => local'[f].outcome = "error"
      <4>1. CASE IntAccepted(f)
          BY <4>1, AtSkip DEF IntAccepted
      <4>2. CASE IntOutcome(f) /\ ~IntRaise(f)
          BY <4>2, AtLabel, AtNext DEF IntOutcome, Transition
      <4>3. CASE IntRaise(f)
        <5>1. local'[f] = [local[f] EXCEPT !.outcome = "error", !.error = TRUE]
            BY <4>3, LocalFields DEF IntRaise
        <5> QED BY <5>1 DEF Local
      <4> QED BY <4>1, <4>2, <4>3
    <3> QED BY <1>3, <3>1 DEF Settled, CloserLabels, FinisherLabels
  <2> QED BY <1>3, <1>4, <2>1, KnowsAsCarried DEF Carries
<1>7. ASSUME NEW t \in Turn, Waits(t), Spares(f, t)
      PROVE  Spares(f, t)'
  <2>1. ~closed /\ ~Terminal(t)
      BY <1>7, WaitsWhileOpen DEF Waits
  <2>2. local[f].current = t /\ (local[f].work = t => local[f].turn = t)
      BY <1>3, <1>7 DEF Spares, PendingLabels
  <2>3. CASE Position(f)' = "int_exit"
      BY <2>3, SparesElsewhere DEF TakingLabels, StartingLabels, PendingLabels
  <2>4. CASE Position(f)' \in PendingLabels
      BY <1>5, <2>2, <2>4 DEF Spares, StartingLabels, PendingLabels
  <2>5. CASE Position(f)' = "int_idle"
    <3>1. local[f].outcome # "accepted"
        BY <2>5, AtLabel, AtNext, AtSkip DEF IntOutcome, IntAccepted, Transition, IntRaise
    <3> QED BY <1>5, <2>5, <3>1 DEF Spares, StartingLabels, PendingLabels
  <2>6. CASE Position(f)' = "int_resolve"
    <3>1. Terminal(local[f].turn)
      <4>1. CASE IntAccepted(f)
        <5>1. Refusal(local[f].turn, "unchanged") # "none"
            BY <2>6, <4>1, AtNext DEF IntAccepted, EmitOrSkip
        <5> QED BY <2>1, <5>1, RefusedLate
      <4>2. CASE IntOutcome(f)
        <5> DEFINE nextPhase == IF context.turn # NoTurn THEN "recovering" ELSE "unchanged"
        <5>1. Refusal(local[f].turn, nextPhase) = "late"
          <6>1. local[f].current # NoTurn
              BY <2>2, TurnAssumption
          <6> QED BY <2>6, <4>2, <6>1, AtLabel, AtNext DEF IntOutcome, Transition, IntRaise
        <5> HIDE DEF nextPhase
        <5> QED BY <2>1, <5>1, RefusedLate
      <4> QED BY <4>1, <4>2
    <3>2. local[f].work # t
        BY <2>1, <2>2, <3>1
    <3> QED BY <1>4, <2>6, <3>2 DEF Spares, StartingLabels, PendingLabels, Carries
  <2> QED BY <1>3, <2>3, <2>4, <2>5, <2>6 DEF PendingLabels
<1> QED BY <1>1, <1>2, <1>6, <1>7, FramePursues

LEMMA CommittingKeepsCompletions ==
    ASSUME SessionInvariant, TurnInvariant, CompletionInvariant, Onward,
           NEW f \in Frame, IntCommit(f)
    PROVE  CompletionInvariant'
<1> FrameTypes /\ DataTypes /\ local[f] \in Local
    BY DEF SessionInvariant, FrameTypes
<1> DEFINE u == local[f].turn
<1>1. /\ f # Runner /\ UNCHANGED awaiting
      /\ \A g \in Frame \ {f} : Remains(g)
    BY NotRunnersInterrupt DEF Interrupt
<1>2. UNCHANGED <<context, normalReserved>> /\ Position(f) = "int_commit"
    BY Here1 DEF IntCommit
<1>3. Carries(f) /\ (u # NoTurn => u \in Turn)
    BY InterruptCarries, LocalTypes DEF Interrupt, Claim, IntCommit, TurnOrNone
<1>4. WorkHolds
  <2>1. UNCHANGED interrupts \/ (u # NoTurn /\ DeferTerminal(u, "interrupted"))
      BY DEF IntCommit
  <2> QED BY <1>3, <2>1, HoldingWork
<1>5. CASE u = NoTurn \/ u # local[f].current \/ Terminal(u)
  <2>1. Position(f)' = "int_idle" /\ UNCHANGED local
      BY <1>5, AtLabel DEF IntCommit
  <2>2. Knows(f)'
      BY <1>3, <2>1, Unsettled, KnowsAsCarried DEF Carries, CloseLabels
  <2>3. ASSUME NEW t \in Turn, Waits(t), Spares(f, t)
        PROVE  Spares(f, t)'
    <3>1. local[f].work # t
        BY <1>2, <1>5, <2>3 DEF Spares, PendingLabels, Waits
    <3> QED BY <2>1, <3>1 DEF Spares, StartingLabels, PendingLabels
  <2> QED BY <1>1, <1>2, <1>4, <2>2, <2>3, FramePursues
<1>6. CASE u # NoTurn /\ u = local[f].current /\ ~Terminal(u) /\ OwnedByOther(u, f)
  <2>1. IntRaise(f)
      BY <1>6 DEF IntCommit
  <2>2. Position(f)' = "int_exit" /\ local'[f].outcome = "error"
    <3>1. local'[f] = [local[f] EXCEPT !.outcome = "error", !.error = TRUE]
        BY <2>1, LocalFields DEF IntRaise
    <3> QED BY <2>1, <3>1, AtLabel DEF Local, IntRaise
  <2>3. ~Settled(f)' /\ Position(f)' \notin TakingLabels
      BY <2>2 DEF Settled, CloserLabels, FinisherLabels, TakingLabels, StartingLabels, PendingLabels
  <2>4. Knows(f)'
      BY <1>3, <2>2, <2>3, KnowsAsCarried DEF Carries
  <2> QED BY <1>1, <1>2, <1>4, <2>3, <2>4, SparesElsewhere, FramePursues
<1>7. CASE u # NoTurn /\ u = local[f].current /\ ~Terminal(u) /\ ~OwnedByOther(u, f)
  <2>1. CommitTerminal(f, u, "interrupted", "interrupted", "int_clear") /\ UNCHANGED local
      BY <1>7 DEF IntCommit
  <2>2. Position(f)' = "int_clear"
      BY <2>1, AtNext DEF CommitTerminal, Transition
  <2>3. Knows(f)'
      BY <1>3, <2>2, Unsettled, KnowsAsCarried DEF Carries, CloseLabels
  <2>4. \A t : t = u => Terminal(t)'
    <3>1. "interrupted" \in TurnOutcome
        BY DEF TurnOutcome
    <3> QED BY <2>1, <3>1, OutcomesAfter DEF CommitTerminal
  <2>5. ASSUME NEW t \in Turn, Waits(t)', Spares(f, t)
        PROVE  FALSE
    <3>1. u = t
        BY <1>2, <1>7, <2>5 DEF Spares, PendingLabels
    <3> HIDE DEF u
    <3> QED BY <2>4, <2>5, <3>1 DEF Waits
  <2> QED BY <1>1, <1>2, <1>4, <2>3, <2>5, FramePursues
<1> QED BY <1>5, <1>6, <1>7

(* The interrupt leaves its turn ended, or as it found it.                     *)
LEMMA LeavingKeepsCompletions ==
    ASSUME SessionInvariant, TurnInvariant, CompletionInvariant, Onward,
           NEW f \in Frame,
           IntClear(f) \/ IntIdle(f) \/ IntResolveClear(f) \/ IntExit(f) \/ IntRecover(f)
    PROVE  CompletionInvariant'
<1> FrameTypes /\ DataTypes /\ local[f] \in Local
    BY DEF SessionInvariant, FrameTypes
<1>1. /\ f # Runner /\ UNCHANGED awaiting
      /\ \A g \in Frame \ {f} : Remains(g)
    BY NotRunnersInterrupt DEF Interrupt
<1>2. UNCHANGED <<normalReserved, interrupts>> /\ WorkHolds
    BY HoldingWork DEF IntClear, IntIdle, IntResolveClear, IntExit, IntRecover
<1>3. Carries(f)
    BY InterruptCarries
       DEF Interrupt, Claim, IntClear, IntIdle, IntResolveClear, IntExit, IntRecover
<1>4. CASE IntClear(f) \/ IntIdle(f)
  <2>1. /\ Position(f) \in {"int_clear", "int_idle"} /\ UNCHANGED local
        /\ Position(f)' \in {"int_idle", "int_resolve"}
      BY <1>4, AtLabel, Here1 DEF IntClear, IntIdle
  <2>2. Knows(f)'
      BY <1>3, <2>1, Unsettled, KnowsAsCarried DEF Carries, CloseLabels
  <2>3. ASSUME NEW t \in Turn, Spares(f, t)
        PROVE  UNCHANGED context /\ Spares(f, t)'
    <3>1. Position(f) = "int_idle"
        BY <2>1, <2>3 DEF Spares
    <3>2. UNCHANGED context
        BY <1>4, <3>1, Here1 DEF IntClear, IntIdle
    <3> QED BY <2>1, <2>3, <3>1, <3>2 DEF Spares, StartingLabels, PendingLabels
  <2> QED BY <1>1, <1>2, <2>2, <2>3, FramePursues
<1>5. CASE IntResolveClear(f)
  <2>1. /\ Position(f) = "int_resolve_clear" /\ UNCHANGED local /\ Position(f)' = "int_exit"
        /\ context' = IF context.turn = local[f].work THEN NoContext ELSE context
      BY <1>5, AtLabel, Here1 DEF IntResolveClear
  <2>2. Settled(f) /\ Terminal(local[f].work)
      BY <2>1 DEF Settled, CompletionInvariant, Knows
  <2>3. Knows(f)'
      BY <1>3, <2>1, <2>2, KnowsAsCarried DEF Carries
  <2>4. Position(f)' \notin TakingLabels
      BY <2>1 DEF TakingLabels, StartingLabels, PendingLabels
  <2>5. \A t \in Turn : Waits(t) /\ context.turn = t => context'.turn = t
      BY <2>1, <2>2 DEF Waits
  <2> QED BY <1>1, <1>2, <2>3, <2>4, <2>5, SparesElsewhere, FramePursues
<1>6. CASE IntExit(f)
  <2> DEFINE next == IF local[f].work = NoTurn THEN Rest(f)
                     ELSE IF local[f].outcome = "error" THEN "int_recover" ELSE "int_complete"
  <2>1. Position(f) = "int_exit" /\ ExitOperation(f, next) /\ UNCHANGED context
      BY <1>6, Here1 DEF IntExit
  <2>2. next \in {"idle", "absent", "int_recover", "int_complete"}
      BY DEF Rest
  <2>3. Position(f)' \in {"close_read", next}
      BY <2>1, <2>2, AtLabel DEF ExitOperation
  <2>4. local'[f].after = next
    <3>1. local'[f] = [local[f] EXCEPT !.after = next]
        BY <2>1, LocalFields DEF ExitOperation
    <3> HIDE DEF next
    <3> QED BY <3>1 DEF Local
  <2>5. Settled(f)' => Settled(f)
    <3>1. Settled(f)' => next = "int_complete"
      <4> HIDE DEF next
      <4> QED BY <2>2, <2>3, <2>4 DEF Settled, CloserLabels, FinisherLabels
    <3>2. next = "int_complete" => local[f].outcome # "error"
        BY DEF Rest
    <3> QED BY <2>1, <3>1, <3>2 DEF Settled
  <2>6. Position(f)' \notin TakingLabels
                          \cup {"int_resolve_clear", "close", "close_wait", "close_lock"}
    <3> HIDE DEF next
    <3> QED BY <2>2, <2>3 DEF TakingLabels, StartingLabels, PendingLabels
  <2>7. Knows(f)'
      BY <1>3, <2>5, <2>6, KnowsAsCarried DEF Carries
  <2> QED BY <1>1, <1>2, <2>1, <2>6, <2>7, SparesElsewhere, FramePursues
<1>7. CASE IntRecover(f)
  <2>1. Position(f)' = "int_resolve" /\ UNCHANGED context
      BY <1>7, AtLabel DEF IntRecover
  <2>2. local'[f].outcome = "failed"
    <3>1. local'[f] = [local[f] EXCEPT !.outcome = "failed", !.error = FALSE]
        BY <1>7, LocalFields DEF IntRecover
    <3> QED BY <3>1 DEF Local
  <2>3. Knows(f)'
      BY <1>3, <2>1, Unsettled, KnowsAsCarried DEF Carries, CloseLabels
  <2>4. \A t \in Turn : Spares(f, t)'
      BY <2>1, <2>2 DEF Spares, StartingLabels, PendingLabels
  <2> QED BY <1>1, <1>2, <2>1, <2>3, <2>4, FramePursues
<1> QED BY <1>4, <1>5, <1>6, <1>7

(* A reservation is given up once its turn has ended.                         *)
LEMMA ResolvingKeepsCompletions ==
    ASSUME SessionInvariant, TurnInvariant, CompletionInvariant, Onward,
           NEW f \in Frame, IntResolve(f)
    PROVE  CompletionInvariant'
<1> FrameTypes /\ DataTypes /\ local[f] \in Local
    BY DEF SessionInvariant, FrameTypes
<1> DEFINE w == local[f].work
           deferred == IF w = NoTurn THEN "none" ELSE interrupts[w].deferred
<1>1. /\ f # Runner /\ UNCHANGED awaiting
      /\ \A g \in Frame \ {f} : Remains(g)
    BY NotRunnersInterrupt DEF Interrupt
<1>2. UNCHANGED <<normalReserved, context>> /\ Position(f) = "int_resolve"
    BY Here1 DEF IntResolve
<1>3. Carries(f) /\ Knows(f)
    BY InterruptCarries DEF Interrupt, Claim, IntResolve, CompletionInvariant
<1>4. w # NoTurn => w \in Turn
    BY LocalTypes DEF TurnOrNone
<1>5. interrupts' = IF w = NoTurn THEN interrupts
                    ELSE [interrupts EXCEPT ![w].reserved = FALSE, ![w].deferred = "none"]
    BY DEF IntResolve
<1>6. /\ \A t \in Turn : interrupts'[t].status = interrupts[t].status
      /\ \A t \in Turn \ {w} : interrupts'[t] = interrupts[t]
      /\ w # NoTurn => ~interrupts'[w].reserved
    BY <1>4, <1>5 DEF DataTypes, InterruptWork
<1>7. /\ Position(f)' \in {"int_exit", "int_resolve_clear"}
      /\ Position(f)' = "int_resolve_clear" =>
            local[f].outcome # "accepted" /\ deferred # "none"
    BY AtLabel, AtNext DEF IntResolve, CommitTerminal, Transition
<1>8. local[f].outcome # "accepted" /\ deferred # "none" => \A t : t = w => Terminal(t)'
  <2> SUFFICES ASSUME local[f].outcome # "accepted", deferred # "none", NEW t, t = w
               PROVE  Terminal(t)'
      OBVIOUS
  <2>1. t \in Turn
      BY <1>4
  <2>2. CASE Terminal(t)
      BY <2>1, <2>2 DEF Onward
  <2>3. CASE ~Terminal(t)
    <3>1. CommitTerminal(f, t, deferred, deferred, "int_resolve_clear")
        BY <2>3 DEF IntResolve
    <3>2. deferred \in TurnOutcome
        BY <2>1 DEF DataTypes, InterruptWork, Standing
    <3> HIDE DEF deferred
    <3> QED BY <3>1, <3>2, OutcomesAfter DEF CommitTerminal
  <2> QED BY <2>2, <2>3
<1>9. Knows(f)'
  <2>1. RequestedTurn(f)' = RequestedTurn(f) /\ local'[f].work = w
      BY <1>3 DEF Carries, RequestedTurn
  <2>2. Position(f)' = "int_resolve_clear" => Terminal(local[f].work)'
    <3>1. PICK t : t = w
        OBVIOUS
    <3>2. Position(f)' = "int_resolve_clear" => Terminal(t)'
        BY <1>7, <1>8, <3>1
    <3> QED BY <2>1, <3>1, <3>2
  <2>3. w # NoTurn => /\ interrupts'[w].status # "none"
                      /\ RequestedTurn(f) \in {NoTurn, w} /\ ~interrupts'[w].reserved
      BY <1>3, <1>4, <1>6 DEF Knows
  <2> HIDE DEF w, deferred
  <2> QED BY <1>7, <2>1, <2>2, <2>3 DEF Knows, AskerLabels
<1>10. ASSUME NEW t \in Turn, Kept(t), Held(t)
       PROVE  Held(t)'
  <2>1. CASE Terminal(t)
      BY <2>1 DEF Onward, Held
  <2>2. CASE ~Terminal(t) /\ t # w
    <3>1. interrupts'[t] = interrupts[t]
        BY <1>6, <2>2
    <3> QED BY <1>10, <2>2, <3>1 DEF Held, Waits
  <2>3. CASE ~Terminal(t) /\ t = w
    <3>1. Waits(t) /\ interrupts[t].deferred # "none"
        BY <1>10, <2>3 DEF Held
    <3>2. Spares(f, t)
        BY <1>10, <3>1 DEF CompletionInvariant, PursuedTurnsStand, Pursued
    <3>3. local[f].outcome # "accepted" /\ deferred # "none"
        BY <1>2, <2>3, <3>1, <3>2 DEF Spares, TurnAssumption
    <3> QED BY <1>8, <2>3, <3>3 DEF Held
  <2> QED BY <2>1, <2>2, <2>3
<1>11. \A t \in Turn : Waits(t)' => Waits(t)
    BY <1>6 DEF Onward, Waits
<1>12. \A t \in Turn : Spares(f, t)'
    BY <1>7, SparesElsewhere DEF TakingLabels, StartingLabels, PendingLabels
<1>13. Remains(Runner)
    BY <1>1, FrameFacts
<1> HIDE DEF w, deferred
<1> QED BY <1>1, <1>2, <1>9, <1>10, <1>11, <1>12, <1>13, OthersPursue

LEMMA CompletingKeepsCompletions ==
    ASSUME SessionInvariant, TurnInvariant, CompletionInvariant, Onward,
           NEW f \in Frame, IntComplete(f)
    PROVE  CompletionInvariant'
<1> FrameTypes /\ DataTypes /\ local[f] \in Local
    BY DEF SessionInvariant, FrameTypes
<1>1. /\ f # Runner /\ UNCHANGED awaiting
      /\ \A g \in Frame \ {f} : Remains(g)
    BY NotRunnersInterrupt DEF Interrupt
<1>2. UNCHANGED <<normalReserved, context>> /\ Position(f) = "int_complete"
    BY Here1 DEF IntComplete
<1>3. Carries(f) /\ Settled(f) /\ Knows(f)
    BY <1>2, InterruptCarries DEF Interrupt, Claim, IntComplete, CompletionInvariant, Settled
<1>4. local[f].work \in Turn
  <2>1. Suits(f, "int_complete", local[f])
      BY Here DEF IntComplete, Still
  <2> QED BY <2>1, LocalTypes DEF Suits, TurnOrNone
<1>5. PICK w \in Turn : w = local[f].work
    BY <1>4
<1>6. /\ interrupts'[w].status = "done" /\ \A t \in Turn \ {w} : interrupts'[t] = interrupts[t]
      /\ ~interrupts[w].reserved
    BY <1>3, <1>5, TurnAssumption DEF IntComplete, DataTypes, InterruptWork, Knows
<1>7. /\ Position(f)' \in {"close", "idle", "absent"} /\ local'[f].after = Rest(f)
  <2>1. local'[f] = [local[f] EXCEPT !.after = Rest(f)]
      BY LocalFields DEF IntComplete
  <2> QED BY <2>1, AtLabel DEF IntComplete, Local, Rest
<1>8. Knows(f)'
    BY <1>3, <1>7, Unsettled, KnowsAsCarried DEF Carries, CloseLabels
<1>9. ASSUME NEW t \in Turn, Held(t)
      PROVE  Held(t)'
  <2>1. CASE Terminal(t)
      BY <2>1 DEF Onward, Held
  <2>2. CASE ~Terminal(t)
    <3>1. interrupts'[t] = interrupts[t] /\ Waits(t)
        BY <1>6, <1>9, <2>2 DEF Held
    <3> QED BY <1>9, <2>2, <3>1 DEF Held, Waits
  <2> QED BY <2>1, <2>2
<1>10. \A t \in Turn : Waits(t)' => Waits(t)
    BY <1>6 DEF Onward, Waits
<1>11. \A t \in Turn : Spares(f, t)'
    BY <1>7, SparesElsewhere DEF TakingLabels, StartingLabels, PendingLabels
<1>12. Remains(Runner)
    BY <1>1, FrameFacts
<1> QED BY <1>1, <1>2, <1>8, <1>9, <1>10, <1>11, <1>12, OthersPursue

LEMMA InterruptKeepsCompletions ==
    ASSUME SessionInvariant, TurnInvariant, ClosePromises, CompletionInvariant, Onward,
           NEW f \in Frame, Interrupt(f)
    PROVE  CompletionInvariant'
BY ClaimKeepsCompletions, PreparingKeepsCompletions, RequestKeepsCompletions,
   PublishingKeepsCompletions, CommittingKeepsCompletions, LeavingKeepsCompletions,
   ResolvingKeepsCompletions, CompletingKeepsCompletions DEF Interrupt

LEMMA NextKeepsCompletions ==
    ASSUME SessionInvariant, ClosePromises, TurnInvariant, StartsFit, CompletionInvariant,
           [Next]_vars
    PROVE  CompletionInvariant'
<1>1. Onward
    BY NextTakesTurnStep, StepsGoOnward DEF SessionInvariant
<1>2. CASE UNCHANGED vars
  <2>1. UNCHANGED <<pc, ret, local, context, records, interrupts, normalReserved, awaiting>>
      BY <1>2 DEF vars, turnVars, interruptVars, runVars, frameVars
  <2>2. WorkHolds
      BY <2>1, HoldingWork DEF SessionInvariant
  <2>3. \A g \in Frame : Remains(g)
      BY <2>1 DEF Remains, Position, Delivering
  <2>4. \A t \in Turn : (Held(t) => Held(t)') /\ (Waits(t)' => Waits(t))
      BY <1>1, <2>2, HeldOn
  <2> QED BY <1>1, <2>1, <2>3, <2>4, FrameFacts, OthersPursue
<1> QED BY <1>1, <1>2, StartKeepsCompletions, InterruptKeepsCompletions, FlushKeepsCompletions,
           CloseKeepsCompletions, RuntimeKeepsCompletions, DeliveryKeepsCompletions,
           BeginningKeepsCompletions
        DEF Next, Step, RunTurn, Finished

LEMMA InitCompletes == Init => CompletionInvariant
<1> SUFFICES ASSUME Init
             PROVE  CompletionInvariant
    OBVIOUS
<1>1. /\ awaiting = {} /\ interrupts = [t \in Turn |-> NoWork]
      /\ \A f \in Frame : pc[f] = Rest(f) /\ local[f] = NoLocal
    BY DEF Init
<1>2. \A f \in Frame : Position(f) \in {"idle", "absent"} /\ local[f].work = NoTurn
                       /\ local[f].outcome = "none"
    BY <1>1 DEF Position, Delivering, Rest, NoLocal
<1>3. Position(Runner) = "idle" /\ local[Runner].outcome = "none"
    BY <1>1, <1>2, FrameFacts DEF Position, Delivering, Rest
<1>4. CompletionsHeld
    BY <1>1, <1>3 DEF CompletionsHeld, Kept
<1>5. PursuedTurnsStand
    BY <1>1 DEF PursuedTurnsStand, Waits, NoWork
<1>6. \A f \in Frame : Knows(f)
    BY <1>2 DEF Knows, AskerLabels
<1>7. RunnerKnows
    BY <1>3 DEF RunnerKnows, CloserLabels, FinisherLabels
<1> QED BY <1>4, <1>5, <1>6, <1>7 DEF CompletionInvariant

(* From the step in which the runtime leaves its result with an interrupt to    *)
(* the answer of its caller, the turn has its outcome, or the interrupt is still *)
(* under way, holds the reservation and keeps a result to publish.              *)
THEOREM CompletionsStand == Spec => []CompletionInvariant
BY InitCompletes, NextKeepsCompletions, SessionStands, PromisesAreKept, TurnsStand,
   StartsAreApart, PTL DEF Spec

(* _run_admitted_turn_async parks when another owner holds the terminal         *)
(* reservation: once that interrupt is done the turn it waits for has its       *)
(* terminal, so nothing that was deferred to the owner is lost.                 *)
THEOREM CompletionsAreKept == Spec => []DeferredCompletionIsKept
<1>1. SessionInvariant /\ CompletionInvariant => DeferredCompletionIsKept
  <2> SUFFICES ASSUME SessionInvariant, CompletionInvariant, NEW parked \in awaiting,
                      interrupts[parked.turn].status = "done"
               PROVE  Terminal(parked.turn)
      BY DEF DeferredCompletionIsKept
  <2>1. parked.turn \in Turn
      BY DEF SessionInvariant, FrameTypes, Parked
  <2> QED BY <2>1 DEF CompletionInvariant, CompletionsHeld, Kept, Held, Waits
<1> QED BY <1>1, SessionStands, CompletionsStand, PTL
-----------------------------------------------------------------------------
(***************************************************************************)
(* The owner of an interrupt.  A claim leaves the turn with the frame that   *)
(* made it, and no frame ever takes over the interrupt of another one: a     *)
(* frame that has a turn's interrupt keeps its work after it has completed   *)
(* it, and a turn whose interrupt was completed is not claimed again.        *)
(***************************************************************************)

OwnerFits(f) ==
    /\ Position(f) = "claim" => local[f].work = NoTurn
    /\ \A t \in Turn : Owns(f, t) =>
          interrupts[t].status = "live" /\ interrupts[t].owner = ThreadOf(f)
OwnersFit ==
    /\ \A f, g \in Frame : local[f].work # NoTurn /\ local[f].work = local[g].work => f = g
    /\ \A f \in Frame : OwnerFits(f)

(* A step that begins no interrupt: it gives no frame anything to own ...       *)
Retains(g) ==
    /\ local'[g].work \in {NoTurn, local[g].work}
    /\ Position(g)' = "claim" => local'[g].work = NoTurn
    /\ \A t \in Turn : Owns(g, t)' => Owns(g, t)

(* ... and ends none.                                                        *)
SameOwner ==
    \A t \in Turn : /\ interrupts'[t].status = interrupts[t].status
                    /\ interrupts'[t].owner = interrupts[t].owner

LEMMA RetainingKeepsOwners ==
    ASSUME OwnersFit, \A g \in Frame : Retains(g), SameOwner
    PROVE  OwnersFit'
<1>1. ASSUME NEW f \in Frame, NEW g \in Frame,
             local'[f].work # NoTurn, local'[f].work = local'[g].work
      PROVE  f = g
  <2>1. local'[f].work = local[f].work /\ local'[g].work = local[g].work
      BY <1>1 DEF Retains
  <2> QED BY <1>1, <2>1 DEF OwnersFit
<1>2. ASSUME NEW f \in Frame
      PROVE  OwnerFits(f)'
  <2>1. Retains(f) /\ OwnerFits(f)
      BY DEF OwnersFit
  <2>2. ASSUME NEW t \in Turn, Owns(f, t)'
        PROVE  interrupts'[t].status = "live" /\ interrupts'[t].owner = ThreadOf(f)
    <3>1. interrupts[t].status = "live" /\ interrupts[t].owner = ThreadOf(f)
        BY <2>1, <2>2 DEF Retains, OwnerFits
    <3> QED BY <3>1 DEF SameOwner
  <2> QED BY <2>1, <2>2 DEF OwnerFits, Retains
<1> QED BY <1>1, <1>2 DEF OwnersFit

LEMMA OwnerFields ==
    ASSUME DataTypes
    PROVE  /\ UNCHANGED interrupts => SameOwner
           /\ \A t \in Turn : \A x :
                 /\ interrupts' = [interrupts EXCEPT ![t].flushed = x] => SameOwner
                 /\ interrupts' = [interrupts EXCEPT ![t].closeAfter = x] => SameOwner
                 /\ interrupts' = [interrupts EXCEPT ![t].reserved = FALSE, ![t].deferred = x]
                       => SameOwner
                 /\ DeferTerminal(t, x) => SameOwner
BY DEF DataTypes, InterruptWork, SameOwner, DeferTerminal

(* Where a frame ends up outside every interrupt, or in the one it has.         *)
OwningLabels == OwnerLabels \cup CloserLabels \cup FinisherLabels
LEMMA AwayRetains ==
    ASSUME NEW f, local'[f].work = local[f].work, Position(f)' # "claim",
           \/ Position(f)' \notin OwningLabels
           \/ Position(f)' \in CloserLabels /\ local'[f].after = Rest(f)
    PROVE  Retains(f)
BY DEF Retains, Owns, OwningLabels, OwnerLabels, CloserLabels, FinisherLabels, Rest

LEMMA InsideRetains ==
    ASSUME NEW f, local'[f].work = local[f].work, Position(f)' # "claim",
           Position(f) \in OwnerLabels
    PROVE  Retains(f)
BY DEF Retains, Owns

LEMMA RemainingRetains ==
    ASSUME OwnersFit, NEW g \in Frame, Remains(g)
    PROVE  Retains(g)
<1>1. \/ Position(g)' = Position(g)
      \/ Position(g)' \in {"idle", "absent", "abandoned"}
    BY DEF Remains
<1>2. Position(g)' = "claim" => local'[g].work = NoTurn
    BY <1>1 DEF Remains, OwnersFit, OwnerFits
<1>3. \A t \in Turn : Owns(g, t)' => Owns(g, t)
    BY <1>1 DEF Remains, Owns, OwnerLabels, CloserLabels, FinisherLabels
<1> QED BY <1>2, <1>3 DEF Remains, Retains

LEMMA RunnerRetains ==
    ASSUME Own(Runner)', local'[Runner].work \in {NoTurn, local[Runner].work}
    PROVE  Retains(Runner)
<1>1. Position(Runner)' \in RunnerProgram
      /\ local'[Runner].after \in RunnerProgram \cup {"none"}
    BY DEF Own, Suits, Belongs
<1> QED BY <1>1 DEF Retains, Owns, RunnerProgram, RunnerLabels, CloseLabels, OwnerLabels

LEMMA FrameKeepsOwners ==
    ASSUME OwnersFit, NEW f \in Frame, Retains(f), \A g \in Frame \ {f} : Remains(g), SameOwner
    PROVE  OwnersFit'
BY RemainingRetains, RetainingKeepsOwners

(* The owner's own steps ...                                                 *)
LEMMA MiddleKeepsOwners ==
    ASSUME SessionInvariant, OwnersFit, NEW f \in Frame,
           \/ Coordinate(f) \/ IntEnter(f) \/ IntFlush(f) \/ IntFlushDone(f) \/ IntRequest(f)
           \/ IntOutcome(f) \/ IntAccepted(f) \/ IntCommit(f) \/ IntClear(f) \/ IntIdle(f)
           \/ IntResolve(f) \/ IntResolveClear(f) \/ IntRecover(f)
    PROVE  OwnersFit'
<1>1. Retains(f)
  <2>1. Owning(f)
      BY MiddleIsOwning
  <2>2. /\ Position(f) \in OwnerLabels /\ Position(f)' # "claim"
        /\ local'[f].work = local[f].work
      BY <2>1 DEF Owning, OwnerLabels
  <2> QED BY <2>2, InsideRetains
<1>2. SameOwner
  <2>1. DataTypes /\ local[f].turn \in TurnOrNone /\ local[f].work \in TurnOrNone
      BY LocalTypes DEF SessionInvariant
  <2>2. CASE IntFlush(f)
    <3>1. local[f].work \in Turn
        BY <2>1, <2>2, Here DEF IntFlush, Suits, Still, TurnOrNone
    <3> QED BY <2>1, <2>2, <3>1, OwnerFields DEF IntFlush
  <2>3. CASE IntCommit(f)
    <3>1. \/ UNCHANGED interrupts
          \/ local[f].turn # NoTurn /\ DeferTerminal(local[f].turn, "interrupted")
        BY <2>3 DEF IntCommit
    <3> QED BY <2>1, <3>1, OwnerFields DEF TurnOrNone
  <2>4. CASE IntResolve(f)
    <3>1. \/ UNCHANGED interrupts
          \/ /\ local[f].work # NoTurn
             /\ interrupts' = [interrupts EXCEPT ![local[f].work].reserved = FALSE,
                                                 ![local[f].work].deferred = "none"]
        BY <2>4 DEF IntResolve
    <3> QED BY <2>1, <3>1, OwnerFields DEF TurnOrNone
  <2>5. CASE ~(IntFlush(f) \/ IntCommit(f) \/ IntResolve(f))
    <3>1. UNCHANGED interrupts
        BY <2>5 DEF Coordinate, IntEnter, IntFlushDone, IntRequest, IntOutcome, IntAccepted,
                    IntClear, IntIdle, IntResolveClear, IntRecover
    <3> QED BY <2>1, <3>1, OwnerFields
  <2> QED BY <2>2, <2>3, <2>4, <2>5
<1>3. \A g \in Frame \ {f} : Remains(g)
    BY NotRunnersInterrupt DEF Interrupt
<1> QED BY <1>1, <1>2, <1>3, FrameKeepsOwners

LEMMA ExitKeepsOwners ==
    ASSUME SessionInvariant, OwnersFit, NEW f \in Frame, IntExit(f)
    PROVE  OwnersFit'
<1> DEFINE next == IF local[f].work = NoTurn THEN Rest(f)
                   ELSE IF local[f].outcome = "error" THEN "int_recover" ELSE "int_complete"
<1>1. FrameTypes /\ DataTypes
    BY DEF SessionInvariant
<1>2. Position(f) \in OwnerLabels /\ ExitOperation(f, next)
    BY Here1 DEF IntExit, OwnerLabels
<1>3. next \in {"idle", "absent", "int_recover", "int_complete"}
    BY DEF Rest
<1>4. Position(f)' # "claim"
    BY <1>1, <1>2, <1>3, AtLabel DEF ExitOperation
<1>5. Carries(f) /\ SameOwner
    BY <1>1, InterruptCarries, OwnerFields DEF Interrupt, IntExit, Claim
<1>6. Retains(f)
    BY <1>2, <1>4, <1>5, InsideRetains DEF Carries
<1>7. \A g \in Frame \ {f} : Remains(g)
    BY NotRunnersInterrupt DEF Interrupt
<1> QED BY <1>5, <1>6, <1>7, FrameKeepsOwners

(* ... to its completion, with which nobody owns the interrupt any more.       *)
LEMMA CompleteKeepsOwners ==
    ASSUME SessionInvariant, OwnersFit, NEW f \in Frame, IntComplete(f)
    PROVE  OwnersFit'
<1>1. FrameTypes /\ DataTypes /\ \A g \in Frame \ {f} : Remains(g)
    BY NotRunnersInterrupt DEF SessionInvariant, Interrupt
<1>2. PICK t \in Turn : local[f].work = t
    BY Here, LocalTypes DEF IntComplete, Still, Suits, TurnOrNone
<1>3. local'[f].work = t
    BY <1>1, <1>2, InterruptCarries DEF Interrupt, IntComplete, Claim, Carries
<1>4. Position(f)' \in {"close", "idle", "absent"}
    BY <1>1, AtLabel DEF IntComplete, Rest
<1>5. \A u \in Turn \ {t} : interrupts'[u] = interrupts[u]
    BY <1>1, <1>2 DEF IntComplete, DataTypes
<1>6. \A g \in Frame : Retains(g)
  <2>1. Retains(f)
      BY <1>2, <1>3, <1>4, AwayRetains DEF OwningLabels, OwnerLabels, CloserLabels, FinisherLabels
  <2> QED BY <1>1, <2>1, RemainingRetains
<1>7. \A g, h \in Frame : local'[g].work # NoTurn /\ local'[g].work = local'[h].work => g = h
    BY <1>6 DEF Retains, OwnersFit
<1>8. ASSUME NEW g \in Frame, NEW u \in Turn, Owns(g, u)'
      PROVE  interrupts'[u].status = "live" /\ interrupts'[u].owner = ThreadOf(g)
  <2>1. g # f
      BY <1>4, <1>8 DEF Owns, OwnerLabels, CloserLabels, FinisherLabels
  <2>2. local'[g].work = u
      BY <1>8 DEF Owns
  <2>3. u # t
      BY <1>3, <1>7, <2>1, <2>2
  <2>4. interrupts[u].status = "live" /\ interrupts[u].owner = ThreadOf(g)
      BY <1>6, <1>8 DEF Retains, OwnersFit, OwnerFits
  <2> QED BY <1>5, <2>3, <2>4
<1>9. \A g \in Frame : Position(g)' = "claim" => local'[g].work = NoTurn
    BY <1>6 DEF Retains
<1> QED BY <1>7, <1>8, <1>9 DEF OwnersFit, OwnerFits

(* A claim finds a turn that nobody has ever claimed.                         *)
LEMMA ClaimKeepsOwners ==
    ASSUME SessionInvariant, CompletionInvariant, OwnersFit, NEW f \in Frame, Claim(f)
    PROVE  OwnersFit'
<1> DEFINE resolved == IF RequestedTurn(f) # NoTurn THEN RequestedTurn(f) ELSE CurrentTurn
<1>1. FrameTypes /\ DataTypes /\ \A g \in Frame \ {f} : Remains(g)
    BY NotRunnersInterrupt DEF SessionInvariant, Interrupt
<1>2. Position(f) = "claim" /\ local[f].work = NoTurn /\ local[f] \in Local
    BY <1>1, Here1 DEF Claim, OwnersFit, OwnerFits, FrameTypes
<1>3. Position(f)' \in {"idle", "absent", "claim_wait", "coordinate"}
    BY <1>1, AtLabel DEF Claim, Finish, Rest
<1>4. resolved \in TurnOrNone
    BY <1>1, LocalTypes, DataTurns
<1>5. CASE UNCHANGED interrupts /\ Carries(f)
  <2>1. Retains(f)
      BY <1>2, <1>3, <1>5 DEF Carries, Retains, Owns
  <2> QED BY <1>1, <1>5, <2>1, OwnerFields, FrameKeepsOwners
<1>6. CASE /\ resolved # NoTurn /\ interrupts[resolved].status = "none"
           /\ interrupts' = [interrupts EXCEPT ![resolved] = OwnedWork(f)]
           /\ SetLocal(f, [local[f] EXCEPT !.claimed = resolved, !.work = resolved])
  <2>1. PICK t \in Turn : t = resolved
      BY <1>4, <1>6 DEF TurnOrNone
  <2> HIDE DEF resolved
  <2>2. /\ interrupts'[t].status = "live" /\ interrupts'[t].owner = ThreadOf(f)
        /\ \A u \in Turn \ {t} : interrupts'[u] = interrupts[u]
    <3>1. OwnedWork(f).status = "live" /\ OwnedWork(f).owner = ThreadOf(f)
        BY DEF OwnedWork, NoWork
    <3> QED BY <1>1, <1>6, <2>1, <3>1 DEF DataTypes
  <2>3. local'[f].work = t
    <3>1. local'[f] = [local[f] EXCEPT !.claimed = resolved, !.work = resolved]
        BY <1>1, <1>6, LocalFields
    <3> QED BY <1>2, <2>1, <3>1 DEF Local
  <2>4. \A g \in Frame : local[g].work # t
      BY <1>6, <2>1 DEF CompletionInvariant, Knows
  <2>5. \A g \in Frame \ {f} : local'[g] = local[g] /\ local'[g].work # t
      BY <1>1, <2>4 DEF Remains
  <2>6. \A g, h \in Frame : local'[g].work # NoTurn /\ local'[g].work = local'[h].work => g = h
      BY <2>3, <2>5 DEF OwnersFit
  <2>7. ASSUME NEW g \in Frame \ {f}
        PROVE  OwnerFits(g)'
    <3>1. Retains(g)
        BY <1>1, RemainingRetains
    <3>2. ASSUME NEW u \in Turn, Owns(g, u)'
          PROVE  interrupts'[u].status = "live" /\ interrupts'[u].owner = ThreadOf(g)
      <4>1. u # t
          BY <2>5, <3>2 DEF Owns
      <4>2. interrupts[u].status = "live" /\ interrupts[u].owner = ThreadOf(g)
          BY <3>1, <3>2 DEF Retains, OwnersFit, OwnerFits
      <4> QED BY <2>2, <4>1, <4>2
    <3> QED BY <3>1, <3>2 DEF Retains, OwnerFits
  <2>8. OwnerFits(f)'
      BY <1>3, <2>2, <2>3 DEF OwnerFits, Owns
  <2> QED BY <2>6, <2>7, <2>8 DEF OwnersFit
<1>7. \/ UNCHANGED interrupts /\ Carries(f)
      \/ /\ resolved # NoTurn /\ interrupts[resolved].status = "none"
         /\ interrupts' = [interrupts EXCEPT ![resolved] = OwnedWork(f)]
         /\ SetLocal(f, [local[f] EXCEPT !.claimed = resolved, !.work = resolved])
  <2>1. \A r : SetLocal(f, [local[f] EXCEPT !.turn = r]) => Carries(f)
      BY <1>1, CarriedOn
  <2>2. \A r : SetLocal(f, [local[f] EXCEPT !.claimed = r]) => Carries(f)
      BY <1>1, CarriedOn
  <2>3. UNCHANGED local => Carries(f)
      BY <1>1, CarriedOn
  <2> QED BY <2>1, <2>2, <2>3 DEF Claim
<1> QED BY <1>5, <1>6, <1>7

(* The steps of the other calls: they lead into no interrupt.                  *)
LEMMA StartKeepsOwners ==
    ASSUME SessionInvariant, OwnersFit, NEW f \in Frame,
           StartTurn(f) \/ Prepare(f) \/ Submit(f) \/ Subscribe(f)
    PROVE  OwnersFit'
<1>1. FrameTypes /\ DataTypes
    BY DEF SessionInvariant
<1>2. Plain(f) /\ SameOwner
    BY <1>1, StartTurnIsPlain, OwnerFields
<1>3. local'[f].work = local[f].work
  <2>1. CASE StartTurn(f) \/ Submit(f)
      BY <1>1, <2>1, StartCarries
  <2>2. CASE Prepare(f) \/ Subscribe(f)
      BY <1>1, <2>2, OthersCarry DEF Carries
  <2> QED BY <2>1, <2>2
<1>4. Position(f)' # "claim"
  <2> USE <1>1, AtLabel, AtNext DEF Finish, Rest
  <2>1. CASE StartAdmission(f) \/ StartRepeat(f) \/ StartAdmit(f) \/ StartReturn(f)
      BY <2>1 DEF StartAdmission, StartRepeat, StartAdmit, StartReturn
  <2>2. CASE StartReject(f) \/ StartPhase(f) \/ StartEmit(f)
      BY <2>2 DEF StartReject, StartPhase, StartEmit, UndoStart
  <2>3. CASE Prepare(f) \/ Submit(f) \/ Subscribe(f)
      BY <2>3 DEF Prepare, Submit, Subscribe
  <2> QED BY <2>1, <2>2, <2>3 DEF StartTurn
<1>5. Retains(f)
  <2>1. Position(f)' \notin OwningLabels
      BY <1>2 DEF Plain, RoleLabels, OwningLabels
  <2> QED BY <1>3, <1>4, <2>1, AwayRetains
<1>6. \A g \in Frame \ {f} : Remains(g)
  <2>1. CASE Submit(f)
    <3>1. \A g \in Frame \ {f} :
             pc'[g] = pc[g] /\ ret'[g] = ret[g] /\ local'[g] = local[g]
        BY <1>1, <2>1 DEF Submit, FrameTypes, Goto, SetLocal
    <3> QED BY <3>1 DEF Remains, Position, Delivering
  <2>2. CASE ~Submit(f)
    <3>1. Moves(f)
        BY <2>2, StartAdmissionGoes, StartRejectGoes, StartRepeatGoes, StartAdmitGoes,
           StartPhaseGoes, StartEmitGoes, StartReturnGoes, PrepareGoes, SubscribeGoes
           DEF StartTurn, Goes
    <3> QED BY <3>1, MovingRemains
  <2> QED BY <2>1, <2>2
<1> QED BY <1>2, <1>5, <1>6, FrameKeepsOwners

LEMMA FlushKeepsOwners ==
    ASSUME SessionInvariant, OwnersFit, NEW f \in Frame, Flush(f) \/ ClaimWait(f)
    PROVE  OwnersFit'
<1>1. FrameTypes /\ DataTypes /\ \A g \in Frame \ {f} : Remains(g)
  <2>1. Moves(f)
      BY ClaimWaitGoes, FlushAdmissionGoes, FlushWaitGoes, FlushEnterGoes, FlushRequestGoes,
         FlushDoneGoes, FlushExitGoes DEF Flush, Goes
  <2> QED BY <2>1, MovingRemains DEF SessionInvariant
<1>2. /\ Position(f)' \in {"idle", "absent", "flush_wait", "flush_enter", "flush_request",
                           "flush_done", "flush_exit", "close_read"}
      /\ Position(f)' = "close_read" => local'[f].after = Rest(f)
  <2> USE <1>1, AtLabel, AtSkip DEF Rest
  <2>1. CASE FlushAdmission(f) \/ FlushWait(f) \/ FlushEnter(f) \/ ClaimWait(f)
      BY <2>1 DEF FlushAdmission, FlushWait, FlushEnter, ClaimWait, Finish
  <2>2. CASE FlushRequest(f) \/ FlushDone(f)
      BY <2>2 DEF FlushRequest, FlushDone
  <2>3. CASE FlushExit(f)
    <3>1. ExitOperation(f, Rest(f))
        BY <2>3 DEF FlushExit
    <3>2. local'[f] = [local[f] EXCEPT !.after = Rest(f)]
        BY <3>1, LocalFields DEF ExitOperation
    <3>3. local'[f].after = Rest(f)
        BY <3>2 DEF FrameTypes, Local
    <3> QED BY <3>1, <3>3 DEF ExitOperation
  <2> QED BY <2>1, <2>2, <2>3 DEF Flush
<1>3. local'[f].work = local[f].work
    BY <1>1, OthersCarry, InterruptCarries DEF Carries, Interrupt, ClaimWait, Claim
<1>4. Retains(f)
    BY <1>2, <1>3, AwayRetains DEF OwningLabels, OwnerLabels, CloserLabels, FinisherLabels
<1>5. SameOwner
  <2>1. CASE FlushRequest(f)
    <3>1. local[f].claimed # NoTurn => local[f].claimed \in Turn
        BY LocalTypes DEF TurnOrNone
    <3> QED BY <1>1, <2>1, <3>1, OwnerFields DEF FlushRequest
  <2>2. CASE ~FlushRequest(f)
      BY <1>1, <2>2, OwnerFields
         DEF Flush, FlushAdmission, FlushWait, FlushEnter, FlushDone, FlushExit, ClaimWait
  <2> QED BY <2>1, <2>2
<1> QED BY <1>1, <1>4, <1>5, FrameKeepsOwners

LEMMA CloseKeepsOwners ==
    ASSUME SessionInvariant, CompletionInvariant, OwnersFit, NEW f \in Frame, Close(f)
    PROVE  OwnersFit'
<1>1. FrameTypes /\ DataTypes /\ local[f] \in Local
    BY DEF SessionInvariant, FrameTypes
<1>2. \A g \in Frame \ {f} : Remains(g)
  <2>1. Moves(f)
      BY CloseAdmissionGoes, CloseWaitGoes, CloseLockGoes, CloseReadGoes, CloseMarkGoes,
         CloseEmitGoes, CloseHubGoes, CloseFinalGoes DEF Close, Goes
  <2> QED BY <2>1, MovingRemains
<1>3. local'[f].work = local[f].work
    BY <1>1, OthersCarry DEF Carries
<1>4. SameOwner
  <2>1. activeInterrupt # NoTurn => activeInterrupt \in Turn
      BY <1>1 DEF DataTypes, TurnOrNone
  <2>2. \/ UNCHANGED interrupts
        \/ /\ Live(activeInterrupt)
           /\ interrupts' = [interrupts EXCEPT ![activeInterrupt].closeAfter = TRUE]
      BY DEF Close, CloseAdmission, CloseWait, CloseLock, CloseRead, CloseMark, CloseEmit,
             CloseHub, CloseFinal
  <2> QED BY <1>1, <2>1, <2>2, OwnerFields DEF Live
<1>5. local'[f].after = local[f].after
  <2>1. \A x, y : /\ [local[f] EXCEPT !.turn = x].after = local[f].after
                  /\ [local[f] EXCEPT !.closing = x, !.closes = y].after = local[f].after
      BY <1>1 DEF Local
  <2>2. \A r : SetLocal(f, r) => local'[f] = r
      BY <1>1, LocalFields
  <2>3. CASE CloseRead(f)
    <3>1. local'[f] = [local[f] EXCEPT !.closing = context.turn,
                                !.closes = context.turn # NoTurn /\ ~Terminal(context.turn)]
        BY <2>2, <2>3 DEF CloseRead
    <3> QED BY <2>1, <3>1
  <2>4. CASE CloseAdmission(f)
    <3>1. UNCHANGED local \/ local'[f] = [local[f] EXCEPT !.turn = activeInterrupt]
        BY <2>2, <2>4 DEF CloseAdmission
    <3> QED BY <2>1, <3>1
  <2>5. CASE ~(CloseRead(f) \/ CloseAdmission(f))
      BY <2>5 DEF Close, CloseWait, CloseLock, CloseMark, CloseEmit, CloseHub, CloseFinal
  <2> QED BY <2>3, <2>4, <2>5
<1>6. CASE CloseAdmission(f) \/ CloseWait(f) \/ CloseLock(f)
  <2>1. /\ Position(f) \in {"close", "close_wait", "close_lock"}
        /\ Position(f)' \in {"idle", "absent", "close", "close_wait", "close_lock", "close_read"}
      BY <1>1, <1>6, AtLabel, Here1 DEF CloseAdmission, CloseWait, CloseLock, Finish, Rest
  <2>2. local[f].after = Rest(f)
      BY <2>1 DEF CompletionInvariant, Knows, AskerLabels
  <2>3. Retains(f)
      BY <1>3, <1>5, <2>1, <2>2, AwayRetains
         DEF OwningLabels, OwnerLabels, CloserLabels, FinisherLabels
  <2> QED BY <1>2, <1>4, <2>3, FrameKeepsOwners
<1>7. CASE CloseRead(f) \/ CloseMark(f) \/ CloseEmit(f) \/ CloseHub(f) \/ CloseFinal(f)
  <2>1. /\ Position(f) \in CloserLabels \cup FinisherLabels
        /\ \/ Position(f)' \in CloserLabels \cup FinisherLabels
           \/ Position(f)' = local[f].after
      <3> USE <1>1, AtLabel, AtNext, Here1 DEF CloserLabels, FinisherLabels
      <3>1. CASE CloseFinal(f)
        <4>1. local[f].after \in Continuation \cup {"none"}
            BY DEF Local
        <4> QED BY <3>1, <4>1 DEF CloseFinal, Continuation
      <3>2. CASE CloseEmit(f)
          BY <3>2 DEF CloseEmit, Transition
      <3>3. CASE CloseRead(f) \/ CloseMark(f) \/ CloseHub(f)
          BY <3>3 DEF CloseRead, CloseMark, CloseHub
      <3> QED BY <1>7, <3>1, <3>2, <3>3
  <2>2. local[f].after \in {"idle", "absent", "int_recover", "int_complete", "none", "run_park",
                            "run_finish"}
      BY <1>1 DEF Local, Continuation
  <2>3. Position(f)' # "claim"
      BY <2>1, <2>2 DEF CloserLabels, FinisherLabels
  <2>4. ASSUME NEW t \in Turn, Owns(f, t)'
        PROVE  Owns(f, t)
    <3>1. local[f].work = t
        BY <1>3, <2>4 DEF Owns
    <3>2. local[f].after \in {"int_recover", "int_complete"}
        BY <1>5, <2>1, <2>2, <2>4 DEF Owns, OwnerLabels, CloserLabels, FinisherLabels
    <3> QED BY <2>1, <3>1, <3>2 DEF Owns
  <2>5. Retains(f)
      BY <1>3, <2>3, <2>4 DEF Retains
  <2> QED BY <1>2, <1>4, <2>5, FrameKeepsOwners
<1> QED BY <1>6, <1>7 DEF Close

LEMMA RunKeepsOwners ==
    ASSUME SessionInvariant, OwnersFit,
           RunEnter \/ RunStage \/ RunCommit \/ RunClear \/ RunIdle \/ RunExit
    PROVE  OwnersFit'
<1>1. DataTypes /\ Runner \in Frame
    BY FrameFacts DEF SessionInvariant
<1>2. Moves(Runner) /\ Carries(Runner)
    BY RunCarries, RunEnterGoes, RunStageGoes, RunCommitGoes, RunClearGoes, RunIdleGoes,
       RunExitGoes DEF Goes, SessionInvariant
<1>3. Retains(Runner)
    BY <1>2, RunnerRetains DEF Moves, Carries
<1>4. SameOwner
  <2>1. RunnerTurn \in TurnOrNone
      BY <1>1, LocalTypes DEF RunnerTurn
  <2>2. \/ UNCHANGED interrupts
        \/ RunnerTurn # NoTurn /\ DeferTerminal(RunnerTurn, "completed")
      BY DEF RunEnter, RunStage, RunCommit, RunClear, RunIdle, RunExit, OwnedByOther, Live
  <2> QED BY <1>1, <2>1, <2>2, OwnerFields DEF TurnOrNone
<1> QED BY <1>1, <1>2, <1>3, <1>4, MovingRemains, FrameKeepsOwners

LEMMA CoroutineKeepsOwners ==
    ASSUME SessionInvariant, OwnersFit,
           RunTake \/ RunFinish \/ RunPark \/ RunResume \/ CancelSubmitted
    PROVE  OwnersFit'
<1>1. FrameTypes /\ SameOwner /\ Runner \in Frame
  <2>1. UNCHANGED interrupts
      BY DEF RunTake, RunFinish, RunPark, RunResume, CancelSubmitted
  <2> QED BY <2>1, OwnerFields, FrameFacts DEF SessionInvariant
<1>2. CASE RunTake \/ RunPark
  <2>1. \A g \in Frame \ {Runner} : pc'[g] = pc[g] /\ ret'[g] = ret[g] /\ local'[g] = local[g]
      BY <1>1, <1>2 DEF RunTake, RunPark, FrameTypes, Goto, SetLocal
  <2>2. \A g \in Frame \ {Runner} : Remains(g)
      BY <2>1 DEF Remains, Position, Delivering
  <2>3. Position(Runner)' \in {"run_enter", "idle"}
      BY <1>1, <1>2, AtLabel DEF RunTake, RunPark
  <2>4. local'[Runner].work \in {NoTurn, local[Runner].work}
    <3>1. CASE RunTake
      <4> DEFINE entry == Head(runQueue)
                 taken == [NoLocal EXCEPT !.turn = entry.turn, !.generation = entry.generation,
                                          !.caller = entry.caller]
      <4>1. SetLocal(Runner, taken)
          BY <3>1 DEF RunTake
      <4>2. taken.work = NoTurn
          BY DEF NoLocal
      <4> HIDE DEF taken
      <4>3. local'[Runner] = taken
          BY <1>1, <4>1, LocalFields
      <4> QED BY <4>2, <4>3
    <3>2. CASE RunPark
        BY <3>2 DEF RunPark
    <3> QED BY <1>2, <3>1, <3>2
  <2>5. Retains(Runner)
      BY <2>3, <2>4 DEF Retains, Owns, OwnerLabels, CloserLabels, FinisherLabels
  <2> QED BY <1>1, <2>2, <2>5, FrameKeepsOwners
<1>3. CASE RunFinish \/ RunResume \/ CancelSubmitted
  <2>1. \A g \in Frame : Remains(g)
      BY <1>3, AnswersRemain
  <2> QED BY <1>1, <2>1, RemainingRetains, RetainingKeepsOwners
<1> QED BY <1>2, <1>3

LEMMA BeginningKeepsOwners ==
    ASSUME SessionInvariant, OwnersFit, NEW f \in Frame, BeginCall(f) \/ BeginCallback(f)
    PROVE  OwnersFit'
<1>1. SameOwner
    BY OwnerFields DEF BeginCall, BeginCallback, SessionInvariant
<1>2. PICK g \in Frame \ {Runner} :
              /\ \A h \in Frame \ {g} : Remains(h)
              /\ local'[g].work = NoTurn
    BY BeginningMoves
<1>3. Retains(g)
    BY <1>2 DEF Retains, Owns
<1> QED BY <1>1, <1>2, <1>3, FrameKeepsOwners

LEMMA NextKeepsOwners ==
    ASSUME SessionInvariant, CompletionInvariant, OwnersFit, [Next]_vars
    PROVE  OwnersFit'
<1>1. ASSUME NEW f \in Frame, FinishDelivery(f) \/ Rejoin(f)
      PROVE  OwnersFit'
  <2>1. SameOwner
      BY <1>1, OwnerFields DEF FinishDelivery, Rejoin, SessionInvariant
  <2> QED BY <1>1, <2>1, DeliveringRemains, RemainingRetains, RetainingKeepsOwners
<1>2. CASE UNCHANGED vars
  <2>1. UNCHANGED <<pc, ret, local, interrupts>>
      BY <1>2 DEF vars, interruptVars, frameVars
  <2>2. SameOwner /\ \A g \in Frame : Remains(g)
      BY <2>1 DEF SameOwner, Remains, Position, Delivering
  <2> QED BY <2>2, RemainingRetains, RetainingKeepsOwners
<1>3. ASSUME NEW f \in Frame, Interrupt(f)
      PROVE  OwnersFit'
    BY <1>3, ClaimKeepsOwners, FlushKeepsOwners, MiddleKeepsOwners, ExitKeepsOwners,
       CompleteKeepsOwners DEF Interrupt
<1>4. ASSUME NEW f \in Frame, Step(f)
      PROVE  OwnersFit'
    BY <1>1, <1>3, <1>4, StartKeepsOwners, FlushKeepsOwners, CloseKeepsOwners DEF Step, RunTurn
<1>5. CASE RuntimeLoop
    BY <1>5, RunKeepsOwners, CoroutineKeepsOwners DEF RuntimeLoop
<1> QED BY <1>2, <1>4, <1>5, BeginningKeepsOwners DEF Next, Finished

LEMMA InitOwners == Init => OwnersFit
<1> SUFFICES ASSUME Init
             PROVE  OwnersFit
    OBVIOUS
<1>1. \A f \in Frame : local[f].work = NoTurn
    BY DEF Init, NoLocal
<1> QED BY <1>1 DEF OwnersFit, OwnerFits, Owns

(* At every moment a turn's interrupt has been claimed by at most one frame,    *)
(* and who executes it is the owner that the session has on record.            *)
THEOREM OwnersStand == Spec => []OwnersFit
BY InitOwners, NextKeepsOwners, SessionStands, CompletionsStand, PTL DEF Spec

LEMMA ExecutingOwns ==
    ASSUME NEW f, NEW t
    PROVE  Executes(f, t) <=> Owns(f, t)
BY DEF Executes, Owns, InInterrupt, Closing, OwnerLabels, CloserLabels, FinisherLabels

(* _claim_interrupt_request: from a claim to its completion the interrupt of a   *)
(* turn is executed by one frame, of the thread that claimed it, and at no other *)
(* time by any; so whoever waits for the owner waits for a thread that is still   *)
(* in the interrupt, and a thread that goes on as the owner is it.              *)
THEOREM InterruptsHaveOneOwner == Spec => []ClaimedInterruptHasOneOwner
<1>1. OwnersFit /\ InterruptPromises => ClaimedInterruptHasOneOwner
  <2> SUFFICES ASSUME OwnersFit, InterruptPromises, NEW t \in Turn
               PROVE  /\ \A f, g \in Frame : Executes(f, t) /\ Executes(g, t) => f = g
                      /\ \A f \in Frame : Executes(f, t) =>
                            interrupts[t].status = "live" /\ interrupts[t].owner = ThreadOf(f)
                      /\ interrupts[t].status = "live" => \E f \in Frame : Executes(f, t)
      BY DEF ClaimedInterruptHasOneOwner
  <2>1. \A f, g \in Frame : Executes(f, t) /\ Executes(g, t) => f = g
      BY DEF OwnersFit, Executes
  <2>2. \A f \in Frame : Executes(f, t) =>
            interrupts[t].status = "live" /\ interrupts[t].owner = ThreadOf(f)
      BY ExecutingOwns DEF OwnersFit, OwnerFits
  <2>3. interrupts[t].status = "live" => \E f \in Frame : Executes(f, t)
      BY ExecutingOwns DEF InterruptPromises
  <2> QED BY <2>1, <2>2, <2>3
<1> QED BY <1>1, OwnersStand, PromisesAreKept, PTL

(* A thread whose call is over has given back both locks, closed its callback     *)
(* window, left the delivery of events and completed the interrupt it claimed,    *)
(* however the call ended and whatever the other threads are doing.              *)
THEOREM CallsGiveBackWhatTheyTook == Spec => []ReturnedCallsHoldNothing
<1>1. SessionInvariant /\ StartsFit /\ OwnersFit /\ InterruptPromises
         => ReturnedCallsHoldNothing
  <2> SUFFICES ASSUME SessionInvariant, StartsFit, OwnersFit, InterruptPromises,
                      NEW th \in Thread, pc[<<th, 0>>] \in {"idle", "abandoned"}
               PROVE  /\ ThreadOf(operation) # th /\ ThreadOf(admission) # th
                      /\ \A w \in windowed : ThreadOf(w) # th
                      /\ dispatcher = NoFrame \/ ThreadOf(dispatcher) # th
                      /\ \A t \in Turn : interrupts[t].status = "live" =>
                                            interrupts[t].owner # th
      BY DEF ReturnedCallsHoldNothing
  <2>1. ASSUME NEW f \in Frame, ThreadOf(f) = th
        PROVE  pc[f] \in {"idle", "abandoned", "absent"}
    <3> DEFINE own == <<th, 0>>
    <3>1. own \in Frame /\ ~IsCallback(own) /\ f \in {own, ChildOf(own)}
        BY <2>1 DEF Frame, ThreadOf, IsCallback, ChildOf
    <3>2. pc[ChildOf(own)] = "absent"
        BY <3>1 DEF SessionInvariant, FramesFit, Fits
    <3> QED BY <3>1, <3>2
  <2>2. ASSUME NEW f \in Frame, ThreadOf(f) = th
        PROVE  /\ ~Busy(f) /\ ~InSection(f) /\ dispatcher # f
               /\ \A t \in Turn : ~Owns(f, t)
    <3>1. Position(f) \in {"idle", "abandoned", "absent"} /\ pc[f] # "deliver"
        BY <2>1, <2>2, Here1
    <3>2. ~Busy(f)
        BY <3>1, Sections DEF Busy, OperationLabels, CloseLabels
    <3>3. dispatcher # f
        BY <3>1 DEF SessionInvariant, FramesFit, Fits
    <3> QED BY <3>1, <3>2, <3>3
            DEF InSection, SectionLabels, Owns, OwnerLabels, CloserLabels, FinisherLabels
  <2>3. ThreadOf(NoFrame) # th
      BY DEF ThreadOf, NoFrame, Thread
  <2>4. ThreadOf(operation) # th /\ \A w \in windowed : ThreadOf(w) # th
      BY <2>2, <2>3 DEF SessionInvariant, LockInvariant
  <2>5. ThreadOf(admission) # th
      BY <2>2, <2>3 DEF SessionInvariant, DataTypes, StartsFit, AdmissionHeld
  <2>6. dispatcher = NoFrame \/ ThreadOf(dispatcher) # th
      BY <2>2 DEF SessionInvariant, FrameTypes
  <2>7. \A t \in Turn : interrupts[t].status = "live" => interrupts[t].owner # th
      BY <2>2 DEF InterruptPromises, OwnersFit, OwnerFits
  <2> QED BY <2>4, <2>5, <2>6, <2>7
<1> QED BY <1>1, SessionStands, StartsAreApart, OwnersStand, PromisesAreKept, PTL
=============================================================================
