-------------------- MODULE RealtimeExecutionBridgeProofs --------------------
(***************************************************************************)
(* A report of framework/realtime_execution_bridge.py that its worker has  *)
(* stopped stays true, for every set of coroutines and of threads that     *)
(* shut the bridge down.                                                   *)
(***************************************************************************)
EXTENDS RealtimeExecutionBridge, TLAPS

(* Whoever got past the flag in shutdown has set it.                         *)
ShutdownHasClosed == \A s \in Stopper : stopper[s] # "shutdown" => closed

(* A stop is reported of a worker that never was or is gone. That it stays so *)
(* needs the flag: an open bridge would start a worker for the next caller.   *)
BridgeInvariant ==
    /\ stopper \in [Stopper -> {"shutdown", "request", "join", "stopped", "timed_out"}]
    /\ ShutdownHasClosed
    /\ TruthfulStop

(* No worker comes to a closed bridge that has none, and none comes back.     *)
WorkerStaysAway ==
    closed /\ worker \in {"none", "gone"} => closed' /\ worker' \in {"none", "gone"}

-----------------------------------------------------------------------------
(* Every step outside shutdown leaves the flag set and the worker away.       *)
LEMMA CallersStartNoWorker ==
    ASSUME NEW c \in Coroutine, Caller(c) \/ Wake(c)
    PROVE  WorkerStaysAway /\ (closed => closed') /\ UNCHANGED stopper
<1>1. CASE Start(c)
  BY <1>1 DEF Start, Started, WorkerStaysAway
<1>2. CASE AwaitReady(c) \/ Check(c)
  BY <1>2 DEF AwaitReady, Check, workerVars, WorkerStaysAway
<1>3. CASE Send(c) \/ Result(c) \/ Wake(c)
  BY <1>3 DEF Send, Result, Wake, workerVars, WorkerStaysAway
<1>4. QED
  BY <1>1, <1>2, <1>3 DEF Caller

LEMMA WorkerStartsNoWorker ==
    ASSUME Worker
    PROVE  WorkerStaysAway /\ (closed => closed') /\ UNCHANGED stopper
<1>1. CASE Publish \/ RunForever
  BY <1>1 DEF Publish, RunForever, WorkerStaysAway
<1>2. CASE BeginIteration
  BY <1>2 DEF BeginIteration, workerVars, WorkerStaysAway
<1>3. CASE EndIterations
  BY <1>3 DEF EndIterations, IsRunning, WorkerStaysAway
<1>4. CASE CancelPending \/ CloseLoop
  BY <1>4 DEF CancelPending, CloseLoop, WorkerStaysAway
<1>5. QED
  BY <1>1, <1>2, <1>3, <1>4 DEF Worker

LEMMA LoopStartsNoWorker ==
    ASSUME Loop
    PROVE  WorkerStaysAway /\ (closed => closed') /\ UNCHANGED stopper
<1>1. CASE StopFromCoroutine
  BY <1>1 DEF StopFromCoroutine, workerVars, WorkerStaysAway
<1>2. CASE CreateTask \/ FinishTask \/ AwaitEvent
  BY <1>2 DEF CreateTask, FinishTask, AwaitEvent, workerVars, WorkerStaysAway
<1>3. CASE AnswerFuture \/ Gather \/ StopLoop
  BY <1>3 DEF AnswerFuture, Gather, StopLoop, workerVars, WorkerStaysAway
<1>4. QED
  BY <1>1, <1>2, <1>3 DEF Loop

(* A step that is not of a shutdown keeps the invariant.                      *)
LEMMA OthersKeepReports ==
    ASSUME BridgeInvariant, WorkerStaysAway, closed => closed', UNCHANGED stopper
    PROVE  BridgeInvariant'
<1>1. ShutdownHasClosed'
  BY DEF BridgeInvariant, ShutdownHasClosed
<1>2. TruthfulStop'
  <2> SUFFICES ASSUME NEW s \in Stopper, stopper[s] = "stopped"
               PROVE  worker' \in {"none", "gone"}
    BY DEF TruthfulStop
  <2>1. closed /\ worker \in {"none", "gone"}
    BY DEF BridgeInvariant, ShutdownHasClosed, TruthfulStop
  <2>2. QED
    BY <2>1 DEF WorkerStaysAway
<1>3. QED
  BY <1>1, <1>2 DEF BridgeInvariant

(* A shutdown reports a stop only where there is no worker.                   *)
LEMMA ShutdownIsTruthful ==
    ASSUME BridgeInvariant, NEW s \in Stopper, Shutdown(s)
    PROVE  BridgeInvariant'
<1>1. CASE MarkClosed(s)
  BY <1>1 DEF MarkClosed, Move, Started, workerVars, BridgeInvariant, ShutdownHasClosed,
              TruthfulStop
<1>2. CASE RequestStop(s)
  BY <1>2 DEF RequestStop, Move, workerVars, BridgeInvariant, ShutdownHasClosed, TruthfulStop
<1>3. CASE Join(s)
  BY <1>3 DEF Join, Move, workerVars, BridgeInvariant, ShutdownHasClosed, TruthfulStop
<1>4. QED
  BY <1>1, <1>2, <1>3 DEF Shutdown

LEMMA BridgeStep == BridgeInvariant /\ [Next]_vars => BridgeInvariant'
<1> SUFFICES ASSUME BridgeInvariant, [Next]_vars
             PROVE  BridgeInvariant'
  OBVIOUS
<1>1. ASSUME NEW c \in Coroutine, Caller(c) \/ Wake(c)
      PROVE  BridgeInvariant'
  BY <1>1, CallersStartNoWorker, OthersKeepReports
<1>2. CASE Worker
  BY <1>2, WorkerStartsNoWorker, OthersKeepReports
<1>3. CASE Loop
  BY <1>3, LoopStartsNoWorker, OthersKeepReports
<1>4. ASSUME NEW s \in Stopper, Shutdown(s)
      PROVE  BridgeInvariant'
  BY <1>4, ShutdownIsTruthful
<1>5. CASE UNCHANGED vars
  BY <1>5 DEF vars, workerVars, BridgeInvariant, ShutdownHasClosed, TruthfulStop
<1>6. QED
  BY <1>1, <1>2, <1>3, <1>4, <1>5 DEF Next

(* shutdown reports "truthfully": once a call returned True no worker exists, *)
(* and no later submission, of any thread or coroutine, creates one.          *)
THEOREM StopReportsAreTrue == Spec => []TruthfulStop
<1>1. Init => BridgeInvariant
  BY DEF Init, BridgeInvariant, ShutdownHasClosed, TruthfulStop
<1>2. BridgeInvariant => TruthfulStop
  BY DEF BridgeInvariant
<1>3. QED
  BY <1>1, <1>2, BridgeStep, PTL DEF Spec
=============================================================================
