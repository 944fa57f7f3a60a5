----------------------- MODULE RealtimeExecutionBridge -----------------------
(***************************************************************************)
(* framework/realtime_execution_bridge.py: threads submit coroutines to a  *)
(* lazily started worker thread that runs one asyncio loop, and any thread *)
(* (the worker's own coroutines too) may shut the bridge down.             *)
(*                                                                         *)
(* The loop is asyncio's: it runs the handles that were ready when an      *)
(* iteration began, a stop takes effect at the end of its iteration, and a *)
(* finished task answers its concurrent future through one more handle.    *)
(* Sections under _lock, and the code between two of them, are single      *)
(* actions.                                                                *)
(***************************************************************************)
EXTENDS Naturals, Sequences, FiniteSets
LOCAL INSTANCE SequencesExt

CONSTANTS
    Coroutine,     \* the coroutines; each is submitted by a thread of its own
    Stopper,       \* the threads that call shutdown
    SelfStopping   \* the coroutines that may shut the bridge down while they run

ASSUME CoroutineAssumption == SelfStopping \subseteq Coroutine

VARIABLES
    closed,        \* _closed
    worker,        \* the thread: "none", where it is in _thread_main, or "gone"
    loopPublished, \* _loop is not None
    startClosed,   \* closed_before_start
    ready,         \* _ready is set
    handles,       \* the loop's ready queue
    batch,         \* handles left of the current loop iteration
    stopping,      \* loop.stop() was executed
    task,          \* each coroutine's task
    drained,       \* pending: the tasks _thread_main cancels and awaits
    future,        \* each coroutine's concurrent future
    submitter,     \* program counter of each coroutine's caller
    stopper,       \* program counter of each thread that shuts down
    observed,      \* what its shutdown read: already_closed, and _loop
    stoppedBy      \* history: the coroutine whose own shutdown came first

loopVars == <<handles, batch, stopping>>
workerVars == <<worker, loopPublished, startClosed, ready, drained>>
vars == <<closed, workerVars, loopVars, task, future, submitter, stopper, observed, stoppedBy>>

Gathered == <<"gathered", "loop">>
Stop == <<"stop", "loop">>

(* loop.is_running().                                                       *)
IsRunning == worker \in {"running", "draining"}

Started == worker # "none"
Awaiting == {c \in Coroutine : task[c] = "awaiting"}
Unfinished == {c \in Coroutine : task[c] \in {"ready", "awaiting", "resumed"}}

-----------------------------------------------------------------------------
Init ==
    /\ closed = FALSE
    /\ worker = "none" /\ loopPublished = FALSE /\ startClosed = FALSE /\ ready = FALSE
    /\ handles = <<>> /\ batch = 0 /\ stopping = FALSE
    /\ task = [c \in Coroutine |-> "none"]
    /\ drained = {}
    /\ future = [c \in Coroutine |-> "none"]
    /\ submitter = [c \in Coroutine |-> "start"]
    /\ stopper = [s \in Stopper |-> "shutdown"]
    /\ observed = [s \in Stopper |-> [already |-> FALSE, loop |-> FALSE]]
    /\ stoppedBy = {}

-----------------------------------------------------------------------------
(* submit, run: start the worker once, then hand the coroutine to its loop. *)

Step(c, label) == submitter' = [submitter EXCEPT ![c] = label]

StartEvenClosedMutant(c) ==
    /\ submitter[c] = "start"
    /\ worker' = IF Started THEN worker ELSE "starting"
    /\ Step(c, "wait")
    /\ UNCHANGED <<closed, loopPublished, startClosed, ready, drained, loopVars, task, future,
                   stopper, observed, stoppedBy>>

Start(c) ==
    /\ submitter[c] = "start"
    /\ \/ /\ closed
          /\ Step(c, "refused")
          /\ UNCHANGED worker
       \/ /\ ~closed
          /\ worker' = IF Started THEN worker ELSE "starting"
          /\ Step(c, "wait")
    /\ UNCHANGED <<closed, loopPublished, startClosed, ready, drained, loopVars, task, future,
                   stopper, observed, stoppedBy>>

(* _ready.wait may time out before the worker got to run.                   *)
AwaitReady(c) ==
    /\ submitter[c] = "wait"
    /\ Step(c, IF ready THEN "check" ELSE "refused")
    /\ UNCHANGED <<closed, workerVars, loopVars, task, future, stopper, observed, stoppedBy>>

(* start checks once more, and so does submit.                              *)
Check(c) ==
    /\ submitter[c] \in {"check", "recheck"}
    /\ Step(c, IF closed \/ ~loopPublished THEN "refused"
               ELSE IF submitter[c] = "check" THEN "recheck" ELSE "send")
    /\ UNCHANGED <<closed, workerVars, loopVars, task, future, stopper, observed, stoppedBy>>

(* run_coroutine_threadsafe, outside the lock; a closed loop refuses it.     *)
Send(c) ==
    /\ submitter[c] = "send"
    /\ \/ /\ worker = "gone"
          /\ Step(c, "refused")
          /\ UNCHANGED <<handles, task, future>>
       \/ /\ worker # "gone"
          /\ handles' = Append(handles, <<"create", c>>)
          /\ task' = [task EXCEPT ![c] = "queued"]
          /\ future' = [future EXCEPT ![c] = "pending"]
          /\ Step(c, "result")
    /\ UNCHANGED <<closed, workerVars, batch, stopping, stopper, observed, stoppedBy>>

(* future.result() without a timeout.                                       *)
Result(c) ==
    /\ submitter[c] = "result" /\ future[c] # "pending"
    /\ Step(c, "returned")
    /\ UNCHANGED <<closed, workerVars, loopVars, task, future, stopper, observed, stoppedBy>>

Caller(c) == Start(c) \/ AwaitReady(c) \/ Check(c) \/ Send(c) \/ Result(c)

-----------------------------------------------------------------------------
(* _thread_main.                                                            *)

Publish ==
    /\ worker = "starting"
    /\ worker' = "published"
    /\ loopPublished' = TRUE /\ startClosed' = closed /\ ready' = TRUE
    /\ UNCHANGED <<closed, drained, loopVars, task, future, submitter, stopper, observed, stoppedBy>>

RunOnlyClosedMutant ==
    /\ worker = "published"
    /\ worker' = IF startClosed THEN "running" ELSE "stopped"
    /\ UNCHANGED <<closed, loopPublished, startClosed, ready, drained, loopVars, task, future,
                   submitter, stopper, observed, stoppedBy>>

RunForever ==
    /\ worker = "published"
    /\ worker' = IF startClosed THEN "stopped" ELSE "running"
    /\ UNCHANGED <<closed, loopPublished, startClosed, ready, drained, loopVars, task, future,
                   submitter, stopper, observed, stoppedBy>>

(* An iteration takes the handles that are ready now.                       *)
BeginIteration ==
    /\ IsRunning /\ batch = 0 /\ ~stopping /\ handles # <<>>
    /\ batch' = Len(handles)
    /\ UNCHANGED <<closed, workerVars, handles, stopping, task, future, submitter, stopper,
                   observed, stoppedBy>>

(* run_forever returns at the end of the iteration that executed the stop.   *)
EndIterations ==
    /\ IsRunning /\ batch = 0 /\ stopping
    /\ worker' = IF worker = "running" THEN "stopped" ELSE "drained"
    /\ stopping' = FALSE
    /\ UNCHANGED <<closed, loopPublished, startClosed, ready, drained, handles, batch, task,
                   future, submitter, stopper, observed, stoppedBy>>

(* The finally clause: cancel what is pending and run the loop until it ends. *)
CancelForgetsAwaitingMutant ==
    /\ worker = "stopped"
    /\ drained' = Unfinished \ Awaiting
    /\ worker' = IF drained' = {} THEN "drained" ELSE "draining"
    /\ UNCHANGED <<closed, loopPublished, startClosed, ready, loopVars, task, future,
                   submitter, stopper, observed, stoppedBy>>

CancelPending ==
    /\ worker = "stopped"
    /\ drained' = Unfinished
    /\ worker' = IF Unfinished = {} THEN "drained" ELSE "draining"
    /\ \E order \in SetToSeqs(Awaiting) :
          handles' = handles \o [i \in DOMAIN order |-> <<"step", order[i]>>]
    /\ task' = [c \in Coroutine |-> IF c \in Awaiting THEN "resumed" ELSE task[c]]
    /\ UNCHANGED <<closed, loopPublished, startClosed, ready, batch, stopping, future,
                   submitter, stopper, observed, stoppedBy>>

CloseLoop ==
    /\ worker = "drained"
    /\ worker' = "gone"
    /\ loopPublished' = FALSE
    /\ handles' = <<>>
    /\ UNCHANGED <<closed, startClosed, ready, drained, batch, stopping, task, future,
                   submitter, stopper, observed, stoppedBy>>

Worker == Publish \/ RunForever \/ BeginIteration \/ EndIterations \/ CancelPending \/ CloseLoop

-----------------------------------------------------------------------------
(* The handles the loop executes.                                           *)

NextHandle(kind) == IsRunning /\ batch > 0 /\ Head(handles)[1] = kind

Executed(new) ==
    /\ handles' = Tail(handles) \o new
    /\ batch' = batch - 1

CreateTask ==
    LET c == Head(handles)[2]
    IN  /\ NextHandle("create")
        /\ task' = [task EXCEPT ![c] = "ready"]
        /\ Executed(<< <<"step", c>> >>)
        /\ UNCHANGED <<closed, workerVars, stopping, future, submitter, stopper, observed,
                       stoppedBy>>

(* A finished task schedules its answer and, when it is the last one that     *)
(* _thread_main awaits, the end of the gathering.                            *)
Answers(c) ==
    << <<"answer", c>> >> \o
    (IF worker = "draining" /\ c \in drained /\ Unfinished \cap drained = {c}
       THEN <<Gathered>> ELSE <<>>)

FinishTask ==
    LET c == Head(handles)[2]
    IN  /\ NextHandle("step")
        /\ task' = [task EXCEPT ![c] = "done"]
        /\ Executed(Answers(c))
        /\ UNCHANGED <<closed, workerVars, stopping, future, submitter, stopper, observed,
                       stoppedBy>>

(* A coroutine that was not cancelled may wait for another thread once.       *)
AwaitEvent ==
    LET c == Head(handles)[2]
    IN  /\ NextHandle("step") /\ c \notin drained /\ task[c] = "ready"
        /\ task' = [task EXCEPT ![c] = "awaiting"]
        /\ Executed(<<>>)
        /\ UNCHANGED <<closed, workerVars, stopping, future, submitter, stopper, observed,
                       stoppedBy>>

Wake(c) ==
    /\ task[c] = "awaiting" /\ worker # "gone"
    /\ task' = [task EXCEPT ![c] = "resumed"]
    /\ handles' = Append(handles, <<"step", c>>)
    /\ UNCHANGED <<closed, workerVars, batch, stopping, future, submitter, stopper, observed,
                   stoppedBy>>

AnswerFuture ==
    LET c == Head(handles)[2]
    IN  /\ NextHandle("answer")
        /\ future' = [future EXCEPT ![c] = IF c \in drained THEN "cancelled" ELSE "answered"]
        /\ Executed(<<>>)
        /\ UNCHANGED <<closed, workerVars, stopping, task, submitter, stopper, observed,
                       stoppedBy>>

Gather ==
    /\ NextHandle("gathered")
    /\ Executed(<<Stop>>)
    /\ UNCHANGED <<closed, workerVars, stopping, task, future, submitter, stopper, observed,
                   stoppedBy>>

StopLoop ==
    /\ NextHandle("stop")
    /\ stopping' = TRUE
    /\ Executed(<<>>)
    /\ UNCHANGED <<closed, workerVars, task, future, submitter, stopper, observed, stoppedBy>>

-----------------------------------------------------------------------------
(* shutdown.                                                                *)

(* The stop is scheduled by the first shutdown, and only on a running loop.  *)
StopRequest(already, loop) ==
    IF ~already /\ loop /\ IsRunning THEN <<Stop>> ELSE <<>>

(* shutdown by a running coroutine: it never joins its own thread.            *)
StopAtOnceMutant ==
    LET c == Head(handles)[2]
    IN  /\ NextHandle("step") /\ c \in SelfStopping /\ c \notin drained
        /\ closed' = TRUE
        /\ task' = [task EXCEPT ![c] = "done"]
        /\ stopping' = TRUE
        /\ Executed(Answers(c))
        /\ stoppedBy' = IF closed THEN stoppedBy ELSE {c}
        /\ UNCHANGED <<workerVars, future, submitter, stopper, observed>>

StopFromCoroutine ==
    LET c == Head(handles)[2]
    IN  /\ NextHandle("step") /\ c \in SelfStopping /\ c \notin drained
        /\ closed' = TRUE
        /\ task' = [task EXCEPT ![c] = "done"]
        /\ Executed(StopRequest(closed, loopPublished) \o Answers(c))
        /\ stoppedBy' = IF closed THEN stoppedBy ELSE {c}
        /\ UNCHANGED <<workerVars, stopping, future, submitter, stopper, observed>>

Move(s, label) == stopper' = [stopper EXCEPT ![s] = label]

(* Without a worker shutdown is complete as soon as the flag is set.          *)
MarkClosed(s) ==
    /\ stopper[s] = "shutdown"
    /\ closed' = TRUE
    /\ observed' = [observed EXCEPT ![s] = [already |-> closed, loop |-> loopPublished]]
    /\ Move(s, IF Started THEN "request" ELSE "stopped")
    /\ UNCHANGED <<workerVars, loopVars, task, future, submitter, stoppedBy>>

RequestStop(s) ==
    /\ stopper[s] = "request"
    /\ handles' = handles \o StopRequest(observed[s].already, observed[s].loop)
    /\ Move(s, "join")
    /\ UNCHANGED <<closed, workerVars, batch, stopping, task, future, submitter, observed,
                   stoppedBy>>

(* thread.join may time out; the result says whether the worker is gone.      *)
Join(s) ==
    /\ stopper[s] = "join"
    /\ Move(s, IF worker = "gone" THEN "stopped" ELSE "timed_out")
    /\ UNCHANGED <<closed, workerVars, loopVars, task, future, submitter, observed, stoppedBy>>

Shutdown(s) == MarkClosed(s) \/ RequestStop(s) \/ Join(s)

-----------------------------------------------------------------------------
Loop ==
    \/ CreateTask \/ FinishTask \/ AwaitEvent \/ AnswerFuture \/ Gather \/ StopLoop
    \/ StopFromCoroutine

Next ==
    \/ \E c \in Coroutine : Caller(c) \/ Wake(c)
    \/ Worker \/ Loop
    \/ \E s \in Stopper : Shutdown(s)

Spec == Init /\ [][Next]_vars

(* Every thread runs on and whatever a coroutine awaits happens; nobody needs *)
(* to shut the bridge down.                                                  *)
FairSpec ==
    /\ Spec
    /\ \A c \in Coroutine : WF_vars(Caller(c)) /\ WF_vars(Wake(c))
    /\ WF_vars(Worker \/ Loop)
    /\ \A s \in Stopper : WF_vars(RequestStop(s) \/ Join(s))

-----------------------------------------------------------------------------
(* The types of the bridge's state.                                         *)
TypeInvariant ==
    /\ closed \in BOOLEAN /\ loopPublished \in BOOLEAN /\ startClosed \in BOOLEAN
    /\ ready \in BOOLEAN /\ stopping \in BOOLEAN
    /\ worker \in {"none", "starting", "published", "running", "stopped", "draining",
                   "drained", "gone"}
    /\ batch \in 0 .. Len(handles)
    /\ task \in [Coroutine -> {"none", "queued", "ready", "awaiting", "resumed", "done"}]
    /\ future \in [Coroutine -> {"none", "pending", "answered", "cancelled"}]
    /\ drained \subseteq Coroutine

(* shutdown reports "truthfully" that the worker stopped: once one call       *)
(* returned True no worker exists, nor does a later submission create one.    *)
TruthfulStop ==
    (\E s \in Stopper : stopper[s] = "stopped") => worker \in {"none", "gone"}

(* "Close after bridge start: stop loop": a closed bridge's worker ends.  The    *)
(* code violates it: shutdown passes over a loop that is published and not yet *)
(* running.  No run checks it.                                               *)
ClosedWorkerEnds == closed ~> worker \in {"none", "gone"}

(* An open bridge answers everything it accepts.                             *)
OpenBridgeAnswers ==
    \A c \in Coroutine : future[c] = "pending" ~> (future[c] # "pending" \/ closed)

(* A coroutine that awaits another thread when the loop is stopped is         *)
(* cancelled and its caller hears of it.                                     *)
ParkedRunsAreCancelled ==
    \A c \in Coroutine : worker = "stopped" /\ task[c] = "awaiting" ~> future[c] = "cancelled"

(* A coroutine that shuts the bridge down itself still gets its answer to its *)
(* caller: the stop is queued before the answer but lets its iteration end.   *)
SelfStopIsAnswered ==
    \A c \in Coroutine : c \in stoppedBy ~> future[c] = "answered"
=============================================================================
