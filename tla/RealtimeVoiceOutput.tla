-------------------------- MODULE RealtimeVoiceOutput --------------------------
(***************************************************************************)
(* Voice synthesis: the bounded queue of realtime_voice_output_queue.py,   *)
(* the cancelable stage and the flush controller of                        *)
(* _realtime_voice_output_control.py, and the artifacts they bind.         *)
(*                                                                         *)
(* Workers hand work off to the stage and run it, controllers cancel and   *)
(* flush.  A step is what a thread does under one lock; handoff_next keeps  *)
(* the queue lock between its claim of the stage and that of the boundary. *)
(* A context is a turn with its generation; contexts are numbered in the   *)
(* order in which the generation gate binds them, works in the order of    *)
(* their identities.                                                       *)
(***************************************************************************)
EXTENDS Naturals, Sequences, FiniteSets

CONSTANTS
    Worker,            \* threads in handoff_next or start
    Canceller,         \* threads that call cancel
    Flusher,           \* threads that call flush
    MaxDepth,          \* max_pending_depth
    MaxWork,           \* bound: works accepted or started
    MaxContexts,       \* bound: contexts
    MaxOverflows,      \* bound: enqueues refused by a full queue
    Scenarios          \* bound: what the host may do beside enqueue and hand off

ASSUME VoiceAssumption == MaxDepth \in Nat \ {0} /\ MaxWork \in Nat /\ MaxContexts \in Nat

VARIABLES
    pending,           \* _pending of the queue
    boundary,          \* _backpressure of the queue
    stage,             \* _closed, _active_generation, _cancel_requested_work, _last_cancel_result
    current,           \* the context the generation gate is bound to, 0 for none
    latest,            \* the newest context
    artifact,          \* the artifact store: the state of each work's bound artifact
    contextOf,         \* the context of every work, by identity
    job,               \* what each worker is doing
    call,              \* what each controller is doing
    reported,          \* history: the cancel results given, by outcome
    orphaned,          \* history: works cancelled in a claim that was given back
    flushed,           \* history: works a flush has dealt with
    host               \* the scenario

queue     == <<pending, boundary>>
gate      == <<current, latest>>
histories == <<reported, orphaned, flushed, host>>
vars      == <<queue, stage, gate, artifact, contextOf, job, call, histories>>

Controller == Canceller \cup Flusher
Work == 1 .. MaxWork
Context == 1 .. MaxContexts
NoWork == 0
NoContext == 0

Boundary == INSTANCE BackpressureRuntime WITH
                Item <- Work, MaxPending <- MaxDepth, MaxInFlight <- 1, runtime <- boundary

Idle == [pc |-> "idle", work |-> NoWork, queued |-> FALSE, result |-> "none"]
NoCall == [pc |-> "idle", context |-> NoContext, work |-> NoWork, event |-> "none",
           flushing |-> FALSE, known |-> 0]
NoCancel == [work |-> NoWork, outcome |-> "none"]

Init ==
    /\ pending = <<>> /\ boundary = Boundary!Empty
    /\ stage = [closed |-> FALSE, active |-> NoWork, cancelling |-> NoWork, last |-> NoCancel]
    /\ current = NoContext /\ latest = 0
    /\ artifact = [w \in Work |-> "none"]
    /\ contextOf = <<>>
    /\ job = [t \in Worker |-> Idle]
    /\ call = [t \in Controller |-> NoCall]
    /\ reported = [outcome \in {"completed", "timed_out"} |-> {}]
    /\ orphaned = {} /\ flushed = {}
    /\ host \in Scenarios

Newest == Len(contextOf)
Pending(w) == \E i \in DOMAIN pending : pending[i] = w
NextWork == Newest + 1
QueueLockFree == \A t \in Worker : job[t].pc # "claiming"

(* invalidate_generation: VALID artifacts of one generation.                 *)
Invalidated(artifacts, c) ==
    [w \in Work |-> IF w <= Newest /\ contextOf[w] = c /\ artifacts[w] = "valid"
                      THEN "invalidated" ELSE artifacts[w]]

-----------------------------------------------------------------------------
(* The generation gate, as the session moves it: FreshDelivery.             *)

BindGeneration ==
    /\ latest < MaxContexts
    /\ latest > 0 => "generations" \in host
    /\ latest' = latest + 1 /\ current' = latest'
    /\ UNCHANGED <<queue, stage, artifact, contextOf, job, call, histories>>

RetireGeneration ==
    /\ "generations" \in host
    /\ current # NoContext
    /\ current' = NoContext
    /\ UNCHANGED <<latest, queue, stage, artifact, contextOf, job, call, histories>>

-----------------------------------------------------------------------------
(* The queue.                                                               *)

(* A rejected work's identity is used for nothing else.                      *)
Enqueue(c) ==
    LET why == Boundary!Rejection(boundary, FALSE)
    IN  /\ QueueLockFree
        /\ NextWork \in Work
        /\ why # "none" => "admission" \in host
        /\ why = "capacity_reached" => boundary.overflows < MaxOverflows
        /\ boundary' = Boundary!Admitted(boundary, NextWork, FALSE)
        /\ IF why = "none"
             THEN /\ pending' = Append(pending, NextWork)
                  /\ contextOf' = Append(contextOf, c)
             ELSE UNCHANGED <<pending, contextOf>>
        /\ UNCHANGED <<stage, gate, artifact, job, call, histories>>

Matches(w, c) == c = NoContext \/ contextOf[w] = c

(* A queue without some of its works: those kept, each at its rank.          *)
Retained(queued, dropped) ==
    LET kept == {i \in DOMAIN queued : queued[i] \notin dropped}
        rank(i) == Cardinality({j \in kept : j <= i})
    IN  [n \in 1 .. Cardinality(kept) |-> queued[CHOOSE i \in kept : rank(i) = n]]

Cleared(c) == {w \in 1 .. Newest : Matches(w, c)}

ClearKeepsOwnershipMutant(c) ==
    /\ QueueLockFree
    /\ pending' = Retained(pending, Cleared(c))
    /\ UNCHANGED boundary

(* clear_pending: everything, or the works of one context, each withdrawn.   *)
Clear(c) ==
    /\ QueueLockFree
    /\ pending' = Retained(pending, Cleared(c))
    /\ boundary' = [boundary EXCEPT !.pending = Retained(@, Cleared(c))]

ClearPending(c) ==
    /\ "clear" \in host
    /\ Clear(c)
    /\ UNCHANGED <<stage, gate, artifact, contextOf, job, call, histories>>

(* pause, resume and close act on the boundary without the queue lock.       *)
ControlAdmission ==
    /\ "admission" \in host
    /\ \/ boundary' = Boundary!Paused(boundary)
       \/ boundary' = Boundary!Resumed(boundary)
       \/ boundary' = Boundary!Closed(boundary)
    /\ UNCHANGED <<pending, stage, gate, artifact, contextOf, job, call, histories>>

-----------------------------------------------------------------------------
(* The stage.                                                               *)

(* _claim_generation forgets what was said of the work before; a fresh       *)
(* event stands for its end.                                                 *)
Claimable == ~stage.closed /\ stage.active = NoWork
ClaimStage(w) ==
    stage' = [stage EXCEPT !.active = w, !.cancelling = NoWork, !.last = NoCancel]

(* Those who wait for the active claim's event learn how it ended.           *)
Signal(how) ==
    call' = [t \in Controller |-> IF call[t].event = "live"
                                    THEN [call[t] EXCEPT !.event = how] ELSE call[t]]

(* handoff_next up to the stage's claim; a closed or active stage raises and *)
(* leaves the queue as it is.                                                *)
HandOff(t) ==
    /\ job[t].pc = "idle"
    /\ QueueLockFree
    /\ pending # <<>>
    /\ Claimable
    /\ ClaimStage(Head(pending))
    /\ job' = [job EXCEPT ![t] = [@ EXCEPT !.pc = "claiming", !.work = Head(pending),
                                           !.queued = TRUE]]
    /\ UNCHANGED <<queue, gate, artifact, contextOf, call, histories>>

Claims(t) ==
    /\ boundary' = Boundary!Claimed(boundary, job[t].work)
    /\ boundary' # boundary
    /\ pending' = Tail(pending)
    /\ job' = [job EXCEPT ![t].pc = "running"]
    /\ UNCHANGED <<stage, call, orphaned>>

GivesBackAndSignalsMutant(t) ==
    /\ Boundary!Claimed(boundary, job[t].work) = boundary
    /\ stage' = [stage EXCEPT !.active = NoWork]
    /\ Signal("set")
    /\ orphaned' = IF stage.cancelling = job[t].work
                     THEN orphaned \cup {job[t].work} ELSE orphaned
    /\ job' = [job EXCEPT ![t] = Idle]
    /\ UNCHANGED queue

(* The boundary refuses while the previous work has released the stage and   *)
(* not yet completed: the stage is released, without setting its event.      *)
GivesBack(t) ==
    /\ Boundary!Claimed(boundary, job[t].work) = boundary
    /\ stage' = [stage EXCEPT !.active = NoWork]
    /\ Signal("lost")
    /\ orphaned' = IF stage.cancelling = job[t].work
                     THEN orphaned \cup {job[t].work} ELSE orphaned
    /\ job' = [job EXCEPT ![t] = Idle]
    /\ UNCHANGED queue

(* handoff_next from the stage's claim to the end of its locked part.        *)
ClaimBoundary(t) ==
    /\ job[t].pc = "claiming"
    /\ Claims(t) \/ GivesBack(t)
    /\ UNCHANGED <<gate, artifact, contextOf, reported, flushed, host>>

(* start: a work of its own that bypasses the queue.                         *)
Start(t, c) ==
    /\ "start" \in host
    /\ job[t].pc = "idle"
    /\ Claimable
    /\ NextWork \in Work
    /\ contextOf' = Append(contextOf, c)
    /\ ClaimStage(NextWork)
    /\ job' = [job EXCEPT ![t] = [@ EXCEPT !.pc = "running", !.work = NextWork]]
    /\ UNCHANGED <<queue, gate, artifact, call, histories>>

Verdict(w) ==
    IF stage.cancelling = w THEN "cancelled"
    ELSE IF contextOf[w] # current THEN "stale"
    ELSE "audio"

PublishKeepsLateArtifactMutant(t) ==
    LET w == job[t].work
    IN  /\ job[t].pc = "running"
        /\ \E bound \in {"none", "valid"} : artifact' = [artifact EXCEPT ![w] = bound]
        /\ job' = [job EXCEPT ![t] = [@ EXCEPT !.pc = "release", !.result = Verdict(w)]]
        /\ UNCHANGED <<queue, stage, gate, contextOf, call, histories>>

(* The provider's result is there, with an artifact or a URL: one region of  *)
(* the stage lock decides, binds and invalidates.                            *)
Publish(t) ==
    LET w == job[t].work
    IN  /\ job[t].pc = "running"
        /\ \E bound \in {"none", "valid"} :
              LET stored == [artifact EXCEPT ![w] = bound]
              IN  artifact' = IF Verdict(w) = "audio" THEN stored
                              ELSE Invalidated(stored, contextOf[w])
        /\ job' = [job EXCEPT ![t] = [@ EXCEPT !.pc = "release", !.result = Verdict(w)]]
        /\ UNCHANGED <<queue, stage, gate, contextOf, call, histories>>

SynthesisFails(t) ==
    /\ job[t].pc = "running"
    /\ job' = [job EXCEPT ![t].pc = "release"]
    /\ UNCHANGED <<queue, stage, gate, artifact, contextOf, call, histories>>

(* The finally clause of _run_claimed: a lock region of its own.             *)
Release(t) ==
    /\ job[t].pc = "release"
    /\ stage' = [stage EXCEPT !.active = NoWork]
    /\ Signal("set")
    /\ job' = [job EXCEPT ![t] = IF @.queued THEN [@ EXCEPT !.pc = "complete"] ELSE Idle]
    /\ UNCHANGED <<queue, gate, artifact, contextOf, histories>>

Complete(t) ==
    /\ job[t].pc = "complete"
    /\ boundary' = Boundary!Completed(boundary, job[t].work)
    /\ job' = [job EXCEPT ![t] = Idle]
    /\ UNCHANGED <<pending, stage, gate, artifact, contextOf, call, histories>>

CloseStage ==
    /\ "close" \in host
    /\ stage' = [stage EXCEPT !.closed = TRUE]
    /\ UNCHANGED <<queue, gate, artifact, contextOf, job, call, histories>>

-----------------------------------------------------------------------------
(* cancel and flush.                                                        *)

(* flush: clear_pending first ...                                            *)
Flush(t, c) ==
    /\ call[t].pc = "idle"
    /\ Clear(c)
    /\ call' = [call EXCEPT ![t] = [@ EXCEPT !.pc = "look", !.context = c,
                                             !.flushing = TRUE, !.known = Newest]]
    /\ UNCHANGED <<stage, gate, artifact, contextOf, job, histories>>

(* ... then what is active is cancelled, if it is of the flushed context ... *)
LookAtActive(t) ==
    LET active == stage.active
        c == call[t].context
        target == IF c = NoContext /\ active # NoWork THEN contextOf[active] ELSE c
    IN  /\ call[t].pc = "look"
        /\ call' = [call EXCEPT ![t] =
              IF active # NoWork /\ Matches(active, c)
                THEN [@ EXCEPT !.pc = "cancel", !.context = target, !.work = active]
              ELSE IF target # NoContext THEN [@ EXCEPT !.pc = "invalidate"]
              ELSE NoCall]
        /\ UNCHANGED <<queue, stage, gate, artifact, contextOf, job, histories>>

(* ... and what was completed before is invalidated.                         *)
InvalidateCompleted(t) ==
    LET dealtWith == {w \in 1 .. call[t].known : contextOf[w] = call[t].context}
    IN  /\ call[t].pc = "invalidate"
        /\ artifact' = Invalidated(artifact, call[t].context)
        /\ flushed' = IF stage.closed THEN flushed ELSE flushed \cup dealtWith
        /\ call' = [call EXCEPT ![t] = NoCall]
        /\ UNCHANGED <<queue, stage, gate, contextOf, job, reported, orphaned, host>>

(* The end of cancel, which a flush goes on after.                           *)
CancelReturns(t, given) ==
    /\ reported' = IF given = NoCancel THEN reported
                   ELSE [reported EXCEPT ![given.outcome] = @ \cup {given.work}]
    /\ call' = [call EXCEPT ![t] = IF @.flushing THEN [@ EXCEPT !.pc = "invalidate", !.work = NoWork,
                                                              !.event = "none"]
                                   ELSE NoCall]
    /\ UNCHANGED <<orphaned, flushed, host>>

(* The first lock region of cancel, asked for a context and maybe a work.    *)
IsActive(c, w) ==
    stage.active # NoWork /\ contextOf[stage.active] = c /\ w \in {NoWork, stage.active}

GivenBefore(c, w) ==
    /\ stage.last # NoCancel
    /\ IF stage.active = NoWork
         THEN contextOf[stage.last.work] = c /\ w \in {NoWork, stage.last.work}
         ELSE IsActive(c, w) /\ stage.last.work = stage.active

(* cancel answers at once when the stage is closed, the work is not active,  *)
(* or a result was given before, which it repeats.                           *)
AnswersAtOnce(t, c, w) ==
    /\ stage.closed \/ ~IsActive(c, w) \/ GivenBefore(c, w)
    /\ CancelReturns(t, IF ~stage.closed /\ GivenBefore(c, w) THEN stage.last ELSE NoCancel)
    /\ UNCHANGED <<queue, stage, gate, artifact, contextOf, job>>

(* Otherwise the barrier is set, and the caller waits.                       *)
RequestsCancel(t, c, w) ==
    /\ ~stage.closed /\ IsActive(c, w) /\ ~GivenBefore(c, w)
    /\ stage' = [stage EXCEPT !.cancelling = stage.active]
    /\ artifact' = Invalidated(artifact, c)
    /\ call' = [call EXCEPT ![t] = [@ EXCEPT !.pc = "waiting", !.context = c,
                                             !.work = stage.active, !.event = "live"]]
    /\ UNCHANGED <<queue, gate, contextOf, job, histories>>

Cancel(t, c, w) == AnswersAtOnce(t, c, w) \/ RequestsCancel(t, c, w)

CancelWork(t, c, w) ==
    /\ call[t].pc = "idle"
    /\ Cancel(t, c, w)

CancelFlushed(t) == call[t].pc = "cancel" /\ Cancel(t, call[t].context, call[t].work)

(* done.wait and the lock region after it.  The time may have run out just   *)
(* before the event was set.                                                 *)
Report(t) ==
    /\ call[t].pc = "waiting"
    /\ \E completed \in BOOLEAN :
          /\ completed => call[t].event = "set"
          /\ LET result == [work |-> call[t].work,
                            outcome |-> IF completed THEN "completed" ELSE "timed_out"]
                 given == IF stage.last.work = call[t].work THEN stage.last ELSE result
             IN  /\ stage' = [stage EXCEPT !.last = given]
                 /\ CancelReturns(t, given)
    /\ UNCHANGED <<queue, gate, artifact, contextOf, job>>

-----------------------------------------------------------------------------
WorkerStep(t) ==
    HandOff(t) \/ ClaimBoundary(t) \/ Publish(t) \/ SynthesisFails(t) \/ Release(t) \/ Complete(t)

ControllerStep(t) ==
    LookAtActive(t) \/ CancelFlushed(t) \/ Report(t) \/ InvalidateCompleted(t)

Next ==
    \/ BindGeneration \/ RetireGeneration \/ ControlAdmission \/ CloseStage
    \/ \E c \in 1 .. latest : Enqueue(c)
    \/ \E c \in 0 .. latest : ClearPending(c)
    \/ \E t \in Worker : WorkerStep(t) \/ \E c \in 1 .. latest : Start(t, c)
    \/ \E t \in Controller : ControllerStep(t)
    \/ \E t \in Flusher, c \in 0 .. latest : Flush(t, c)
    \/ \E t \in Canceller, c \in 1 .. latest, w \in 0 .. Newest : CancelWork(t, c, w)

Spec == Init /\ [][Next]_vars

-----------------------------------------------------------------------------
Outcome == {"completed", "timed_out"}

QueueTypes ==
    /\ pending \in Seq(Work) /\ Len(pending) <= MaxDepth
    /\ Boundary!RuntimeTypes
    /\ contextOf \in Seq(Context) /\ Newest <= MaxWork

OwnerTypes ==
    /\ stage \in [closed : BOOLEAN, active : 0 .. MaxWork, cancelling : 0 .. MaxWork,
                  last : [work : 0 .. MaxWork, outcome : Outcome \cup {"none"}]]
    /\ current \in {NoContext, latest} /\ latest \in 0 .. MaxContexts
    /\ artifact \in [Work -> {"none", "valid", "invalidated"}]

JobRecord ==
    [pc : {"idle", "claiming", "running", "release", "complete"}, work : 0 .. MaxWork,
     queued : BOOLEAN, result : {"none", "audio", "cancelled", "stale"}]

CallRecord ==
    [pc : {"idle", "look", "invalidate", "cancel", "waiting"}, context : 0 .. MaxContexts,
     work : 0 .. MaxWork, event : {"none", "live", "set", "lost"}, flushing : BOOLEAN,
     known : 0 .. MaxWork]

ThreadTypes == job \in [Worker -> JobRecord] /\ call \in [Controller -> CallRecord]

HistoryTypes ==
    /\ reported \in [Outcome -> SUBSET Work]
    /\ orphaned \subseteq Work /\ flushed \subseteq Work

(* The types of the state; the queue never holds more than its depth.        *)
TypeInvariant == QueueTypes /\ OwnerTypes /\ ThreadTypes /\ HistoryTypes

(* The queue, its boundary and the stage agree on who owns a work although   *)
(* they are claimed and released one after the other under three locks: the  *)
(* assertions "lost pending ownership" and "in-flight ownership was lost" of *)
(* the code never fire, and nothing runs that is still pending.              *)
Holding == {t \in Worker : job[t].queued /\ job[t].pc \in {"running", "release", "complete"}}
OnStage == {t \in Worker : job[t].pc \in {"claiming", "running", "release"}}

QueueOwnsItsWork ==
    /\ boundary.pending = pending
    /\ boundary.inFlight = {job[t].work : t \in Holding}
    /\ Cardinality(Holding) <= 1
    /\ {stage.active} \ {NoWork} = {job[t].work : t \in OnStage}
    /\ Cardinality(OnStage) <= 1

(* "Framework-cooperative cancellation completed": a work that was reported   *)
(* so is over and is never run again, whoever else claims and cancels.       *)
CompletedMeansOver ==
    \A w \in reported.completed : stage.active # w /\ ~Pending(w)

(* After a flush of a context returned, nothing the context had accepted      *)
(* before can be played, not even a result that arrives later.  Excepted are *)
(* a stage that was closed and works of a claim that was given back.         *)
FlushedIsUnplayable == \A w \in flushed \ orphaned : artifact[w] # "valid"

(* "A cancellation request establishes a one-way future-delivery suppression  *)
(* barrier": no envelope with audio is on its way to the caller of a work    *)
(* that was reported as suppressed.                                          *)
CancelledStaysSilent ==
    \A t \in Worker : job[t].result = "audio" =>
        job[t].work \notin reported.completed \cup reported.timed_out
=============================================================================
